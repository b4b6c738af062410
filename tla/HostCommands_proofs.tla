------------------------- MODULE HostCommands_proofs -------------------------
(***************************************************************************)
(* What the appliers' commands do to any host: which part of it a step     *)
(* changes, what the steps of a command come to together, and that the     *)
(* rollback command built from a host brings back what that host had,      *)
(* whatever happened to it in between, but for the parameters of Lossy.    *)
(***************************************************************************)
EXTENDS HostAppliers, SequenceTheorems, TLAPS

\* The host after the steps of a command; no command has more than three.
After(h, s) ==
  CASE Len(s) = 0 -> h
    [] Len(s) = 1 -> Do(h, s[1])
    [] Len(s) = 2 -> Do(Do(h, s[1]), s[2])
    [] OTHER      -> Do(Do(Do(h, s[1]), s[2]), s[3])

\* The steps of a command for k, and their arguments.
Ops(k) ==
  CASE k \in Scalars \cup {"governor", "prlimit"} -> {k}
    [] k = "directive" -> {"directive", "check", "reload", "restart", "refuse"}
    [] k = "unit"      -> {"limit", "unlimit", "daemon", "reload", "restart"}
    [] k = "quota"     -> {"quota", "daemon", "reload", "restart"}

Fitting(s) ==
  /\ s.op \in Scalars \cup {"governor", "limit"} => s.arg \in Values
  /\ s.op = "directive" => s.arg \in Values \cup {None}
  /\ s.op \in {"unlimit", "quota"} => s.arg \in Limits
  /\ s.op = "prlimit" => s.arg \in [pid : Nat, soft : Limits, hard : Limits]

StepsOf(k) == {s \in StepType : s.op \in Ops(k) /\ Fitting(s)}

\* A command for k; the service is reloaded or restarted last.
IsScript(s, k) ==
  /\ s \in Seq(StepsOf(k)) /\ Len(s) \in 1..3
  /\ \A i \in 1..(Len(s) - 1) : s[i].op \notin {"reload", "restart"}

Unrefused(s) == \A i \in 1..Len(s) : s[i].op # "refuse"

\* What no step of any command changes of a host that began as o.
Shaped(h, o) ==
  /\ h \in HostType /\ h.zz # Inf /\ h.base = o.base
  /\ (h.other = None <=> o.other = None)
  /\ o.conf # <<>> => DOMAIN h.conf = DOMAIN o.conf
  /\ h.pid >= o.pid

\* Change c has all it should have on h: more than InEffect asks, so that a
\* later reload of the file, the drop-ins or the service does not take it away.
Claimed(h, c) ==
  CASE c.key \in Scalars   -> h[c.key] = c.applied
    [] c.key = "governor"  -> \A p \in CPUs : h.governor[p] = c.applied
    [] c.key = "directive" -> /\ h.conf # <<>> /\ h.run = c.applied
                              /\ \A i \in DOMAIN h.conf : h.conf[i] = c.applied
    [] c.key = "unit"      -> UnitLimit(h) = c.applied /\ h.loaded = c.applied /\ h.plim = c.applied
    [] c.key = "quota"     -> h.quota = c.applied
    [] c.key = "prlimit"   -> h.soft = c.applied

\* What a command for k that takes h to g leaves alone: the other parameters
\* that are as they were on o, and the other changes that are in effect. The
\* limits of a process are left alone while it lives.
Keeps(g, h, o, k) ==
  /\ Shaped(g, o) /\ g.pid >= h.pid
  /\ \A j \in Kinds \ {k} : (j = "prlimit" => g.pid = h.pid) =>
        /\ View(h, j) = View(o, j) => View(g, j) = View(o, j)
        /\ \A c : c.key = j /\ Claimed(h, c) => Claimed(g, c)

\* Rolling back c brings its parameter back to what it was on o.
Restoring(c, o) ==
  Unrefused(c.undo) =>
     \A h : Shaped(h, o) => View(After(h, c.undo), c.key) = View(o, c.key)

\* Rolling back c brings the earlier change b of its parameter back.
Reclaims(c, b, o) ==
  Unrefused(c.undo) => \A h : Shaped(h, o) => Claimed(After(h, c.undo), b)

\* A parameter that looks as it did before c still has the earlier change b.
Certifies(c, b, o) ==
  \A h : /\ Shaped(h, o) /\ View(h, c.key) = c.view
         /\ c.key = "unit" => h.plim \in {h.loaded, b.applied}
         => Claimed(h, b)

\* The modes under which a change reaches the running service.
Activating == Mode["directive"] # "live" /\ Mode["unit"] = "restart"

-----------------------------------------------------------------------------
(* The configuration file.                                                 *)

LEMMA ConfTypes ==
  /\ \A c \in Confs : \E n \in 0..2 : c \in [1..n -> Values]
  /\ \A n \in 0..2 : \A c \in [1..n -> Values] : c \in Confs
BY DEF Confs

LEMMA ConfFacts ==
  ASSUME NEW c \in Confs
  PROVE  /\ c \in Seq(Values) /\ DOMAIN c = 1..Len(c) /\ Len(c) \in 0..2
         /\ c = <<>> => Last(c) = None
         /\ c # <<>> => Last(c) = c[Len(c)] /\ Len(c) \in DOMAIN c /\ Last(c) \in Values
<1>1. PICK n \in 0..2 : c \in [1..n -> Values]
  BY ConfTypes
<1>2. c \in Seq(Values) /\ Len(c) = n /\ DOMAIN c = 1..n
  BY <1>1
<1> QED BY <1>1, <1>2 DEF Last

LEMMA ReplacedFacts ==
  ASSUME NEW c \in Confs, NEW v \in Values
  PROVE  /\ Replaced(c, v) \in Confs /\ DOMAIN Replaced(c, v) = DOMAIN c
         /\ \A i \in DOMAIN c : Replaced(c, v)[i] = v
         /\ c # <<>> => Replaced(c, v) # <<>>
         /\ <<v>> \in Confs /\ <<v>> # <<>> /\ DOMAIN <<v>> = {1} /\ <<v>>[1] = v
<1>1. PICK n \in 0..2 : c \in [1..n -> Values]
  BY ConfTypes
<1>2. Replaced(c, v) \in [1..n -> Values]
  BY <1>1 DEF Replaced
<1>3. <<v>> \in [1..1 -> Values]
  OBVIOUS
<1>4. c # <<>> => n # 0
  BY <1>1
<1> QED BY <1>1, <1>2, <1>3, <1>4, ConfTypes DEF Replaced

\* A directive with one value everywhere has it last.
LEMMA LastOfUniform ==
  ASSUME NEW c \in Confs, NEW v, c # <<>>, \A i \in DOMAIN c : c[i] = v
  PROVE  Last(c) = v
BY ConfFacts

LEMMA LimitTypes ==
  /\ Values \subseteq Nat /\ Values \subseteq Limits /\ Limits \subseteq Nat /\ Inf \in Limits
  /\ None \notin Limits /\ None \notin Values /\ Inf \notin Values /\ Inf # None
<1>1. Values \subseteq Nat /\ Inf \in Nat /\ None \notin Nat
  BY ApplierAssumption
<1>2. Inf \notin Values
  <2>1. SUFFICES ASSUME Inf \in Values PROVE FALSE
    OBVIOUS
  <2>2. Inf < Inf
    BY <2>1, ApplierAssumption
  <2> QED BY <1>1, <2>2
<1> QED BY <1>1, <1>2 DEF Limits

LEMMA HostTypes ==
  ASSUME NEW h \in HostType
  PROVE  /\ h.conf \in Confs /\ h.governor \in [CPUs -> Values] /\ h.pid \in Nat
         /\ h.run \in Values \cup {None} /\ h.base \in Limits
         /\ h.other \in Limits \cup {None} /\ h.zz \in Limits \cup {None}
         /\ UnitLimit(h) \in Limits /\ h.loaded \in Limits /\ h.quota \in Limits
         /\ h.soft \in Limits /\ h.hard \in Limits /\ h.plim \in Limits
         /\ h.sysctl \in Values /\ h.ring \in Values /\ h.queue \in Values
         /\ NormalizedQuota(h) \in Limits
BY LimitTypes DEF HostType, UnitLimit, NormalizedQuota

-----------------------------------------------------------------------------
(* One step.                                                               *)

\* Step s takes h to g, field by field.
Fields(g, h, s) ==
  /\ g \in HostType
  /\ g.sysctl = IF s.op = "sysctl" THEN s.arg ELSE h.sysctl
  /\ g.ring = IF s.op = "ring" THEN s.arg ELSE h.ring
  /\ g.queue = IF s.op = "queue" THEN s.arg ELSE h.queue
  /\ g.governor = IF s.op = "governor" THEN [c \in CPUs |-> s.arg] ELSE h.governor
  /\ g.conf = IF s.op = "directive" THEN IF h.conf = <<>> THEN <<s.arg>> ELSE Replaced(h.conf, s.arg)
              ELSE h.conf
  /\ g.run = IF s.op \in {"reload", "restart"} THEN Last(h.conf) ELSE h.run
  /\ g.base = h.base
  /\ g.other = IF s.op = "limit" /\ h.other # None THEN s.arg ELSE h.other
  /\ g.zz = IF s.op = "limit" THEN s.arg
            ELSE IF s.op = "unlimit" THEN IF s.arg = Inf THEN None ELSE s.arg ELSE h.zz
  /\ g.loaded = IF s.op = "daemon" THEN UnitLimit(h) ELSE h.loaded
  /\ g.quota = IF s.op = "quota" THEN s.arg ELSE h.quota
  /\ g.up = IF s.op = "restart" THEN TRUE ELSE h.up
  /\ g.pid = IF s.op = "restart" THEN h.pid + 1 ELSE h.pid
  /\ g.plim = IF s.op = "restart" THEN h.loaded ELSE h.plim
  /\ g.soft = IF s.op = "restart" THEN h.loaded ELSE IF s.op = "prlimit" THEN s.arg.soft ELSE h.soft
  /\ g.hard = IF s.op = "restart" THEN h.loaded ELSE IF s.op = "prlimit" THEN s.arg.hard ELSE h.hard

LEMMA DoFields ==
  ASSUME NEW h \in HostType, NEW s \in StepType, Fitting(s),
         s.op = "directive" => s.arg # None
  PROVE  Fields(Do(h, s), h, s)
<1> DEFINE g == Do(h, s)
<1> SUFFICES Fields(g, h, s)
  OBVIOUS
<1>0. /\ UnitLimit(h) \in Limits /\ h.loaded \in Limits /\ h.pid \in Nat /\ h.pid + 1 \in Nat
      /\ Last(h.conf) \in Values \cup {None} /\ h.conf \in Confs
      /\ Values \subseteq Limits /\ Inf \in Limits /\ None \notin Limits
  BY HostTypes, LimitTypes, ConfFacts
<1> DEFINE D == {"sysctl", "ring", "queue", "governor", "conf", "run", "base", "other", "zz", "loaded",
                 "quota", "up", "pid", "plim", "soft", "hard"}
<1>00. DOMAIN h = D
  BY DEF HostType
<1>1. CASE s.op = "sysctl"
  <2>1. g = [h EXCEPT !.sysctl = s.arg]
    BY <1>1 DEF Do, Scalars
  <2>2. s.arg \in Values
    BY <1>0, <1>1 DEF Fitting, Scalars
  <2> HIDE DEF g
  <2>3. g \in HostType
    BY <1>0, <2>1, <2>2 DEF HostType
  <2> QED BY <1>1, <1>00, <2>1, <2>3 DEF Fields
<1>2. CASE s.op = "ring"
  <2>1. g = [h EXCEPT !.ring = s.arg]
    BY <1>2 DEF Do, Scalars
  <2>2. s.arg \in Values
    BY <1>0, <1>2 DEF Fitting, Scalars
  <2> HIDE DEF g
  <2>3. g \in HostType
    BY <1>0, <2>1, <2>2 DEF HostType
  <2> QED BY <1>2, <1>00, <2>1, <2>3 DEF Fields
<1>3. CASE s.op = "queue"
  <2>1. g = [h EXCEPT !.queue = s.arg]
    BY <1>3 DEF Do, Scalars
  <2>2. s.arg \in Values
    BY <1>0, <1>3 DEF Fitting, Scalars
  <2> HIDE DEF g
  <2>3. g \in HostType
    BY <1>0, <2>1, <2>2 DEF HostType
  <2> QED BY <1>3, <1>00, <2>1, <2>3 DEF Fields
<1>4. CASE s.op = "governor"
  <2>1. g = [h EXCEPT !.governor = [c \in CPUs |-> s.arg]]
    BY <1>4 DEF Do, Scalars
  <2>2. [c \in CPUs |-> s.arg] \in [CPUs -> Values]
    BY <1>0, <1>4 DEF Fitting, Scalars
  <2> HIDE DEF g
  <2>3. g \in HostType
    BY <1>0, <2>1, <2>2 DEF HostType
  <2> QED BY <1>4, <1>00, <2>1, <2>3 DEF Fields
<1>5. CASE s.op = "directive"
  <2>1. g = WriteDirective(h, s.arg)
    BY <1>5 DEF Do, Scalars
  <2>2. (IF h.conf = <<>> THEN <<s.arg>> ELSE Replaced(h.conf, s.arg)) \in Confs
    BY <1>0, <1>5, ReplacedFacts DEF Fitting
  <2> HIDE DEF g
  <2>3. g \in HostType
    BY <2>1, <2>2 DEF HostType, WriteDirective
  <2> QED BY <1>5, <1>00, <2>1, <2>3 DEF Fields, WriteDirective
<1>6. CASE s.op = "limit"
  <2>1. g = WriteLimit(h, s.arg)
    BY <1>6 DEF Do, Scalars
  <2>2. s.arg \in Limits
    BY <1>0, <1>6 DEF Fitting, Scalars
  <2> HIDE DEF g
  <2>3. g \in HostType
    BY <1>0, <2>1, <2>2 DEF HostType, WriteLimit
  <2> QED BY <1>6, <1>00, <2>1, <2>3 DEF Fields, WriteLimit
<1>7. CASE s.op = "unlimit"
  <2>1. g = RestoreLimit(h, s.arg)
    BY <1>7 DEF Do, Scalars
  <2>2. s.arg \in Limits
    BY <1>0, <1>7 DEF Fitting, Scalars
  <2> HIDE DEF g
  <2>3. g \in HostType
    BY <1>0, <2>1, <2>2 DEF HostType, RestoreLimit
  <2> QED BY <1>7, <1>00, <2>1, <2>3 DEF Fields, RestoreLimit
<1>8. CASE s.op = "daemon"
  <2>1. g = [h EXCEPT !.loaded = UnitLimit(h)]
    BY <1>8 DEF Do, Scalars
  <2> HIDE DEF g
  <2>3. g \in HostType
    BY <1>0, <2>1 DEF HostType
  <2> QED BY <1>8, <1>00, <2>1, <2>3 DEF Fields
<1>9. CASE s.op = "quota"
  <2>1. g = [h EXCEPT !.quota = s.arg]
    BY <1>9 DEF Do, Scalars
  <2>2. s.arg \in Limits
    BY <1>0, <1>9 DEF Fitting, Scalars
  <2> HIDE DEF g
  <2>3. g \in HostType
    BY <1>0, <2>1, <2>2 DEF HostType
  <2> QED BY <1>9, <1>00, <2>1, <2>3 DEF Fields
<1>10. CASE s.op = "prlimit"
  <2>1. g = [h EXCEPT !.soft = s.arg.soft, !.hard = s.arg.hard]
    BY <1>10 DEF Do, Scalars
  <2>2. s.arg.soft \in Limits /\ s.arg.hard \in Limits
    BY <1>0, <1>10 DEF Fitting, Scalars
  <2> HIDE DEF g
  <2>3. g \in HostType
    BY <1>0, <2>1, <2>2 DEF HostType
  <2> QED BY <1>10, <1>00, <2>1, <2>3 DEF Fields
<1>11. CASE s.op = "reload"
  <2>1. g = Reload(h)
    BY <1>11 DEF Do, Scalars
  <2> HIDE DEF g
  <2>3. g \in HostType
    BY <1>0, <2>1 DEF HostType, Reload
  <2> QED BY <1>11, <1>00, <2>1, <2>3 DEF Fields, Reload
<1>12. CASE s.op = "restart"
  <2>1. g = Restart(h)
    BY <1>12 DEF Do, Scalars
  <2> HIDE DEF g
  <2>3. g \in HostType
    BY <1>0, <2>1 DEF HostType, Restart
  <2> QED BY <1>12, <1>00, <2>1, <2>3 DEF Fields, Restart
<1>13. CASE s.op \in {"unit", "check", "refuse"}
  <2>1. g = h
    BY <1>13 DEF Do, Scalars
  <2> HIDE DEF g
  <2> QED BY <1>13, <2>1 DEF Fields
<1> QED BY <1>1, <1>2, <1>3, <1>4, <1>5, <1>6, <1>7, <1>8, <1>9, <1>10, <1>11, <1>12, <1>13
        DEF StepType, Kinds, Scalars

\* Every step leaves a host of the kind, with the same process or a later one.
LEMMA DoShaped ==
  ASSUME NEW o \in HostType, NEW h, Shaped(h, o), NEW s \in StepType, Fitting(s),
         s.op = "directive" => s.arg # None
  PROVE  Shaped(Do(h, s), o) /\ Do(h, s).pid >= h.pid
<1> DEFINE g == Do(h, s)
<1>1. h \in HostType /\ o.pid \in Nat /\ h.pid \in Nat
  BY HostTypes DEF Shaped
<1>2. Fields(g, h, s)
  BY <1>1, DoFields
<1> HIDE DEF g
<1>3. g.zz # Inf
  BY <1>2, LimitTypes DEF Fields, Shaped, Fitting
<1>4. g.other = None <=> h.other = None
  BY <1>2, LimitTypes DEF Fields, Fitting
<1>5. h.conf # <<>> => DOMAIN g.conf = DOMAIN h.conf
  <2>1. CASE s.op = "directive" /\ h.conf # <<>>
    BY <1>2, <2>1 DEF Fields, Replaced
  <2>2. CASE s.op # "directive"
    BY <1>2, <2>2 DEF Fields
  <2> QED BY <2>1, <2>2
<1>6. o.conf # <<>> => DOMAIN g.conf = DOMAIN o.conf
  <2>1. SUFFICES ASSUME o.conf # <<>> PROVE DOMAIN g.conf = DOMAIN o.conf
    OBVIOUS
  <2>2. DOMAIN h.conf = DOMAIN o.conf
    BY <2>1 DEF Shaped
  <2>3. h.conf # <<>>
    <3>1. o.conf \in Confs
      BY HostTypes
    <3>2. DOMAIN o.conf # {}
      BY <2>1, <3>1, ConfFacts
    <3> QED BY <2>2, <3>2
  <2> QED BY <1>5, <2>2, <2>3
<1>7. g.pid >= h.pid /\ g.pid >= o.pid
  BY <1>1, <1>2 DEF Fields, Shaped
<1>8. Shaped(g, o)
  BY <1>2, <1>3, <1>4, <1>6, <1>7 DEF Fields, Shaped
<1> QED BY <1>7, <1>8 DEF g

\* A step of a command for k leaves the other parameters alone: a reload reads
\* what the file says anyway, and a daemon-reload what the drop-ins say.
LEMMA DoKeeps ==
  ASSUME NEW o \in HostType, Settled(o), NEW h, Shaped(h, o), NEW k \in Kinds,
         NEW s \in StepsOf(k), ~Fails(h, s)
  PROVE  Keeps(Do(h, s), h, o, k)
<1> DEFINE g == Do(h, s)
<1>1. h \in HostType /\ s \in StepType /\ Fitting(s) /\ (s.op = "directive" => s.arg # None)
  BY DEF Shaped, StepsOf, Fails
<1>2. Shaped(g, o) /\ g.pid >= h.pid
  BY <1>1, DoShaped
<1>0. Fields(g, h, s)
  BY <1>1, DoFields
<1> HIDE DEF g
<1>3. SUFFICES ASSUME NEW j \in Kinds \ {k}, j = "prlimit" => g.pid = h.pid
               PROVE  /\ View(h, j) = View(o, j) => View(g, j) = View(o, j)
                      /\ \A c : c.key = j /\ Claimed(h, c) => Claimed(g, c)
  BY <1>2 DEF Keeps, g
<1>4. s.op \in Ops(k)
  BY DEF StepsOf
<1>5. CASE j \in Scalars
  <2>1. s.op # j
    BY <1>3, <1>4, <1>5 DEF Ops, Kinds, Scalars
  <2>2. g[j] = h[j]
    BY <1>0, <1>5, <2>1 DEF Fields, Scalars
  <2>3. View(g, j) = View(h, j)
    BY <1>5, <2>2 DEF View
  <2>4. ASSUME NEW c, c.key = j PROVE Claimed(g, c) <=> Claimed(h, c)
    BY <1>5, <2>2, <2>4 DEF Claimed, Scalars
  <2> QED BY <2>3, <2>4
<1>6. CASE j = "governor"
  <2>1. s.op # "governor"
    BY <1>3, <1>4, <1>6 DEF Ops, Kinds, Scalars
  <2>2. g.governor = h.governor
    BY <1>0, <2>1 DEF Fields
  <2> QED BY <1>6, <2>2 DEF View, Claimed, Scalars
<1>7. CASE j = "directive"
  <2>1. s.op # "directive"
    BY <1>3, <1>4, <1>7 DEF Ops, Kinds, Scalars
  <2>2. g.conf = h.conf /\ g.run \in {h.run, Last(h.conf)}
    BY <1>0, <2>1 DEF Fields
  <2>3. View(h, j) = View(o, j) => h.run = Last(h.conf)
    BY <1>7 DEF View, Scalars, Settled
  <2>4. ASSUME NEW c, c.key = j, Claimed(h, c) PROVE h.run = Last(h.conf)
    BY <1>1, <1>7, <2>4, LastOfUniform, HostTypes DEF Claimed, Scalars
  <2>5. View(h, j) = View(o, j) => View(g, j) = View(o, j)
    BY <1>7, <2>2, <2>3 DEF View, Scalars
  <2>6. ASSUME NEW c, c.key = j, Claimed(h, c) PROVE Claimed(g, c)
    <3>1. g.run = h.run
      BY <2>2, <2>4, <2>6
    <3> QED BY <1>7, <2>2, <2>6, <3>1 DEF Claimed, Scalars
  <2> QED BY <2>5, <2>6
<1>8. CASE j = "unit"
  <2>1. s.op \notin {"limit", "unlimit"}
    BY <1>3, <1>4, <1>8 DEF Ops, Kinds, Scalars
  <2>2. /\ g.base = h.base /\ g.other = h.other /\ g.zz = h.zz
        /\ g.loaded \in {h.loaded, UnitLimit(h)} /\ g.plim \in {h.plim, h.loaded}
    BY <1>0, <2>1 DEF Fields
  <2>3. UnitLimit(g) = UnitLimit(h)
    BY <2>2 DEF UnitLimit
  <2>4. View(h, j) = View(o, j) => h.loaded = UnitLimit(h)
    BY <1>8 DEF View, Scalars, Settled
  <2>5. View(h, j) = View(o, j) => View(g, j) = View(o, j)
    BY <1>8, <2>2, <2>3, <2>4 DEF View, Scalars
  <2>6. ASSUME NEW c, c.key = j, Claimed(h, c) PROVE Claimed(g, c)
    BY <1>8, <2>2, <2>3, <2>6 DEF Claimed, Scalars
  <2> QED BY <2>5, <2>6
<1>9. CASE j = "quota"
  <2>1. s.op # "quota"
    BY <1>3, <1>4, <1>9 DEF Ops, Kinds, Scalars
  <2>2. g.quota = h.quota
    BY <1>0, <2>1 DEF Fields
  <2> QED BY <1>9, <2>2 DEF View, Claimed, Scalars
<1>10. CASE j = "prlimit"
  <2>1. s.op # "prlimit"
    BY <1>3, <1>4, <1>10 DEF Ops, Kinds, Scalars
  <2>2. s.op # "restart"
    <3>1. SUFFICES ASSUME s.op = "restart" PROVE FALSE
      OBVIOUS
    <3>2. h.pid \in Nat /\ g.pid = h.pid + 1
      BY <1>0, <1>1, <3>1, HostTypes DEF Fields
    <3> QED BY <1>3, <1>10, <3>2
  <2>3. g.soft = h.soft /\ g.hard = h.hard
    BY <1>0, <2>1, <2>2 DEF Fields
  <2> QED BY <1>10, <2>3 DEF View, Claimed, Scalars
<1> QED BY <1>3, <1>5, <1>6, <1>7, <1>8, <1>9, <1>10 DEF Kinds

LEMMA KeepsSame ==
  ASSUME NEW o \in HostType, NEW h, Shaped(h, o), NEW k
  PROVE  Keeps(h, h, o, k)
BY HostTypes DEF Keeps, Shaped

LEMMA KeepsTransitive ==
  ASSUME NEW o, NEW f, NEW g, NEW h, NEW k, h \in HostType, Keeps(f, g, o, k), Keeps(g, h, o, k)
  PROVE  Keeps(f, h, o, k)
<1>1. f.pid \in Nat /\ g.pid \in Nat /\ h.pid \in Nat /\ f.pid >= g.pid /\ g.pid >= h.pid
  BY HostTypes DEF Keeps, Shaped
<1>2. ASSUME NEW j \in Kinds \ {k}, j = "prlimit" => f.pid = h.pid
      PROVE  /\ View(h, j) = View(o, j) => View(f, j) = View(o, j)
             /\ \A c : c.key = j /\ Claimed(h, c) => Claimed(f, c)
  <2>1. j = "prlimit" => f.pid = g.pid /\ g.pid = h.pid
    BY <1>1, <1>2
  <2>2. /\ View(h, j) = View(o, j) => View(g, j) = View(o, j)
        /\ \A c : c.key = j /\ Claimed(h, c) => Claimed(g, c)
    BY <2>1 DEF Keeps
  <2>3. /\ View(g, j) = View(o, j) => View(f, j) = View(o, j)
        /\ \A c : c.key = j /\ Claimed(g, c) => Claimed(f, c)
    BY <2>1 DEF Keeps
  <2> QED BY <2>2, <2>3
<1> QED BY <1>1, <1>2 DEF Keeps

\* A service that is down has its configuration and its process's limits.
LEMMA StoppedFacts ==
  ASSUME NEW o \in HostType, NEW h, Shaped(h, o), NEW k
  PROVE  /\ Keeps(Stopped(h), h, o, k) /\ Stopped(h).plim = h.plim
         /\ \A j \in Kinds : View(Stopped(h), j) = View(h, j)
         /\ UnitLimit(Stopped(h)) = UnitLimit(h)
<1> DEFINE g == Stopped(h)
<1>1. h \in HostType
  BY DEF Shaped
<1>2. /\ g \in HostType
      /\ g.sysctl = h.sysctl /\ g.ring = h.ring /\ g.queue = h.queue /\ g.governor = h.governor
      /\ g.conf = h.conf /\ g.run = h.run /\ g.base = h.base /\ g.other = h.other /\ g.zz = h.zz
      /\ g.loaded = h.loaded /\ g.quota = h.quota /\ g.pid = h.pid /\ g.plim = h.plim
      /\ g.soft = h.soft /\ g.hard = h.hard
  BY <1>1 DEF Stopped, HostType
<1> HIDE DEF g
<1>3. UnitLimit(g) = UnitLimit(h)
  BY <1>2 DEF UnitLimit
<1>4. ASSUME NEW j \in Kinds PROVE View(g, j) = View(h, j)
  BY <1>2, <1>3 DEF View, Kinds, Scalars
<1>5. ASSUME NEW c, c.key \in Kinds, Claimed(h, c) PROVE Claimed(g, c)
  <2>1. CASE c.key \in Scalars
    BY <1>2, <1>5, <2>1 DEF Claimed, Scalars
  <2>2. CASE c.key \in {"governor", "quota", "prlimit"}
    BY <1>2, <1>5, <2>2 DEF Claimed, Scalars
  <2>3. CASE c.key = "directive"
    BY <1>2, <1>5, <2>3 DEF Claimed, Scalars
  <2>4. CASE c.key = "unit"
    BY <1>2, <1>3, <1>5, <2>4 DEF Claimed, Scalars
  <2> QED BY <1>5, <2>1, <2>2, <2>3, <2>4 DEF Kinds
<1>6. Shaped(g, o) /\ g.pid >= h.pid
  BY <1>1, <1>2, HostTypes DEF Shaped
<1> QED BY <1>2, <1>3, <1>4, <1>5, <1>6 DEF g, Keeps

\* So does a step that reports a failure.
LEMMA FailedKeeps ==
  ASSUME NEW o \in HostType, Settled(o), NEW h, Shaped(h, o), NEW k \in Kinds,
         NEW s \in StepsOf(k), NEW f \in Failed(h, s)
  PROVE  Keeps(f, h, o, k)
<1>1. f = Stopped(h) \/ f = h \/ (f = Do(h, s) /\ ~Fails(h, s))
  BY DEF Failed
<1> QED BY <1>1, StoppedFacts, KeepsSame, DoKeeps

-----------------------------------------------------------------------------
(* The steps of a command.                                                 *)

LEMMA ScriptSteps ==
  ASSUME NEW k, NEW s, IsScript(s, k)
  PROVE  /\ s # <<>> /\ Head(s) \in StepsOf(k) /\ Tail(s) \in Seq(StepsOf(k))
         /\ Tail(s) # <<>> => IsScript(Tail(s), k) /\ Head(s).op \notin {"reload", "restart"}
         /\ Head(s).op # "refuse" /\ Unrefused(Tail(s)) => Unrefused(s)
         /\ \A h : After(h, s) = After(Do(h, Head(s)), Tail(s))
         /\ Tail(s) = <<>> => \A h : After(Do(h, Head(s)), Tail(s)) = Do(h, Head(s))
<1>1. s \in Seq(StepsOf(k)) /\ Len(s) \in 1..3
  BY DEF IsScript
<1>2. /\ s # <<>> /\ Head(s) = s[1] /\ Head(s) \in StepsOf(k) /\ Tail(s) \in Seq(StepsOf(k))
      /\ Len(Tail(s)) = Len(s) - 1 /\ \A i \in 1..Len(Tail(s)) : Tail(s)[i] = s[i + 1]
  <2>1. s # <<>> /\ Head(s) = s[1] /\ Head(s) \in StepsOf(k)
    BY <1>1
  <2>2. Tail(s) \in Seq(StepsOf(k)) /\ Len(Tail(s)) = Len(s) - 1
    BY <1>1, <2>1
  <2>3. \A i \in 1..Len(Tail(s)) : Tail(s)[i] = s[i + 1]
    BY <1>1, <2>1, <2>2
  <2> QED BY <2>1, <2>2, <2>3
<1>3. Tail(s) # <<>> <=> Len(s) > 1
  BY <1>1, <1>2
<1>4. ASSUME Tail(s) # <<>>
      PROVE  IsScript(Tail(s), k) /\ Head(s).op \notin {"reload", "restart"}
  <2>1. Len(Tail(s)) \in 1..3 /\ 1 \in 1..(Len(s) - 1)
    BY <1>1, <1>2, <1>3, <1>4
  <2>2. ASSUME NEW i \in 1..(Len(Tail(s)) - 1) PROVE Tail(s)[i].op \notin {"reload", "restart"}
    <3>1. i + 1 \in 1..(Len(s) - 1) /\ Tail(s)[i] = s[i + 1]
      BY <1>1, <1>2
    <3> QED BY <3>1 DEF IsScript
  <2> QED BY <1>2, <2>1, <2>2 DEF IsScript
<1>5. ASSUME Head(s).op # "refuse", Unrefused(Tail(s)) PROVE Unrefused(s)
  <2>1. ASSUME NEW i \in 1..Len(s), i # 1 PROVE s[i].op # "refuse"
    <3>1. i - 1 \in 1..Len(Tail(s)) /\ Tail(s)[i - 1] = s[i]
      BY <1>1, <1>2, <2>1
    <3> QED BY <1>5, <3>1 DEF Unrefused
  <2> QED BY <1>2, <1>5, <2>1 DEF Unrefused
<1>6. ASSUME NEW h PROVE After(h, s) = After(Do(h, Head(s)), Tail(s))
  <2>1. CASE Len(s) = 1
    <3>1. Len(Tail(s)) = 0
      BY <1>2, <2>1
    <3> QED BY <1>2, <2>1, <3>1 DEF After
  <2>2. CASE Len(s) = 2
    <3>1. Len(Tail(s)) = 1 /\ Tail(s)[1] = s[2]
      BY <1>2, <2>2
    <3>2. After(h, s) = Do(Do(h, s[1]), s[2])
      BY <2>2 DEF After
    <3>3. After(Do(h, Head(s)), Tail(s)) = Do(Do(h, Head(s)), Tail(s)[1])
      BY <3>1 DEF After
    <3> QED BY <1>2, <3>1, <3>2, <3>3
  <2>3. CASE Len(s) = 3
    <3>1. Len(Tail(s)) = 2 /\ Tail(s)[1] = s[2] /\ Tail(s)[2] = s[3]
      BY <1>2, <2>3
    <3>2. After(h, s) = Do(Do(Do(h, s[1]), s[2]), s[3])
      BY <2>3 DEF After
    <3>3. After(Do(h, Head(s)), Tail(s)) = Do(Do(Do(h, Head(s)), Tail(s)[1]), Tail(s)[2])
      BY <3>1 DEF After
    <3> QED BY <1>2, <3>1, <3>2, <3>3
  <2> QED BY <1>1, <2>1, <2>2, <2>3
<1>7. Tail(s) = <<>> => \A h : After(Do(h, Head(s)), Tail(s)) = Do(h, Head(s))
  <2>1. Tail(s) = <<>> => Len(Tail(s)) = 0
    BY <1>1, <1>2, <1>3
  <2> QED BY <2>1 DEF After
<1> QED BY <1>2, <1>4, <1>5, <1>6, <1>7

-----------------------------------------------------------------------------
(* The commands the appliers build.                                        *)

LEMMA Joined ==
  /\ \A a : <<a>> \o <<>> = <<a>>
  /\ \A a, b : <<a>> \o <<b>> = <<a, b>> /\ <<a, b>> \o <<>> = <<a, b>>
  /\ \A a, b, c : <<a>> \o <<b, c>> = <<a, b, c>> /\ <<a, b>> \o <<c>> = <<a, b, c>>
<1> SUFFICES ASSUME NEW a, NEW b, NEW c
             PROVE  /\ <<a>> \o <<>> = <<a>> /\ <<a>> \o <<b>> = <<a, b>> /\ <<a, b>> \o <<>> = <<a, b>>
                    /\ <<a>> \o <<b, c>> = <<a, b, c>> /\ <<a, b>> \o <<c>> = <<a, b, c>>
  OBVIOUS
<1> DEFINE S == {a, b, c}
<1>1. <<a>> \in Seq(S) /\ <<b>> \in Seq(S) /\ <<c>> \in Seq(S) /\ <<a, b>> \in Seq(S) /\ <<b, c>> \in Seq(S)
  OBVIOUS
<1>2. <<>> \in Seq(S)
  OBVIOUS
<1>3. <<a>> \o <<>> = <<a>>
  BY <1>1, <1>2
<1>4. <<a>> \o <<b>> = <<a, b>>
  <2>1. /\ <<a>> \o <<b>> \in Seq(S) /\ Len(<<a>> \o <<b>>) = 2
        /\ \A i \in 1..2 : (<<a>> \o <<b>>)[i] = <<a, b>>[i]
    BY <1>1
  <2>2. <<a, b>> \in Seq(S) /\ Len(<<a, b>>) = 2
    OBVIOUS
  <2> QED BY <2>1, <2>2, SeqEqual
<1>5. <<a>> \o <<b, c>> = <<a, b, c>>
  <2>1. /\ <<a>> \o <<b, c>> \in Seq(S) /\ Len(<<a>> \o <<b, c>>) = 3
        /\ \A i \in 1..3 : (<<a>> \o <<b, c>>)[i] = <<a, b, c>>[i]
    BY <1>1
  <2>2. <<a, b, c>> \in Seq(S) /\ Len(<<a, b, c>>) = 3
    OBVIOUS
  <2> QED BY <2>1, <2>2, SeqEqual
<1>6. <<a, b>> \o <<>> = <<a, b>>
  BY <1>1, <1>2
<1>7. <<a, b>> \o <<c>> = <<a, b, c>>
  <2>1. /\ <<a, b>> \o <<c>> \in Seq(S) /\ Len(<<a, b>> \o <<c>>) = 3
        /\ \A i \in 1..3 : (<<a, b>> \o <<c>>)[i] = <<a, b, c>>[i]
    BY <1>1
  <2>2. <<a, b, c>> \in Seq(S) /\ Len(<<a, b, c>>) = 3
    OBVIOUS
  <2> QED BY <2>1, <2>2, SeqEqual
<1> QED BY <1>3, <1>4, <1>5, <1>6, <1>7

LEMMA StepFacts ==
  /\ \A op, arg : Step(op, arg).op = op /\ Step(op, arg).arg = arg
  /\ \A k \in Scalars \cup {"governor"}, v \in Values : Step(k, v) \in StepsOf(k)
  /\ \A v \in Values \cup {None} : Step("directive", v) \in StepsOf("directive")
  /\ \A op \in {"check", "reload", "restart", "refuse"} : Step(op, None) \in StepsOf("directive")
  /\ \A v \in Values : Step("limit", v) \in StepsOf("unit")
  /\ \A v \in Limits : Step("unlimit", v) \in StepsOf("unit")
  /\ \A op \in {"daemon", "reload", "restart"}, k \in {"unit", "quota"} : Step(op, None) \in StepsOf(k)
  /\ \A v \in Limits : Step("quota", v) \in StepsOf("quota")
  /\ \A r \in [pid : Nat, soft : Limits, hard : Limits] : Step("prlimit", r) \in StepsOf("prlimit")
<1> USE LimitTypes
<1>1. \A op, arg : Step(op, arg).op = op /\ Step(op, arg).arg = arg
  BY DEF Step
<1>2. \A k \in Scalars \cup {"governor"}, v \in Values : Step(k, v) \in StepsOf(k)
  BY DEF Step, StepsOf, StepType, Ops, Fitting, Kinds, Scalars
<1>3. \A v \in Values \cup {None} : Step("directive", v) \in StepsOf("directive")
  BY DEF Step, StepsOf, StepType, Ops, Fitting, Kinds, Scalars
<1>4. \A op \in {"check", "reload", "restart", "refuse"} : Step(op, None) \in StepsOf("directive")
  BY DEF Step, StepsOf, StepType, Ops, Fitting, Kinds, Scalars
<1>5. \A v \in Values : Step("limit", v) \in StepsOf("unit")
  BY DEF Step, StepsOf, StepType, Ops, Fitting, Kinds, Scalars
<1>6. \A v \in Limits : Step("unlimit", v) \in StepsOf("unit")
  BY DEF Step, StepsOf, StepType, Ops, Fitting, Kinds, Scalars
<1>7. \A op \in {"daemon", "reload", "restart"}, k \in {"unit", "quota"} : Step(op, None) \in StepsOf(k)
  BY DEF Step, StepsOf, StepType, Ops, Fitting, Kinds, Scalars
<1>8. \A v \in Limits : Step("quota", v) \in StepsOf("quota")
  BY DEF Step, StepsOf, StepType, Ops, Fitting, Kinds, Scalars
<1>9. \A r \in [pid : Nat, soft : Limits, hard : Limits] : Step("prlimit", r) \in StepsOf("prlimit")
  BY DEF Step, StepsOf, StepType, Ops, Fitting, Kinds, Scalars
<1> QED BY <1>1, <1>2, <1>3, <1>4, <1>5, <1>6, <1>7, <1>8, <1>9

\* What follows the step that writes the parameter.
LEMMA Following ==
  /\ ServiceStep = <<>> \/ \E op \in {"reload", "restart", "refuse"} : ServiceStep = <<Step(op, None)>>
  /\ Mode["directive"] # "live" => ServiceStep # <<>>
  /\ \A k \in {"unit", "quota"} :
        IF Mode[k] = "live" THEN PostSet(k) = <<Step("daemon", None)>>
        ELSE /\ PostSet(k) = <<Step("daemon", None), Step(Mode[k], None)>>
             /\ Mode[k] \in {"reload", "restart"}
<1>1. \A k \in {"directive", "unit", "quota"} : Mode[k] \in {"live", "reload", "restart"}
  BY ApplierAssumption
<1>2. ServiceStep = <<>> \/ \E op \in {"reload", "restart", "refuse"} : ServiceStep = <<Step(op, None)>>
  BY DEF ServiceStep
<1>3. Mode["directive"] # "live" => ServiceStep # <<>>
  BY <1>1 DEF ServiceStep
<1>4. ASSUME NEW k \in {"unit", "quota"}
      PROVE  IF Mode[k] = "live" THEN PostSet(k) = <<Step("daemon", None)>>
             ELSE /\ PostSet(k) = <<Step("daemon", None), Step(Mode[k], None)>>
                  /\ Mode[k] \in {"reload", "restart"}
  <2>1. CASE Mode[k] = "live"
    BY <2>1, Joined DEF PostSet
  <2>2. CASE Mode[k] # "live"
    BY <1>1, <2>2, Joined DEF PostSet
  <2> QED BY <2>1, <2>2
<1> QED BY <1>2, <1>3, <1>4

\* The scripts by their steps.
LEMMA AfterShort ==
  /\ \A h, a : After(h, <<a>>) = Do(h, a)
  /\ \A h, a, b : After(h, <<a, b>>) = Do(Do(h, a), b)
  /\ \A h, a, b, c : After(h, <<a, b, c>>) = Do(Do(Do(h, a), b), c)
<1>1. \A h, a : After(h, <<a>>) = Do(h, a)
  BY DEF After
<1>2. \A h, a, b : After(h, <<a, b>>) = Do(Do(h, a), b)
  BY DEF After
<1>3. \A h, a, b, c : After(h, <<a, b, c>>) = Do(Do(Do(h, a), b), c)
  BY DEF After
<1> QED BY <1>1, <1>2, <1>3

LEMMA ShortScripts ==
  ASSUME NEW k, NEW a \in StepsOf(k), a.op \notin {"reload", "restart"}
  PROVE  /\ IsScript(<<a>>, k)
         /\ \A b \in StepsOf(k) :
               /\ IsScript(<<a, b>>, k)
               /\ Unrefused(<<a, b>>) => b.op # "refuse"
               /\ \A c \in StepsOf(k) :
                     /\ b.op \notin {"reload", "restart"} => IsScript(<<a, b, c>>, k)
                     /\ Unrefused(<<a, b, c>>) => c.op # "refuse"
<1>1. IsScript(<<a>>, k)
  BY DEF IsScript
<1>2. ASSUME NEW b \in StepsOf(k)
      PROVE  IsScript(<<a, b>>, k) /\ (Unrefused(<<a, b>>) => b.op # "refuse")
  <2>1. IsScript(<<a, b>>, k)
    BY DEF IsScript
  <2>2. Unrefused(<<a, b>>) => b.op # "refuse"
    BY DEF Unrefused
  <2> QED BY <2>1, <2>2
<1>3. ASSUME NEW b \in StepsOf(k), NEW c \in StepsOf(k)
      PROVE  /\ b.op \notin {"reload", "restart"} => IsScript(<<a, b, c>>, k)
             /\ Unrefused(<<a, b, c>>) => c.op # "refuse"
  <2>1. b.op \notin {"reload", "restart"} => IsScript(<<a, b, c>>, k)
    BY DEF IsScript
  <2>2. Unrefused(<<a, b, c>>) => c.op # "refuse"
    BY DEF Unrefused
  <2> QED BY <2>1, <2>2
<1> QED BY <1>1, <1>2, <1>3

\* Writing a directive and having the service load the file.
LoadsDirective(s, v) ==
  \/ s = <<Step("directive", v)>> \o ServiceStep
  \/ s = <<Step("directive", v), Step("check", None)>> \o ServiceStep

LEMMA DirectiveEffect ==
  ASSUME NEW h \in HostType, NEW v \in Values, Mode["directive"] # "live",
         NEW s, Unrefused(s), LoadsDirective(s, v)
  PROVE  /\ After(h, s).conf = (IF h.conf = <<>> THEN <<v>> ELSE Replaced(h.conf, v))
         /\ After(h, s).run = v
<1> DEFINE w == Step("directive", v)
           c == Step("check", None)
           f == Do(h, w)
           e == Do(f, c)
<1>1. PICK op \in {"reload", "restart", "refuse"} : ServiceStep = <<Step(op, None)>>
  BY Following
<1> DEFINE r == Step(op, None)
<1>2. w \in StepsOf("directive") /\ c \in StepsOf("directive") /\ r \in StepsOf("directive")
  BY StepFacts
<1>3. /\ w.op = "directive" /\ w.arg = v /\ c.op = "check" /\ r.op = op /\ v # None
      /\ w \in StepType /\ Fitting(w) /\ c \in StepType /\ Fitting(c) /\ r \in StepType /\ Fitting(r)
  BY <1>2, StepFacts, LimitTypes DEF StepsOf
<1>0. s = <<w>> \o ServiceStep \/ s = <<w, c>> \o ServiceStep
  BY DEF LoadsDirective
<1> HIDE DEF r, w, c
<1>4. f \in HostType /\ f.conf = IF h.conf = <<>> THEN <<v>> ELSE Replaced(h.conf, v)
  <2>1. Fields(f, h, w)
    BY <1>3, DoFields
  <2> HIDE DEF f
  <2> QED BY <1>3, <2>1 DEF Fields
<1>5. e \in HostType /\ e.conf = f.conf
  <2>1. Fields(e, f, c)
    BY <1>3, <1>4, DoFields
  <2> HIDE DEF e
  <2> QED BY <1>3, <2>1 DEF Fields
<1>6. f.conf \in Confs /\ f.conf # <<>> /\ Last(f.conf) = v
  <2>1. h.conf \in Confs
    BY HostTypes
  <2>2. f.conf \in Confs /\ f.conf # <<>> /\ \A i \in DOMAIN f.conf : f.conf[i] = v
    BY <1>4, <2>1, ReplacedFacts
  <2> QED BY <2>2, LastOfUniform
<1>7. op # "refuse" /\ (After(h, s) = Do(f, r) \/ After(h, s) = Do(e, r))
  <2>1. CASE s = <<w>> \o ServiceStep
    <3>1. s = <<w, r>>
      BY <1>1, <2>1, Joined DEF r
    <3>2. w.op \notin {"reload", "restart"}
      BY <1>3
    <3>3. Unrefused(<<w, r>>) => r.op # "refuse"
      BY <1>2, <3>2, ShortScripts
    <3>4. After(h, <<w, r>>) = Do(Do(h, w), r)
      BY AfterShort
    <3> QED BY <1>3, <3>1, <3>3, <3>4
  <2>2. CASE s = <<w, c>> \o ServiceStep
    <3>1. s = <<w, c, r>>
      BY <1>1, <2>2, Joined DEF r
    <3>2. w.op \notin {"reload", "restart"}
      BY <1>3
    <3>3. Unrefused(<<w, c, r>>) => r.op # "refuse"
      BY <1>2, <3>2, ShortScripts
    <3>4. After(h, <<w, c, r>>) = Do(Do(Do(h, w), c), r)
      BY AfterShort
    <3> QED BY <1>3, <3>1, <3>3, <3>4
  <2> QED BY <1>0, <2>1, <2>2
<1> HIDE DEF f, e
<1>8. ASSUME NEW x \in HostType
      PROVE  Do(x, r).conf = x.conf /\ (op # "refuse" => Do(x, r).run = Last(x.conf))
  <2>1. Fields(Do(x, r), x, r)
    BY <1>3, DoFields
  <2> QED BY <1>3, <2>1 DEF Fields
<1>9. op # "refuse" => /\ Do(f, r).conf = f.conf /\ Do(f, r).run = v
                       /\ Do(e, r).conf = f.conf /\ Do(e, r).run = v
  BY <1>4, <1>5, <1>6, <1>8
<1> QED BY <1>4, <1>7, <1>9

\* Writing a drop-in and what follows: systemd reads the drop-ins again, and a
\* restart starts a process with the limit.
LEMMA UnitEffect ==
  ASSUME NEW h \in HostType, NEW w \in StepsOf("unit"), w.op \in {"limit", "unlimit"},
         NEW s, s = <<w>> \o PostSet("unit")
  PROVE  LET limit == IF w.arg # Inf THEN w.arg
                      ELSE IF h.other # None THEN h.other ELSE h.base
         IN /\ UnitLimit(After(h, s)) = limit /\ After(h, s).loaded = limit
            /\ Mode["unit"] = "restart" => After(h, s).plim = limit
<1> DEFINE d == Step("daemon", None)
           r == Step(Mode["unit"], None)
           f == Do(h, w)
           e == Do(f, d)
           g == Do(e, r)
           limit == IF w.arg # Inf THEN w.arg ELSE IF h.other # None THEN h.other ELSE h.base
<1>1. d \in StepsOf("unit") /\ d.op = "daemon" /\ d \in StepType /\ Fitting(d)
  BY StepFacts DEF StepsOf
<1>2. w \in StepType /\ Fitting(w)
  BY DEF StepsOf
<1>3. Mode["unit"] # "live" => /\ r \in StepsOf("unit") /\ r \in StepType /\ Fitting(r)
                               /\ r.op = Mode["unit"] /\ r.op \in {"reload", "restart"}
  BY StepFacts, Following DEF StepsOf
<1>4. IF Mode["unit"] = "live" THEN s = <<w, d>> ELSE s = <<w, d, r>>
  BY Following, Joined
<1>5. IF Mode["unit"] = "live" THEN After(h, s) = e ELSE After(h, s) = g
  <2> HIDE DEF d, r
  <2>1. CASE Mode["unit"] = "live"
    <3>1. After(h, <<w, d>>) = Do(Do(h, w), d)
      BY AfterShort
    <3> QED BY <1>4, <2>1, <3>1
  <2>2. CASE Mode["unit"] # "live"
    <3>1. After(h, <<w, d, r>>) = Do(Do(Do(h, w), d), r)
      BY AfterShort
    <3> QED BY <1>4, <2>2, <3>1
  <2> QED BY <2>1, <2>2
<1>6. f \in HostType /\ UnitLimit(f) = limit
  <2>1. Fields(f, h, w)
    BY <1>2, DoFields
  <2>2. w.op = "limit" => w.arg \in Values
    BY <1>2 DEF Fitting
  <2>3. w.arg \in Limits
    BY <1>2, LimitTypes DEF Fitting
  <2> HIDE DEF f
  <2> QED BY <2>1, <2>2, <2>3, LimitTypes DEF Fields, UnitLimit
<1> HIDE DEF f, d, r, limit
<1>7. e \in HostType /\ e.loaded = limit /\ UnitLimit(e) = limit
  <2>1. Fields(e, f, d)
    BY <1>1, <1>6, DoFields
  <2> HIDE DEF e
  <2> QED BY <1>1, <1>6, <2>1 DEF Fields, UnitLimit
<1> HIDE DEF e
<1>8. Mode["unit"] # "live" => /\ g.loaded = limit /\ UnitLimit(g) = limit
                               /\ Mode["unit"] = "restart" => g.plim = limit
  <2>1. SUFFICES ASSUME Mode["unit"] # "live"
                 PROVE  /\ g.loaded = limit /\ UnitLimit(g) = limit
                        /\ Mode["unit"] = "restart" => g.plim = limit
    OBVIOUS
  <2>2. Fields(g, e, r)
    BY <1>3, <1>7, <2>1, DoFields
  <2> HIDE DEF g
  <2> QED BY <1>3, <1>7, <2>1, <2>2 DEF Fields, UnitLimit
<1> QED BY <1>5, <1>7, <1>8 DEF limit

SetsQuota(s, v) == s = <<Step("quota", v)>> \o PostSet("quota")

LEMMA QuotaEffect ==
  ASSUME NEW h \in HostType, NEW v \in Limits, NEW s, SetsQuota(s, v)
  PROVE  After(h, s).quota = v
<1> DEFINE w == Step("quota", v)
           d == Step("daemon", None)
           r == Step(Mode["quota"], None)
           f == Do(h, w)
           e == Do(f, d)
<1>1. /\ w \in StepsOf("quota") /\ w.op = "quota" /\ w.arg = v /\ w \in StepType /\ Fitting(w)
      /\ d \in StepsOf("quota") /\ d.op = "daemon" /\ d \in StepType /\ Fitting(d)
  BY StepFacts DEF StepsOf
<1>2. Mode["quota"] # "live" => /\ r \in StepsOf("quota") /\ r \in StepType /\ Fitting(r)
                                /\ r.op = Mode["quota"] /\ r.op \in {"reload", "restart"}
  BY StepFacts, Following DEF StepsOf
<1>3. IF Mode["quota"] = "live" THEN s = <<w, d>> ELSE s = <<w, d, r>>
  <2>1. s = <<w>> \o PostSet("quota")
    BY DEF SetsQuota
  <2>2. IF Mode["quota"] = "live" THEN PostSet("quota") = <<d>> ELSE PostSet("quota") = <<d, r>>
    BY Following
  <2> HIDE DEF w, d, r
  <2> QED BY <2>1, <2>2, Joined
<1>4. IF Mode["quota"] = "live" THEN After(h, s) = e ELSE After(h, s) = Do(e, r)
  <2> HIDE DEF d, r, w
  <2>1. CASE Mode["quota"] = "live"
    <3>1. After(h, <<w, d>>) = Do(Do(h, w), d)
      BY AfterShort
    <3> QED BY <1>3, <2>1, <3>1
  <2>2. CASE Mode["quota"] # "live"
    <3>1. After(h, <<w, d, r>>) = Do(Do(Do(h, w), d), r)
      BY AfterShort
    <3> QED BY <1>3, <2>2, <3>1
  <2> QED BY <2>1, <2>2
<1> HIDE DEF w, d, r
<1>5. f \in HostType /\ f.quota = v
  <2>1. Fields(f, h, w)
    BY <1>1, DoFields
  <2> HIDE DEF f
  <2> QED BY <1>1, <2>1 DEF Fields
<1> HIDE DEF f
<1>6. e \in HostType /\ e.quota = v
  <2>1. Fields(e, f, d)
    BY <1>1, <1>5, DoFields
  <2> HIDE DEF e
  <2> QED BY <1>1, <1>5, <2>1 DEF Fields
<1> HIDE DEF e
<1>7. Mode["quota"] # "live" => Do(e, r).quota = v
  <2>1. Mode["quota"] # "live" => Fields(Do(e, r), e, r)
    BY <1>2, <1>6, DoFields
  <2> QED BY <1>2, <1>6, <2>1 DEF Fields
<1> QED BY <1>4, <1>6, <1>7

\* The other commands have a single step.
LEMMA SingleStep ==
  ASSUME NEW h \in HostType, NEW k \in Kinds \ {"directive"}, NEW w \in StepsOf(k), w.op = k,
         NEW s, Len(s) = 1, s[1] = w
  PROVE  After(h, s) = Do(h, w) /\ Fields(After(h, s), h, w)
<1>1. After(h, s) = Do(h, w)
  BY DEF After
<1>2. Fields(Do(h, w), h, w)
  BY DoFields DEF StepsOf
<1> QED BY <1>1, <1>2

LEMMA SingleEffects ==
  ASSUME NEW h \in HostType, NEW k \in Scalars \cup {"prlimit"}, NEW w \in StepsOf(k), w.op = k,
         NEW s, Len(s) = 1, s[1] = w
  PROVE  /\ k \in Scalars => After(h, s)[k] = w.arg
         /\ k = "prlimit" => After(h, s).soft = w.arg.soft /\ After(h, s).hard = w.arg.hard
<1>1. Fields(After(h, s), h, w)
  BY SingleStep DEF Kinds, Scalars
<1> QED BY <1>1 DEF Fields, Scalars

LEMMA GovernorEffect ==
  ASSUME NEW h \in HostType, NEW w \in StepsOf("governor"), w.op = "governor",
         NEW s, Len(s) = 1, s[1] = w
  PROVE  /\ After(h, s).governor \in [CPUs -> Values]
         /\ \A p \in CPUs : After(h, s).governor[p] = w.arg
<1>1. Fields(After(h, s), h, w)
  BY SingleStep DEF Kinds, Scalars
<1> QED BY <1>1, HostTypes DEF Fields

\* Commands are made of the steps of their parameter.
LEMMA CommandScripts ==
  ASSUME NEW h \in HostType, NEW k \in Kinds, NEW v \in Values
  PROVE  IsScript(ApplierOf(h, k, v).apply, k) /\ IsScript(ApplierOf(h, k, v).undo, k)
<1> USE LimitTypes, HostTypes
<1> DEFINE check == Step("check", None)
<1>1. CASE k \in Scalars \cup {"governor"}
  <2>1. h.governor[0] \in Values
    BY DEF CPUs
  <2>2. PICK before \in Values : ApplierOf(h, k, v) = Setting(k, before, v)
    BY <1>1, <2>1 DEF ApplierOf, Scalars, SysctlApplier, NetworkRingApplier, NicQueueApplier, CpuGovernorApplier
  <2>3. /\ Step(k, v) \in StepsOf(k) /\ Step(k, before) \in StepsOf(k)
        /\ Step(k, v).op \notin {"reload", "restart"} /\ Step(k, before).op \notin {"reload", "restart"}
    BY <1>1, StepFacts DEF Scalars
  <2>4. IsScript(<<Step(k, v)>>, k) /\ IsScript(<<Step(k, before)>>, k)
    BY <2>3, ShortScripts
  <2> QED BY <2>2, <2>4 DEF Setting, Command
<1>2. CASE k = "directive"
  <2>1. ASSUME NEW x \in Values \cup {None}
        PROVE  /\ IsScript(<<Step("directive", x)>> \o ServiceStep, k)
               /\ IsScript(<<Step("directive", x), check>> \o ServiceStep, k)
    <3> DEFINE w == Step("directive", x)
    <3>1. /\ w \in StepsOf(k) /\ check \in StepsOf(k)
          /\ w.op \notin {"reload", "restart"} /\ check.op \notin {"reload", "restart"}
      BY <1>2, StepFacts
    <3> HIDE DEF w, check
    <3>2. CASE ServiceStep = <<>>
      <4>1. <<w>> \o ServiceStep = <<w>> /\ <<w, check>> \o ServiceStep = <<w, check>>
        BY <3>2, Joined
      <4>2. IsScript(<<w>>, k) /\ IsScript(<<w, check>>, k)
        BY <3>1, ShortScripts
      <4> QED BY <4>1, <4>2 DEF w, check
    <3>3. CASE ServiceStep # <<>>
      <4>1. PICK op \in {"reload", "restart", "refuse"} : ServiceStep = <<Step(op, None)>>
        BY <3>3, Following
      <4> DEFINE r == Step(op, None)
      <4>2. r \in StepsOf(k)
        BY <1>2, StepFacts
      <4> HIDE DEF r
      <4>3. <<w>> \o <<r>> = <<w, r>> /\ <<w, check>> \o <<r>> = <<w, check, r>>
        BY Joined
      <4>4. IsScript(<<w, r>>, k) /\ IsScript(<<w, check, r>>, k)
        BY <3>1, <4>2, ShortScripts
      <4> QED BY <4>1, <4>3, <4>4 DEF w, check, r
    <3> QED BY <3>2, <3>3
  <2>2. Last(h.conf) \in Values \cup {None}
    BY ConfFacts
  <2>3. ApplierOf(h, k, v) = NginxDirectiveApplier(h, v)
    BY <1>2 DEF ApplierOf, Scalars
  <2>4. /\ ApplierOf(h, k, v).apply = <<Step("directive", v), check>> \o ServiceStep
        /\ ApplierOf(h, k, v).undo = <<Step("directive", Last(h.conf))>> \o ServiceStep
    BY <2>3 DEF NginxDirectiveApplier, Command
  <2> HIDE DEF check
  <2> QED BY <2>1, <2>2, <2>4
<1>3. ASSUME k \in {"unit", "quota"}, NEW w \in StepsOf(k), w.op \notin {"reload", "restart"}
      PROVE  IsScript(<<w>> \o PostSet(k), k)
  <2> DEFINE d == Step("daemon", None)
             r == Step(Mode[k], None)
  <2>1. d \in StepsOf(k) /\ d.op \notin {"reload", "restart"}
    BY <1>3, StepFacts
  <2>2. Mode[k] # "live" => r \in StepsOf(k)
    BY <1>3, StepFacts, Following
  <2>3. CASE Mode[k] = "live"
    <3>1. PostSet(k) = <<d>>
      BY <1>3, <2>3, Following
    <3> HIDE DEF d
    <3>2. <<w>> \o <<d>> = <<w, d>>
      BY Joined
    <3>3. IsScript(<<w, d>>, k)
      BY <1>3, <2>1, ShortScripts
    <3> QED BY <3>1, <3>2, <3>3
  <2>4. CASE Mode[k] # "live"
    <3>1. PostSet(k) = <<d, r>>
      BY <1>3, <2>4, Following
    <3> HIDE DEF d, r
    <3>2. <<w>> \o <<d, r>> = <<w, d, r>>
      BY Joined
    <3>3. IsScript(<<w, d, r>>, k)
      BY <1>3, <2>1, <2>2, <2>4, ShortScripts
    <3> QED BY <3>1, <3>2, <3>3
  <2> QED BY <2>3, <2>4
<1>4. CASE k = "unit"
  <2>1. ApplierOf(h, k, v) = SystemdUnitLimitApplier(h, v)
    BY <1>4 DEF ApplierOf, Scalars
  <2>2. /\ ApplierOf(h, k, v).apply = <<Step("limit", v)>> \o PostSet("unit")
        /\ ApplierOf(h, k, v).undo = <<Step("unlimit", h.loaded)>> \o PostSet("unit")
    BY <2>1 DEF SystemdUnitLimitApplier, Command
  <2>3. \A x \in Values : Step("limit", x) \in StepsOf("unit") /\ Step("limit", x).op \notin {"reload", "restart"}
    BY StepFacts
  <2>4. \A x \in Limits : Step("unlimit", x) \in StepsOf("unit") /\ Step("unlimit", x).op \notin {"reload", "restart"}
    BY StepFacts
  <2>5. h.loaded \in Limits
    OBVIOUS
  <2> QED BY <1>3, <1>4, <2>2, <2>3, <2>4, <2>5
<1>5. CASE k = "quota"
  <2>1. ApplierOf(h, k, v) = SystemdCgroupControlApplier(h, v)
    BY <1>5 DEF ApplierOf, Scalars
  <2>2. /\ ApplierOf(h, k, v).apply = <<Step("quota", v)>> \o PostSet("quota")
        /\ ApplierOf(h, k, v).undo = <<Step("quota", NormalizedQuota(h))>> \o PostSet("quota")
    BY <2>1 DEF SystemdCgroupControlApplier, Command
  <2>3. \A x \in Limits : Step("quota", x) \in StepsOf("quota") /\ Step("quota", x).op \notin {"reload", "restart"}
    BY StepFacts
  <2> QED BY <1>3, <1>5, <2>2, <2>3
<1>6. CASE k = "prlimit"
  <2> DEFINE to == [pid |-> h.pid, soft |-> v, hard |-> IF v > h.hard THEN v ELSE h.hard]
             back == [pid |-> h.pid, soft |-> h.soft, hard |-> h.hard]
  <2>1. ApplierOf(h, k, v) = PrlimitApplier(h, v)
    BY <1>6 DEF ApplierOf, Scalars
  <2>2. /\ ApplierOf(h, k, v).apply = <<Step("prlimit", to)>>
        /\ ApplierOf(h, k, v).undo = <<Step("prlimit", back)>>
    BY <2>1 DEF PrlimitApplier, Command
  <2>3. to \in [pid : Nat, soft : Limits, hard : Limits] /\ back \in [pid : Nat, soft : Limits, hard : Limits]
    OBVIOUS
  <2> HIDE DEF to, back
  <2>4. /\ Step("prlimit", to) \in StepsOf(k) /\ Step("prlimit", to).op \notin {"reload", "restart"}
        /\ Step("prlimit", back) \in StepsOf(k) /\ Step("prlimit", back).op \notin {"reload", "restart"}
    BY <1>6, <2>3, StepFacts
  <2>5. IsScript(<<Step("prlimit", to)>>, k) /\ IsScript(<<Step("prlimit", back)>>, k)
    BY <2>4, ShortScripts
  <2> QED BY <2>2, <2>5
<1> QED BY <1>1, <1>2, <1>4, <1>5, <1>6 DEF Kinds

LEMMA ViewTypes ==
  ASSUME NEW h \in HostType, NEW k \in Kinds
  PROVE  View(h, k) \in Views
<1> USE HostTypes
<1>1. CASE k \in Scalars
  BY <1>1, LimitTypes DEF View, Views, Scalars
<1>2. CASE k = "governor"
  BY <1>2 DEF View, Views, Scalars
<1>3. CASE k = "directive"
  BY <1>3 DEF View, Views, Scalars
<1>4. CASE k \in {"unit", "prlimit"}
  BY <1>4 DEF View, Views, Scalars
<1>5. CASE k = "quota"
  BY <1>5 DEF View, Views, Scalars
<1> QED BY <1>1, <1>2, <1>3, <1>4, <1>5 DEF Kinds

\* The undo command of a directive is refused, or it loads the file it wrote.
LEMMA NewRestoring ==
  ASSUME NEW o \in HostType, Settled(o), NEW h, Shaped(h, o), NEW k \in Kinds, NEW v \in Values,
         View(h, k) = View(o, k), k \notin Lossy(o), Mode["directive"] # "live",
         NEW c, c.key = k, c.undo = ApplierOf(h, k, v).undo
  PROVE  Restoring(c, o)
<1>1. SUFFICES ASSUME Unrefused(c.undo), NEW g, Shaped(g, o)
               PROVE  View(After(g, c.undo), k) = View(o, k)
  BY DEF Restoring
<1>2. h \in HostType /\ g \in HostType
  BY <1>1 DEF Shaped
<1>3. CASE k \in Scalars
  <2>1. c.undo = <<Step(k, h[k])>> /\ h[k] \in Values
    BY <1>2, <1>3, HostTypes
       DEF ApplierOf, Scalars, SysctlApplier, NetworkRingApplier, NicQueueApplier, Setting, Command
  <2>2. After(g, c.undo)[k] = h[k]
    <3> DEFINE w == Step(k, h[k])
    <3>1. w \in StepsOf(k) /\ w.op = k /\ w.arg = h[k]
      BY <1>3, <2>1, StepFacts
    <3>2. Len(c.undo) = 1 /\ c.undo[1] = w
      BY <2>1
    <3> HIDE DEF w
    <3> QED BY <1>2, <1>3, <3>1, <3>2, SingleEffects
  <2> QED BY <1>3, <2>2 DEF View, Scalars
<1>4. CASE k = "governor"
  <2>1. c.undo = <<Step("governor", h.governor[0])>> /\ h.governor[0] \in Values
    BY <1>2, <1>4, HostTypes DEF ApplierOf, Scalars, CpuGovernorApplier, Setting, Command, CPUs
  <2>2. After(g, c.undo).governor \in [CPUs -> Values] /\ \A p \in CPUs : After(g, c.undo).governor[p] = h.governor[0]
    <3> DEFINE w == Step("governor", h.governor[0])
    <3>1. w \in StepsOf("governor") /\ w.op = "governor" /\ w.arg = h.governor[0]
      BY <2>1, StepFacts
    <3>2. Len(c.undo) = 1 /\ c.undo[1] = w
      BY <2>1
    <3> HIDE DEF w
    <3> QED BY <1>2, <3>1, <3>2, GovernorEffect
  <2>3. h.governor = o.governor
    BY <1>4 DEF View, Scalars
  <2>4. o.governor \in [CPUs -> Values] /\ o.governor[0] = o.governor[1]
    BY <1>4, HostTypes DEF Lossy
  <2>5. After(g, c.undo).governor = o.governor
    BY <2>2, <2>3, <2>4 DEF CPUs
  <2> QED BY <1>4, <2>5 DEF View, Scalars
<1>5. CASE k = "directive"
  <2>1. c.undo = <<Step("directive", Last(h.conf))>> \o ServiceStep
    BY <1>5 DEF ApplierOf, Scalars, NginxDirectiveApplier, Command
  <2>2. h.conf = o.conf /\ h.run = o.run
    BY <1>5 DEF View, Scalars
  <2>3. o.conf \in Confs /\ o.conf # <<>> /\ \A i \in DOMAIN o.conf : o.conf[i] = Last(o.conf)
    BY <1>5, HostTypes DEF Lossy
  <2>4. Last(o.conf) \in Values
    BY <2>3, ConfFacts
  <2>5. g.conf \in Confs /\ DOMAIN g.conf = DOMAIN o.conf
    BY <1>1, <1>2, <2>3, HostTypes DEF Shaped
  <2>6. g.conf # <<>>
    <3>1. 1 \in DOMAIN o.conf
      BY <2>3, ConfFacts
    <3> QED BY <2>5, <3>1
  <2>7. /\ After(g, c.undo).conf = Replaced(g.conf, Last(o.conf))
        /\ After(g, c.undo).run = Last(o.conf)
    <3>1. LoadsDirective(c.undo, Last(o.conf))
      BY <2>1, <2>2 DEF LoadsDirective
    <3> DEFINE u == Last(o.conf)
    <3>2. u \in Values /\ LoadsDirective(c.undo, u)
      BY <2>4, <3>1
    <3> HIDE DEF u
    <3>3. /\ After(g, c.undo).conf = (IF g.conf = <<>> THEN <<u>> ELSE Replaced(g.conf, u))
          /\ After(g, c.undo).run = u
      BY <1>1, <1>2, <3>2, DirectiveEffect
    <3> QED BY <2>6, <3>3 DEF u
  <2>8. Replaced(g.conf, Last(o.conf)) = o.conf
    <3>1. PICK n \in 0..2 : o.conf \in [1..n -> Values]
      BY <2>3, ConfTypes
    <3> QED BY <2>3, <2>5, <3>1 DEF Replaced
  <2>9. o.run = Last(o.conf)
    BY DEF Settled
  <2> QED BY <1>5, <2>7, <2>8, <2>9 DEF View, Scalars
<1>6. CASE k = "unit"
  <2>1. c.undo = <<Step("unlimit", h.loaded)>> \o PostSet("unit")
    BY <1>6 DEF ApplierOf, Scalars, SystemdUnitLimitApplier, Command
  <2>2. h.loaded = o.loaded /\ o.loaded = UnitLimit(o) /\ o.loaded \in Limits
    BY <1>6, HostTypes DEF View, Scalars, Settled
  <2> DEFINE w == Step("unlimit", o.loaded)
  <2>3. w \in StepsOf("unit") /\ w.op = "unlimit" /\ w.arg = o.loaded
    BY <2>2, StepFacts
  <2> DEFINE limit == IF o.loaded # Inf THEN o.loaded ELSE IF g.other # None THEN g.other ELSE g.base
  <2>4. UnitLimit(After(g, c.undo)) = limit /\ After(g, c.undo).loaded = limit
    <3>1. c.undo = <<w>> \o PostSet("unit")
      BY <2>1, <2>2
    <3> HIDE DEF w
    <3> QED BY <1>2, <2>3, <3>1, UnitEffect
  <2>5. limit = o.loaded
    <3>1. SUFFICES ASSUME o.loaded = Inf PROVE limit = Inf
      OBVIOUS
    <3>2. o.other = None
      BY <1>6, <3>1 DEF Lossy
    <3>3. o.zz # Inf
      BY DEF Settled
    <3>4. o.base = Inf
      BY <2>2, <3>1, <3>2, <3>3 DEF UnitLimit
    <3> QED BY <1>1, <3>1, <3>2, <3>4 DEF Shaped
  <2> QED BY <1>6, <2>2, <2>4, <2>5 DEF View, Scalars
<1>7. CASE k = "quota"
  <2>1. c.undo = <<Step("quota", NormalizedQuota(h))>> \o PostSet("quota")
    BY <1>7 DEF ApplierOf, Scalars, SystemdCgroupControlApplier, Command
  <2>2. h.quota = o.quota /\ o.quota \notin Unparsable
    BY <1>7 DEF View, Scalars, Lossy
  <2>3. NormalizedQuota(h) = o.quota /\ o.quota \in Limits
    BY <2>2, HostTypes DEF NormalizedQuota
  <2>4. After(g, c.undo).quota = o.quota
    <3>1. SetsQuota(c.undo, o.quota)
      BY <2>1, <2>3 DEF SetsQuota
    <3> QED BY <1>2, <2>3, <3>1, QuotaEffect
  <2> QED BY <1>7, <2>4 DEF View, Scalars
<1>8. CASE k = "prlimit"
  <2> DEFINE r == [pid |-> h.pid, soft |-> h.soft, hard |-> h.hard]
  <2>1. c.undo = <<Step("prlimit", r)>>
    BY <1>8 DEF ApplierOf, Scalars, PrlimitApplier, Command
  <2>2. r \in [pid : Nat, soft : Limits, hard : Limits] /\ r.soft = h.soft /\ r.hard = h.hard
    BY <1>2, HostTypes
  <2> HIDE DEF r
  <2> DEFINE w == Step("prlimit", r)
  <2>3. After(g, c.undo).soft = h.soft /\ After(g, c.undo).hard = h.hard
    <3>1. w \in StepsOf("prlimit") /\ w.op = "prlimit" /\ w.arg = r
      BY <2>2, StepFacts
    <3>2. Len(c.undo) = 1 /\ c.undo[1] = w
      BY <2>1
    <3> HIDE DEF w
    <3> QED BY <1>2, <2>2, <3>1, <3>2, SingleEffects
  <2> QED BY <1>8, <2>3 DEF View, Scalars
<1> QED BY <1>3, <1>4, <1>5, <1>6, <1>7, <1>8 DEF Kinds

\* What a change of kind k has in effect is what its rollback will read and
\* write back: the earlier change b is in effect again.
LEMMA NewReclaims ==
  ASSUME Activating, NEW o \in HostType, NEW h, Shaped(h, o), NEW k \in Kinds, NEW v \in Values,
         NEW b, b.key = k, b.applied \in Values, Claimed(h, b),
         k = "quota" => b.applied \notin Unparsable,
         NEW c, c.key = k, c.undo = ApplierOf(h, k, v).undo
  PROVE  Reclaims(c, b, o)
<1>1. SUFFICES ASSUME Unrefused(c.undo), NEW g, Shaped(g, o) PROVE Claimed(After(g, c.undo), b)
  BY DEF Reclaims
<1>2. h \in HostType /\ g \in HostType
  BY <1>1 DEF Shaped
<1>3. CASE k \in Scalars
  <2>1. c.undo = <<Step(k, h[k])>> /\ h[k] = b.applied
    BY <1>3 DEF ApplierOf, Scalars, SysctlApplier, NetworkRingApplier, NicQueueApplier, Setting, Command, Claimed
  <2>2. After(g, c.undo)[k] = b.applied
    <3> DEFINE w == Step(k, b.applied)
    <3>1. w \in StepsOf(k) /\ w.op = k /\ w.arg = b.applied
      BY <1>3, StepFacts
    <3>2. Len(c.undo) = 1 /\ c.undo[1] = w
      BY <2>1
    <3> HIDE DEF w
    <3> QED BY <1>2, <1>3, <3>1, <3>2, SingleEffects
  <2> QED BY <1>3, <2>2 DEF Claimed, Scalars
<1>4. CASE k = "governor"
  <2>1. c.undo = <<Step("governor", h.governor[0])>> /\ h.governor[0] = b.applied
    BY <1>4 DEF ApplierOf, Scalars, CpuGovernorApplier, Setting, Command, CPUs, Claimed
  <2>2. After(g, c.undo).governor \in [CPUs -> Values] /\ \A p \in CPUs : After(g, c.undo).governor[p] = b.applied
    <3> DEFINE w == Step("governor", b.applied)
    <3>1. w \in StepsOf("governor") /\ w.op = "governor" /\ w.arg = b.applied
      BY StepFacts
    <3>2. Len(c.undo) = 1 /\ c.undo[1] = w
      BY <2>1
    <3> HIDE DEF w
    <3> QED BY <1>2, <3>1, <3>2, GovernorEffect
  <2> QED BY <1>4, <2>2 DEF Claimed, Scalars
<1>5. CASE k = "directive"
  <2>1. h.conf # <<>> /\ \A i \in DOMAIN h.conf : h.conf[i] = b.applied
    BY <1>5 DEF Claimed, Scalars
  <2>2. Last(h.conf) = b.applied
    BY <1>2, <2>1, HostTypes, LastOfUniform
  <2>3. c.undo = <<Step("directive", b.applied)>> \o ServiceStep
    BY <1>5, <2>2 DEF ApplierOf, Scalars, NginxDirectiveApplier, Command
  <2>4. /\ After(g, c.undo).conf = (IF g.conf = <<>> THEN <<b.applied>> ELSE Replaced(g.conf, b.applied))
        /\ After(g, c.undo).run = b.applied
    <3>1. LoadsDirective(c.undo, b.applied)
      BY <2>3 DEF LoadsDirective
    <3> QED BY <1>1, <1>2, <3>1, DirectiveEffect DEF Activating
  <2>5. /\ After(g, c.undo).conf # <<>>
        /\ \A i \in DOMAIN After(g, c.undo).conf : After(g, c.undo).conf[i] = b.applied
    BY <1>2, <2>4, HostTypes, ReplacedFacts
  <2> QED BY <1>5, <2>4, <2>5 DEF Claimed, Scalars
<1>6. CASE k = "unit"
  <2>1. c.undo = <<Step("unlimit", h.loaded)>> \o PostSet("unit") /\ h.loaded = b.applied
    BY <1>6 DEF ApplierOf, Scalars, SystemdUnitLimitApplier, Command, Claimed
  <2> DEFINE w == Step("unlimit", b.applied)
  <2>2. w \in StepsOf("unit") /\ w.op = "unlimit" /\ w.arg = b.applied /\ w.arg # Inf
    BY StepFacts, LimitTypes
  <2>3. c.undo = <<w>> \o PostSet("unit")
    BY <2>1
  <2> HIDE DEF w
  <2>4. /\ UnitLimit(After(g, c.undo)) = b.applied /\ After(g, c.undo).loaded = b.applied
        /\ After(g, c.undo).plim = b.applied
    BY <1>2, <2>2, <2>3, UnitEffect DEF Activating
  <2> QED BY <1>6, <2>4 DEF Claimed, Scalars
<1>7. CASE k = "quota"
  <2>1. SetsQuota(c.undo, b.applied)
    BY <1>7 DEF ApplierOf, Scalars, SystemdCgroupControlApplier, Command, Claimed, NormalizedQuota, SetsQuota
  <2>2. After(g, c.undo).quota = b.applied
    BY <1>2, <2>1, QuotaEffect, LimitTypes
  <2> QED BY <1>7, <2>2 DEF Claimed, Scalars
<1>8. CASE k = "prlimit"
  <2> DEFINE r == [pid |-> h.pid, soft |-> h.soft, hard |-> h.hard]
  <2>1. c.undo = <<Step("prlimit", r)>> /\ h.soft = b.applied
    BY <1>8 DEF ApplierOf, Scalars, PrlimitApplier, Command, Claimed
  <2>2. r \in [pid : Nat, soft : Limits, hard : Limits] /\ r.soft = h.soft
    BY <1>2, HostTypes
  <2> HIDE DEF r
  <2> DEFINE w == Step("prlimit", r)
  <2>3. After(g, c.undo).soft = b.applied
    <3>1. w \in StepsOf("prlimit") /\ w.op = "prlimit" /\ w.arg = r
      BY <2>2, StepFacts
    <3>2. Len(c.undo) = 1 /\ c.undo[1] = w
      BY <2>1
    <3> HIDE DEF w
    <3> QED BY <1>2, <2>1, <2>2, <3>1, <3>2, SingleEffects
  <2> QED BY <1>8, <2>3 DEF Claimed, Scalars
<1> QED BY <1>3, <1>4, <1>5, <1>6, <1>7, <1>8 DEF Kinds

LEMMA NewCertifies ==
  ASSUME NEW o \in HostType, NEW h, Shaped(h, o), NEW k \in Kinds,
         NEW b, b.key = k, Claimed(h, b), NEW c, c.key = k, c.view = View(h, k)
  PROVE  Certifies(c, b, o)
<1>1. SUFFICES ASSUME NEW g, Shaped(g, o), View(g, k) = View(h, k),
                      k = "unit" => g.plim \in {g.loaded, b.applied}
               PROVE  Claimed(g, b)
  BY DEF Certifies
<1>2. CASE k \in Scalars \cup {"governor", "quota"}
  BY <1>1, <1>2 DEF View, Claimed, Scalars
<1>3. CASE k = "directive"
  BY <1>1, <1>3 DEF View, Claimed, Scalars
<1>4. CASE k = "unit"
  BY <1>1, <1>4 DEF View, Claimed, Scalars
<1>5. CASE k = "prlimit"
  BY <1>1, <1>5 DEF View, Claimed, Scalars
<1> QED BY <1>2, <1>3, <1>4, <1>5 DEF Kinds

\* An apply command that runs to its end does what the change claims.
LEMMA NewClaims ==
  ASSUME Activating, NEW h \in HostType, NEW k \in Kinds, NEW v \in Values,
         NEW s, s = ApplierOf(h, k, v).apply, Unrefused(s), NEW c, c.key = k, c.applied = v
  PROVE  Claimed(After(h, s), c)
<1>1. CASE k \in Scalars
  <2>1. s = <<Step(k, v)>>
    BY <1>1 DEF ApplierOf, Scalars, SysctlApplier, NetworkRingApplier, NicQueueApplier, Setting, Command
  <2>2. After(h, s)[k] = v
    <3> DEFINE w == Step(k, v)
    <3>1. w \in StepsOf(k) /\ w.op = k /\ w.arg = v
      BY <1>1, StepFacts
    <3>2. Len(s) = 1 /\ s[1] = w
      BY <2>1
    <3> HIDE DEF w
    <3> QED BY <1>1, <3>1, <3>2, SingleEffects
  <2> QED BY <1>1, <2>2 DEF Claimed, Scalars
<1>2. CASE k = "governor"
  <2>1. s = <<Step("governor", v)>>
    BY <1>2 DEF ApplierOf, Scalars, CpuGovernorApplier, Setting, Command
  <2>2. After(h, s).governor \in [CPUs -> Values] /\ \A p \in CPUs : After(h, s).governor[p] = v
    <3> DEFINE w == Step("governor", v)
    <3>1. w \in StepsOf("governor") /\ w.op = "governor" /\ w.arg = v
      BY StepFacts
    <3>2. Len(s) = 1 /\ s[1] = w
      BY <2>1
    <3> HIDE DEF w
    <3> QED BY <3>1, <3>2, GovernorEffect
  <2> QED BY <1>2, <2>2 DEF Claimed, Scalars
<1>3. CASE k = "directive"
  <2>1. s = <<Step("directive", v), Step("check", None)>> \o ServiceStep
    BY <1>3 DEF ApplierOf, Scalars, NginxDirectiveApplier, Command
  <2>2. /\ After(h, s).conf = (IF h.conf = <<>> THEN <<v>> ELSE Replaced(h.conf, v))
        /\ After(h, s).run = v
    <3>1. LoadsDirective(s, v)
      BY <2>1 DEF LoadsDirective
    <3> QED BY <3>1, DirectiveEffect DEF Activating
  <2>3. /\ After(h, s).conf # <<>>
        /\ \A i \in DOMAIN After(h, s).conf : After(h, s).conf[i] = v
    BY <2>2, HostTypes, ReplacedFacts
  <2> QED BY <1>3, <2>2, <2>3 DEF Claimed, Scalars
<1>4. CASE k = "unit"
  <2> DEFINE w == Step("limit", v)
  <2>1. w \in StepsOf("unit") /\ w.op = "limit" /\ w.arg = v /\ w.arg # Inf
    BY StepFacts, LimitTypes
  <2>2. s = <<w>> \o PostSet("unit")
    BY <1>4 DEF ApplierOf, Scalars, SystemdUnitLimitApplier, Command
  <2> HIDE DEF w
  <2>3. UnitLimit(After(h, s)) = v /\ After(h, s).loaded = v /\ After(h, s).plim = v
    BY <2>1, <2>2, UnitEffect DEF Activating
  <2> QED BY <1>4, <2>3 DEF Claimed, Scalars
<1>5. CASE k = "quota"
  <2>1. SetsQuota(s, v)
    BY <1>5 DEF ApplierOf, Scalars, SystemdCgroupControlApplier, Command, SetsQuota
  <2>2. After(h, s).quota = v
    BY <2>1, QuotaEffect, LimitTypes
  <2> QED BY <1>5, <2>2 DEF Claimed, Scalars
<1>6. CASE k = "prlimit"
  <2> DEFINE r == [pid |-> h.pid, soft |-> v, hard |-> IF v > h.hard THEN v ELSE h.hard]
  <2>1. s = <<Step("prlimit", r)>>
    BY <1>6 DEF ApplierOf, Scalars, PrlimitApplier, Command
  <2>2. r \in [pid : Nat, soft : Limits, hard : Limits] /\ r.soft = v
    BY HostTypes, LimitTypes
  <2> HIDE DEF r
  <2> DEFINE w == Step("prlimit", r)
  <2>3. After(h, s).soft = v
    <3>1. w \in StepsOf("prlimit") /\ w.op = "prlimit" /\ w.arg = r
      BY <2>2, StepFacts
    <3>2. Len(s) = 1 /\ s[1] = w
      BY <2>1
    <3> HIDE DEF w
    <3> QED BY <2>2, <3>1, <3>2, SingleEffects
  <2> QED BY <1>6, <2>3 DEF Claimed, Scalars
<1> QED BY <1>1, <1>2, <1>3, <1>4, <1>5, <1>6 DEF Kinds

\* A claim is more than what the benchmark needs.
LEMMA ClaimedInEffect ==
  ASSUME NEW h, NEW c, c.key \in Kinds, Claimed(h, c)
  PROVE  InEffect(h, c)
BY DEF Claimed, InEffect, Kinds, Scalars
=============================================================================
