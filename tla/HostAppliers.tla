----------------------------- MODULE HostAppliers -----------------------------
(***************************************************************************)
(* What the appliers' shell commands do to the target host, one command    *)
(* step at a time: live kernel and NIC settings, the nginx configuration   *)
(* file, systemd drop-ins and controls, and the limits of the running      *)
(* process. TuneSession abstracts a change to "the parameter has the       *)
(* value"; here the value passes through a file, a daemon-reload and a     *)
(* restart that gives the service a new process.                           *)
(*                                                                         *)
(* A session applies groups of changes; a group is undone in the order it  *)
(* was applied when one of its changes fails, when validation fails or     *)
(* when its benchmark was poor, and is entered in the ledger otherwise.    *)
(***************************************************************************)
EXTENDS Naturals, Sequences

CONSTANTS
  Values,         \* values a parameter can be given
  Inf,            \* systemd's "infinity"
  None,           \* no such file, no such entry
  Bad,            \* values nginx -t does not accept for the directive
  Unparsable,     \* CPU quotas systemctl prints in a form _parse_usec cannot read
  Mode,           \* apply_mode of directives, unit limits and cgroup controls
  AllowReload, AllowRestart,   \* engagement policy
  InitialHosts,   \* hosts a session may find
  MaxChanges, MaxGroup, MaxFaults   \* bounds: changes, group size, failing commands

Limits == Values \cup {Inf}
CPUs == {0, 1}
Scalars == {"sysctl", "ring", "queue"}
Kinds == Scalars \cup {"governor", "directive", "unit", "quota", "prlimit"}

ASSUME ApplierAssumption ==
  /\ Values \subseteq Nat /\ Inf \in Nat /\ \A v \in Values : v < Inf
  /\ None \notin Nat /\ Bad \subseteq Values /\ Unparsable \subseteq Values
  /\ Mode \in [{"directive", "unit", "quota"} -> {"live", "reload", "restart"}]
  /\ AllowReload \in BOOLEAN /\ AllowRestart \in BOOLEAN
  /\ MaxChanges \in Nat /\ MaxGroup \in Nat /\ MaxFaults \in Nat

VARIABLES
  host,      \* the target: see HostType
  ledger,    \* state.active_changes, one change per kind
  group,     \* applied_changes of the group under way, in order
  current,   \* the change whose command runs, or None
  script,    \* the steps of that command still to run
  todo,      \* changes still to roll back
  pc,        \* "idle", "apply", "bench", "undo", "exit"
  start,     \* the host when the session began, as preflight recorded it
  changes, faults   \* counted against the bounds

VARIABLES    \* history variables: no action reads them
  dirty,     \* kinds a failed command left neither applied nor restored
  retuned    \* kinds whose ledger entry was replaced

vars == <<host, ledger, group, current, script, todo, pc, start, changes, faults, dirty, retuned>>

Confs == UNION {[1..n -> Values] : n \in 0..2}

HostType ==
  [sysctl : Values, ring : Values, queue : Values, governor : [CPUs -> Values],
   conf : Confs,                             \* the directive's occurrences in the file
   run : Values \cup {None},                 \* what the service last loaded
   base : Limits, other : Limits \cup {None}, zz : Limits \cup {None},
                                             \* unit file, an operator's drop-in, hosttune's
   loaded : Limits,                          \* after the last daemon-reload
   quota : Limits,
   up : BOOLEAN, pid : Nat, plim : Limits,   \* the process and the limit it was started with
   soft : Limits, hard : Limits]

-----------------------------------------------------------------------------
(* The commands' steps.                                                    *)

Last(s) == IF s = <<>> THEN None ELSE s[Len(s)]
UnitLimit(h) == IF h.zz # None THEN h.zz ELSE IF h.other # None THEN h.other ELSE h.base

\* A replaced directive takes the new value at every occurrence.
Replaced(conf, v) == [i \in DOMAIN conf |-> v]
WriteDirective(h, v) == [h EXCEPT !.conf = IF @ = <<>> THEN <<v>> ELSE Replaced(@, v)]

\* hosttune's drop-in sorts last; drop-ins that set the property are rewritten too.
WriteLimit(h, v) == [h EXCEPT !.zz = v, !.other = IF @ = None THEN None ELSE v]

\* Undoing removes or rewrites hosttune's own drop-in only.
RestoreLimit(h, v) == [h EXCEPT !.zz = IF v = Inf THEN None ELSE v]

Reload(h) == [h EXCEPT !.run = Last(h.conf)]
Restart(h) ==
  [h EXCEPT !.run = Last(h.conf), !.up = TRUE, !.pid = @ + 1,
            !.plim = h.loaded, !.soft = h.loaded, !.hard = h.loaded]
Stopped(h) == [h EXCEPT !.up = FALSE]

Step(op, arg) == [op |-> op, arg |-> arg]
StepType ==
  [op : Kinds \cup {"limit", "unlimit", "daemon", "check", "reload", "restart", "refuse"},
   arg : Limits \cup {None} \cup [pid : Nat, soft : Limits, hard : Limits]]

\* Steps that fail on this host whatever else happens. The pattern of the
\* delete script matches no line, so an inserted directive stays.
Fails(h, s) ==
  \/ s.op = "refuse"
  \/ s.op = "directive" /\ s.arg = None
  \/ s.op \in {"check", "reload", "restart"} /\ \E i \in DOMAIN h.conf : h.conf[i] \in Bad
  \/ s.op = "reload" /\ ~h.up
  \/ s.op = "prlimit" /\ (~h.up \/ s.arg.pid # h.pid)

Do(h, s) ==
  CASE s.op \in Scalars   -> [h EXCEPT ![s.op] = s.arg]
    [] s.op = "governor"  -> [h EXCEPT !.governor = [c \in CPUs |-> s.arg]]
    [] s.op = "directive" -> WriteDirective(h, s.arg)
    [] s.op = "limit"     -> WriteLimit(h, s.arg)
    [] s.op = "unlimit"   -> RestoreLimit(h, s.arg)
    [] s.op = "daemon"    -> [h EXCEPT !.loaded = UnitLimit(h)]
    [] s.op = "quota"     -> [h EXCEPT !.quota = s.arg]
    [] s.op = "prlimit"   -> [h EXCEPT !.soft = s.arg.soft, !.hard = s.arg.hard]
    [] s.op = "reload"    -> Reload(h)
    [] s.op = "restart"   -> Restart(h)
    [] OTHER              -> h

\* A step that reports a failure did nothing, or did its work and the answer
\* was lost; a failed restart may leave the service stopped.
Failed(h, s) ==
  (IF s.op = "restart" THEN {Stopped(h)} ELSE {})
  \cup (IF Fails(h, s) THEN (IF s.op = "restart" THEN {} ELSE {h}) ELSE {h, Do(h, s)})

-----------------------------------------------------------------------------
(* Current values, and the commands built from them.                       *)

\* _parse_usec: a quota of a minute of CPU per second or more reads as none.
NormalizedQuota(h) == IF h.quota \in Unparsable THEN Inf ELSE h.quota

\* previous_value; the directive's is its last occurrence, the governor's cpu0's.
Read(h, k) ==
  CASE k \in Scalars   -> h[k]
    [] k = "governor"  -> h.governor[0]
    [] k = "directive" -> Last(h.conf)
    [] k = "unit"      -> h.loaded
    [] k = "quota"     -> NormalizedQuota(h)
    [] k = "prlimit"   -> h.soft

\* The PID file names no process while the service is down.
Readable(h, k) == k = "prlimit" => h.up

\* _service_reload_command: a directive's reload or restart, if the policy allows it.
ServiceStep ==
  CASE Mode["directive"] = "restart" -> <<Step(IF AllowRestart THEN "restart" ELSE "refuse", None)>>
    [] Mode["directive"] = "reload"  -> <<Step(IF AllowReload THEN "reload" ELSE "refuse", None)>>
    [] OTHER -> <<>>

\* _post_set_commands: no policy is consulted.
PostSetWithoutDaemonReload(k) ==   \* mutant: the drop-in is not read again
  IF Mode[k] = "live" THEN <<Step("daemon", None)>> ELSE <<Step(Mode[k], None)>>

PostSet(k) ==
  <<Step("daemon", None)>> \o (IF Mode[k] = "live" THEN <<>> ELSE <<Step(Mode[k], None)>>)

\* An applier reads the current value and builds two commands from it: the
\* steps that apply value v to host h, and the steps that roll it back.
Command(apply, undo) == [apply |-> apply, undo |-> undo]
Setting(k, before, v) == Command(<<Step(k, v)>>, <<Step(k, before)>>)

SysctlApplier(h, v) == Setting("sysctl", h.sysctl, v)
NetworkRingApplier(h, v) == Setting("ring", h.ring, v)
NicQueueApplier(h, v) == Setting("queue", h.queue, v)
CpuGovernorApplier(h, v) == Setting("governor", h.governor[0], v)

RestoreFileOnly(h, v) ==   \* mutant: the restored file is not loaded
  Command(<<Step("directive", v), Step("check", None)>> \o ServiceStep,
          <<Step("directive", Last(h.conf))>>)

NginxDirectiveApplier(h, v) ==
  Command(<<Step("directive", v), Step("check", None)>> \o ServiceStep,
          <<Step("directive", Last(h.conf))>> \o ServiceStep)

SystemdUnitLimitApplier(h, v) ==
  Command(<<Step("limit", v)>> \o PostSet("unit"), <<Step("unlimit", h.loaded)>> \o PostSet("unit"))

SystemdCgroupControlApplier(h, v) ==
  Command(<<Step("quota", v)>> \o PostSet("quota"),
          <<Step("quota", NormalizedQuota(h))>> \o PostSet("quota"))

\* The soft limit of the process running now; the hard one is never lowered.
PrlimitApplier(h, v) ==
  LET Limit(soft, hard) == <<Step("prlimit", [pid |-> h.pid, soft |-> soft, hard |-> hard])>>
  IN Command(Limit(v, IF v > h.hard THEN v ELSE h.hard), Limit(h.soft, h.hard))

ApplierOf(h, k, v) ==
  CASE k = "sysctl"    -> SysctlApplier(h, v)
    [] k = "ring"      -> NetworkRingApplier(h, v)
    [] k = "queue"     -> NicQueueApplier(h, v)
    [] k = "governor"  -> CpuGovernorApplier(h, v)
    [] k = "directive" -> NginxDirectiveApplier(h, v)
    [] k = "unit"      -> SystemdUnitLimitApplier(h, v)
    [] k = "quota"     -> SystemdCgroupControlApplier(h, v)
    [] k = "prlimit"   -> PrlimitApplier(h, v)

\* The part of the host that is parameter k: what a rollback should bring back.
View(h, k) ==
  CASE k \in Scalars   -> h[k]
    [] k = "governor"  -> h.governor
    [] k = "directive" -> <<h.conf, h.run>>
    [] k = "unit"      -> <<UnitLimit(h), h.loaded>>
    [] k = "quota"     -> h.quota
    [] k = "prlimit"   -> <<h.soft, h.hard>>

Views == Limits \cup [CPUs -> Values] \cup (Confs \X (Values \cup {None})) \cup (Limits \X Limits)

\* An AppliedChange; view is history: the parameter before the change.
NewChange(k, v) ==
  [key |-> k, applied |-> v, pid |-> host.pid, undo |-> ApplierOf(host, k, v).undo,
   view |-> View(host, k)]

ChangeType ==
  [key : Kinds, applied : Values, pid : Nat, undo : Seq(StepType), view : Views]

\* What preflight finds is settled: the service has loaded its file and systemd
\* its drop-ins, of which none of hosttune's lifts a limit.
Settled(h) == h.run = Last(h.conf) /\ h.loaded = UnitLimit(h) /\ h.zz # Inf

ASSUME HostsAssumption ==
  /\ \A h \in InitialHosts : h \in HostType /\ Settled(h)
  /\ None \notin ChangeType

-----------------------------------------------------------------------------
Init ==
  /\ host \in InitialHosts
  /\ ledger = <<>> /\ group = <<>> /\ todo = <<>> /\ script = <<>>
  /\ current = None /\ pc = "idle"
  /\ changes = 0 /\ faults = 0
  /\ start = host /\ dirty = {} /\ retuned = {}

Keys(cs) == {cs[i].key : i \in DOMAIN cs}

\* The catalog's current value: read from the host, or when that fails what
\* preflight or the first snapshot recorded (nothing for limits and quotas).
Recorded(k) ==
  CASE k \in Scalars   -> Read(start, k)
    [] k = "directive" -> IF start.conf = <<>> THEN None ELSE start.conf[1]
    [] OTHER           -> None

ShownStale(k) == k = "directive" /\ host.conf = <<>>

\* PreApplyValidator: a value the catalog does not show as current already.
Acceptable(k, v, stale) == v # IF stale THEN Recorded(k) ELSE Read(host, k)

\* The next hypothesis of a group: not a no-op, its kind not in the group yet.
\* The applier reads the current value and starts its command.
Apply(k, v) ==
  /\ pc \in {"idle", "apply"} /\ current = None
  /\ Len(group) < MaxGroup /\ changes < MaxChanges
  /\ k \notin Keys(group) /\ Readable(host, k)
  /\ \/ Acceptable(k, v, ShownStale(k)) /\ UNCHANGED faults
     \/ ~ShownStale(k) /\ faults < MaxFaults /\ Acceptable(k, v, TRUE) /\ faults' = faults + 1
  /\ current' = NewChange(k, v) /\ script' = ApplierOf(host, k, v).apply
  /\ pc' = "apply" /\ changes' = changes + 1
  /\ UNCHANGED <<host, ledger, group, todo, start, dirty, retuned>>

\* The current value cannot be read: the change is refused before any command.
Refuse(k) ==
  /\ pc \in {"idle", "apply"} /\ current = None
  /\ Len(group) < MaxGroup /\ changes < MaxChanges
  /\ k \notin Keys(group)
  /\ Readable(host, k) => faults < MaxFaults
  /\ faults' = IF Readable(host, k) THEN faults + 1 ELSE faults
  /\ changes' = changes + 1
  /\ pc' = "undo" /\ todo' = group /\ group' = <<>>
  /\ UNCHANGED <<host, ledger, current, script, start, dirty, retuned>>

RunStep ==
  /\ script # <<>> /\ ~Fails(host, Head(script))
  /\ host' = Do(host, Head(script))
  /\ script' = Tail(script)
  /\ IF Tail(script) # <<>>
     THEN UNCHANGED <<group, current, todo>>
     ELSE /\ current' = None
          /\ IF pc = "apply" THEN group' = Append(group, current) /\ UNCHANGED todo
                             ELSE todo' = Tail(todo) /\ UNCHANGED group
  /\ UNCHANGED <<ledger, pc, changes, faults, start, dirty, retuned>>

MayFail(s) == Fails(host, s) \/ faults < MaxFaults
CountFault(s) == faults' = IF Fails(host, s) THEN faults ELSE faults + 1

\* After a rejected configuration or a failed reload the directive's applier
\* restores the file, and looks at the outcome for its message only.
Restored(h, s, c) ==
  IF c.key = "directive" /\ s.op \in {"check", "reload", "restart"}
  THEN LET r == Head(c.undo) IN IF Fails(h, r) THEN h ELSE Do(h, r)
  ELSE h

\* A step of an apply command fails: the applier raises, the change is in no
\* ledger, and what the group applied before it is rolled back.
ApplyStepFails ==
  /\ pc = "apply" /\ script # <<>> /\ MayFail(Head(script)) /\ CountFault(Head(script))
  /\ \E h \in Failed(host, Head(script)) :
        \/ host' = Restored(h, Head(script), current)
        \/ MaxFaults > 0 /\ host' = h   \* the restoration fails too
  /\ dirty' = IF View(host', current.key) = current.view THEN dirty
              ELSE dirty \cup {current.key}
  /\ script' = <<>> /\ current' = None
  /\ pc' = "undo" /\ todo' = group /\ group' = <<>>
  /\ UNCHANGED <<ledger, changes, start, retuned>>

\* validate() for the group's primary change: service active, probe answered,
\* configuration accepted, value observed.
Observed(h, c) ==
  CASE c.key \in Scalars   -> h[c.key] = c.applied
    [] c.key = "governor"  -> h.governor[0] = c.applied
    [] c.key = "directive" -> Last(h.conf) = c.applied
    [] c.key = "unit"      -> h.loaded = c.applied
    [] c.key = "quota"     -> NormalizedQuota(h) = c.applied
    [] c.key = "prlimit"   -> h.up /\ h.pid = c.pid /\ h.soft = c.applied

Healthy(h, c) ==
  /\ h.up /\ Observed(h, c)
  /\ c.key = "directive" => ~Fails(h, Step("check", None))

Validate ==
  /\ pc = "apply" /\ script = <<>> /\ group # <<>>
  /\ \/ Healthy(host, group[1]) /\ pc' = "bench" /\ UNCHANGED <<group, todo, faults>>
     \/ /\ Healthy(host, group[1]) => faults < MaxFaults   \* a probe fails
        /\ faults' = IF Healthy(host, group[1]) THEN faults + 1 ELSE faults
        /\ pc' = "undo" /\ todo' = group /\ group' = <<>>
  /\ UNCHANGED <<host, ledger, current, script, changes, start, dirty, retuned>>

EnteredTwice(l, cs) == l \o cs   \* mutant: a list instead of a dictionary

\* active_changes.update: one entry after the other replaces that of its kind
\* in its place, or comes last.
Enter(l, c) ==
  IF c.key \in Keys(l) THEN [i \in DOMAIN l |-> IF l[i].key = c.key THEN c ELSE l[i]]
                       ELSE Append(l, c)
Entered(l, cs) ==
  LET after[n \in 0..Len(cs)] == IF n = 0 THEN l ELSE Enter(after[n - 1], cs[n])
  IN after[Len(cs)]

Keep ==
  /\ pc = "bench"
  /\ ledger' = Entered(ledger, group)
  /\ retuned' = retuned \cup (Keys(ledger) \cap Keys(group))
  /\ group' = <<>> /\ pc' = "idle"
  /\ UNCHANGED <<host, current, script, todo, changes, faults, start, dirty>>

Discard ==
  /\ pc = "bench"
  /\ pc' = "undo" /\ todo' = group /\ group' = <<>>
  /\ UNCHANGED <<host, ledger, current, script, changes, faults, start, dirty, retuned>>

\* The session ends without a best configuration: every active change goes.
Exit ==
  /\ pc = "idle"
  /\ pc' = "exit" /\ todo' = ledger /\ ledger' = <<>>
  /\ UNCHANGED <<host, group, current, script, changes, faults, start, dirty, retuned>>

StartRollback ==
  /\ pc \in {"undo", "exit"} /\ script = <<>> /\ todo # <<>>
  /\ script' = Head(todo).undo /\ current' = Head(todo)
  /\ UNCHANGED <<host, ledger, group, todo, pc, changes, faults, start, dirty, retuned>>

\* RollbackCoordinator raises; _rollback_all warns and goes on with the next.
RollbackStepFails ==
  /\ pc \in {"undo", "exit"} /\ script # <<>> /\ MayFail(Head(script)) /\ CountFault(Head(script))
  /\ host' \in Failed(host, Head(script))
  /\ dirty' = dirty \cup {Head(todo).key}
  /\ script' = <<>> /\ current' = None /\ todo' = Tail(todo)
  /\ UNCHANGED <<ledger, group, pc, changes, start, retuned>>

RolledBack ==
  /\ pc = "undo" /\ todo = <<>>
  /\ pc' = "idle"
  /\ UNCHANGED <<host, ledger, group, current, script, todo, changes, faults, start, dirty, retuned>>

Next ==
  \/ \E k \in Kinds, v \in Values : Apply(k, v)
  \/ \E k \in Kinds : Refuse(k)
  \/ RunStep \/ ApplyStepFails \/ Validate \/ Keep \/ Discard
  \/ Exit \/ StartRollback \/ RollbackStepFails \/ RolledBack

Spec == Init /\ [][Next]_vars

-----------------------------------------------------------------------------
(* Properties.                                                             *)

TypeOK ==
  /\ host \in HostType /\ start \in HostType
  /\ Keys(ledger) \cup Keys(group) \cup Keys(todo) \cup dirty \cup retuned \subseteq Kinds
  /\ \A i, j \in DOMAIN ledger : i # j => ledger[i].key # ledger[j].key
  /\ pc \in {"idle", "apply", "bench", "undo", "exit"}
  /\ current = None <=> script = <<>>
  /\ changes \in 0..MaxChanges /\ faults \in 0..MaxFaults

\* Parameters whose rollback command, as the appliers build it, cannot bring
\* back what the host h has: CPUs with different governors, a directive that is
\* absent or has several values, an unlimited unit with a drop-in to rewrite,
\* a quota that reads as unlimited.
Lossy(h) ==
  {k \in Kinds :
     \/ k = "governor" /\ h.governor[0] # h.governor[1]
     \/ k = "directive" /\ (h.conf = <<>> \/ \E i \in DOMAIN h.conf : h.conf[i] # Last(h.conf))
     \/ k = "unit" /\ h.loaded = Inf /\ h.other # None
     \/ k = "quota" /\ h.quota \in Unparsable}

\* Safety: a parameter of the host that differs from what the session found is
\* accounted for: it is in the ledger, in the group under way or still to be
\* rolled back, unless its rollback command is lossy or a command on it failed
\* half way. (Limits of a process that has been replaced since are the new
\* process's, not the session's.)
NothingBehindTheLedger ==
  \A k \in Kinds :
     View(host, k) # View(start, k) =>
        \/ k \in Keys(ledger) \cup Keys(group) \cup Keys(todo)
        \/ current # None /\ current.key = k
        \/ k \in dirty \cup retuned \cup Lossy(start)
        \/ k = "prlimit" /\ host.pid # start.pid

InEffect(h, c) ==
  CASE c.key \in Scalars   -> h[c.key] = c.applied
    [] c.key = "governor"  -> \A p \in CPUs : h.governor[p] = c.applied
    [] c.key = "directive" -> h.run = c.applied
    [] c.key = "unit"      -> h.loaded = c.applied /\ h.plim = c.applied
    [] c.key = "quota"     -> h.quota = c.applied
    [] c.key = "prlimit"   -> h.soft = c.applied

ActiveWith(l, cs) == LET e == Entered(l, cs) IN {e[i] : i \in DOMAIN e}

\* Safety: when a group is benchmarked, the running service has every value
\* the ledger and the group claim, those of companions included, which
\* validate() does not look at; a process limit only while its process lives,
\* and a quota only if it can be read back: taking back a later change of a
\* quota that reads as unlimited lifts it.
MeasuredAsClaimed ==
  pc = "bench" =>
     \A c \in ActiveWith(ledger, group) :
        \/ InEffect(host, c)
        \/ c.key \in dirty
        \/ c.key = "prlimit" /\ host.pid # c.pid
        \/ c.key = "quota" /\ c.applied \in Unparsable

\* Safety: a directive value nginx rejected is not left in the file to fail
\* the next restart ("restores the original file immediately").
RejectedNeverStays ==
  pc = "idle" => \A i \in DOMAIN host.conf : host.conf[i] \notin Bad
=============================================================================
