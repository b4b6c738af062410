---------------------------- MODULE TuneSessionsInv ----------------------------
(***************************************************************************)
(* The inductive invariant of TuneSessions: what holds between any two     *)
(* steps of a session, and carries the properties of TuneSessions from one *)
(* state to the next.                                                      *)
(***************************************************************************)
EXTENDS TuneSessions

\* A group of changes is under way.
Working == step \in {"apply", "log", "verify", "undo", "undone", "record"}
\* Its changes are on the host and not yet kept or undone.
Unsettled == step \in {"apply", "log", "verify", "undo"}
\* The changes under way are judged worth keeping.
Keeping == outcome.decision = "accept" \/ (phase = "resolve" /\ outcome.decision = "inconclusive")
\* ... and are about to be kept.
Settling == step = "verify" \/ (step = "record" /\ Keeping)
\* The session is about to tune or tunes.
Tuning == Working \/ step \in {"measured", "resolve", "loop"}

\* The run in the knowledge base follows the session.
Books ==
  /\ step # "idle" => run >= FirstRun
  /\ step = "measured" => run \notin DOMAIN kb.runs
  /\ step \notin {"idle", "measured"} => run \in DOMAIN kb.runs
  /\ step = "finalized" => Finished(run)
  /\ run >= FirstRun /\ Finished(run) =>
       /\ step \in {"idle", "finalized"}
       /\ kb.runs[run].score = (IF best = NoBest THEN Absent ELSE best.score)
       /\ kb.runs[run].config = best.values /\ kb.runs[run].final = ActiveValues
  /\ run >= FirstRun /\ run \in DOMAIN kb.recipes => step = "idle"
  /\ best = NoBest \/ best.score > 0

\* A group is a list of changes of different keys, applied one by one.
Lists ==
  /\ step = "measured" \/ step = "resolve" =>
       phase = "resolve" /\ iteration = 0 /\ DOMAIN active = {} /\ asked = {} /\ host = start
  /\ Working => /\ hyps # <<>>
                /\ IF phase = "resolve" THEN iteration = 0 ELSE iteration < MaxIterations
  /\ \A i, j \in DOMAIN queue : queue[i][1] = queue[j][1] => i = j
  /\ step \in {"apply", "log"} => \A i \in DOMAIN queue : queue[i][1] \notin AppliedKeys
  /\ \A i, j \in DOMAIN applied : applied[i].key = applied[j].key => i = j
  /\ step \in {"log", "verify", "undone"} => applied # <<>>
  /\ step \in {"undo", "record"} /\ outcome.decision # "not_applied" => applied # <<>>

\* What is applied or still to apply are hypotheses of the group.
Drawn ==
  /\ Working => \A i, j \in DOMAIN hyps : hyps[i][1] = hyps[j][1] => i = j
  /\ Working => \A i \in DOMAIN applied :
       \E j \in DOMAIN hyps : hyps[j] = <<applied[i].key, applied[i].value>>
  /\ step \in {"apply", "log"} => \A i \in DOMAIN queue : \E j \in DOMAIN hyps : hyps[j] = queue[i]

\* What is decided when.
Decision ==
  LET d == outcome.decision
  IN /\ d = "accept" => outcome.score > 0
     /\ step = "verify" => d = "accept" /\ phase = "optimize"
     /\ step = "undo" => d \in (IF phase = "resolve" THEN {"unhealthy", "reject"}
                                ELSE {"unhealthy", "not_applied", "inconclusive", "reject"})
     /\ step = "undone" => d \in (IF phase = "resolve" THEN {"unhealthy", "reject"}
                                  ELSE {"unhealthy", "inconclusive", "reject"})
     /\ step = "record" => d \in (IF phase = "resolve" THEN Verdicts ELSE Verdicts \cup Mechanical)

\* The host is as the ledger says, the group under way apart, of which each
\* change says what it was made from.
InForce(k) == IF k \in DOMAIN active THEN active[k].value ELSE start[k]
Origin(k) == IF phase = "resolve" THEN start[k] ELSE InForce(k)

Accounted ==
  Tuning => \A k \in Keys \ blamed :
    IF Unsettled /\ k \in AppliedKeys
    THEN \A i \in DOMAIN applied :
           applied[i].key = k => host[k] = applied[i].value /\ applied[i].prev = Origin(k)
    ELSE host[k] = InForce(k)

\* A batch enters its changes in a ledger that was empty.
Entries ==
  phase = "resolve" =>
    /\ Working => DOMAIN active \subseteq AppliedKeys
    /\ Unsettled => \A i \in DOMAIN applied :
         \/ step = "log" /\ i = Len(applied)
         \/ applied[i].key \in DOMAIN active /\ active[applied[i].key] = applied[i]
    /\ step = "undone" \/ (step = "record" /\ ~Keeping) => DOMAIN active = {}

\* An active change can be undone to what the session found.
Undoable ==
  Tuning => \A k \in DOMAIN active \ (blamed \cup retuned) : active[k].prev = start[k]

\* What is on the host at the end.
Retained ==
  step \in {"restored", "finalized"} \/ (run >= FirstRun /\ Finished(run)) =>
    \A k \in Keys \ blamed :
      IF k \in DOMAIN active THEN host[k] = active[k].value
      ELSE k \notin retuned => host[k] = start[k]

\* The best configuration was on the host of an accepted benchmark.
Measured ==
  /\ best # NoBest => \E h \in accepted : \A k \in DOMAIN best.values \ blamed : h[k] = best.values[k]
  /\ step \in {"verify", "record"} /\ outcome.decision = "accept" => host \in accepted

\* Some accepted benchmark of the run was taken with the pair.
AcceptedPair(pair) ==
  \E j \in EventsOf(kb, run, "evaluation_completed") :
    LET e == kb.events[j].payload
    IN e.decision = "accept" /\ pair[1] \in DOMAIN e.values /\ e.values[pair[1]] = pair[2]

Proven ==
  /\ RecipesAreProven
  /\ \A i \in DOMAIN history :
       history[i].decision = "accept" => BenchmarkedStep(kb, run, history[i].pair)
  /\ step \in {"verify", "record"} /\ outcome.decision = "accept" => BenchmarkedStep(kb, run, hyps[1])

\* What the session keeps or would pass on was judged by a benchmark of its own,
\* which did not reject it; a batch is in the ledger before it is judged.
UpheldPair(k, v) ==
  \E j \in EventsOf(kb, run, "evaluation_completed") :
    LET e == kb.events[j].payload
    IN e.decision \in {"accept", "inconclusive"} /\ k \in DOMAIN e.values /\ e.values[k] = v

Unjudged == phase = "resolve" /\ step \in {"apply", "log", "undo"}

Judged ==
  /\ Settling => \A i \in DOMAIN applied : UpheldPair(applied[i].key, applied[i].value)
  /\ Settling /\ outcome.decision = "accept" =>
       \A i \in DOMAIN applied : AcceptedPair(<<applied[i].key, applied[i].value>>)
  /\ step # "idle" =>
       /\ \A k \in DOMAIN active : Unjudged \/ UpheldPair(k, active[k].value)
       /\ \A k \in DOMAIN best.values : UpheldPair(k, best.values[k])
       /\ best = NoBest \/ \E k \in DOMAIN best.values : AcceptedPair(<<k, best.values[k]>>)

\* The resolver and the generator know the pairs that failed, and spare them.
Unasked ==
  \A failed \in {BlockedPairs(kb, run)} :
    /\ step \notin {"idle", "measured", "resolve"} => failed \subseteq blocked
    /\ asked \cap failed = {}

\* The trail. The events of the group under way are those of its phase and
\* iteration; they come after all others of the run.
OfGroup(i) == kb.events[i].phase = phase /\ kb.events[i].iteration = iteration + 1
Changes == EventsOf(kb, run, "change_applied")
Undoing == EventsOf(kb, run, "rollback_completed") \cup EventsOf(kb, run, "apply_failed")
Outside == {i \in Lasting : ~OfGroup(i)}

\* The group applies its hypotheses; what is kept of it is in the ledger.
Members ==
  Working =>
    /\ KeysOf(queue) \cup AppliedKeys \subseteq KeysOf(hyps)
    /\ step = "apply" /\ phase = "optimize" /\ applied = <<>> => queue # <<>>

Entered ==
  step = "record" /\ Keeping => \A i \in DOMAIN applied :
    applied[i].key \in DOMAIN active /\ active[applied[i].key] = applied[i]

Numbered ==
  Tuning => \A i \in DOMAIN kb.events : kb.events[i].run = run =>
    /\ step \notin {"measured", "resolve"}
    /\ kb.events[i].iteration <= iteration + 1
    /\ kb.events[i].phase = "optimize" => phase = "optimize"
    /\ step = "loop" => ~(kb.events[i].phase = "optimize" /\ kb.events[i].iteration = iteration + 1)

\* The group's change events are those of the applied changes.
Logged == {n \in DOMAIN applied : step = "log" => n # Len(applied)}
GroupTrail ==
  Working =>
    /\ \A i \in Changes : OfGroup(i) =>
         /\ \E n \in Logged : kb.events[i].payload = applied[n]
         /\ \A j \in Changes : j >= i => OfGroup(j)
    /\ \A n \in Logged : \E i \in Changes : OfGroup(i) /\ kb.events[i].payload = applied[n]

\* What has become of a hypothesis of the group; an iteration stops at a failure.
Attempted ==
  step \in {"apply", "log"} => \A i \in DOMAIN hyps :
    \/ \E j \in DOMAIN queue : queue[j] = hyps[i]
    \/ \E n \in DOMAIN applied : hyps[i] = <<applied[n].key, applied[n].value>>
    \/ /\ phase = "resolve"
       /\ \E j \in EventsOf(kb, run, "apply_failed") :
            OfGroup(j) /\ kb.events[j].payload.key = hyps[i][1]

\* Whether an event tells that the group is undone.
GroupUndone == \E j \in Undoing : \A i \in Changes : OfGroup(i) => UndoneBy(j, i)
GroupKept == \A j \in Undoing : \A i \in Changes : OfGroup(i) => ~UndoneBy(j, i)

GroupVerdict ==
  /\ step \in {"apply", "log", "verify"} => GroupKept
  /\ step = "record" => IF Keeping THEN GroupKept ELSE GroupUndone
  /\ step = "undo" /\ outcome.decision = "not_applied" => GroupUndone

\* Between groups the trail says what is in force, and leaving the group under
\* way out, what its changes were made from.
TrailExact ==
  Tuning => \A outside \in {Outside}, lasting \in {Lasting}, k \in Keys \ blamed :
    IF Working
    THEN \/ step = "record" /\ Keeping /\ k \in AppliedKeys
         \/ TrailValue(outside, k) = Origin(k)
    ELSE TrailValue(lasting, k) = InForce(k)

IInv ==
  /\ TypeOK /\ Books /\ Lists /\ Decision
  /\ Accounted /\ Entries /\ Undoable /\ Retained
  /\ Measured /\ Proven /\ Drawn /\ Judged /\ Unasked
  /\ Members /\ Entered /\ Numbered /\ GroupTrail /\ Attempted /\ GroupVerdict /\ TrailExact
  /\ TrailAccountsForHost
=============================================================================
