----------------------------- MODULE TuneSessions -----------------------------
(***************************************************************************)
(* Sessions with a unified resolver, one after the other on one host that  *)
(* may be degraded anew between them: the stages of HostTuneInstance and   *)
(* the engine's use of the knowledge base. What a session writes there,    *)
(* event by event, is all a later session knows of it, and all there is    *)
(* to go by when a session is cut off.                                     *)
(*                                                                         *)
(* Composes KnowledgeBase, UnifiedResolver and HypothesisGroups. How a     *)
(* change is undone and verified step by step is TuneSession's subject:    *)
(* here one action rolls back a group, the catalog is read afresh, and     *)
(* rollback_required is true.                                              *)
(***************************************************************************)
EXTENDS KnowledgeBase, UnifiedResolver, HypothesisGroups, SequencesExt

CONSTANTS
  Hosts,          \* configurations a session may find the host in
  Values,         \* values of a parameter
  Shape,          \* class of the baseline under cosine similarity, by configuration
  Proposals,      \* <<key, value>> pairs the LLM may come up with
  Refused,        \* pairs a candidate's allowed and forbidden values or bounds exclude
  Gains,          \* [score, rps] an accepted benchmark may show
  InitialKBs,     \* knowledge bases the first session may find
  FirstRun, LastRun,                 \* numbers of the sessions considered
  MaxIterations,                     \* bound: iterations of a session
  MaxFaults                          \* bound: failed commands and crashes in all

Keys == {Graph[i].key : i \in DOMAIN Graph}
NoBest == [score |-> 0, values |-> Nothing]
NoOutcome == [decision |-> "none", score |-> 0, rps |-> 0]

ASSUME SessionsAssumption ==
  /\ Values \subseteq Nat
  /\ Hosts \subseteq [Keys -> Values] /\ DOMAIN Shape = [Keys -> Values]
  /\ Similarity \in [Range(Shape) \X Range(Shape) -> Nat]
  /\ Proposals \subseteq Keys \X Values
  /\ Gains \subseteq [score : Nat \ {0}, rps : Nat]
  /\ FirstRun \in Nat \ {0} /\ LastRun \in Nat /\ FirstRun <= LastRun + 1
  /\ MaxIterations \in Nat /\ MaxFaults \in Nat

\* A key occurs once in the graph and in one parameter group at most.
ASSUME GraphAssumption ==
  /\ Graph \in Seq(Range(Graph)) /\ Rules \in Seq(Range(Rules))
  /\ ParameterGroups \in Seq(Range(ParameterGroups))
  /\ \A i, j \in DOMAIN Graph : Graph[i].key = Graph[j].key => i = j
  /\ \A i \in DOMAIN Graph :
       /\ {Graph[i].target, Graph[i].expr, Graph[i].floor, Graph[i].ceiling} \subseteq Values \cup {Unset}
       /\ \A j \in DOMAIN Graph[i].from :
            Graph[i].from[j] \in {"recipe", "kb", "graph", "autofix", "llm"}
  /\ \A i \in DOMAIN Rules : Rules[i].value \in Values
  /\ \A i, j \in DOMAIN ParameterGroups : ParameterGroups[i].key = ParameterGroups[j].key => i = j
  /\ \A i \in DOMAIN ParameterGroups : ParameterGroups[i].value \in Values
  /\ RlimitMin \in Values /\ RlimitMax \in Values

VARIABLES
  host,        \* the target's configuration
  kb,          \* the knowledge base
  run,         \* number of the session, its session_id
  step,        \* how far it is; "idle" between sessions
  phase,       \* "resolve" for the resolver's batch, "optimize" in the loop
  baseline,    \* class of its baseline benchmark
  blocked,     \* prior_blocked_pairs
  hyps,        \* hypotheses of the batch, iteration or restoration under way
  queue,       \* those still to apply
  applied,     \* its applied changes, in order: key, prev, value
  outcome,     \* decision on it, and the gain of an accepted one
  active,      \* state.active_changes
  best,        \* state.best_configuration
  history,     \* state.history: pair and decision
  records,     \* applied_change of every iteration record
  iteration,   \* state.total_iterations
  faults       \* counted against the bound

VARIABLES    \* history variables: no action reads them
  start,       \* the host when the session began
  blamed,      \* keys a failed command of the session was about
  accepted,    \* hosts whose benchmark was accepted in the session
  retuned,     \* keys an iteration changed that were active already
  asked        \* pairs the resolver or the generator came up with

group == <<hyps, queue, applied, outcome>>
state == <<phase, baseline, blocked, active, best, history, records, iteration>>
ghosts == <<start, blamed, accepted, retuned, asked>>
vars == <<host, kb, run, step, group, state, faults, ghosts>>

\* Events carry the iteration under way and its phase.
Event(kind, payload) ==
  [run |-> run, kind |-> kind, phase |-> phase, iteration |-> iteration + 1, payload |-> payload]

AppliedKeys == {applied[i].key : i \in DOMAIN applied}
AppliedValues == [k \in AppliedKeys |->
                    (CHOOSE c \in {applied[i] : i \in DOMAIN applied} : c.key = k).value]
Ledger(changes) == [k \in {changes[i].key : i \in DOMAIN changes} |->
                      CHOOSE c \in {changes[i] : i \in DOMAIN changes} : c.key = k]
ActiveValues == [k \in DOMAIN active |-> active[k].value]
Planned == [k \in Keys |-> IF k \in DOMAIN active THEN active[k].value ELSE host[k]]
Tried == {history[i].pair : i \in DOMAIN history}

\* The hosts that result when commands are to set the keys of target, and those
\* for the keys in bad fail, with or without an effect.
After(target, bad) ==
  {[k \in Keys |-> IF k \in DOMAIN target \ undone THEN target[k] ELSE host[k]] :
     undone \in SUBSET bad}

Run(target, bad) ==
  /\ faults + Cardinality(bad) <= MaxFaults
  /\ faults' = faults + Cardinality(bad)
  /\ blamed' = blamed \cup bad
  /\ host' \in After(target, bad)

-----------------------------------------------------------------------------
Init ==
  /\ host \in Hosts /\ start = host
  /\ kb \in InitialKBs
  /\ run = FirstRun - 1 /\ step = "idle" /\ phase = "resolve"
  /\ baseline = Shape[host] /\ blocked = {}
  /\ hyps = <<>> /\ queue = <<>> /\ applied = <<>> /\ outcome = NoOutcome
  /\ active = Nothing /\ best = NoBest /\ history = <<>> /\ records = <<>>
  /\ iteration = 0 /\ faults = 0
  /\ blamed = {} /\ accepted = {} /\ retuned = {} /\ asked = {}

\* Preflight to baseline: a new HostTuneInstance, on the host as it is or as
\* somebody degraded it meanwhile.
Begin ==
  /\ step = "idle" /\ run < LastRun
  /\ run' = run + 1 /\ step' = "measured" /\ phase' = "resolve"
  /\ host' \in Hosts \cup {host} /\ start' = host'
  /\ baseline' = Shape[host'] /\ blocked' = {}
  /\ hyps' = <<>> /\ queue' = <<>> /\ applied' = <<>> /\ outcome' = NoOutcome
  /\ active' = Nothing /\ best' = NoBest /\ history' = <<>> /\ records' = <<>>
  /\ iteration' = 0 /\ blamed' = {} /\ accepted' = {} /\ retuned' = {} /\ asked' = {}
  /\ UNCHANGED <<kb, faults>>

SessionNotRecorded ==   \* mutant
  /\ step = "measured" /\ step' = "resolve"
  /\ UNCHANGED <<host, kb, run, group, state, faults, ghosts>>

BuildTuneContext ==
  /\ step = "measured" /\ step' = "resolve"
  /\ kb' = RecordRun(kb, run)
  /\ UNCHANGED <<host, run, group, state, faults, ghosts>>

\* run(): what the knowledge base knows, and the resolver's batch.
ResolveGraph ==
  /\ step = "resolve"
  /\ blocked' = BlockedPairs(kb, run)
  /\ hyps' = Resolve([current |-> host, active |-> DOMAIN active,
                      recipe |-> Recipe(kb, run, baseline),
                      best |-> PriorBestConfig(kb, run), sure |-> Confident(kb, run, 80),
                      blocked |-> blocked'])
  /\ queue' = hyps' /\ applied' = <<>> /\ outcome' = NoOutcome
  /\ step' = IF hyps' = <<>> THEN "loop" ELSE "apply"
  /\ asked' = {hyps'[i] : i \in DOMAIN hyps'}
  /\ UNCHANGED <<host, kb, run, phase, baseline, active, best, history, records,
                 iteration, faults, start, blamed, accepted, retuned>>

-----------------------------------------------------------------------------
(* A batch or an iteration: apply, judge, keep or undo, record.            *)

Apply ==
  /\ step = "apply" /\ queue # <<>>
  /\ LET h == Head(queue)
     IN /\ host' = [host EXCEPT ![h[1]] = h[2]]
        /\ applied' = Append(applied, [key |-> h[1], prev |-> host[h[1]], value |-> h[2]])
  /\ queue' = Tail(queue) /\ step' = "log"
  /\ UNCHANGED <<kb, run, hyps, outcome, state, faults, ghosts>>

\* A batch enters each change in the ledger at once, an iteration at the end.
LogApplied ==
  /\ step = "log" /\ step' = "apply"
  /\ LET c == applied[Len(applied)]
     IN /\ kb' = Record(kb, Event("change_applied", c))
        /\ active' = IF phase = "resolve" THEN With(active, c.key, c) ELSE active
  /\ UNCHANGED <<host, run, group, phase, baseline, blocked, best, history, records,
                 iteration, faults, ghosts>>

\* A failed command: a batch goes on without the change, an iteration breaks
\* off and undoes what it has applied.
ApplyFails ==
  /\ step = "apply" /\ queue # <<>> /\ faults < MaxFaults
  /\ LET h == Head(queue)
     IN /\ host' \in After([k \in {h[1]} |-> h[2]], {h[1]})
        /\ blamed' = blamed \cup {h[1]}
        /\ kb' = Record(kb, Event("apply_failed", [key |-> h[1]]))
  /\ faults' = faults + 1
  /\ IF phase = "resolve"
     THEN queue' = Tail(queue) /\ UNCHANGED <<step, outcome>>
     ELSE queue' = <<>> /\ step' = "undo" /\ outcome' = [NoOutcome EXCEPT !.decision = "not_applied"]
  /\ UNCHANGED <<run, hyps, applied, state, start, accepted, retuned, asked>>

NothingApplied ==
  /\ step = "apply" /\ queue = <<>> /\ applied = <<>>
  /\ step' = "loop" /\ hyps' = <<>>
  /\ UNCHANGED <<host, kb, run, queue, applied, outcome, state, faults, ghosts>>

ValidationFails ==
  /\ step = "apply" /\ queue = <<>> /\ applied # <<>>
  /\ outcome' = [NoOutcome EXCEPT !.decision = "unhealthy"] /\ step' = "undo"
  /\ UNCHANGED <<host, kb, run, hyps, queue, applied, state, faults, ghosts>>

\* evaluation_completed names the applied changes and, applied or not, the
\* first hypothesis. A batch is undone only when rejected.
Evaluate(o) ==
  /\ step = "apply" /\ queue = <<>> /\ applied # <<>>
  /\ outcome' = o
  /\ kb' = Record(kb, Event("evaluation_completed",
                           [decision |-> o.decision,
                            values |-> With(AppliedValues, hyps[1][1], hyps[1][2])]))
  /\ accepted' = IF o.decision = "accept" THEN accepted \cup {host} ELSE accepted
  /\ step' = CASE phase = "resolve" -> IF o.decision = "reject" THEN "undo" ELSE "record"
               [] phase = "optimize" -> IF o.decision = "accept" THEN "verify" ELSE "undo"
  /\ UNCHANGED <<host, run, hyps, queue, applied, state, faults, start, blamed, retuned, asked>>

\* The gain is attributed to the primary change, or attribution is skipped.
Attributed ==
  /\ step = "verify" /\ step' = "record"
  /\ active' = [k \in DOMAIN active \cup AppliedKeys |->
                  IF k \in AppliedKeys THEN Ledger(applied)[k] ELSE active[k]]
  /\ retuned' = retuned \cup (DOMAIN active \cap AppliedKeys)
  /\ UNCHANGED <<host, kb, run, group, phase, baseline, blocked, best, history, records,
                 iteration, faults, start, blamed, accepted, asked>>

\* It is not, or is too small to be worth verifying.
NotAttributed ==
  /\ step = "verify" /\ step' = "undo"
  /\ outcome' = [NoOutcome EXCEPT !.decision = "inconclusive"]
  /\ UNCHANGED <<host, kb, run, hyps, queue, applied, state, faults, ghosts>>

LedgerNotPurged ==   \* mutant: changes rolled back stay in the ledger
  /\ step = "undo"
  /\ \E bad \in SUBSET AppliedKeys : Run([k \in AppliedKeys |-> Ledger(applied)[k].prev], bad)
  /\ step' = IF outcome.decision = "not_applied" THEN "record" ELSE "undone"
  /\ UNCHANGED <<kb, run, group, phase, baseline, blocked, active, best, history, records,
                 iteration, start, accepted, retuned, asked>>

\* _rollback_all; after a failed apply no event follows.
RollBackAll ==
  /\ step = "undo"
  /\ \E bad \in SUBSET AppliedKeys : Run([k \in AppliedKeys |-> Ledger(applied)[k].prev], bad)
  /\ active' = IF phase = "resolve"
               THEN [k \in DOMAIN active \ AppliedKeys |-> active[k]] ELSE active
  /\ step' = IF outcome.decision = "not_applied" THEN "record" ELSE "undone"
  /\ UNCHANGED <<kb, run, group, phase, baseline, blocked, best, history, records,
                 iteration, start, accepted, retuned, asked>>

RolledBackSilently ==   \* mutant: no rollback_completed
  /\ step = "undone"
  /\ IF phase = "resolve" /\ outcome.decision = "unhealthy"
     THEN step' = "loop" /\ hyps' = <<>>
     ELSE step' = "record" /\ UNCHANGED hyps
  /\ UNCHANGED <<host, kb, run, queue, applied, outcome, state, faults, ghosts>>

\* A batch that failed validation leaves no iteration record.
LogRollBack ==
  /\ step = "undone"
  /\ kb' = Record(kb, Event("rollback_completed", [keys |-> AppliedKeys]))
  /\ IF phase = "resolve" /\ outcome.decision = "unhealthy"
     THEN step' = "loop" /\ hyps' = <<>>
     ELSE step' = "record" /\ UNCHANGED hyps
  /\ UNCHANGED <<host, run, queue, applied, outcome, state, faults, ghosts>>

\* record_iteration, with the first hypothesis and the first applied change;
\* in the loop the pair is blocked for the rest of the session unless it was
\* rejected on its merits (then the generator finds it in the history).
RecordIteration ==
  /\ step = "record" /\ step' = "loop"
  /\ iteration' = iteration + 1
  /\ history' = Append(history, [pair |-> hyps[1], decision |-> outcome.decision])
  /\ records' = IF outcome.decision = "not_applied" THEN records ELSE Append(records, applied[1])
  /\ blocked' = IF phase = "optimize" /\ outcome.decision \in {"unhealthy", "not_applied", "inconclusive"}
                THEN blocked \cup {hyps[1]} ELSE blocked
  /\ IF outcome.decision = "accept" /\ outcome.score > best.score
     THEN /\ best' = [score |-> outcome.score, values |-> ActiveValues]
          /\ kb' = Record(kb, Event("best_config_updated", [rps |-> outcome.rps]))
     ELSE UNCHANGED <<best, kb>>
  /\ hyps' = <<>>
  /\ UNCHANGED <<host, run, queue, applied, outcome, phase, baseline, active, faults, ghosts>>

-----------------------------------------------------------------------------
(* The loop: OPTIMIZE tries keys without an active change that have not    *)
(* failed on their merits, EXPLOIT those of the best configuration.        *)

Allowed(h) == h \notin Refused /\ host[h[1]] # h[2]

\* _suppress_failed_keys
Mechanical == {"refused", "unhealthy", "not_applied"}
Suppressed(k) ==
  LET decided == {history[i].decision : i \in {j \in DOMAIN history : history[j].pair[1] = k}}
  IN decided \ Mechanical # {} /\ "accept" \notin decided

\* The generator's answer is the autofix of the triage rules or, if there is none
\* or it is blocked, the LLM's, which alone is checked against the history and
\* the candidate. Which candidates a phase leaves is the subject of TunePhases:
\* at the least, the one the answer is about.
Offered(h) ==
  /\ h \notin blocked
  /\ LET fix == AutofixAction([k \in {h[1]} |-> host[k]])
     IN IF fix \subseteq blocked THEN h \in Proposals \ Tried /\ Allowed(h) ELSE h \in fix
  /\ \/ h[1] \notin DOMAIN active /\ ~Suppressed(h[1])
     \/ best = NoBest \/ h[1] \in DOMAIN best.values

Rejected(all) == ChainViolated(all, Planned) \/ ~Allowed(all[1])

\* Companions that pre-apply validation refuses are left out after the limit
\* chain was checked with them.
Propose(h) ==
  /\ step = "loop" /\ iteration < MaxIterations /\ Offered(h)
  /\ LET all == Normalized(<<h>>, host, Planned)
     IN ~Rejected(all) /\ hyps' = Selected(all, {i \in DOMAIN all : Allowed(all[i])})
  /\ queue' = hyps' /\ applied' = <<>> /\ outcome' = NoOutcome
  /\ phase' = "optimize" /\ step' = "apply"
  /\ asked' = asked \cup {h}
  /\ UNCHANGED <<host, kb, run, baseline, blocked, active, best, history, records,
                 iteration, faults, start, blamed, accepted, retuned>>

RejectBeforeApply(h) ==
  /\ step = "loop" /\ iteration < MaxIterations /\ Offered(h)
  /\ LET all == Normalized(<<h>>, host, Planned)
     IN /\ Rejected(all)
        /\ history' = Append(history, [pair |-> all[1], decision |-> "refused"])
        /\ blocked' = blocked \cup {all[1]}
  /\ iteration' = iteration + 1
  /\ asked' = asked \cup {h}
  /\ UNCHANGED <<host, kb, run, step, group, phase, baseline, active, best, records, faults,
                 start, blamed, accepted, retuned>>

\* _restore_best_configuration, whenever a stop reason holds: changes the best
\* configuration does not have are undone, values it has are applied again where
\* the records tell how. No event tells.
Sources(k) == {i \in DOMAIN records : records[i].key = k /\ records[i].value = best.values[k]}
Surplus == DOMAIN active \ DOMAIN best.values
Lacking ==
  {k \in DOMAIN best.values :
     /\ k \in DOMAIN active => active[k].value # best.values[k]
     /\ Sources(k) # {}}

RestorationKeepsSurplus ==   \* mutant: left out of the ledger, left on the host
  [k \in Surplus \cup Lacking |-> IF k \in Surplus THEN active[k].value ELSE best.values[k]]

Restoration ==
  [k \in Surplus \cup Lacking |-> IF k \in Surplus THEN active[k].prev ELSE best.values[k]]

RestoreBest ==
  /\ step = "loop" /\ step' = "restored"
  /\ \E bad \in SUBSET (Surplus \cup Lacking) :
       /\ Run(Restoration, bad)
       /\ active' = [k \in (DOMAIN active \ Surplus) \cup (Lacking \ bad) |->
                       IF k \in Lacking \ bad THEN records[Min(Sources(k))] ELSE active[k]]
  /\ hyps' = SetToSeq({<<k, Restoration[k]>> : k \in DOMAIN Restoration})
  /\ UNCHANGED <<kb, run, queue, applied, outcome, phase, baseline, blocked, best, history,
                 records, iteration, start, accepted, retuned, asked>>

Finalize ==
  /\ step = "restored" /\ step' = "finalized"
  /\ kb' = FinalizeRun(kb, run, IF best = NoBest THEN Absent ELSE best.score,
                       best.values, ActiveValues)
  /\ UNCHANGED <<host, run, group, state, faults, ghosts>>

AllSteps == [i \in DOMAIN history |-> history[i].pair]   \* mutant

FixSequence ==
  Selected([i \in DOMAIN history |-> history[i].pair],
           {i \in DOMAIN history : history[i].decision = "accept"})

StoreFixes ==
  /\ step = "finalized" /\ step' = "idle"
  /\ kb' = IF best = NoBest \/ FixSequence = <<>> THEN kb
           ELSE StoreRecipe(kb, run, baseline, FixSequence, best.score)
  /\ UNCHANGED <<host, run, group, state, faults, ghosts>>

\* A kill, or an exception that leaves run_tune: the instance is gone, the host
\* and the knowledge base stay. (What the instance held is kept for the
\* invariants to look at; the next session begins with its own.)
Crash ==
  /\ step # "idle" /\ step' = "idle"
  /\ faults < MaxFaults /\ faults' = faults + 1
  /\ UNCHANGED <<host, kb, run, group, state, ghosts>>

Outcomes == {[decision |-> "accept", score |-> g.score, rps |-> g.rps] : g \in Gains}
            \cup {[NoOutcome EXCEPT !.decision = d] : d \in {"inconclusive", "reject"}}

Next ==
  \/ Begin \/ BuildTuneContext \/ ResolveGraph
  \/ Apply \/ LogApplied \/ ApplyFails \/ NothingApplied
  \/ ValidationFails
  \/ \E o \in Outcomes : Evaluate(o)
  \/ Attributed \/ NotAttributed \/ RollBackAll \/ LogRollBack \/ RecordIteration
  \/ \E h \in Keys \X Values : Propose(h) \/ RejectBeforeApply(h)
  \/ RestoreBest \/ Finalize \/ StoreFixes \/ Crash

Spec == Init /\ [][Next]_vars

-----------------------------------------------------------------------------
(* Properties.                                                             *)

Change == [key : Keys, prev : Values, value : Values]
Pairs == Keys \X Values
Steps == {"idle", "measured", "resolve", "apply", "log", "verify", "undo", "undone",
          "record", "loop", "restored", "finalized"}
Phases == {"resolve", "optimize"}
Verdicts == {"accept", "inconclusive", "reject"}
Decided == Verdicts \cup Mechanical \cup {"none"}
Configs == UNION {[K -> Values] : K \in SUBSET Keys}    \* values of some of the keys

EventsWith(kind, payloads) ==
  [run : Nat, kind : {kind}, phase : Phases, iteration : Nat, payload : payloads]
Events ==
  EventsWith("change_applied", Change)
    \cup EventsWith("apply_failed", [key : Keys])
    \cup EventsWith("rollback_completed", [keys : SUBSET Keys])
    \cup EventsWith("evaluation_completed", [decision : Verdicts, values : Configs])
    \cup EventsWith("best_config_updated", [rps : Nat])

\* A run of the knowledge base and a recipe, as the queries return them.
RunRecord == [completed : Nat, score : Nat \cup {Absent},
              config : Configs, final : Configs]
RecipeRecord == [shape : {Shape[h] : h \in DOMAIN Shape}, steps : Seq(Pairs), score : Nat]

\* A knowledge base after the runs up to r.
KnowledgeBaseOK(K, r) ==
  /\ K = [runs |-> K.runs, events |-> K.events, recipes |-> K.recipes]
  /\ DOMAIN K.runs \subseteq 1..r /\ K.runs \in [DOMAIN K.runs -> RunRecord]
  /\ DOMAIN K.recipes \subseteq DOMAIN K.runs /\ K.recipes \in [DOMAIN K.recipes -> RecipeRecord]
  /\ K.events \in Seq(Events) /\ \A i \in DOMAIN K.events : K.events[i].run \in DOMAIN K.runs

\* Types of the session's state.
TypeOK ==
  /\ host \in [Keys -> Values] /\ start \in [Keys -> Values] /\ accepted \subseteq [Keys -> Values]
  /\ run \in (FirstRun - 1)..LastRun /\ step \in Steps /\ phase \in Phases
  /\ KnowledgeBaseOK(kb, run) /\ baseline \in {Shape[h] : h \in DOMAIN Shape}
  /\ blocked \subseteq Pairs /\ asked \subseteq Pairs
  /\ hyps \in Seq(Pairs) /\ queue \in Seq(Pairs)
  /\ applied \in Seq(Change) /\ records \in Seq(Change)
  /\ outcome \in [decision : Decided, score : Nat, rps : Nat]
  /\ DOMAIN active \subseteq Keys /\ active \in [DOMAIN active -> Change]
  /\ \A k \in DOMAIN active : active[k].key = k
  /\ best \in [score : Nat, values : Configs]
  /\ history \in Seq([pair : Pairs, decision : Decided])
  /\ iteration \in 0..(MaxIterations + 1) /\ faults \in 0..MaxFaults
  /\ blamed \subseteq Keys /\ retuned \subseteq Keys

Finished(r) == r \in DOMAIN kb.runs /\ kb.runs[r].completed > 0

\* The events of one kind that precede event j in its run, phase and iteration.
Preceding(K, j, kind) ==
  {i \in EventsOf(K, K.events[j].run, kind) :
     i < j /\ K.events[i].phase = K.events[j].phase /\ K.events[i].iteration = K.events[j].iteration}

\* Run r set key s[1] to s[2] and accepted the benchmark that followed. That
\* its decision names the pair is not enough: of a batch it names the first
\* hypothesis whether or not its command failed, and then the failure is on
\* record instead of the change.
BenchmarkedStep(K, r, s) ==
  \E j \in EventsOf(K, r, "evaluation_completed") :
    LET e == K.events[j].payload
    IN /\ e.decision = "accept" /\ s[1] \in DOMAIN e.values /\ e.values[s[1]] = s[2]
       /\ \/ \E i \in Preceding(K, j, "change_applied") :
               K.events[i].payload.key = s[1] /\ K.events[i].payload.value = s[2]
          \/ /\ K.events[j].phase = "resolve"
             /\ \E i \in Preceding(K, j, "apply_failed") : K.events[i].payload.key = s[1]

ProvenRecipe(K, r) ==
  /\ r \in DOMAIN K.runs /\ K.runs[r].completed > 0
  /\ K.runs[r].score = K.recipes[r].score /\ K.recipes[r].score > 0
  /\ \A i \in DOMAIN K.recipes[r].steps : BenchmarkedStep(K, r, K.recipes[r].steps[i])

\* What earlier runs have left in the knowledge base is of this kind.
ASSUME KnowledgeAssumption ==
  \A K \in InitialKBs : KnowledgeBaseOK(K, FirstRun - 1) /\ \A r \in DOMAIN K.recipes : ProvenRecipe(K, r)

\* The value the trail of events gives key k: that of its latest change that no
\* later event of the same iteration says was undone.
UndoneBy(j, i) ==
  LET e == kb.events[i]  u == kb.events[j]
  IN /\ j > i /\ u.iteration = e.iteration /\ u.phase = e.phase
     /\ \/ u.kind = "rollback_completed" /\ e.payload.key \in u.payload.keys
        \/ u.kind = "apply_failed" /\ u.phase = "optimize"

Lasting ==
  LET undoing == EventsOf(kb, run, "rollback_completed") \cup EventsOf(kb, run, "apply_failed")
  IN {i \in EventsOf(kb, run, "change_applied") : \A j \in undoing : ~UndoneBy(j, i)}

TrailValue(lasting, k) ==
  LET made == {i \in lasting : kb.events[i].payload.key = k}
  IN IF made = {} THEN start[k] ELSE kb.events[Max(made)].payload.value

\* Wherever a session is cut off, its events in the knowledge base tell which
\* changes it left on the host: the trail and the host differ at most at the
\* keys of the one batch, iteration or restoration that was under way, and at
\* keys whose command failed.
TrailAccountsForHost ==
  run >= FirstRun /\ ~Finished(run) =>
    \A lasting \in {Lasting}, k \in Keys \ (blamed \cup KeysOf(hyps)) :
      host[k] = TrailValue(lasting, k)

\* The final_retained_config of a finished run is what it left on the host, and
\* every other parameter is back where the session found it, commands that
\* failed apart. (A change is undone to the value it was made from: a key that an
\* iteration changed anew while it was active is back at what it was then.)
FinalConfigIsTrue ==
  run >= FirstRun /\ Finished(run) =>
    \A k \in Keys \ blamed :
      IF k \in DOMAIN kb.runs[run].final THEN host[k] = kb.runs[run].final[k]
      ELSE k \notin retuned => host[k] = start[k]

\* The best configuration a finished run offers to later ones was measured as a
\* whole: some benchmark the run accepted was taken with all its values on the
\* host.
BestConfigWasMeasured ==
  run >= FirstRun /\ Finished(run) /\ kb.runs[run].score # Absent =>
    \E h \in accepted : \A k \in DOMAIN kb.runs[run].config \ blamed :
      h[k] = kb.runs[run].config[k]

\* Every recipe belongs to a finished run that gained something, and each of
\* its steps was applied by that run before a benchmark it accepted, in the same
\* batch or iteration; a crash never leaves a recipe of less. The one exception
\* is a step the resolver's batch began with and could not apply: the decision
\* on the batch is filed under it, so that the recipe has a step that may never
\* have been on the host, but the run's events tell of the failure.
RecipesAreProven ==
  \A r \in DOMAIN kb.recipes : ProvenRecipe(kb, r)

\* A pair that failed in a run the session consults is not asked for again, by
\* the resolver or the generator: where the session applies one all the same,
\* only normalisation can have put it there.
FailedPairsStayBlocked ==
  \A j \in Decisions(kb, SimilarRuns(kb, run, BlockedRuns)),
     i \in EventsOf(kb, run, "change_applied") :
    LET e == kb.events[i].payload  f == kb.events[j].payload
    IN f.decision # "accept" /\ e.key \in DOMAIN f.values /\ f.values[e.key] = e.value
         => <<e.key, e.value>> \notin asked

\* What a session was told when it began stays true while it runs: nothing it
\* records changes the answers about other runs, so that the blocked pairs read
\* once are those a later look would find, and it never learns from itself.
\* (KnowledgeBase.get_prior_blocked_pairs, find_similar_runs, lookup_degradation_recipe)
AnswersStand ==
  [][run' = run =>
       /\ BlockedPairs(kb', run) = BlockedPairs(kb, run)
       /\ Confident(kb', run, 80) = Confident(kb, run, 80)
       /\ PriorBestConfig(kb', run) = PriorBestConfig(kb, run)
       /\ Recipe(kb', run, baseline) = Recipe(kb, run, baseline)]_<<kb, run>>

\* What the dependency graph demands of the resolver's batch: as long as no
\* command failed, a parameter it sets stays within its limit on the host.
LimitsHold ==
  step = "loop" /\ phase = "resolve" /\ blamed = {} =>
    \A i \in DOMAIN Graph :
      Graph[i].key \in DOMAIN active /\ Graph[i].within # Unset
        => host[Graph[i].key] <= host[Graph[i].within]
=============================================================================
