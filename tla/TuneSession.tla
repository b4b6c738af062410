----------------------------- MODULE TuneSession -----------------------------
(***************************************************************************)
(* One tuning session: what TuneEngine.run does to the target host and to  *)
(* its ledger of active changes, from the first pre-loop change to the     *)
(* restoration on exit.                                                    *)
(*                                                                         *)
(* The session applies changes through shell commands that may fail, may   *)
(* fail half way, and may fail again when they are undone; it benchmarks   *)
(* the host after each group of changes and keeps or undoes the group.     *)
(* Phases, candidate filters and stop reasons only decide WHICH change is  *)
(* tried and WHEN the session stops: here both are arbitrary.              *)
(***************************************************************************)
EXTENDS Naturals

CONSTANTS
  Keys,              \* tunable parameters (parameter_key)
  Values,            \* the values they take on the host
  Baseline,          \* the host's configuration when tuning starts
  None,              \* "no entry" in the ledger, "no value" in a best config
  Unified,           \* a unified_resolver is configured
  RollbackRequired,  \* engagement policy rollback_required
  SkipAttribution,   \* tune.skip_attribution
  MaxIterations,     \* bound: loop iterations of a session
  MaxScore           \* bound: distinct average gains an ACCEPT can have

Change == [prev : Values, applied : Values]       \* an AppliedChange
Entry  == Change \cup {None}

ASSUME SessionAssumption ==
  /\ Baseline \in [Keys -> Values]
  /\ None \notin Change /\ None \notin Values
  /\ Unified \in BOOLEAN /\ RollbackRequired \in BOOLEAN /\ SkipAttribution \in BOOLEAN
  /\ MaxIterations \in Nat /\ MaxScore \in Nat

VARIABLES
  host,        \* value of every parameter on the target
  active,      \* state.active_changes
  pending,     \* applied_changes of the iteration or batch under way
  wanted,      \* its <<key, value>> hypotheses not yet applied
  primary,     \* key of primary_applied_change
  lead,        \* primary_applied_change
  reverted,    \* attribution has undone the primary change for now
  undo,        \* keys still to roll back, or at exit to re-apply
  verdict,     \* outcome of the iteration or batch under way
  score,       \* its average gain
  best,        \* state.best_configuration: score and parameter_values
  recorded,    \* the applied_change of every iteration record, by key
  catalog,     \* current_value of every candidate in the catalog
  catalogKeys, \* prev_active_keys: active keys the catalog was built for
  iterations,  \* loop iterations recorded
  stage, pc    \* where run() is, and where inside a stage

VARIABLES      \* history variables: no action reads them
  measured,    \* the host as last benchmarked
  bestHost,    \* the host as benchmarked for the best configuration
  tainted,     \* keys a failed command left at a value nobody intended
  stacked,     \* keys applied twice within one batch
  retuned      \* keys whose active change was replaced by a later one

history == <<measured, bestHost, tainted, stacked, retuned>>
vars == <<host, active, pending, wanted, primary, lead, reverted, undo, verdict,
          score, best, recorded, catalog, catalogKeys, iterations, stage, pc, history>>

BatchStages == {"resolve", "recipe", "kb", "autofix"}
Stages == BatchStages \cup {"warm", "loop", "exit"}
Steps == {"idle", "apply", "bench", "verify", "measure", "reapply", "decide",
          "undo", "exit_undo", "exit_apply", "done", "aborted"}
Verdicts == {"none", "accept", "promising", "inconclusive", "reject",
             "unverified", "unhealthy", "not_applied"}

NoEntries == [k \in Keys |-> None]
ActiveKeys == {k \in Keys : active[k] # None}
AppliedKeys == {k \in Keys : pending[k] # None}
Batching == stage \in BatchStages
HasBest == best.score > 0

\* The effects a command that sets k to v can have: it works, or it reports a
\* failure and has changed the host all the same or not.
Set(k, v) == host' = [host EXCEPT ![k] = v]
MaybeSet(k, v) == host' \in {host, [host EXCEPT ![k] = v]}

AppliedFromCatalog(k, v) == [prev |-> catalog[k], applied |-> v]   \* mutant

\* The AppliedChange of a command that has just set k to v: its previous value
\* is read from the host, not from the catalog.
Applied(k, v) == [prev |-> host[k], applied |-> v]

-----------------------------------------------------------------------------
Init ==
  /\ host = Baseline
  /\ active = NoEntries /\ pending = NoEntries
  /\ wanted = {} /\ undo = {}
  /\ primary \in Keys /\ lead = None /\ reverted = FALSE
  /\ verdict = "none" /\ score = 0
  /\ best = [score |-> 0, values |-> NoEntries]
  /\ recorded = {}
  /\ catalog = Baseline /\ catalogKeys = {}
  /\ iterations = 0
  /\ stage = IF Unified THEN "resolve" ELSE "recipe"
  /\ pc = "idle"
  /\ measured = Baseline /\ bestHost = Baseline
  /\ tainted = {} /\ stacked = {} /\ retuned = {}

-----------------------------------------------------------------------------
(* Pre-loop: warm start and batches.                                       *)

\* The stage run() enters once stage s is over and acts is the ledger: a
\* recipe that left changes active replaces every other KB stage.
StageAfter(s, acts) ==
  CASE s = "recipe" -> IF acts = NoEntries THEN "warm" ELSE "autofix"
    [] s = "warm" -> "kb"
    [] s = "kb" -> "autofix"
    [] OTHER -> "loop"

\* Leaving stage s; the catalog is rebuilt on entry to the loop when changes
\* are active, and after a warm start that had confidence scores.
Advance(acts) ==
  /\ stage' = StageAfter(stage, acts)
  /\ pc' = "idle"
  /\ CASE stage' = "loop" -> catalog' = IF acts = NoEntries THEN catalog ELSE host
       [] stage = "warm" -> catalog' \in {catalog, host}
       [] OTHER -> UNCHANGED catalog
  /\ UNCHANGED catalogKeys

\* The stage has nothing to apply.
SkipStage ==
  /\ pc = "idle" /\ stage \in BatchStages \cup {"warm"}
  /\ Advance(active)
  /\ UNCHANGED <<host, active, pending, wanted, primary, lead, reverted, undo,
                 verdict, score, best, recorded, iterations, history>>

\* _warm_start_from_prior_runs and _auto_apply_high_confidence: one parameter
\* applied, entered in the ledger, never benchmarked; failures are skipped.
WarmStart(k, v) ==
  /\ pc = "idle" /\ stage = "warm" /\ active[k] = None
  /\ \/ /\ Set(k, v)
        /\ active' = [active EXCEPT ![k] = Applied(k, v)]
        /\ UNCHANGED tainted
     \/ /\ MaybeSet(k, v)
        /\ tainted' = IF host' = host THEN tainted ELSE tainted \cup {k}
        /\ UNCHANGED active
  /\ UNCHANGED <<pending, wanted, primary, lead, reverted, undo, verdict, score,
                 best, recorded, catalog, catalogKeys, iterations, stage, pc,
                 measured, bestHost, stacked, retuned>>

SingleValued(w) == \A a, b \in w : a[1] = b[1] => a = b

\* A batch of hypotheses, none for a key that is active or already at the
\* value. Only a recipe's fix sequence may name a key twice.
StartBatch(w) ==
  /\ pc = "idle" /\ Batching
  /\ w # {} /\ (stage # "recipe" => SingleValued(w))
  /\ \A h \in w : active[h[1]] = None /\ h[2] # catalog[h[1]]
  /\ wanted' = w /\ pc' = "apply"
  /\ UNCHANGED <<host, active, pending, primary, lead, reverted, undo, verdict,
                 score, best, recorded, catalog, catalogKeys, iterations, stage, history>>

-----------------------------------------------------------------------------
(* The iteration loop: choosing the change.                                *)

BuildCatalogOnce ==   \* mutant: the catalog of the start of the session for good
  UNCHANGED <<catalog, catalogKeys>>

\* The catalog is rebuilt when the set of active keys is not the one it was
\* last built for.
RefreshCatalog ==
  /\ catalog' = IF ActiveKeys = catalogKeys THEN catalog ELSE host
  /\ catalogKeys' = ActiveKeys

\* A primary hypothesis and its companions; those that are no-ops according to
\* the catalog do not get past pre-apply validation.
Propose(p, w) ==
  /\ pc = "idle" /\ stage = "loop" /\ iterations < MaxIterations
  /\ RefreshCatalog
  /\ SingleValued(w) /\ \E h \in w : h[1] = p
  /\ \A h \in w : h[2] # catalog'[h[1]]
  /\ wanted' = w /\ primary' = p /\ pc' = "apply"
  /\ UNCHANGED <<host, active, pending, lead, reverted, undo, verdict, score,
                 best, recorded, iterations, stage, history>>

\* No usable hypothesis, or the primary one is refused before it is applied:
\* the iteration is recorded and changes nothing.
SkipIteration ==
  /\ pc = "idle" /\ stage = "loop" /\ iterations < MaxIterations
  /\ RefreshCatalog
  /\ iterations' = iterations + 1
  /\ UNCHANGED <<host, active, pending, wanted, primary, lead, reverted, undo,
                 verdict, score, best, recorded, stage, pc, history>>

-----------------------------------------------------------------------------
(* Applying, validating and benchmarking a group of changes.               *)

\* An iteration applies its primary hypothesis first; a batch's first change
\* that applies becomes the primary one.
MayApplyNow(k) == stage = "loop" /\ AppliedKeys = {} => k = primary

ApplySucceeds(k, v) ==
  /\ pc = "apply" /\ <<k, v>> \in wanted /\ MayApplyNow(k)
  /\ Set(k, v)
  /\ pending' = [pending EXCEPT ![k] = Applied(k, v)]
  /\ active' = IF Batching THEN [active EXCEPT ![k] = Applied(k, v)] ELSE active
  /\ primary' = IF AppliedKeys = {} THEN k ELSE primary
  /\ stacked' = IF pending[k] = None THEN stacked ELSE stacked \cup {k}
  /\ wanted' = wanted \ {<<k, v>>}
  /\ UNCHANGED <<lead, reverted, undo, verdict, score, best, recorded, catalog, catalogKeys,
                 iterations, stage, pc, measured, bestHost, tainted, retuned>>

\* A batch goes on without the parameter; an iteration undoes what it applied
\* so far, which does not include the change that failed.
ApplyFails(k, v) ==
  /\ pc = "apply" /\ <<k, v>> \in wanted /\ MayApplyNow(k)
  /\ MaybeSet(k, v)
  /\ tainted' = IF host' = host THEN tainted ELSE tainted \cup {k}
  /\ IF Batching
     THEN wanted' = wanted \ {<<k, v>>} /\ UNCHANGED <<undo, verdict, pc>>
     ELSE wanted' = {} /\ undo' = AppliedKeys /\ verdict' = "not_applied" /\ pc' = "undo"
  /\ UNCHANGED <<active, pending, primary, lead, reverted, score, best, recorded, catalog,
                 catalogKeys, iterations, stage, measured, bestHost, stacked, retuned>>

\* Nothing of a batch could be applied: it returns without a record.
NothingApplied ==
  /\ pc = "apply" /\ wanted = {} /\ AppliedKeys = {}
  /\ Advance(active)
  /\ UNCHANGED <<host, active, pending, wanted, primary, lead, reverted, undo,
                 verdict, score, best, recorded, iterations, history>>

Validate ==
  /\ pc = "apply" /\ wanted = {} /\ AppliedKeys # {}
  /\ lead' = pending[primary]
  /\ \/ pc' = "bench" /\ UNCHANGED <<undo, verdict>>
     \/ pc' = "undo" /\ undo' = AppliedKeys /\ verdict' = "unhealthy"
  /\ UNCHANGED <<host, active, pending, wanted, primary, reverted, score, best, recorded,
                 catalog, catalogKeys, iterations, stage, history>>

\* Benchmark and evaluation. PROMISING exists only in WIDE_SWEEP, a phase of
\* the legacy loop.
Evaluate(d, s) ==
  /\ pc = "bench"
  /\ d \in {"accept", "inconclusive", "reject"}
           \cup (IF stage = "loop" /\ ~Unified THEN {"promising"} ELSE {})
  /\ d = "accept" <=> s > 0
  /\ verdict' = d /\ score' = s /\ measured' = host
  /\ pc' \in {"decide"}
             \cup (IF d = "accept" /\ ~Batching /\ ~SkipAttribution THEN {"verify"} ELSE {})
  /\ UNCHANGED <<host, active, pending, wanted, primary, lead, reverted, undo, best, recorded,
                 catalog, catalogKeys, iterations, stage, bestHost, tainted, stacked, retuned>>

\* An accepted gain within the noise floor is marked inconclusive instead of
\* being verified (skip_marginal_attribution).
MarginalGain ==
  /\ pc = "verify"
  /\ verdict' = "inconclusive" /\ score' = 0 /\ pc' = "decide"
  /\ UNCHANGED <<host, active, pending, wanted, primary, lead, reverted, undo, best, recorded,
                 catalog, catalogKeys, iterations, stage, history>>

-----------------------------------------------------------------------------
(* AttributionVerifier.verify: undo the primary change, benchmark, redo it. *)

VerifyRevert ==
  /\ pc = "verify"
  /\ \/ Set(primary, lead.prev) /\ reverted' = TRUE
        /\ pc' = "measure" /\ UNCHANGED <<verdict, score>>
     \/ \E done \in BOOLEAN :
           /\ IF done THEN Set(primary, lead.prev) ELSE UNCHANGED host
           /\ reverted' = done
           /\ verdict' = "unverified" /\ score' = 0 /\ pc' = "decide"
  /\ UNCHANGED <<active, pending, wanted, primary, lead, undo, best, recorded,
                 catalog, catalogKeys, iterations, stage, history>>

VerifyWithoutReapply ==   \* mutant: the primary change is not redone
  /\ pc = "measure"
  /\ pc' = "decide"
  /\ UNCHANGED <<host, active, pending, wanted, primary, lead, reverted, undo, verdict, score,
                 best, recorded, catalog, catalogKeys, iterations, stage, history>>

VerifyMeasure ==
  /\ pc = "measure"
  /\ \/ pc' = "reapply" /\ UNCHANGED <<verdict, score>>
     \/ pc' = "decide" /\ verdict' = "unverified" /\ score' = 0
  /\ UNCHANGED <<host, active, pending, wanted, primary, lead, reverted, undo, best, recorded,
                 catalog, catalogKeys, iterations, stage, history>>

VerifyReapply ==
  /\ pc = "reapply"
  /\ \/ Set(primary, lead.applied) /\ reverted' = FALSE /\ UNCHANGED <<verdict, score>>
     \/ \E done \in BOOLEAN :
           /\ IF done THEN Set(primary, lead.applied) ELSE UNCHANGED host
           /\ reverted' = ~done
           /\ verdict' = "unverified" /\ score' = 0
  /\ pc' = "decide"
  /\ UNCHANGED <<active, pending, wanted, primary, lead, undo, best, recorded,
                 catalog, catalogKeys, iterations, stage, history>>

-----------------------------------------------------------------------------
(* Keeping or undoing the group, and recording it.                         *)

KeepsUnverified ==   \* mutant: without rollback_required an iteration keeps anything
  CASE stage = "resolve" -> verdict # "reject"
    [] stage = "loop" -> verdict \in {"accept", "promising"} \/ ~RollbackRequired
    [] OTHER -> verdict \in {"accept", "promising"}

\* The resolver undoes only a rejection; the other batches keep only a gain;
\* an iteration keeps a gain, and anything but an unverified gain when the
\* policy does not require rollback.
Keeps ==
  CASE stage = "resolve" -> verdict # "reject"
    [] stage = "loop" -> \/ verdict \in {"accept", "promising"}
                         \/ ~RollbackRequired /\ verdict # "unverified"
    [] OTHER -> verdict \in {"accept", "promising"}

AlwaysHasChange == TRUE   \* mutant

\* An iteration whose change did not apply has a record without one.
HasChange == verdict # "not_applied"

\* record_iteration: the record's applied_change, and the best configuration.
RecordIteration(acts) ==
  /\ recorded' = IF \/ ~HasChange
                    \/ \E r \in recorded : r.key = primary /\ r.change.applied = lead.applied
                 THEN recorded
                 ELSE recorded \cup {[key |-> primary, change |-> lead]}
  /\ IF verdict = "accept" /\ score > best.score
     THEN /\ best' = [score |-> score,
                      values |-> [k \in Keys |-> IF acts[k] = None THEN None
                                                 ELSE acts[k].applied]]
          /\ bestHost' = measured
     ELSE UNCHANGED <<best, bestHost>>

\* Back to the top of the loop, or on to the stage after the batch.
EndGroup(acts) ==
  /\ verdict' = "none" /\ score' = 0 /\ lead' = None /\ reverted' = FALSE
  /\ measured' = Baseline
  /\ IF stage = "loop"
     THEN iterations' = iterations + 1 /\ pc' = "idle"
          /\ UNCHANGED <<stage, catalog, catalogKeys>>
     ELSE Advance(acts) /\ UNCHANGED iterations

Keep ==
  /\ pc = "decide" /\ Keeps
  /\ active' = [k \in Keys |-> IF pending[k] = None THEN active[k] ELSE pending[k]]
  /\ retuned' = IF Batching THEN retuned ELSE retuned \cup (ActiveKeys \cap AppliedKeys)
  /\ pending' = NoEntries
  /\ RecordIteration(active') /\ EndGroup(active')
  /\ UNCHANGED <<host, wanted, primary, undo, tainted, stacked>>

UndoOnlyPrimary ==   \* mutant: the companions stay
  /\ pc = "decide" /\ ~Keeps
  /\ undo' = {primary} /\ pc' = "undo"
  /\ UNCHANGED <<host, active, pending, wanted, primary, lead, reverted, verdict, score, best,
                 recorded, catalog, catalogKeys, iterations, stage, history>>

StartUndo ==
  /\ pc = "decide" /\ ~Keeps
  /\ undo' = AppliedKeys /\ pc' = "undo"
  /\ UNCHANGED <<host, active, pending, wanted, primary, lead, reverted, verdict, score, best,
                 recorded, catalog, catalogKeys, iterations, stage, history>>

UndoButNotInLedger(k) ==   \* mutant: a batch rolled back stays in the ledger
  /\ pc = "undo" /\ k \in undo
  /\ MaybeSet(k, pending[k].prev)
  /\ tainted' = IF host'[k] = pending[k].prev THEN tainted ELSE tainted \cup {k}
  /\ pending' = [pending EXCEPT ![k] = None]
  /\ undo' = undo \ {k}
  /\ UNCHANGED <<active, wanted, primary, lead, reverted, verdict, score, best, recorded, catalog,
                 catalogKeys, iterations, stage, pc, measured, bestHost, stacked, retuned>>

\* _rollback_all, one command: a failure is logged and the next key is undone.
\* A batch also takes the key out of the ledger; the code does so for all keys
\* once they are undone, and nothing reads the ledger in between.
Undo(k) ==
  /\ pc = "undo" /\ k \in undo
  /\ MaybeSet(k, pending[k].prev)
  /\ tainted' = IF host'[k] = pending[k].prev THEN tainted ELSE tainted \cup {k}
  /\ pending' = [pending EXCEPT ![k] = None]
  /\ active' = IF Batching THEN [active EXCEPT ![k] = None] ELSE active
  /\ undo' = undo \ {k}
  /\ UNCHANGED <<wanted, primary, lead, reverted, verdict, score, best, recorded, catalog,
                 catalogKeys, iterations, stage, pc, measured, bestHost, stacked, retuned>>

\* A batch that failed validation leaves no record.
UndoDone ==
  /\ pc = "undo" /\ undo = {}
  /\ IF Batching /\ verdict = "unhealthy" THEN UNCHANGED <<best, bestHost, recorded>>
                                          ELSE RecordIteration(active)
  /\ EndGroup(active)
  /\ UNCHANGED <<host, active, pending, wanted, primary, undo, tainted, stacked, retuned>>

-----------------------------------------------------------------------------
(* _restore_best_configuration.                                            *)

StopWithoutBest ==   \* mutant: nothing is rolled back when there is no best
  /\ pc = "idle" /\ stage = "loop"
  /\ stage' = "exit" /\ pc' = "exit_undo"
  /\ undo' = {k \in ActiveKeys : HasBest /\ best.values[k] = None}
  /\ UNCHANGED <<host, active, pending, wanted, primary, lead, reverted, verdict, score, best,
                 recorded, catalog, catalogKeys, iterations, history>>

\* The loop has a stop reason. Changes to keys outside the best configuration,
\* all of them when there is none, are rolled back.
Stop ==
  /\ pc = "idle" /\ stage = "loop"
  /\ stage' = "exit" /\ pc' = "exit_undo"
  /\ undo' = {k \in ActiveKeys : best.values[k] = None}
  /\ UNCHANGED <<host, active, pending, wanted, primary, lead, reverted, verdict, score, best,
                 recorded, catalog, catalogKeys, iterations, history>>

\* The code walks the ledger in insertion order and updates it at the end; the
\* parameters are independent, so any order will do.
ExitUndo(k) ==
  /\ pc = "exit_undo" /\ k \in undo
  /\ MaybeSet(k, active[k].prev)
  /\ tainted' = IF host'[k] = active[k].prev THEN tainted ELSE tainted \cup {k}
  /\ active' = [active EXCEPT ![k] = None]
  /\ undo' = undo \ {k}
  /\ UNCHANGED <<pending, wanted, primary, lead, reverted, verdict, score, best, recorded,
                 catalog, catalogKeys, iterations, stage, pc, measured, bestHost, stacked, retuned>>

\* The keys of the best configuration that are not at their best value.
ExitUndoDone ==
  /\ pc = "exit_undo" /\ undo = {}
  /\ pc' = IF HasBest THEN "exit_apply" ELSE "done"
  /\ undo' = {k \in Keys : /\ best.values[k] # None
                           /\ active[k] = None \/ active[k].applied # best.values[k]}
  /\ UNCHANGED <<host, active, pending, wanted, primary, lead, reverted, verdict, score, best,
                 recorded, catalog, catalogKeys, iterations, stage, history>>

\* The record whose command can bring k back to its best value.
SourceRecords(k) == {r \in recorded : r.key = k /\ r.change.applied = best.values[k]}

ExitApply(k) ==
  /\ pc = "exit_apply" /\ k \in undo
  /\ undo' = undo \ {k}
  /\ \/ /\ SourceRecords(k) = {}
        /\ UNCHANGED <<host, active, tainted>>
     \/ \E r \in SourceRecords(k) :
          \/ /\ Set(k, best.values[k])
             /\ active' = [active EXCEPT ![k] = r.change]
             /\ UNCHANGED tainted
          \/ /\ MaybeSet(k, best.values[k])
             /\ tainted' = tainted \cup {k}
             /\ UNCHANGED active
  /\ UNCHANGED <<pending, wanted, primary, lead, reverted, verdict, score, best, recorded,
                 catalog, catalogKeys, iterations, stage, pc, measured, bestHost, stacked, retuned>>

ExitDone ==
  /\ pc = "exit_apply" /\ undo = {}
  /\ pc' = "done"
  /\ UNCHANGED <<host, active, pending, wanted, primary, lead, reverted, undo, verdict, score,
                 best, recorded, catalog, catalogKeys, iterations, stage, history>>

\* The session ends where it is: a benchmark error, which nothing catches, an
\* error of the executor, a signal.
Abort ==
  /\ pc \notin {"done", "aborted"}
  /\ pc' = "aborted"
  /\ UNCHANGED <<host, active, pending, wanted, primary, lead, reverted, undo, verdict, score,
                 best, recorded, catalog, catalogKeys, iterations, stage, history>>

-----------------------------------------------------------------------------
Hypotheses == SUBSET (Keys \X Values)

Next ==
  \/ SkipStage
  \/ \E k \in Keys, v \in Values : WarmStart(k, v)
  \/ \E w \in Hypotheses : StartBatch(w)
  \/ \E p \in Keys, w \in Hypotheses : Propose(p, w)
  \/ SkipIteration
  \/ \E k \in Keys, v \in Values : ApplySucceeds(k, v) \/ ApplyFails(k, v)
  \/ NothingApplied
  \/ Validate
  \/ \E d \in Verdicts, s \in 0..MaxScore : Evaluate(d, s)
  \/ MarginalGain
  \/ VerifyRevert \/ VerifyMeasure \/ VerifyReapply
  \/ Keep \/ StartUndo
  \/ \E k \in Keys : Undo(k)
  \/ UndoDone
  \/ Stop
  \/ \E k \in Keys : ExitUndo(k) \/ ExitApply(k)
  \/ ExitUndoDone \/ ExitDone
  \/ Abort

Spec == Init /\ [][Next]_vars

-----------------------------------------------------------------------------
TypeOK ==
  /\ host \in [Keys -> Values] /\ catalog \in [Keys -> Values]
  /\ active \in [Keys -> Entry] /\ pending \in [Keys -> Entry]
  /\ wanted \subseteq Keys \X Values /\ undo \subseteq Keys
  /\ primary \in Keys /\ lead \in Entry /\ reverted \in BOOLEAN
  /\ verdict \in Verdicts /\ score \in 0..MaxScore
  /\ best \in [score : 0..MaxScore, values : [Keys -> Values \cup {None}]]
  /\ recorded \subseteq [key : Keys, change : Change]
  /\ catalogKeys \subseteq Keys
  /\ iterations \in 0..MaxIterations
  /\ stage \in Stages /\ pc \in Steps
  /\ measured \in [Keys -> Values] /\ bestHost \in [Keys -> Values]
  /\ tainted \subseteq Keys /\ stacked \subseteq Keys /\ retuned \subseteq Keys

-----------------------------------------------------------------------------
(* Safety: the ledger accounts for the host.                               *)

\* No command on k failed half way, and no recipe applied k twice.
Sound(k) == k \notin tainted \cup stacked

\* What the ledger says k is worth, leaving out the group under way; what k is
\* worth with that group; and while attribution has the primary change undone.
Committed(k) == IF active[k] # None /\ ~(Batching /\ pending[k] # None)
                THEN active[k].applied ELSE Baseline[k]
Intended(k) == IF pending[k] # None THEN pending[k].applied ELSE Committed(k)
Expected(k) == IF reverted /\ k = primary THEN Committed(k) ELSE Intended(k)

\* At every step, a crash included, the host differs from what the ledger and
\* the group under way say only at keys where a command failed half way, a
\* recipe applied the key twice, or the exit undid the last of several changes:
\* nothing else is changed behind the ledger.
HostAccounted ==
  \A k \in Keys : Sound(k) /\ (active[k] # None \/ k \notin retuned) => host[k] = Expected(k)

\* A change of the group under way remembers the value that undoing it has to
\* bring back, and an active one remembers the baseline until it is retuned.
UndoIsExact ==
  \A k \in Keys : Sound(k) =>
    /\ pending[k] # None => pending[k].prev = Committed(k)
    /\ active[k] # None /\ k \notin retuned => active[k].prev = Baseline[k]

\* What is accepted is what was benchmarked: after attribution has undone and
\* redone the primary change, the host is back at the measured configuration.
AcceptedAsMeasured ==
  pc = "decide" /\ verdict = "accept" => \A k \in Keys : Sound(k) => host[k] = measured[k]

\* On exit without a best configuration every sound key that was never
\* retuned is back at its baseline; with one, it is back at the value it had
\* when the best score was measured, whether or not it is part of the best
\* configuration. A retuned key of the best configuration is back at its best
\* value when an iteration record knows the command.
ExitGuarantee ==
  pc = "done" => \A k \in Keys : Sound(k) =>
    /\ k \notin retuned => host[k] = IF HasBest THEN bestHost[k] ELSE Baseline[k]
    /\ best.values[k] # None /\ SourceRecords(k) # {} => host[k] = best.values[k]

\* The catalog the pre-apply no-op check reads is the host's configuration at
\* the start of an iteration, but for retuned keys.
CatalogCurrent ==
  pc = "apply" /\ stage = "loop" /\ AppliedKeys = {} =>
    \A k \in Keys : Sound(k) /\ k \notin retuned => catalog[k] = host[k]

-----------------------------------------------------------------------------
(* What the code's own words promise; the code does otherwise.             *)

\* _restore_best_configuration: "Ensure the target system is left at the
\* best-known configuration on exit."
LeftAtBestKnown ==
  pc = "done" /\ HasBest /\ tainted = {} /\ stacked = {} =>
    \A k \in Keys : best.values[k] # None => host[k] = best.values[k]
=============================================================================
