# A TLA+ model of hosttune

hosttune tunes a running service: it applies host and service parameters
through shell commands, benchmarks the host, keeps what helps and takes back the
rest. These modules model the parts of it that can leave a production host in a
state nobody intended, or pass on to a later session what was never true: the
tuning session, the controller that decides what a session tries and when it
ends, the shell commands that change the host, the sessions that share a
knowledge base, and the benchmark with its sampling thread. TLC checks them on
small instances; TLAPS proves the main properties for every value of the
constants.

    tlc -workers 2 -config SessionLegacy.cfg MCTuneSession.tla
    tlc -workers 2 -config Sessions.cfg MCTuneSessions.tla
    tlapm TuneSessions_proofs.tla

Paths below are relative to `src/src/`; `tune/` stands for `tune/application/`
unless a domain file is named.

## 1. Inventory

How the parts interact: `HostTuneInstance` runs the stages preflight, onboard,
host profile, baseline, snapshot, tune and report in order, in one thread,
handing each stage the records of the earlier ones. Tuning is `TuneEngine.run`,
again a single thread: it calls the phase controller, the hypothesis generator,
the appliers, the health validator, the benchmark executor and the evaluator,
and writes to the knowledge base at every step. The only other thread is the
telemetry sampler that runs beside a benchmark. Everything that touches the host
is a shell command through an executor (local or SSH), and any of them may fail,
or fail after it has done half its work.

| Component | State | Operations | What is hard | What makes it correct |
|---|---|---|---|---|
| Tuning session (`tune_engine.py`, `tune_state.py`) | `active_changes` (the ledger), `best_configuration`, history, iteration records, catalog cache | resolver batch, recipe, warm start, knowledge-base batch, autofix batch, iterations, roll back, restore on exit | each command may fail; groups of changes; attribution undoes and redoes a change; a benchmark error escapes `run` | the host is what the ledger says; groups are kept or undone whole; the exit leaves the best configuration |
| Attribution (`attribution_verifier.py`) | the primary change, undone for a while | revert, benchmark, reapply | three fallible steps | what is accepted is what was measured |
| Rollback (`rollback_coordinator.py`) | none | run a change's rollback command | stale command, failure | brings back the value before |
| Appliers (`apply_coordinator.py`) | files and kernel state on the host | sysctl, prlimit, systemd drop-in, nginx directive, IRQ and NIC settings | compound commands, restarts that lose other settings | the rollback command brings back what the host had; a value that is benchmarked is in effect |
| Pre-apply validation | none | no-op, bounds and allowed-value checks | reads a cached catalog | refuses exactly the changes that would do nothing or harm |
| Phase controller and budgets (`phase_controller.py`, `tune_state.py`) | phase, budgets, history | `initialize`, `determine_phase`, `filter_candidates`, `stop_reason`, `record_iteration` | phases left early, budgets moved, two views of the catalog | the loop ends within `max_iterations`, tiers in order |
| Candidate catalog | catalog cached between iterations | build | staleness | shows the host as it is |
| Unified resolver | layer statuses | resolve | one value per key out of many layers | dependency order, no blocked pair |
| Benchmark, evaluation | results | run workloads, compare | variance, abort | decision fits the measurement |
| Health validation | none | probes | only the primary change is probed | an unhealthy group is undone |
| Runtime telemetry | samples, stop event, thread | sample, join with timeout | late samples, wedged SSH | samples belong to the benchmark |
| Hypothesis generation | none | prompt, parse, complete chains | the model may answer nothing | legal values for known keys |
| Knowledge base (`preflight/infrastructure/knowledge_base.py`) | SQLite: runs, events, recipes | record, finalize, similar runs, confidence, best configuration, blocked pairs, recipes | crash between records, decision recorded before attribution | what it says of a session is true of the host, and was measured |
| Pipeline, executors, discovery, onboarding, profiles, baseline, snapshot, reports | stage results | run a stage | errors between stages | documents are validated; pure otherwise |

The behaviours that are hard to test, at the lines where they bite, are the
`hazards` of PROJECT.json.

## 2. Modules

    TuneSession              the session, its properties
      TuneSessionInv         its inductive invariant
        TuneSessionRefinement          refinement mapping to TuningContract
          TuneSession_proofs             theorems, of the refinement too
          MCTuneSession                  instances for TLC
    TuningContract           what a session promises, abstractly
    TunePhases               budgets spent, phases, stop reasons
      TunePhases_proofs      theorems
      TuneBudget             how max_iterations is divided (recursive)
        MCTunePhases         instances for TLC
    HostAppliers             the appliers' commands on the host, step by step
      MCHostAppliers         instances for TLC
      HostCommands_proofs    lemmas: what each applier's commands do to a host
        HostAppliers_proofs            theorems
    KnowledgeBase            what is recorded of runs and read back
    UnifiedResolver          the walk through the dependency graph
    HypothesisGroups         what is done to a group before it is applied
      TuneSessions           sessions in a row, composed of these three
        TuneSessionsInv      its inductive invariant
          TuneSessions_proofs          theorems
          TuneSessionsRefinement       refinement mapping to SharedKnowledge
            MCTuneSessions               instances for TLC
            TuneSessionsRefinement_proofs  theorems: the whole invariant, the contract
    SharedKnowledge          what sessions promise one another, abstractly
    ResultEvaluator          statistics of a benchmark and the decision
      Evaluator_proofs       lemmas: medians, common denominators, decisions
      Benchmark              runs, sampling threads, digest
        MCBenchmark          instances for TLC
        Benchmark_proofs     theorems

The three machines that touch the host look at it at different grain. In
TuneSession a command is a step and a parameter a cell; in HostAppliers a
command is a sequence of steps on files, the service manager and a process; in
TuneSessions a group is applied change by change and undone in one step, so that
what is recorded about it can be followed over several sessions.

### TuneSession

| Variable | Code |
|---|---|
| `host` | the value of every parameter on the target |
| `active` | `state.active_changes`: `AppliedChange` by key, `prev` and `applied` |
| `pending`, `primary`, `lead` | `applied_changes` of the group under way, its primary key and change |
| `wanted` | the group's hypotheses that are still to be applied |
| `reverted` | attribution has undone the primary change |
| `undo` | keys `_rollback_all` or `_restore_best_configuration` still has to visit |
| `verdict`, `score` | outcome and average gain of the group |
| `best`, `recorded` | `state.best_configuration`; the applied changes in the iteration records |
| `catalog`, `catalogKeys` | the cached catalog and `prev_active_keys` |
| `stage`, `pc` | where `run` is |
| `measured`, `bestHost`, `tainted`, `stacked`, `retuned` | history variables, for the properties only |

One shell command is one step: `ApplySucceeds`/`ApplyFails`, `VerifyRevert`,
`VerifyReapply`, `Undo`, `ExitUndo`, `ExitApply`. A failing apply may have
changed the host or not (`MaybeSet`), as compound commands do. `Abort` is a
benchmark that raises, an executor error or a signal, at any step: nothing in
`run` catches it and nothing is restored. Which change is tried, what
the benchmark says and when the session stops are arbitrary, so the properties
hold whatever the phase controller, the model and the benchmark do. Values and
keys are model values; a score is a number up to `MaxScore`.

Abstractions a reader should know: parameters are independent cells (a service
restart that loses another parameter's prlimit is HostAppliers' subject); the
commands of `_rollback_all` and of the exit
are taken in any order, which includes the code's; keys leave the ledger as they
are rolled back, where a batch pops them all afterwards, with nothing reading
the ledger in between; the service restart after two fast failures only
restarts the service and appears in TunePhases, as control.

### TuningContract and the refinement

The contract knows a configuration the session stands by, the group being
tried, and the best configuration. Groups are committed or discarded whole; on
closing, a parameter only moves to its best value. `TuneSessionRefinement` maps
`conf` to the committed values of the ledger, `group` to `pending`, `mode` to
`pc`; `KeepsContract` is the contract's specification under that mapping.

### TunePhases and TuneBudget

The state of `TuneState` that the controller reads, and where the loop is.
`budget` is `remaining_budget`; `seen` is what it looks at in the history: key,
outcome class (accepted, promising, failed without a benchmark, other) and
whether the sweep made the record. Counters stop at the largest
number the code compares them with (`Enough`, and the caps in
`RecordIteration`), which keeps every comparison exact and the state finite.
`policy` is the session: kind, reboot permission, limit, initial budget.

`Determined` is `determine_phase`, `filter_candidates` keeps its name,
`Offers` adds the performance-hierarchy gate, `ShouldAdvance` is
`_should_advance`, `Reason` and `stop_reason` the reasons to stop.
`Fail` and `Measure` are iterations without and with a benchmark, `RunOut` an
iteration for which no candidate is left, `Unrecorded` and `Batch` the stages
before the loop, `CheckService` the restart after two fast failures. What an
iteration finds is arbitrary, and so is what the gate leaves of the candidates
(its targets are numbers TunePhases does not have). Whether telemetry
deteriorated or the historical best is near is arbitrary where the code's
conditions on the history allow it.

Two things the model made plain: the rule that leaves a phase after three
records without a signal never decides for phases other than OPTIMIZE (they are
left after two, or are last), and DOMAIN_FOCUS and EXPLOIT are always left
after two records, as positive records are records (`max(2, len(positive))`).

Why the loop of `run` ends is said in two properties of single steps.
`LoopDescends`: without reboots, a step moves the session to a later stage or
takes an iteration from some phase's budget, and none gives any back, the
reallocation after a recipe included. `NeverStuck`: an iteration that starts
finds exactly one phase determined, so that the loop knows how to go on.
`LoopEnds` is what follows if the thread is scheduled.

`TuneBudget` is `_allocate_budget` and `_allocate_unified_budget`, Python's
half-to-even `round` included. It is recursive, so it stays out of the proofs:
TunePhases assumes of an initial budget only that it does not exceed the limit
(`PhasesAssumption`), and TLC evaluates that for the budgets of every run.

### HostAppliers

`host` is a record of what commands can change: live settings (a sysctl, a NIC
ring, a queue or IRQ setting), the governor of each CPU, the occurrences of one
directive in the nginx file and what the service last loaded (`conf`, `run`),
unit file, an operator's drop-in and hosttune's own (`base`, `other`, `zz`),
what the manager loaded at the last daemon-reload (`loaded`), a CPU quota, and
the process with its limits (`up`, `pid`, `plim`, `soft`, `hard`). Each applier
is an operator named as its class, which reads the current value and builds two
commands, one to apply and one to roll back; a command is a sequence of steps
(`Do`). `RunStep` runs the next step of the command under way and
`ApplyStepFails`/`RollbackStepFails` let it fail, with or without its effect,
a restart possibly leaving the service stopped; a step that must fail on this
host (`Fails`: nginx -t on a rejected value, prlimit on a process that is gone)
always does. When nginx rejects a new file the applier writes the previous one
back (`Restored`). `Validate` probes the service and the effective value of the
first change only. `Mode` is the apply_mode of each kind; the engagement policy
is consulted where the code does (a directive's reload or restart), and not by
`_post_set_commands`.

Rollback commands the appliers build cannot always bring back what they found;
`Lossy` lists when: CPUs with different governors (cpu0's is read), a directive
that was absent or has several values, an unlimited unit with an operator's
drop-in (which was rewritten and is not restored), a quota such as "1min" that
`_parse_usec` cannot read. `NothingBehindTheLedger` exempts exactly these.
`MeasuredAsClaimed` exempts the last of them too: undoing a later change of a
quota that reads as unlimited lifts it, so a value the ledger claims may be
gone. That takes four changes, more than the instances have; the proof found it.

### KnowledgeBase, UnifiedResolver, HypothesisGroups, TuneSessions

KnowledgeBase is the SQLite file as a value: runs with their scores and
configurations (`Absent` until `FinalizeRun`), the events in order, recipes.
Queries keep their names; one service on one kind of hardware is assumed, so
comparable runs are all earlier ones, unfinished ones where the code does not
ask for the end. A baseline fingerprint is known by its class, and `Similarity`
of two classes is the cosine similarity `lookup_degradation_recipe` sorts by
(its LIMIT of 20 rows is left out). UnifiedResolver is `resolve`, a fold over
the graph's parameters in layer order; `Offer` is `_try_source` and
`ResolvedValue` `_resolve_value`. A parameter of the graph has a floor that is a
number and one that is an expression (`expr`): `GraphValue` takes the latter
first, a recipe is held to the former only. `Autofixes` is
`collect_all_autofixes`, of which the resolver keeps the last per key;
`AutofixAction` is the one of `evaluate`, the first rule that fires, which the
generator offers ahead of the model's answer (`Offered`). HypothesisGroups is
what `_run_iteration` does to a generator's answer: parameter groups,
`worker_connections` and its `worker_rlimit_nofile`, the check of the limit
between them.

| Variable of TuneSessions | Code |
|---|---|
| `host`, `kb` | the target; the database file: all that survives a session |
| `run`, `step`, `phase` | session, where `run_tune` is, resolver batch or loop |
| `hyps`, `queue`, `applied`, `outcome` | the group under way |
| `active`, `best`, `history`, `records`, `iteration`, `blocked` | `TuneState`, `prior_blocked` |
| `baseline` | class of the baseline fingerprint a recipe is looked up by |
| `start`, `blamed`, `accepted`, `retuned`, `asked` | history variables: the host found, keys of failed commands, hosts of accepted benchmarks, keys an iteration changed anew, pairs asked for |

`Crash` ends a session at any step. A later session finds the host as it was
left or degraded anew (`Hosts`). Every step that the code records in the
knowledge base in between is an action of its own (`Apply` and `LogApplied`,
`RollBackAll` and `LogRollBack`, `Finalize` and `StoreFixes`), because a crash
may come between the two. `TrailAccountsForHost` is what such a trail is good
for: from the host before and the events alone one can tell every parameter's
value, those of the group under way and of failed commands apart, provided one
reads `apply_failed` of an iteration as the undoing of its group (the code
records no `rollback_completed` there).

`RecipesAreProven` says how far a recipe can be relied on: each step was applied
by its run, in the same batch or iteration, before a benchmark the run accepted.
There is one exception, and the property confines it: a batch of the resolver is
filed under its first hypothesis even if that one's apply failed
(`tune/tune_engine.py:2638`), so the recipe may name a pair that was never on
the host. The run's events tell: an `apply_failed` of the key comes before the
evaluation. Without the exception TLC finds the property violated in the run
`sessions`.

Two properties have an exemption that the proofs showed to be needed.
`FinalConfigIsTrue` excepts, of what was taken back, keys in `retuned`: an
iteration that changes an active key makes the ledger's previous value the
active one, and that is where undoing the change leads. `FailedPairsStayBlocked`
speaks of the pairs in `asked`, those the resolver or the generator came up
with: normalisation may turn a proposal that is not blocked into a pair that is.
In the shipped `nginx_static_io_trio`, a proposed `tcp_nopush = off` becomes
`on`, which may just have failed (the comment at `tune/tune_engine.py:900` means
to "prevent retry loops"); the hazard is listed in PROJECT.json.

`AnswersStand` is what reading the knowledge base once, at the start of a
session, rests on: nothing a session records changes the blocked or confident
pairs, the prior best configuration or the recipe it would be given if it asked
again, not even once its own run has an end and a score: every query leaves out
the run that asks.

### SharedKnowledge and the refinement

The contract knows sessions by number, what benchmarks said of values, what
finished sessions passed on, and recipes. A session adds judgements of its own,
all of one benchmark with one decision; once, its results; once, its recipe.
Best and retained configuration consist of values a benchmark of that session
was taken with and did not reject, the best configuration has one it accepted,
and a recipe consists of values accepted judgements name. A judgement names what
`evaluation_completed` does, the failed first hypothesis of a batch included;
what was on the host is for `RecipesAreProven` to say. Nothing else changes what
is known, so a session that is killed leaves judgements and no results.
`TuneSessionsRefinement` maps `session` to `run` and reads the rest off `kb`:
`Judgements` from the `evaluation_completed` events, `Results` from the runs
with an end, `Recipes` from the recipes; `KeepsKnowledge` is the contract's
specification under that mapping. What attribution later makes of an accept is
not in the contract, because it is not in the knowledge base (section 4).

### ResultEvaluator and Benchmark

ResultEvaluator is the arithmetic in integers, exact: `Ranked` is the k-th of
the sorted results, `TwiceMedian` avoids halves, thresholds are compared after
multiplication. A result file without its figure counts as zero (`Figure`), in
the baseline as in a run: `measured` keeps what the script left, `None` for a
missing figure, and `samples` what the code makes of it. Benchmark has the main
thread (`pc`, `run`, `exit`, `files`, `samples`, `stopped`, `chunks`) and one
sampling thread per run (`worker[r]`, the list it closes over `lists[r]`), whose
steps are the look at the stop event, the first and the last probe of a sample,
the append and the wait. A probe reads a counter that may grow at any time,
fails, or never returns (`Hang`). The script returns (`ScriptEnds`), then the
stop event is set (`SetStop`); a sample whose last probe comes after that is
late. `Join` returns whether or not the thread has ended, so an old thread may
still run beside those of later runs. `Digest` is the difference of first and
last sample as the digest takes it, for the two counters that treat a missing
reading differently.

## 3. Runs

| Run | Instance | Shows |
|---|---|---|
| `session_legacy` | 2 keys, 2 values, 2 iterations, 1 score level, legacy stages, rollback required | `TypeOK`, `HostAccounted`, `UndoIsExact`, `AcceptedAsMeasured`, `CatalogCurrent`, and `KeepsContract` |
| `session_unified` | 2 keys, 3 values, 2 iterations, 2 score levels, resolver, rollback not required | the inductive invariant `IInv` and `ExitGuarantee` |
| `phases` | 2 keys, one deferred; limits 3 and 6; both kinds; gated | `TypeOK`, `LoopWithinBudget`, `NeverStuck`, `LoopDescends`, `LoopEnds` |
| `sweep` | a HIGH and a LOW key, limit 10, both kinds, ungated | `SweepOrder` |
| `appliers` | all eight kinds, four hosts, 3 changes in groups of 2, one failing step | `TypeOK`, `NothingBehindTheLedger`, `MeasuredAsClaimed` |
| `sessions` | an earlier run and two sessions, three parameters, one host to start from, two proposals, 2 iterations, one fault (a crash or a failed command) | `TypeOK`, the inductive invariant `IInv`, `TrailAccountsForHost`, `FinalConfigIsTrue`, `BestConfigWasMeasured`, `RecipesAreProven`, `FailedPairsStayBlocked`, `AnswersStand`, and `KeepsKnowledge` |
| `benchmark` | two workloads; 1 or 3 runs without telemetry, at two rates or with figures missing, in the baseline too; 2 runs with it, whose files have no figures; a counter that may move once, one failing probe, any probe hanging | `TypeOK`, `AtMostOneLateSample`, `CollectedInOrder`, `DecidedOnAllRuns`, `AcceptedIsFaster`, `DropsAreOfTheBenchmark`, `BenchmarkEnds`, `ThreadsEnd` |
| `best_not_restored` | violation | the exit may leave a key of the best configuration at another value |
| `rejected_stays` | violation | a rejected directive that was absent before stays in the file |
| `limit_exceeded` | violation | the resolver may set a parameter beyond the limit the graph gives it |
| `severe_inconclusive` | violation | a severe mean regression (a quarter in the trace) that is noisy is called inconclusive |
| `throttle_overstated` | violation | throttling of before the benchmark is reported as the benchmark's |

Why the bounds are enough. In TuneSession, two keys give a primary change, a
companion and interference between them; a third behaves as the second does. Two
iterations let a later one replace, undo or re-measure what an earlier one kept,
after batches that come before both. Two values make a change and its undoing
distinguishable; the violation that needs an intermediate value has three. Keys
are symmetric, as are the values other than the first (`Symmetry`), and no
liveness is checked under symmetry. In TunePhases limits 3 and 6 give phases no,
one and several iterations, a limit of 10 gives the legacy sweep two; the
counters the code compares reach their thresholds in one of the runs. In
HostAppliers three changes are a group of two that is kept and one that is
undone, or a parameter changed twice beside another; the four hosts are a plain
one and one for each way a rollback can be lossy. In TuneSessions two sessions
after an earlier run are one that reads what a hand-written run left and one
that reads what the model's own session left, complete or cut off; the three
parameters are a limit, the parameter it limits, and one with an autofix rule in
a parameter group, which an iteration may propose to set to the value the rule
would not have. Two iterations are enough for one that changes what the resolver
or the first iteration left active, and for one that is made after another was
undone. In Benchmark the thread of one run can overlap that of the next, and a
third run makes a median differ from a mean. Every cfg sets CHECK_DEADLOCK FALSE
since a session, a benchmark or the bound on changes ends.

Fairness: `LoopEnds` assumes `WF_vars(Next)`: the one thread of a session goes
on as long as it has a next step. `BenchmarkEnds` and `ThreadsEnd` assume weak
fairness of the main thread and of each sampling thread: the operating system
runs them. Commands, benchmark scripts and model calls are assumed to return,
with an error if need be (there is no timeout on any of them, so this is what
the operator provides); of a probe not even that is assumed. Outcomes are not
assumed fair in any way.

Each property of a passing run has a mutant of the code's definition that
breaks it (the operators marked `mutant`), listed in PROJECT.json.

## 4. Findings

Each violation run refutes what the code says of itself; PROJECT.json quotes
the lines.

1. `best_not_restored`: only primary changes have an iteration record, and the
   exit re-applies best values from those records only.
2. `rejected_stays`: the script that removes an inserted directive looks for
   literal backslashes and never matches; its exit code is not looked at.
3. `limit_exceeded`: a "MUST be <=" constraint is compared with values resolved
   in the same pass, not with the host; a limit already at its floor is not
   among them.
4. `severe_inconclusive`: an unstable benchmark is inconclusive before its
   regression is looked at, and the resolver keeps an inconclusive batch.
5. `throttle_overstated`: when the first cpu.stat could not be read, the
   service's lifetime counter is reported as throttling of the benchmark.

Seen while modelling, and not made into runs:

- *Session.* With no best configuration a key tuned twice is left at its
  intermediate value (the ledger holds the last change, whose rollback command
  leads to the value before it). A batch keeps one change per key although a
  recipe may name a key twice, so rolling it back is not complete. The catalog
  is rebuilt when the set of active keys changes, not when an active key's value
  does. Batches may activate deferred keys whatever the reboot policy says. The
  health check probes the primary change only. A crash leaves the host tuned and
  the next session takes its baseline there; so does the restoration on exit,
  which records no event.
- *Phases.* The last phase is entered, and iterates, without budget of its own:
  with reboots allowed the session may exceed `max_iterations`. The keys the
  sweep must try and the keys it offers come from different catalogs: a key
  that failed before the sweep makes the sweep end the session. An iteration
  without a hypothesis counts as a tested hypothesis of OPTIMIZE; a limit of 8
  gives RESOLVE a slot in a legacy session; a service without a workload called
  homepage, large or medium meets `marginal_gain_plateau` after two benchmarks;
  `rebalance_budget` is never called.
- *Resolver and groups.* With a floor in the graph a ceiling is never applied
  (swappiness has both), `ceiling_expr` is never read, values from the
  knowledge base are not checked against bounds. The limit between
  `worker_connections` and `worker_rlimit_nofile` is checked before companions
  are dropped by pre-apply validation; companions that normalisation adds are
  not checked against blocked pairs; legacy batches ignore blocked pairs.
- *Knowledge base.* Only the three most similar runs block pairs, and only runs
  with a best configuration are similar. A pair that attribution could not
  verify is recorded as an accept and counted so by the confidence score. An
  inconclusive batch stays on the host and its pairs are blocked later. The
  first hypothesis of a batch is recorded in `evaluation_completed`, in the
  history and in the recipe even when its own apply failed (`RecipesAreProven`
  confines it; the contract of SharedKnowledge goes by the judgement and does not
  see it). Fingerprints are
  compared by their angle, so a host half as fast all over looks the same. The
  best rates are read from unfinished runs too. Stage events are written before
  the run they belong to.
- *Benchmark.* At most one sample per run is taken after stop was set,
  and may be the last one of the digest. The attribution's benchmark overwrites
  the iteration's telemetry file; the baseline's result files carry no session
  and are overwritten by the next one's (those of a tuning benchmark have the
  session in the contestant name). A figure missing from a result file is a
  measurement of zero: it can reject a change or leave it undecided, and never
  accept it (`AcceptedIsFaster`). A workload without a baseline figure counts as
  unchanged. The throttle ratio assumes five seconds per sample. A median of
  zero counts as stable. The mean over workloads hides a collapse of one.

## 5. Proofs

| Theorem | Module | Statement |
|---|---|---|
| `Invariance` | TuneSession_proofs | `Spec => []IInv` |
| `TypeCorrect`, `HostIsAccounted`, `RollbackIsExact`, `AcceptedIsMeasured`, `ExitRestores`, `CatalogIsCurrent` | TuneSession_proofs | `Spec => []` of `TypeOK`, `HostAccounted`, `UndoIsExact`, `AcceptedAsMeasured`, `ExitGuarantee`, `CatalogCurrent` |
| `SessionKeepsContract` | TuneSession_proofs | `Spec => KeepsContract` |
| `BudgetCapsLoop`, `PhaseTypes`, `SweepKeepsOrder` | TunePhases_proofs | `Spec => []` of `LoopWithinBudget`, `TypeOK`, `SweepOrder` |
| `LoopIsNeverStuck`, `LoopOnlyDescends` | TunePhases_proofs | `Spec => []NeverStuck`, `Spec => LoopDescends` |
| `Typed`, `NothingEscapes`, `BenchmarkMeasuresClaims` | HostAppliers_proofs | `Spec => []` of `TypeOK`, `NothingBehindTheLedger`, `MeasuredAsClaimed`; the last two for apply modes that activate what they change |
| `SessionsTyped`, `SessionsEndAsRecorded`, `BestConfigsMeasured` | TuneSessions_proofs | `Spec => []` of `TypeOK`, `FinalConfigIsTrue`, `BestConfigWasMeasured` |
| `RecipesProven`, `FailedPairsSpared`, `TrailAccounts` | TuneSessions_proofs | `Spec => []` of `RecipesAreProven`, `FailedPairsStayBlocked`, `TrailAccountsForHost` |
| `AnswersStandFast` | TuneSessions_proofs | `Spec => AnswersStand` |
| `SessionsInvariant`, `SessionsKeepKnowledge` | TuneSessionsRefinement_proofs | `Spec => []IInv`, `Spec => KeepsKnowledge` |
| `TypeCorrect`, `LateSamples`, `CompleteDecisions`, `DropsAreItsOwn` | Benchmark_proofs | `Spec => []` of `TypeOK`, `AtMostOneLateSample`, `DecidedOnAllRuns`, `DropsAreOfTheBenchmark` |
| `SamplesInOrder`, `AcceptedWasFaster` | Benchmark_proofs | `Spec => []` of `CollectedInOrder`, `AcceptedIsFaster` |

### The session

The theorems assume `SessionAssumption` (the baseline has values, `None` is
neither a value nor a change, switches are Boolean, bounds are naturals); keys
and values may be infinite.

Why an invariant of its own is needed: `HostAccounted` alone is not inductive.
That undoing a change brings the host back needs `UndoIsExact`; that an undo
hits a change at all needs `Control` (where the group is empty, has a primary
change, is being undone); a batch enters its changes in the ledger while it is
under way, so what is committed excludes them (`BatchInLedger`); what is
accepted equals what was measured only because attribution redoes the change
(`MeasuredIsIntended`); the exit is right because the best configuration's
values are those its host was measured with, and still in the ledger unless
retuned (`Best`), and because of what it has done so far (`ExitProgress`); the
catalog is right because it differs from the ledger only on keys activated
since (`CatalogAsBuilt`). The invariant is proved one action at a time, one
conjunct at a time; the refinement maps each action to one action of the
contract or to a stutter.

### Phases

`PhasesAssumption`: deferred keys are keys, companions are keys, the initial
budgets of a policy fit its limit. Catalog, tiers, gate and policies are
arbitrary.

`BudgetCapsLoop` (invariant `BudgetInv`): an iteration counted in `spent` takes
one from the budget of its phase, if there is any; `determine_phase` returns a
phase without budget only when it is the last, and REBOOT_BATCH offers nothing
without permission to reboot, gated or not. With permission the argument fails,
and so does the code: the last phase then iterates without budget.

`LoopOnlyDescends` and `LoopIsNeverStuck` are the argument that the loop ends,
as far as it can be given without liveness: a variant that every step lowers,
lexicographically the stage and `Left(budget)`, and exactly one next phase.
The descent needs of the invariant that a phase with candidates and without
budget is the last one, as for `BudgetCapsLoop`, and that without reboots this
is REBOOT_BATCH, which has none. That exactly one phase is determined is that of
the phases from the current one on there is a first that need not be left, or
the last, the phases of a sequence being different.

`SweepKeepsOrder` (invariant `SweepInv`): `SweepOrder` speaks of what was
recorded, and is not inductive, since it does not exclude that a key that had
failed is offered to the sweep again after a LOW key. It is not, because the
sweep offers no failed key, a failed key can only do better in another phase,
no phase comes back to the sweep (`SweepIsSecond`), and batches come before the
loop, when nothing was swept. So once a LOW key was swept every other key is
swept or failed for as long as the sweep lasts.

### The appliers

`ApplierAssumption` and `HostsAssumption`: values are naturals below the
number that stands for "unlimited", modes are modes, bounds are naturals, and a
session finds a host in which the service runs what its files say. How many
changes, groups and failing steps there are is arbitrary. Two theorems have a
hypothesis on `Mode`. `NothingEscapes` wants a directive to be applied by reload
or restart: with mode live the rollback of a directive never reaches the
service. `BenchmarkMeasuresClaims` wants `Activating`, the same for directives
and a restart for unit limits, which only a new process gets. The shipped
`service-monitor/nginx.yaml` has both.

`HostCommands_proofs` says once for each applier what its scripts do, step by
step and cut off anywhere: which parameter they touch, and that no other
parameter is disturbed, restarts and their effect on process limits included.
The invariant on top of it is about undo scripts. A change carries its own, so
what is invariant is not a relation between two states of the host, but a
statement on every change on record: run on *any* host of this shape, its undo
brings its parameter back to what the session found (`Restoring`), or, if the
change replaced an earlier one of the ledger, to the value that one claims
(`Reclaims`). `Accounts` and `Claims` collect these for the ledger, the
group, the changes still to be rolled back and the command under way;
`Books` says where changes are and that no list holds a parameter twice. When a
script is half way, the invariant says the same of its remaining steps.

### The sessions

`SessionsAssumption`, `GraphAssumption`, `KnowledgeAssumption`,
`NullAssumption`: values are naturals, an absent score is not one, hosts give
every parameter of the graph a value, graph, rules and parameter groups are
finite lists in which a key occurs once, similarities are naturals, and what
earlier runs left in the knowledge base is of the kind sessions write. Graph,
rules, groups, hosts, proposals, refusals, gains, and the numbers of sessions,
iterations and faults are arbitrary.

TLC checks the invariant, `IInv` of TuneSessionsInv, in the run `sessions`;
`SessionsInvariant` states it as a whole. It is proved in layers, each of which
uses those before.

- *Basics* (`TypeOK`, `Books`, `Lists`, `Decision`): the run of the session in
  the knowledge base follows its step; a group is a list of changes of different
  keys; which decisions lead where. The walk through the graph and the
  normalisation of a group are recursive functions over the positions of a list.
  What they return is shown by induction, in the form of a set of positions that
  contains the first and with each the next (`Iterates`).
- *Account* (`Accounted`, `Entries`, `Undoable`, `Retained`): the host is what
  ledger and starting point say, keys with a failed command apart, and each
  change of the group says what it was made from. A batch of the resolver enters
  its changes before they are judged, an iteration after, hence `Origin` and
  `Entries`. This gives `SessionsEndAsRecorded`.
- *Measured*: the best configuration is a copy of a ledger that was on the host
  of an accepted benchmark. Gives `BestConfigsMeasured`.
- *Unasked*: a session does not change the answer to what it asks about other
  runs (`SameForOthers`), so the pairs blocked when it began are those blocked
  later. Gives `FailedPairsSpared`.
- *Trail* (`Members`, `Entered`, `Numbered`, `GroupTrail`, `GroupVerdict`,
  `TrailExact`): a step records one event at most, and it is one of the group
  under way, which comes after all others. Events of other groups are not
  touched by it, so the trail without the group says what the group's changes
  were made from. A `rollback_completed` or an `apply_failed` undoes the
  group's events all at once; if there is neither, the last event of a key is
  the change in the ledger. After the loop only the restoration moves the host,
  at keys it has in `hyps`. Gives `TrailAccounts`. The order of the code's
  writes matters here: `GroupVerdict` holds since the code records
  `rollback_completed` after the last rollback command and before the next group.
- *Proven* (`BenchmarkedStep`, with `Attempted`): a history entry is accepted
  only if an accepted evaluation names its pair and the group's change to it, or
  the failure of that change, comes before the evaluation in the trail. That the
  trail of the group has the change is `GroupTrail`; that a first hypothesis
  without a change has a failure on record is `Attempted`: what is no longer
  queued was applied or, in a batch, has its `apply_failed`. The knowledge base
  only grows (`Extended`) and what precedes an event goes on to (`StepKept`), so
  later steps do not undo it. Gives `RecipesProven`.
- *Drawn*: what is applied or still to apply is a hypothesis of the group, one
  per key. An apply takes the head of the queue and a rollback takes changes
  away, so that only the start of a group has to be looked at.
- *Judged* (`UpheldPair`, `AcceptedPair`): what the session is about to keep, has
  active or holds for best was in a benchmark of its own that did not reject it.
  A batch of the resolver is in the ledger before it is judged (`Unjudged`), and
  out of it again if it is rejected; an iteration's changes get there only after.
  The restoration moves the ledger to values of the best configuration, which
  are upheld already (`RestoreJudged`). A judgement never goes away, as the
  knowledge base only grows (`JudgedNext`).

`SessionsKeepKnowledge` goes through the actions once more in the terms of the
contract (`InTheirTerms`): `Begin` is Begin, `Evaluate` Judge, `Finalize`
Conclude, `StoreFixes` Prescribe, and the others leave judgements, results and
recipes alone although they write to the same file. For Conclude the ledger and
the best configuration have to be upheld, which is *Judged*; for Prescribe the
history's accepted pairs to be accepted by a benchmark, which is *Proven*.

`AnswersStandFast` follows from `SameForOthers`: the runs a session is compared
with are never its own, and what is recorded of other runs stands. The
lemmas `SameSimilar`, `SameBlocked`, `SameConfident`, `SamePriorBest` and
`SameRecipe` say so for each query.

### The benchmark

`BenchmarkAssumption`, `EvaluatorAssumption`: rates and baselines are naturals,
run counts are positive and bounded, a missing reading or figure is not a
number, there are finitely many workloads. The number of workloads, runs and
samples and the variance threshold are arbitrary.

The invariant `Inv` has a part for each thread of control. `Threads`: a sampling
thread starts with its run, and as long as it is before a sample its list has no
late one, since it looked at the stop event after the last; a late sample is
therefore the last. `Progress`: how many measurements there are in each state of
the main thread, and that `samples` is what the scripts measured, with zero for
a missing figure; a run with a missing file never adds to it. `Readings`: every
counter value in a sample, list or chunk lies between the counter at the
baseline and the counter now. A step of a sampling thread leaves `Progress`
alone (`MainAlone`), and has to be looked at for its own record only
(`ThreadSteps`).

`SamplesInOrder` needs more (`OrderInv`): the counter never falls; a reading is
no larger than the counter now (`Known`); a thread appends to its own list only,
so a list is in order (`ListsOrdered`); and the thread of a run started after
everything collected before was read, so the samples of one run can follow those
of another although an old thread may still be running (`ChunksOrdered`).

`AcceptedWasFaster` rests on `Progress` (every workload has one sample per run)
and on what the evaluator computes, which Evaluator_proofs works out: `Ranked`
has the rank it is named for and medians are reached by half of the runs
(`MedianReached`); the common denominator is positive and a multiple of every
other (`ScaleFacts`); if a sum over workloads exceeds the threshold that many
times, one of them exceeds it (`SomeAbove`), and its median therefore beats the
baseline (`AcceptBeats`). A workload without a baseline cannot be that one, and
a zero beats no baseline, so the runs that did have their figures.

### Only model-checked

- `LoopEnds`, `BenchmarkEnds`, `ThreadsEnd`: liveness under fairness is out of
  the prover's reach. Of `LoopEnds` the steps of the argument are proved
  (`LoopOnlyDescends`, `LoopIsNeverStuck`), not the conclusion from them.
- The division of the budget (TuneBudget): it is written with a RECURSIVE
  operator, and only its sum is used elsewhere (`PhasesAssumption`, which TLC
  evaluates).
- The properties of the violation runs, which are false.

## 6. Not modelled

- *Discovery, onboarding, host profile, snapshot*: they read a host or a document
  once and keep no state that a later step changes. Their results are constants
  and initial states here. A snapshot lists restore commands, which nothing runs.
- *The environment stage* (`clear_environment_blockers`). It runs commands of the
  host profile and of the service definition after the snapshot and before the
  baseline, if the policy allows it. Which commands is data. As read: a fix is
  reported by its exit code and not inspected again (those that end in `|| true`
  are always reported as made); no fix is ever undone or recorded as a change;
  the fix of a unit limit deletes every drop-in that sets the limit, with
  whatever else it sets. To the models the host after this stage is the host the
  session finds.
- *Prompts and model calls, report layout, mlflow*: text without state. An
  arbitrary proposal, or none, stands for the answer. So do the diminishing
  returns and layer statuses that only reach a prompt, and the attribution and
  reliability reports of the knowledge base.
- *Catalog contents*: which candidates a service definition and the rules offer
  is input; the deterministic rules of the triage are in the resolver
  (`Autofixes`, `AutofixAction`).
- *Wide-sweep neutralization* narrows the candidates by what a list in the
  service definition says; `Gated` covers it by any narrowing.
- *The restart after two fast failures* is control in TunePhases and has no
  effect on parameters in TuneSession. `rebalance_budget` is never called.

What could follow: the effect of the restart on process limits in HostAppliers,
and the environment stage there, once its commands are fixed.
