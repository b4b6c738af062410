----------------------------- MODULE TunePhases -----------------------------
(***************************************************************************)
(* How a tuning session spends its iterations: TuneState's budgets,        *)
(* PhaseController's choice of phase and of the keys a phase may try, and  *)
(* its reasons to stop, driven by the loop of TuneEngine.run.              *)
(*                                                                         *)
(* What an iteration finds out is arbitrary; what it does to the host is   *)
(* TuneSession's subject.  Histories are kept as far as the controller     *)
(* looks at them: counts up to the largest number it compares with.        *)
(***************************************************************************)
EXTENDS Integers, Sequences

Phases == {"knowledge_driven", "wide_sweep", "domain_focus", "interaction",
           "boundary_push", "exploit", "reboot_batch", "resolve", "optimize"}

PHASE_SEQUENCE == <<"knowledge_driven", "wide_sweep", "domain_focus", "interaction",
                    "boundary_push", "exploit", "reboot_batch">>
UNIFIED_PHASE_SEQUENCE == <<"resolve", "optimize", "exploit", "reboot_batch">>

Tiers == {"high", "medium", "low"}

\* The budget that max_iterations is meant to cap: all but RESOLVE.
Allowance(b) ==
  b["knowledge_driven"] + b["wide_sweep"] + b["domain_focus"] + b["interaction"]
    + b["boundary_push"] + b["exploit"] + b["reboot_batch"] + b["optimize"]

CONSTANTS
  Keys,       \* parameters in the candidate catalog
  Deferred,   \* those that need a reboot (availability DEFERRED)
  Tier,       \* priority tier of every key
  Related,    \* pairs of keys with the same domain or tuning layer
  Companions, \* keys a parameter group or limit chain applies along with a key
  Gated,      \* a performance hierarchy or neutralization gates the candidates
  Policies    \* the sessions considered: kind, reboot policy, limit, budget

ASSUME PhasesAssumption ==
  /\ Deferred \subseteq Keys /\ Tier \in [Keys -> Tiers]
  /\ Related \subseteq Keys \X Keys /\ Companions \in [Keys -> SUBSET Keys]
  /\ Gated \in BOOLEAN
  /\ Policies \subseteq [unified : BOOLEAN, reboot : BOOLEAN, limit : Nat,
                         budget : [Phases -> Nat]]
  /\ \A p \in Policies : Allowance(p.budget) <= p.limit

VARIABLES
  policy,     \* the session's policy
  phase,      \* state.current_phase
  budget,     \* state.remaining_budget
  runs,       \* records of each phase, counted up to Enough
  good,       \* OPTIMIZE has an accepted or promising record
  tested,     \* OPTIMIZE records not rejected before apply, up to 2
  seen,       \* key and outcome of every record, and whether WIDE_SWEEP made it
  active,     \* keys of state.active_changes
  best,       \* whether there is a best_configuration, and its keys
  sinceBest,  \* iterations_since_best_update, up to 2
  dry,        \* benchmarked records since the last accept, up to 3
  flat,       \* latest benchmarked records that all gained little, up to 2
  failures,   \* while there is no best: failed records since the last positive
              \* one, up to 3
  measured,   \* benchmarked records, up to 2
  explored,   \* a record outside RESOLVE was benchmarked
  fast,       \* consecutive_noeval_short, up to 1
  stage,      \* where run() is
  stop,       \* stop_reason
  spent       \* history variable: loop iterations outside RESOLVE

None == "none"
record == <<good, tested, seen, sinceBest, dry, flat, failures, measured, explored>>
vars == <<policy, phase, budget, runs, record, active, best, fast, stage, stop, spent>>

\* Counters stop at the largest value anything compares them with.
Enough(p) == CASE p = "resolve" -> 1
               [] p = "optimize" -> 5
               [] p \in {"domain_focus", "interaction", "boundary_push", "exploit"} -> 2
               [] OTHER -> 0
Count(n, most) == IF n < most THEN n + 1 ELSE most

Positive == {"accepted", "promising"}
Mechanical == {"failed_validation", "rejected_pre_apply"}
Benchmarked == {"accepted", "promising", "inconclusive", "rejected"}
Statuses == Mechanical \cup Benchmarked

\* What the controller tells apart in a key's records.
Outcome(status) == IF status \in Positive THEN status
                   ELSE IF status \in Mechanical THEN "mechanical" ELSE "negative"
Outcomes == {"accepted", "promising", "mechanical", "negative"}

-----------------------------------------------------------------------------
(* The candidates of a phase.                                              *)

Catalog == Keys \ Deferred
Tried == {s.key : s \in seen}
SweptKeys == {s.key : s \in {r \in seen : r.sweep}}
PositiveKeys == {s.key : s \in {r \in seen : r.outcome \in Positive}}
OfTier(t) == {k \in Catalog : Tier[k] = t}

\* Keys benchmarked without ever a positive outcome.
FailedKeys == {s.key : s \in {r \in seen : r.outcome = "negative"}} \ PositiveKeys

KnowledgeDriven ==
  LET untried == Catalog \ (Tried \cup active)
      open(t) == untried \cap OfTier(t)
  IN IF open("high") # {} THEN open("high") ELSE open("medium")

\* Of the candidates cands, tier t was swept without an accept.
SweptInVain(cands, t) ==
  /\ cands \cap OfTier(t) \subseteq SweptKeys
  /\ \A s \in seen : s.sweep /\ s.outcome = "accepted" => s.key \notin cands \cap OfTier(t)

LowAfterAccepts(cands) ==   \* mutant: an accept of the sweep does not keep LOW out
  cands \cap (OfTier("high") \cup OfTier("medium")) \subseteq SweptKeys

LowAllowed(cands) == SweptInVain(cands, "high") /\ SweptInVain(cands, "medium")

\* The sweep takes the tiers in order; which keys of a tier come first is left open.
WideSweep(cands) ==
  LET open(t) == (cands \cap OfTier(t)) \ SweptKeys
  IN IF open("high") # {} THEN open("high")
     ELSE IF open("medium") # {} THEN open("medium")
     ELSE IF LowAllowed(cands) THEN open("low") ELSE {}

SweepMandate ==
  OfTier("high") \cup OfTier("medium") \cup (IF LowAllowed(Catalog) THEN OfTier("low") ELSE {})

\* Keys that share a domain or layer with a key that did some good.
Focus(cands) ==
  IF PositiveKeys = {} THEN cands
  ELSE {k \in cands : \E j \in PositiveKeys : <<k, j>> \in Related}

DeferredAnyway == Deferred   \* mutant: offered without permission to reboot
RebootBatch == IF policy.reboot THEN Deferred ELSE {}

filter_candidates(p) ==
  CASE p = "knowledge_driven" -> KnowledgeDriven
    [] p = "wide_sweep" -> WideSweep(Catalog \ FailedKeys)
    [] p = "domain_focus" -> Focus(Catalog \ FailedKeys) \ PositiveKeys
    [] p = "interaction" -> (Catalog \ FailedKeys) \ PositiveKeys
    [] p = "boundary_push" -> Catalog \ FailedKeys
    [] p = "exploit" -> IF best.held /\ best.keys # {} THEN Catalog \cap best.keys ELSE Catalog
    [] p = "reboot_batch" -> RebootBatch
    [] p = "resolve" -> Catalog
    [] p = "optimize" -> (Catalog \ FailedKeys) \ active

\* The gate narrows the candidates, or puts the keys of a group that is due,
\* none of them active, in their place; it adds nothing to none.
Offers(p) ==
  LET cands == filter_candidates(p)
  IN IF cands = {} \/ ~Gated THEN {cands}
     ELSE (SUBSET cands) \cup (SUBSET (Catalog \ active))

-----------------------------------------------------------------------------
(* The phase.                                                              *)

Phase(i) == IF policy.unified THEN UNIFIED_PHASE_SEQUENCE[i] ELSE PHASE_SEQUENCE[i]
Last == IF policy.unified THEN 4 ELSE 7

LeftForCandidates(p) ==   \* mutant: the first phases are left for want of candidates only
  IF p = "knowledge_driven" THEN KnowledgeDriven = {}
  ELSE IF p = "wide_sweep" THEN SweepMandate \subseteq SweptKeys
  ELSE budget[p] = 0

\* The rule that leaves any other phase after three records without a signal
\* never decides: those phases are left after two, or are the last one.
ShouldAdvance(p) ==
  \/ budget[p] = 0
  \/ p = "resolve" /\ runs[p] >= 1
  \/ p = "optimize" /\ \/ Catalog = {}
                       \/ ~good /\ (tested >= 2 \/ runs[p] >= 5)
  \/ p = "knowledge_driven" /\ KnowledgeDriven = {}
  \/ p = "wide_sweep" /\ SweepMandate \subseteq SweptKeys
  \/ p \in {"domain_focus", "interaction", "boundary_push", "exploit"} /\ runs[p] >= 2

NextIfDone ==   \* mutant: one phase further at most
  IF stage # "iterate" THEN {}
  ELSE IF phase # Phase(Last) /\ ShouldAdvance(phase)
  THEN {Phase(i + 1) : i \in {i \in 1..(Last - 1) : Phase(i) = phase}}
  ELSE {phase}

OffTheEnd ==   \* mutant: the last phase is left like the others
  {Phase(i) : i \in {i \in 1..Last :
     /\ stage = "iterate"
     /\ \E j \in 1..i : Phase(j) = phase /\ \A m \in j..(i - 1) : ShouldAdvance(Phase(m))
     /\ ~ShouldAdvance(Phase(i))}}

\* determine_phase, called as an iteration starts: the first phase from the
\* current one on that need not be left, or the last.
Determined ==
  {Phase(i) : i \in {i \in 1..Last :
     /\ stage = "iterate"
     /\ \E j \in 1..i : Phase(j) = phase /\ \A m \in j..(i - 1) : ShouldAdvance(Phase(m))
     /\ i < Last => ~ShouldAdvance(Phase(i))}}

-----------------------------------------------------------------------------
(* Reasons to stop.                                                        *)

\* Every HIGH key was tried and none accepted.
HighExplored ==
  /\ OfTier("high") \subseteq Tried
  /\ \A s \in seen : s.outcome = "accepted" => s.key \notin OfTier("high")

Converged == dry >= 3 /\ HighExplored /\ (best.held => sinceBest >= 2)

Reason ==
  IF Allowance(budget) = 0 THEN "budget_exhausted"
  ELSE IF Converged THEN "converged"
  ELSE IF ~best.held /\ failures >= 3 THEN "consecutive_failures"
  ELSE IF flat >= 2 THEN "marginal_gain_plateau"
  ELSE None

\* What the latest benchmark measured may be another reason to stop: the
\* request rate of earlier sessions is near, or telemetry got worse.
stop_reason(benchmarked) ==
  IF Reason # None THEN {Reason}
  ELSE {None}
    \cup (IF benchmarked /\ best.held /\ explored /\ phase # "resolve"
          THEN {"near_historical_best"} ELSE {})
    \cup (IF benchmarked /\ measured >= 2 THEN {"telemetry_deterioration"} ELSE {})

-----------------------------------------------------------------------------
(* record_iteration.                                                       *)

SpendBelowZero(b, p) == [b EXCEPT ![p] = @ - 1]   \* mutant

Spend(b, p) == [b EXCEPT ![p] = IF @ = 0 THEN 0 ELSE @ - 1]

\* A record of phase p for the keys ks, none without a hypothesis; little: the
\* gain is marginal on every workload; better: an accept beats the best score.
RecordIteration(p, ks, status, little, better) ==
  /\ runs' = [runs EXCEPT ![p] = Count(@, Enough(p))]
  /\ good' = (good \/ (p = "optimize" /\ status \in Positive))
  /\ tested' = IF p = "optimize" /\ status # "rejected_pre_apply"
               THEN Count(tested, 2) ELSE tested
  /\ seen' = seen \cup {[key |-> k, outcome |-> Outcome(status), sweep |-> p = "wide_sweep"] : k \in ks}
  /\ IF status = "accepted" /\ (best.held => better)
     THEN best' = [held |-> TRUE, keys |-> active'] /\ sinceBest' = 0
     ELSE UNCHANGED best /\ sinceBest' = IF best.held THEN Count(sinceBest, 2) ELSE 0
  /\ failures' = IF status \in Positive \/ best.held THEN 0
                 ELSE IF status \in {"rejected", "failed_validation"} THEN Count(failures, 3)
                 ELSE failures
  /\ IF status \in Benchmarked
     THEN /\ dry' = IF status = "accepted" THEN 0 ELSE Count(dry, 3)
          /\ measured' = Count(measured, 2)
          /\ IF p = "resolve" THEN UNCHANGED <<flat, explored>>
             ELSE flat' = (IF little THEN Count(flat, 2) ELSE 0) /\ explored' = TRUE
     ELSE UNCHANGED <<dry, measured, flat, explored>>

-----------------------------------------------------------------------------
(* Before the loop.                                                        *)

Init ==
  /\ policy \in Policies
  /\ budget = policy.budget
  /\ phase = Phase(1)
  /\ stage = IF policy.unified THEN "resolve" ELSE "recipe"
  /\ runs = [p \in Phases |-> 0]
  /\ good = FALSE /\ tested = 0 /\ seen = {} /\ active = {}
  /\ best = [held |-> FALSE, keys |-> {}]
  /\ sinceBest = 0 /\ dry = 0 /\ flat = 0 /\ failures = 0 /\ measured = 0
  /\ explored = FALSE /\ fast = 0
  /\ stop = None /\ spent = 0

\* A recipe that left changes active replaces the warm start and the
\* knowledge-base batch.
StageAfter(s, acts) ==
  CASE s = "recipe" -> IF acts = {} THEN "warm" ELSE "autofix"
    [] s = "warm" -> "kb"
    [] s = "kb" -> "autofix"
    [] OTHER -> "loop"

\* ... and leaves only EXPLOIT and REBOOT_BATCH a budget.
AfterRecipe(b, acts) ==
  IF stage # "recipe" \/ acts = {} THEN b
  ELSE [p \in Phases |-> CASE p = "exploit" -> IF b[p] < 2 THEN b[p] ELSE 2
                           [] p = "reboot_batch" -> b[p]
                           [] OTHER -> 0]

\* A stage without a record; a warm start activates keys without one.
Unrecorded(warm) ==
  /\ stage \in {"resolve", "recipe", "warm", "kb", "autofix"}
  /\ stage # "warm" => warm = {}
  /\ active' = active \cup warm
  /\ stage' = StageAfter(stage, active')
  /\ UNCHANGED <<policy, phase, budget, runs, record, best, fast, stop, spent>>

\* A stage that benchmarks the batch it applied, of parameters of the whole
\* catalog, and records it under the first of them.
Batch(keys, k, status, little, better) ==
  /\ stage \in {"resolve", "recipe", "kb", "autofix"}
  /\ k \in keys /\ keys \cap active = {}
  /\ status \in {"accepted", "inconclusive"}
                \cup (IF stage = "resolve" THEN {"rejected"} ELSE {})
  /\ active' = IF status = "accepted" \/ (stage = "resolve" /\ status # "rejected")
               THEN active \cup keys ELSE active
  /\ LET p == IF stage = "resolve" THEN "resolve" ELSE "knowledge_driven"
     IN /\ RecordIteration(p, {k}, status, little, better)
        /\ budget' = AfterRecipe(Spend(budget, p), active')
  /\ stage' = StageAfter(stage, active')
  /\ UNCHANGED <<policy, phase, fast, stop, spent>>

GoOn == stage' = IF stop' = None THEN "iterate" ELSE "done"

\* The condition of the loop is evaluated for the first time.
EnterLoop ==
  /\ stage = "loop"
  /\ stop' \in stop_reason(measured > 0)
  /\ GoOn
  /\ UNCHANGED <<policy, phase, budget, runs, record, active, best, fast, spent>>

-----------------------------------------------------------------------------
(* The loop.                                                               *)

\* No candidates for phase p.
RunOut(p) ==
  /\ {} \in Offers(p)
  /\ phase' = p
  /\ stop' = IF p = "reboot_batch" /\ Deferred # {} THEN "reboot_blocked" ELSE "no_candidates"
  /\ stage' = "done"
  /\ UNCHANGED <<policy, budget, runs, record, active, best, fast, spent>>

\* An iteration of phase p.
Turn(p) ==
  /\ phase' = p
  /\ budget' = Spend(budget, p)
  /\ spent' = IF p = "resolve" THEN spent ELSE Count(spent, policy.limit + 1)
  /\ UNCHANGED policy

\* After two fast failures in a row the service is restarted; if that fails the
\* session stops.
CheckService(failedFast) ==
  IF failedFast
  THEN \/ fast = 0 /\ fast' = 1 /\ stop' \in stop_reason(FALSE)'
       \/ fast = 1 /\ fast' = 0 /\ stop' \in stop_reason(FALSE)'
       \/ fast = 1 /\ fast' = 1 /\ stop' = "service_dead"
  ELSE fast' = 0 /\ stop' \in stop_reason(FALSE)'

\* Nothing is benchmarked: no hypothesis is generated, or it is refused, fails
\* to apply or fails validation.
Fail(p, ks, status, quick) ==
  /\ Turn(p)
  /\ status \in Mechanical /\ (ks = {} => status = "failed_validation")
  /\ UNCHANGED active
  /\ RecordIteration(p, ks, status, FALSE, FALSE)
  /\ CheckService(quick /\ status = "failed_validation")
  /\ GoOn

\* k and its companions are benchmarked.  They stay when the outcome is positive
\* or rollback is not required.
Measure(p, k, companions, status, little, better) ==
  /\ Turn(p)
  /\ status = "promising" => p = "wide_sweep"
  /\ active' \in {active \cup {k} \cup companions}
                 \cup (IF status \in Positive THEN {} ELSE {active})
  /\ RecordIteration(p, {k}, status, little, better)
  /\ fast' = 0
  /\ stop' \in stop_reason(TRUE)'
  /\ GoOn

Next ==
  \/ \E warm \in SUBSET Keys : Unrecorded(warm)
  \/ \E keys \in SUBSET Keys : \E k \in keys, status \in Benchmarked, little, better \in BOOLEAN :
       Batch(keys, k, status, little, better)
  \/ EnterLoop
  \/ \E p \in Determined :
       \/ RunOut(p)
       \/ \E k \in UNION Offers(p) :
            \/ \E ks \in {{}, {k}}, status \in Mechanical, quick \in BOOLEAN :
                 Fail(p, ks, status, quick)
            \/ \E companions \in SUBSET Companions[k], status \in Benchmarked,
                  little, better \in BOOLEAN :
                 Measure(p, k, companions, status, little, better)

Spec == Init /\ [][Next]_vars /\ WF_vars(Next)

-----------------------------------------------------------------------------
TypeOK ==
  /\ policy \in Policies /\ phase \in Phases
  /\ budget \in [Phases -> Nat] /\ runs \in [Phases -> 0..5]
  /\ good \in BOOLEAN /\ tested \in 0..2
  /\ seen \subseteq [key : Keys, outcome : Outcomes, sweep : BOOLEAN]
  /\ active \subseteq Keys /\ best \in [held : BOOLEAN, keys : SUBSET Keys]
  /\ sinceBest \in 0..2 /\ dry \in 0..3 /\ flat \in 0..2
  /\ failures \in 0..3 /\ measured \in 0..2 /\ explored \in BOOLEAN /\ fast \in 0..1
  /\ stage \in {"resolve", "recipe", "warm", "kb", "autofix", "loop", "iterate", "done"}
  /\ stop \in {None, "budget_exhausted", "converged", "consecutive_failures",
               "marginal_gain_plateau", "near_historical_best", "telemetry_deterioration",
               "reboot_blocked", "no_candidates", "service_dead"}
  /\ spent \in 0..policy.limit + 1

\* Without reboots max_iterations caps the iterations outside RESOLVE, whatever
\* leaves phases early, fails or moves budget: what was spent and what is left
\* never exceed it.  (TuneState.remaining_budget, PhaseController.determine_phase)
LoopWithinBudget == ~policy.reboot => spent + Allowance(budget) <= policy.limit

\* Without reboots the loop of TuneEngine.run ends: every iteration that neither
\* stops the session nor leaves its phase uses up budget.
LoopEnds == ~policy.reboot ~> stage = "done"

\* Why it ends: run() never goes back to an earlier stage, and never stays in one
\* without taking an iteration from some phase's budget, RESOLVE's included.
\* Nothing gives budget back, so that an iteration that finds nothing, fails, or
\* is made in the last phase costs as much as any other.
StageOrder == <<{"resolve", "recipe"}, {"warm"}, {"kb"}, {"autofix"}, {"loop"}, {"iterate"}, {"done"}>>
Later(s, t) == \E i, j \in DOMAIN StageOrder : i < j /\ s \in StageOrder[i] /\ t \in StageOrder[j]
Left(b) == Allowance(b) + b["resolve"]

LoopDescends ==
  [][~policy.reboot =>
       \/ Later(stage, stage') /\ Left(budget') <= Left(budget)
       \/ stage' = stage /\ Left(budget') < Left(budget)]_vars

\* The loop always knows how to go on: determine_phase has one phase for the next
\* iteration, whatever the budgets and however phases were left.
NeverStuck ==
  stage = "iterate" => \E p \in Phases : Determined = {p}

\* Ungated, the sweep reaches a LOW key only after every HIGH and MEDIUM key of
\* the catalog was swept or benchmarked in vain, and the sweep accepted none of
\* them, whatever happened to those keys before the sweep.
\* (PhaseController._filter_by_priority_tier)
SweepOrder ==
  ~Gated /\ OfTier("low") \cap SweptKeys # {} =>
    \A k \in OfTier("high") \cup OfTier("medium") :
      /\ k \in SweptKeys \/ \E s \in seen : s.key = k /\ s.outcome = "negative"
      /\ [key |-> k, outcome |-> "accepted", sweep |-> TRUE] \notin seen
=============================================================================
