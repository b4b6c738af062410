------------------------- MODULE TunePhases_proofs -------------------------
(***************************************************************************)
(* What holds for any catalog, gate and initial budget within the limit:   *)
(* types, max_iterations caps a session without reboots, the sweep goes    *)
(* through its tiers in order, and the loop always has a way on and only   *)
(* ever descends.                                                          *)
(*                                                                         *)
(* The budget (BudgetInv): what was spent and what is left never exceed    *)
(* the limit, since an iteration counted in spent takes one from the       *)
(* budget of its phase.  It could fail to only in a phase without budget,  *)
(* and determine_phase returns none but the last, REBOOT_BATCH, which has  *)
(* no candidates without reboots.                                          *)
(*                                                                         *)
(* The sweep (SweepInv): once a LOW key was swept, every other key of the  *)
(* catalog was swept or has failed, and is offered no more; no phase that  *)
(* could make a failed key good again runs before the sweep is over, and   *)
(* none after it sweeps.                                                   *)
(***************************************************************************)
EXTENDS TunePhases, TLAPS

\* LoopWithinBudget with the types its sums need.
BudgetInv ==
  /\ policy \in Policies
  /\ budget \in [Phases -> Nat]
  /\ spent \in Nat
  /\ LoopWithinBudget

\* An iteration takes one from its phase's budget, if there is any, and leaves
\* the rest alone.  (TuneState.record_iteration)
LEMMA SpendTakesOne ==
  ASSUME NEW b \in [Phases -> Nat], NEW p \in Phases
  PROVE  /\ Spend(b, p) \in [Phases -> Nat]
         /\ Allowance(Spend(b, p)) <= Allowance(b)
         /\ p # "resolve" /\ b[p] > 0 => Allowance(Spend(b, p)) + 1 <= Allowance(b)
<1> DEFINE c == Spend(b, p)
<1>1. c \in [Phases -> Nat]
  BY DEF Spend
<1>2. \A q \in Phases : c[q] = IF q = p /\ b[p] # 0 THEN b[p] - 1 ELSE b[q]
  BY DEF Spend
<1>3. \A q \in Phases : c[q] \in Nat /\ b[q] \in Nat
  BY <1>1
<1> HIDE DEF c
<1>4. Allowance(c) <= Allowance(b)
  BY <1>2, <1>3 DEF Allowance, Phases
<1>5. p # "resolve" /\ b[p] > 0 => Allowance(c) + 1 <= Allowance(b)
  BY <1>2, <1>3 DEF Allowance, Phases
<1> QED BY <1>1, <1>4, <1>5 DEF c

\* A recipe only ever takes budget away.  (TuneEngine._try_recipe_shortcut)
LEMMA RecipeTakesBudget ==
  ASSUME NEW b \in [Phases -> Nat], NEW acts
  PROVE  /\ AfterRecipe(b, acts) \in [Phases -> Nat]
         /\ Allowance(AfterRecipe(b, acts)) <= Allowance(b)
<1> DEFINE c == AfterRecipe(b, acts)
<1>1. c \in [Phases -> Nat]
  BY DEF AfterRecipe
<1>2. \A q \in Phases : c[q] \in Nat /\ b[q] \in Nat /\ c[q] <= b[q]
  BY DEF AfterRecipe
<1> HIDE DEF c
<1>3. Allowance(c) <= Allowance(b)
  BY <1>2 DEF Allowance, Phases
<1> QED BY <1>1, <1>3 DEF c

\* The phase of an iteration has budget, unless it is the last.
\* (PhaseController.determine_phase)
LEMMA DeterminedHasBudget ==
  ASSUME budget \in [Phases -> Nat], NEW p \in Determined
  PROVE  p \in Phases /\ (p = "reboot_batch" \/ budget[p] > 0)
<1>1. PICK i \in 1..Last : p = Phase(i) /\ (i < Last => ~ShouldAdvance(Phase(i)))
  BY DEF Determined
<1>2. Last \in {4, 7}
  BY DEF Last
<1>3. p \in Phases
  BY <1>1 DEF Last, Phase, Phases, PHASE_SEQUENCE, UNIFIED_PHASE_SEQUENCE
<1>4. CASE i = Last
  BY <1>1, <1>3, <1>4 DEF Last, Phase, PHASE_SEQUENCE, UNIFIED_PHASE_SEQUENCE
<1>5. CASE i < Last
  BY <1>1, <1>3, <1>5 DEF ShouldAdvance
<1> QED BY <1>1, <1>2, <1>4, <1>5

\* Without reboots REBOOT_BATCH never has a candidate, gated or not.
\* (PhaseController.filter_candidates, _enforce_hierarchy_candidate_gate)
LEMMA NoRebootNoCandidates ==
  ~policy.reboot => UNION Offers("reboot_batch") = {}
<1>1. ~policy.reboot => filter_candidates("reboot_batch") = {}
  BY DEF filter_candidates, RebootBatch
<1> QED BY <1>1 DEF Offers

\* An iteration keeps what was spent and what is left within the limit.
LEMMA TurnKeepsBudgetInv ==
  ASSUME BudgetInv, NEW p \in Determined, NEW k \in UNION Offers(p), Turn(p)
  PROVE  BudgetInv'
<1>1. p \in Phases /\ (p = "reboot_batch" \/ budget[p] > 0)
  BY DeterminedHasBudget DEF BudgetInv
<1>2. policy' = policy /\ budget' = Spend(budget, p)
  BY DEF Turn
<1>3. policy.limit \in Nat
  BY PhasesAssumption DEF BudgetInv
<1>4. spent' \in Nat
  BY <1>3 DEF Turn, Count, BudgetInv
<1>5. ~policy.reboot => budget[p] > 0
  BY <1>1, NoRebootNoCandidates
<1>6. \A b \in [Phases -> Nat] : Allowance(b) \in Nat
  BY DEF Allowance, Phases
<1>7. /\ Spend(budget, p) \in [Phases -> Nat]
      /\ Allowance(Spend(budget, p)) <= Allowance(budget)
      /\ p # "resolve" /\ budget[p] > 0 => Allowance(Spend(budget, p)) + 1 <= Allowance(budget)
  BY <1>1, SpendTakesOne DEF BudgetInv
<1>8. p = "resolve" => spent' = spent
  BY DEF Turn
<1>9. spent' <= spent + 1
  BY <1>3 DEF Turn, Count, BudgetInv
<1>10. LoopWithinBudget'
  <2> SUFFICES ASSUME ~policy.reboot
               PROVE  spent' + Allowance(Spend(budget, p)) <= policy.limit
    BY <1>2 DEF LoopWithinBudget
  <2>1. spent + Allowance(budget) <= policy.limit
    BY DEF BudgetInv, LoopWithinBudget
  <2> QED BY <2>1, <1>3, <1>4, <1>5, <1>6, <1>7, <1>8, <1>9 DEF BudgetInv
<1> QED BY <1>2, <1>4, <1>7, <1>10 DEF BudgetInv

\* A step that gives no budget and spends none outside RESOLVE.
LEMMA LessBudgetKeepsBudgetInv ==
  ASSUME BudgetInv, policy' = policy, spent' = spent,
         budget' \in [Phases -> Nat], Allowance(budget') <= Allowance(budget)
  PROVE  BudgetInv'
<1>1. \A b \in [Phases -> Nat] : Allowance(b) \in Nat
  BY DEF Allowance, Phases
<1>2. policy.limit \in Nat
  BY PhasesAssumption DEF BudgetInv
<1> QED BY <1>1, <1>2 DEF BudgetInv, LoopWithinBudget

\* A batch before the loop takes budget from its phase, and a recipe more; it is
\* not an iteration of the loop.  (TuneEngine._apply_and_benchmark_batch)
LEMMA BatchKeepsBudgetInv ==
  ASSUME BudgetInv, NEW keys, NEW k, NEW status, NEW little, NEW better,
         Batch(keys, k, status, little, better)
  PROVE  BudgetInv'
<1> DEFINE p == IF stage = "resolve" THEN "resolve" ELSE "knowledge_driven"
<1>1. p \in Phases /\ budget' = AfterRecipe(Spend(budget, p), active')
  BY DEF Batch, Phases
<1>2. policy' = policy /\ spent' = spent
  BY DEF Batch
<1> HIDE DEF p
<1>3. /\ Spend(budget, p) \in [Phases -> Nat]
      /\ Allowance(Spend(budget, p)) <= Allowance(budget)
  BY <1>1, SpendTakesOne DEF BudgetInv
<1>4. /\ budget' \in [Phases -> Nat]
      /\ Allowance(budget') <= Allowance(Spend(budget, p))
  BY <1>1, <1>3, RecipeTakesBudget
<1>5. \A b \in [Phases -> Nat] : Allowance(b) \in Nat
  BY DEF Allowance, Phases
<1>6. Allowance(budget') <= Allowance(budget)
  BY <1>3, <1>4, <1>5 DEF BudgetInv
<1> QED BY <1>2, <1>4, <1>6, LessBudgetKeepsBudgetInv

\* Every step keeps what was spent and what is left within the limit.
LEMMA NextKeepsBudgetInv ==
  ASSUME BudgetInv, [Next]_vars
  PROVE  BudgetInv'
<1>1. \A b \in [Phases -> Nat] : Allowance(b) \in Nat /\ Allowance(b) <= Allowance(b)
  BY DEF Allowance, Phases
<1>2. ASSUME UNCHANGED <<policy, budget, spent>> PROVE BudgetInv'
  BY <1>1, <1>2, LessBudgetKeepsBudgetInv DEF BudgetInv
<1>3. CASE UNCHANGED vars
  BY <1>2, <1>3 DEF vars
<1>4. ASSUME NEW warm \in SUBSET Keys, Unrecorded(warm) PROVE BudgetInv'
  BY <1>2, <1>4 DEF Unrecorded
<1>5. ASSUME NEW keys \in SUBSET Keys, NEW k \in keys, NEW status \in Benchmarked,
             NEW little \in BOOLEAN, NEW better \in BOOLEAN,
             Batch(keys, k, status, little, better)
      PROVE  BudgetInv'
  BY <1>5, BatchKeepsBudgetInv
<1>6. CASE EnterLoop
  BY <1>2, <1>6 DEF EnterLoop
<1>7. ASSUME NEW p \in Determined, RunOut(p) PROVE BudgetInv'
  BY <1>2, <1>7 DEF RunOut
<1>8. ASSUME NEW p \in Determined, NEW k \in UNION Offers(p), NEW ks, NEW status, NEW quick,
             Fail(p, ks, status, quick)
      PROVE  BudgetInv'
  <2>1. Turn(p)
    BY <1>8 DEF Fail
  <2> QED BY <2>1, TurnKeepsBudgetInv
<1>9. ASSUME NEW p \in Determined, NEW k \in UNION Offers(p), NEW companions, NEW status,
             NEW little, NEW better, Measure(p, k, companions, status, little, better)
      PROVE  BudgetInv'
  <2>1. Turn(p)
    BY <1>9 DEF Measure
  <2> QED BY <2>1, TurnKeepsBudgetInv
<1> QED BY <1>3, <1>4, <1>5, <1>6, <1>7, <1>8, <1>9 DEF Next

\* The initial budget of a session fits its limit.
LEMMA InitBudgetInv == Init => BudgetInv
<1> SUFFICES ASSUME Init PROVE BudgetInv
  OBVIOUS
<1>1. /\ policy \in Policies /\ policy.budget \in [Phases -> Nat]
      /\ policy.limit \in Nat /\ Allowance(policy.budget) <= policy.limit
  BY PhasesAssumption DEF Init
<1>2. Allowance(policy.budget) \in Nat
  BY <1>1 DEF Allowance, Phases
<1> QED BY <1>1, <1>2 DEF Init, BudgetInv, LoopWithinBudget

\* Without reboots max_iterations caps the iterations outside RESOLVE.
\* (PhaseController.determine_phase, TuneState.record_iteration)
THEOREM BudgetCapsLoop == Spec => []LoopWithinBudget
<1>1. BudgetInv => LoopWithinBudget
  BY DEF BudgetInv
<1> QED BY <1>1, InitBudgetInv, NextKeepsBudgetInv, PTL DEF Spec

-----------------------------------------------------------------------------
\* What a phase offers are parameters of the catalog, or those that wait for a
\* reboot.
LEMMA OffersKeys ==
  ASSUME NEW p \in Phases, NEW k \in UNION Offers(p)
  PROVE  k \in Keys
<1>1. KnowledgeDriven \subseteq Keys /\ Catalog \subseteq Keys /\ Deferred \subseteq Keys
  BY PhasesAssumption DEF KnowledgeDriven, OfTier, Catalog
<1>2. \A cands : /\ WideSweep(cands) \subseteq cands
                 /\ Focus(cands) \subseteq cands
  BY DEF WideSweep, Focus
<1>3. filter_candidates(p) \subseteq Keys
  BY <1>1, <1>2 DEF filter_candidates, RebootBatch, Phases
<1> QED BY <1>1, <1>3 DEF Offers

\* What stop_reason may answer.
Reasons == {None, "budget_exhausted", "converged", "consecutive_failures",
            "marginal_gain_plateau", "near_historical_best", "telemetry_deterioration"}

LEMMA StopReasonType == \A b \in BOOLEAN : stop_reason(b) \subseteq Reasons /\ stop_reason(b)' \subseteq Reasons
BY DEF stop_reason, Reason, Reasons, None

\* The counters of the records stay within what they are compared with.
LEMMA RecordTypes ==
  ASSUME TypeOK, NEW p \in Phases, NEW ks \in SUBSET Keys, NEW status \in Statuses,
         NEW little, NEW better, active' \subseteq Keys,
         RecordIteration(p, ks, status, little, better)
  PROVE  /\ runs' \in [Phases -> 0..5] /\ good' \in BOOLEAN /\ tested' \in 0..2
         /\ seen' \subseteq [key : Keys, outcome : Outcomes, sweep : BOOLEAN]
         /\ best' \in [held : BOOLEAN, keys : SUBSET Keys]
         /\ sinceBest' \in 0..2 /\ dry' \in 0..3 /\ flat' \in 0..2 /\ failures' \in 0..3
         /\ measured' \in 0..2 /\ explored' \in BOOLEAN
<1> USE DEF RecordIteration
<1>2. Enough(p) \in {0, 1, 2, 5}
  BY DEF Enough
<1>3. runs' \in [Phases -> 0..5]
  <2>1. runs[p] \in 0..5
    BY DEF TypeOK
  <2>2. Count(runs[p], Enough(p)) \in 0..5
    BY <1>2, <2>1 DEF Count
  <2>3. runs' = [runs EXCEPT ![p] = Count(runs[p], Enough(p))]
    OBVIOUS
  <2> QED BY <2>2, <2>3 DEF TypeOK
<1>4. /\ tested \in 0..2 /\ sinceBest \in 0..2 /\ dry \in 0..3 /\ flat \in 0..2 /\ failures \in 0..3
      /\ measured \in 0..2 /\ explored \in BOOLEAN /\ best \in [held : BOOLEAN, keys : SUBSET Keys]
      /\ seen \subseteq [key : Keys, outcome : Outcomes, sweep : BOOLEAN]
  BY DEF TypeOK
<1>5. Outcome(status) \in Outcomes
  BY DEF Outcome, Outcomes, Positive, Mechanical, Statuses
<1>6. good' \in BOOLEAN
  BY Zenon
<1>7. tested' \in {tested, Count(tested, 2)} /\ sinceBest' \in {0, Count(sinceBest, 2)}
  BY Zenon
<1>8. \/ best' = best
      \/ best' = [held |-> TRUE, keys |-> active']
  BY Zenon
<1>9. failures' \in {0, failures, Count(failures, 3)} /\ dry' \in {0, dry, Count(dry, 3)}
      /\ measured' \in {measured, Count(measured, 2)} /\ flat' \in {0, flat, Count(flat, 2)}
      /\ explored' \in {explored, TRUE}
  BY Zenon
<1>10. seen' = seen \cup {[key |-> k, outcome |-> Outcome(status), sweep |-> p = "wide_sweep"] : k \in ks}
  OBVIOUS
<1> HIDE DEF RecordIteration
<1>11. seen' \subseteq [key : Keys, outcome : Outcomes, sweep : BOOLEAN]
  <2>1. ASSUME NEW k \in ks
        PROVE  [key |-> k, outcome |-> Outcome(status), sweep |-> p = "wide_sweep"]
                 \in [key : Keys, outcome : Outcomes, sweep : BOOLEAN]
    BY <1>5
  <2> DEFINE Rec(k) == [key |-> k, outcome |-> Outcome(status), sweep |-> p = "wide_sweep"]
  <2>2. \A k \in ks : Rec(k) \in [key : Keys, outcome : Outcomes, sweep : BOOLEAN]
    BY <2>1, Zenon
  <2>3. seen' = seen \cup {Rec(k) : k \in ks}
    BY <1>10, Zenon
  <2> HIDE DEF Rec
  <2> QED BY <1>4, <2>2, <2>3
<1>12. /\ tested' \in 0..2 /\ sinceBest' \in 0..2 /\ dry' \in 0..3 /\ flat' \in 0..2
       /\ failures' \in 0..3 /\ measured' \in 0..2
  BY <1>4, <1>7, <1>9 DEF Count
<1>13. explored' \in BOOLEAN
  BY <1>4, <1>9, Zenon
<1>14. best' \in [held : BOOLEAN, keys : SUBSET Keys]
  <2>1. [held |-> TRUE, keys |-> active'] \in [held : BOOLEAN, keys : SUBSET Keys]
    OBVIOUS
  <2> QED BY <1>4, <1>8, <2>1, Zenon
<1> QED BY <1>3, <1>6, <1>11, <1>12, <1>13, <1>14

\* Every step keeps the types.
LEMMA NextKeepsTypes == TypeOK /\ [Next]_vars => TypeOK'
<1> SUFFICES ASSUME TypeOK, [Next]_vars PROVE TypeOK'
  OBVIOUS
<1> DEFINE Stages == {"resolve", "recipe", "warm", "kb", "autofix", "loop", "iterate", "done"}
           Stops == Reasons \cup {"reboot_blocked", "no_candidates", "service_dead"}
<1>1. CASE UNCHANGED vars
  BY <1>1 DEF TypeOK, vars, record
<1>2. \A b \in [Phases -> Nat] : \A acts : AfterRecipe(b, acts) \in [Phases -> Nat]
  BY DEF AfterRecipe
<1>3. \A b \in [Phases -> Nat], p \in Phases : Spend(b, p) \in [Phases -> Nat]
  BY DEF Spend
<1>4. \A s \in Stages : \A acts : StageAfter(s, acts) \in Stages
  BY DEF StageAfter
<1>5. ASSUME NEW warm \in SUBSET Keys, Unrecorded(warm) PROVE TypeOK'
  <2>1. stage' \in Stages
    BY <1>4, <1>5 DEF Unrecorded, TypeOK
  <2>2. active' \subseteq Keys
    BY <1>5 DEF Unrecorded, TypeOK
  <2> QED BY <1>5, <2>1, <2>2 DEF Unrecorded, TypeOK, record
<1>6. ASSUME NEW keys \in SUBSET Keys, NEW k \in keys, NEW status \in Benchmarked,
             NEW little \in BOOLEAN, NEW better \in BOOLEAN,
             Batch(keys, k, status, little, better)
      PROVE  TypeOK'
  <2> DEFINE p == IF stage = "resolve" THEN "resolve" ELSE "knowledge_driven"
  <2>1. /\ p \in Phases /\ RecordIteration(p, {k}, status, little, better)
        /\ budget' = AfterRecipe(Spend(budget, p), active') /\ stage' = StageAfter(stage, active')
        /\ UNCHANGED <<policy, phase, fast, stop, spent>>
        /\ status \in Statuses /\ {k} \in SUBSET Keys
    BY <1>6 DEF Batch, Phases, Statuses
  <2>2. active' \subseteq Keys
    BY <1>6 DEF Batch, TypeOK
  <2> HIDE DEF p
  <2>3. budget' \in [Phases -> Nat] /\ stage' \in Stages
    BY <1>2, <1>3, <1>4, <2>1 DEF TypeOK
  <2>4. /\ runs' \in [Phases -> 0..5] /\ good' \in BOOLEAN /\ tested' \in 0..2
        /\ seen' \subseteq [key : Keys, outcome : Outcomes, sweep : BOOLEAN]
        /\ best' \in [held : BOOLEAN, keys : SUBSET Keys]
        /\ sinceBest' \in 0..2 /\ dry' \in 0..3 /\ flat' \in 0..2 /\ failures' \in 0..3
        /\ measured' \in 0..2 /\ explored' \in BOOLEAN
    BY <2>1, <2>2, RecordTypes
  <2> QED BY <2>1, <2>2, <2>3, <2>4 DEF TypeOK
<1>7. CASE EnterLoop
  <2>1. (measured > 0) \in BOOLEAN
    BY DEF TypeOK
  <2>2. stop' \in Stops /\ stage' \in Stages
    BY <1>7, <2>1, StopReasonType DEF EnterLoop, GoOn
  <2> QED BY <1>7, <2>2 DEF EnterLoop, TypeOK, record, Reasons
<1>8. \A p \in Determined : p \in Phases
  BY DeterminedHasBudget DEF TypeOK
<1>9. ASSUME NEW p \in Determined, RunOut(p) PROVE TypeOK'
  <2>1. p \in Phases
    BY <1>8
  <2> QED BY <1>9, <2>1 DEF RunOut, TypeOK, record
<1>10. ASSUME NEW p \in Determined, Turn(p)
       PROVE  /\ p \in Phases /\ policy' = policy /\ phase' \in Phases
              /\ budget' \in [Phases -> Nat] /\ spent' \in 0..policy.limit + 1
  <2>1. policy.limit \in Nat
    BY PhasesAssumption DEF TypeOK
  <2> QED BY <1>3, <1>8, <1>10, <2>1 DEF Turn, Count, TypeOK
<1>11. ASSUME NEW p \in Determined, NEW k \in UNION Offers(p), NEW ks \in {{}, {k}},
              NEW status \in Mechanical, NEW quick \in BOOLEAN, Fail(p, ks, status, quick)
       PROVE  TypeOK'
  <2>1. /\ Turn(p) /\ active' = active /\ RecordIteration(p, ks, status, FALSE, FALSE)
        /\ CheckService(quick /\ status = "failed_validation") /\ GoOn
    BY <1>11 DEF Fail
  <2>2. /\ p \in Phases /\ policy' = policy /\ phase' \in Phases
        /\ budget' \in [Phases -> Nat] /\ spent' \in 0..policy.limit + 1
    BY <1>10, <2>1
  <2>3. k \in Keys
    BY <2>2, OffersKeys
  <2>4. active' \subseteq Keys /\ ks \in SUBSET Keys /\ status \in Statuses
    BY <2>1, <2>3 DEF TypeOK, Statuses
  <2>5. /\ runs' \in [Phases -> 0..5] /\ good' \in BOOLEAN /\ tested' \in 0..2
        /\ seen' \subseteq [key : Keys, outcome : Outcomes, sweep : BOOLEAN]
        /\ best' \in [held : BOOLEAN, keys : SUBSET Keys]
        /\ sinceBest' \in 0..2 /\ dry' \in 0..3 /\ flat' \in 0..2 /\ failures' \in 0..3
        /\ measured' \in 0..2 /\ explored' \in BOOLEAN
    BY <2>1, <2>2, <2>4, RecordTypes
  <2>6. stop' \in Stops /\ fast' \in 0..1
    <3>1. fast' \in {0, 1} /\ (stop' \in stop_reason(FALSE)' \/ stop' = "service_dead")
      BY <2>1, Zenon DEF CheckService
    <3>2. stop_reason(FALSE)' \subseteq Reasons
      BY StopReasonType, Zenon
    <3>3. stop' \in Reasons \/ stop' = "service_dead"
      BY <3>1, <3>2, Zenon
    <3> QED BY <3>1, <3>3
  <2>7. stage' \in Stages
    BY <2>1 DEF GoOn
  <2> QED BY <2>2, <2>4, <2>5, <2>6, <2>7 DEF TypeOK, Reasons
<1>12. ASSUME NEW p \in Determined, NEW k \in UNION Offers(p),
              NEW companions \in SUBSET Companions[k], NEW status \in Benchmarked,
              NEW little \in BOOLEAN, NEW better \in BOOLEAN,
              Measure(p, k, companions, status, little, better)
       PROVE  TypeOK'
  <2>1. /\ Turn(p) /\ RecordIteration(p, {k}, status, little, better) /\ GoOn
        /\ fast' = 0 /\ stop' \in stop_reason(TRUE)'
        /\ active' \in {active \cup {k} \cup companions, active}
    BY <1>12 DEF Measure
  <2>2. /\ p \in Phases /\ policy' = policy /\ phase' \in Phases
        /\ budget' \in [Phases -> Nat] /\ spent' \in 0..policy.limit + 1
    BY <1>10, <2>1
  <2>3. k \in Keys /\ Companions[k] \subseteq Keys
    BY <2>2, OffersKeys, PhasesAssumption
  <2>4. active' \subseteq Keys /\ {k} \in SUBSET Keys /\ status \in Statuses
    BY <2>1, <2>3 DEF TypeOK, Statuses
  <2>5. /\ runs' \in [Phases -> 0..5] /\ good' \in BOOLEAN /\ tested' \in 0..2
        /\ seen' \subseteq [key : Keys, outcome : Outcomes, sweep : BOOLEAN]
        /\ best' \in [held : BOOLEAN, keys : SUBSET Keys]
        /\ sinceBest' \in 0..2 /\ dry' \in 0..3 /\ flat' \in 0..2 /\ failures' \in 0..3
        /\ measured' \in 0..2 /\ explored' \in BOOLEAN
    BY <2>1, <2>2, <2>4, RecordTypes
  <2>6. stop' \in Stops /\ stage' \in Stages
    BY <2>1, StopReasonType DEF GoOn
  <2> QED BY <2>1, <2>2, <2>4, <2>5, <2>6 DEF TypeOK, Reasons
<1> QED BY <1>1, <1>5, <1>6, <1>7, <1>9, <1>11, <1>12, ZenonT(60) DEF Next

\* ... and the types hold at first.
LEMMA InitTypes == Init => TypeOK
<1> SUFFICES ASSUME Init PROVE TypeOK
  OBVIOUS
<1>1. policy \in Policies /\ policy.budget \in [Phases -> Nat] /\ policy.limit \in Nat
  BY PhasesAssumption DEF Init
<1>2. phase \in Phases
  BY DEF Init, Phase, Phases, PHASE_SEQUENCE, UNIFIED_PHASE_SEQUENCE
<1>3. runs \in [Phases -> 0..5] /\ best \in [held : BOOLEAN, keys : SUBSET Keys]
  BY DEF Init
<1>4. 0 \in 0..policy.limit + 1 /\ budget \in [Phases -> Nat] /\ spent = 0
  BY <1>1 DEF Init
<1>5. /\ tested = 0 /\ seen = {} /\ active = {} /\ sinceBest = 0 /\ dry = 0 /\ flat = 0
      /\ failures = 0 /\ measured = 0 /\ fast = 0
  BY Zenon DEF Init
<1>6. good \in BOOLEAN /\ explored \in BOOLEAN /\ stage \in {"resolve", "recipe"} /\ stop = None
  BY Zenon DEF Init
<1> QED BY <1>1, <1>2, <1>3, <1>4, <1>5, <1>6 DEF TypeOK

\* Phases, budgets, counters and reasons to stop keep their types.
\* (PhaseController, TuneState)
THEOREM PhaseTypes == Spec => []TypeOK
BY InitTypes, NextKeepsTypes, PTL DEF Spec

-----------------------------------------------------------------------------
\* The order of the sweep.  Once a LOW key was swept nothing but LOW keys is
\* left to it: every other key was swept, or failed before and stays failed,
\* since the sweep offers it no more and no other phase runs before it is over.
Prior == OfTier("high") \cup OfTier("medium")
LowSwept == OfTier("low") \cap SweptKeys # {}

SweepInv ==
  /\ TypeOK
  /\ stage \notin {"iterate", "done"} => phase = Phase(1)
  /\ SweptKeys # {} => ~policy.unified /\ phase # "knowledge_driven"
  /\ SweepOrder
  /\ ~Gated /\ LowSwept /\ phase = "wide_sweep" => Prior \subseteq FailedKeys \cup SweptKeys

\* The sweep comes second in a session that has one, and is not come back to.
\* (PhaseController.determine_phase)
LEMMA SweepIsSecond ==
  ASSUME NEW p \in Determined
  PROVE  /\ stage = "iterate"
         /\ p = "wide_sweep" => ~policy.unified /\ phase \in {"knowledge_driven", "wide_sweep"}
         /\ p = "knowledge_driven" => phase = "knowledge_driven"
<1>1. PICK i \in 1..Last : /\ p = Phase(i) /\ stage = "iterate"
                           /\ \E j \in 1..i : Phase(j) = phase
  BY DEF Determined
<1>2. PICK j \in 1..i : Phase(j) = phase
  BY <1>1
<1>3. CASE policy.unified
  <2>1. i \in 1..4 /\ p = UNIFIED_PHASE_SEQUENCE[i]
    BY <1>1, <1>3 DEF Phase, Last
  <2> QED BY <1>1, <2>1 DEF UNIFIED_PHASE_SEQUENCE
<1>4. CASE ~policy.unified
  <2>1. i \in 1..7 /\ p = PHASE_SEQUENCE[i] /\ phase = PHASE_SEQUENCE[j] /\ j \in 1..i
    BY <1>1, <1>2, <1>4 DEF Phase, Last
  <2> QED BY <1>1, <1>4, <2>1 DEF PHASE_SEQUENCE
<1> QED BY <1>3, <1>4

\* What the sweep offers, ungated: a LOW key only when all others were swept or
\* have failed, and none of those that have not was accepted by the sweep.
LEMMA SweepOffer ==
  ASSUME ~Gated, NEW k \in UNION Offers("wide_sweep")
  PROVE  /\ k \in Catalog \ FailedKeys /\ k \notin SweptKeys
         /\ k \in Prior \/ /\ Prior \subseteq FailedKeys \cup SweptKeys
                           /\ \A s \in seen : s.sweep /\ s.outcome = "accepted" =>
                                s.key \notin Prior \ FailedKeys
<1> DEFINE cands == Catalog \ FailedKeys
           open(t) == (cands \cap OfTier(t)) \ SweptKeys
<1>1. k \in WideSweep(cands)
  BY DEF Offers, filter_candidates, RebootBatch
<1>2. OfTier("high") \subseteq Catalog /\ OfTier("medium") \subseteq Catalog
  BY DEF OfTier
<1>3. \/ k \in open("high") \/ k \in open("medium")
      \/ open("high") = {} /\ open("medium") = {} /\ LowAllowed(cands) /\ k \in open("low")
  BY <1>1 DEF WideSweep
<1>4. ASSUME open("high") = {}, open("medium") = {}, LowAllowed(cands)
      PROVE  /\ Prior \subseteq FailedKeys \cup SweptKeys
             /\ \A s \in seen : s.sweep /\ s.outcome = "accepted" => s.key \notin Prior \ FailedKeys
  <2>1. Prior \subseteq FailedKeys \cup SweptKeys
    BY <1>2, <1>4 DEF Prior
  <2>2. ASSUME NEW s \in seen, s.sweep, s.outcome = "accepted"
        PROVE  s.key \notin cands \cap OfTier("high") /\ s.key \notin cands \cap OfTier("medium")
    BY <1>4, <2>2 DEF LowAllowed, SweptInVain
  <2>3. Prior \ FailedKeys \subseteq (cands \cap OfTier("high")) \cup (cands \cap OfTier("medium"))
    BY <1>2 DEF Prior
  <2> QED BY <2>1, <2>2, <2>3
<1> QED BY <1>3, <1>4 DEF Prior

\* Records that are not the sweep's change nothing of what the sweep did, and
\* nothing that failed before becomes untried.
LEMMA UnsweptRecords ==
  ASSUME SweepInv, seen \subseteq seen', \A s \in seen' : s \in seen \/ ~s.sweep
  PROVE  SweptKeys' = SweptKeys /\ SweepOrder'
<1>1. SweptKeys' = SweptKeys
  BY DEF SweptKeys
<1>2. \A k \in Keys : [key |-> k, outcome |-> "accepted", sweep |-> TRUE] \in seen'
                        => [key |-> k, outcome |-> "accepted", sweep |-> TRUE] \in seen
  OBVIOUS
<1>3. \A t : OfTier(t) \subseteq Keys
  BY DEF OfTier, Catalog
<1> QED BY <1>1, <1>2, <1>3 DEF SweepInv, SweepOrder

\* Any other phase leaves records that are not the sweep's.
LEMMA NotSwept ==
  ASSUME NEW p, p # "wide_sweep", NEW ks, NEW o,
         seen' = seen \cup {[key |-> j, outcome |-> o, sweep |-> p = "wide_sweep"] : j \in ks}
  PROVE  \A s \in seen' : s \in seen \/ ~s.sweep
<1> SUFFICES ASSUME NEW s \in seen', s \notin seen PROVE ~s.sweep
  OBVIOUS
<1>1. PICK j \in ks : s = [key |-> j, outcome |-> o, sweep |-> p = "wide_sweep"]
  BY Zenon
<1>2. s.sweep = (p = "wide_sweep")
  BY <1>1, Zenon
<1> QED BY <1>2, Zenon

\* An iteration of the loop.  (TuneState.record_iteration)
LEMMA TurnKeepsSweepInv ==
  ASSUME SweepInv, TypeOK', NEW p \in Determined, NEW k \in UNION Offers(p), NEW ks \in {{}, {k}},
         NEW o, policy' = policy, phase' = p, stage' \in {"iterate", "done"},
         seen' = seen \cup {[key |-> j, outcome |-> o, sweep |-> p = "wide_sweep"] : j \in ks}
  PROVE  SweepInv'
<1>1. /\ p = "wide_sweep" => ~policy.unified /\ phase \in {"knowledge_driven", "wide_sweep"}
      /\ p = "knowledge_driven" => phase = "knowledge_driven"
  BY SweepIsSecond
<1>2. CASE p # "wide_sweep"
  <2>1. \A s \in seen' : s \in seen \/ ~s.sweep
    BY <1>2, NotSwept
  <2>2. SweptKeys' = SweptKeys /\ SweepOrder'
    BY <2>1, UnsweptRecords
  <2> QED BY <1>1, <1>2, <2>2 DEF SweepInv, LowSwept, OfTier, Catalog
<1>3. CASE p = "wide_sweep" /\ ks = {}
  <2>1. seen' = seen
    BY <1>3
  <2>2. SweptKeys' = SweptKeys /\ SweepOrder' /\ FailedKeys' = FailedKeys
    BY <2>1 DEF SweptKeys, FailedKeys, PositiveKeys, SweepOrder, SweepInv, OfTier, Catalog
  <2>3. ASSUME ~Gated, LowSwept PROVE Prior \subseteq FailedKeys \cup SweptKeys
    BY <1>1, <1>3, <2>3 DEF SweepInv, LowSwept
  <2> QED BY <1>1, <1>3, <2>2, <2>3 DEF SweepInv, LowSwept, OfTier, Catalog, Prior
<1>4. CASE p = "wide_sweep" /\ ks = {k}
  <2> DEFINE new == [key |-> k, outcome |-> o, sweep |-> TRUE]
  <2>1. seen' = seen \cup {new}
    BY <1>4, Zenon
  <2>2. k \in Keys
    BY <1>4, OffersKeys DEF Phases
  <2>3. SweptKeys' = SweptKeys \cup {k}
    <3>1. new.key = k /\ new.sweep
      OBVIOUS
    <3> HIDE DEF new
    <3> QED BY <2>1, <3>1 DEF SweptKeys
  <2>4. SweptKeys' # {} => ~policy'.unified /\ phase' # "knowledge_driven"
    BY <1>1, <1>4
  <2>5. ASSUME ~Gated, LowSwept'
        PROVE  /\ SweepOrder'
               /\ Prior' \subseteq FailedKeys' \cup SweptKeys'
    <3>1. /\ k \in Catalog \ FailedKeys /\ k \notin SweptKeys
          /\ k \in Prior \/ /\ Prior \subseteq FailedKeys \cup SweptKeys
                            /\ \A s \in seen : s.sweep /\ s.outcome = "accepted" =>
                                 s.key \notin Prior \ FailedKeys
      BY <1>4, <2>5, SweepOffer
    <3>2. LowSwept => Prior \subseteq FailedKeys \cup SweptKeys
      BY <1>1, <1>4, <2>5 DEF SweepInv, LowSwept
    <3>3. OfTier("low") \cap Prior = {}
      BY DEF OfTier, Prior
    <3>4. k \notin Prior
      BY <2>3, <2>5, <3>1, <3>2, <3>3 DEF LowSwept, OfTier, Catalog
    <3>5. Prior' = Prior /\ \A j \in Prior : j \in FailedKeys => j \in FailedKeys'
      BY <2>1, <3>4 DEF Prior, OfTier, Catalog, FailedKeys, PositiveKeys
    <3>6. Prior' \subseteq FailedKeys' \cup SweptKeys'
      BY <2>3, <3>1, <3>4, <3>5
    <3>7. ASSUME NEW j \in Prior
          PROVE  /\ j \in SweptKeys' \/ \E s \in seen' : s.key = j /\ s.outcome = "negative"
                 /\ [key |-> j, outcome |-> "accepted", sweep |-> TRUE] \notin seen'
      <4>1. j \in SweptKeys' \/ \E s \in seen' : s.key = j /\ s.outcome = "negative"
        <5>1. j \in FailedKeys => \E s \in seen : s.key = j /\ s.outcome = "negative"
          BY DEF FailedKeys
        <5> QED BY <2>1, <2>3, <3>1, <3>4, <5>1
      <4> DEFINE acc == [key |-> j, outcome |-> "accepted", sweep |-> TRUE]
      <4>2. acc # new
        BY <3>4
      <4>3. acc \notin seen
        <5>1. acc \in seen => j \notin FailedKeys
          BY DEF FailedKeys, PositiveKeys, Positive
        <5>2. acc.key = j /\ acc.outcome = "accepted" /\ acc.sweep = TRUE
          OBVIOUS
        <5> HIDE DEF acc
        <5> QED BY <3>1, <3>4, <5>1, <5>2
      <4> QED BY <2>1, <4>1, <4>2, <4>3
    <3> QED BY <3>5, <3>6, <3>7 DEF SweepOrder, Prior
  <2>6. Gated => SweepOrder'
    BY DEF SweepOrder
  <2>7. ~LowSwept' => SweepOrder'
    BY DEF SweepOrder, LowSwept
  <2> QED BY <1>4, <2>4, <2>5, <2>6, <2>7 DEF SweepInv
<1> QED BY <1>2, <1>3, <1>4

\* Before the loop there was no sweep.
LEMMA NextKeepsSweepInv == SweepInv /\ [Next]_vars => SweepInv'
<1> SUFFICES ASSUME SweepInv, [Next]_vars PROVE SweepInv'
  OBVIOUS
<1>1. TypeOK'
  BY NextKeepsTypes DEF SweepInv
<1>2. ASSUME UNCHANGED <<policy, phase, seen>>,
             stage' \notin {"iterate", "done"} => stage \notin {"iterate", "done"}
      PROVE  SweepInv'
  BY <1>1, <1>2
     DEF SweepInv, SweepOrder, LowSwept, Prior, Phase, SweptKeys, FailedKeys, PositiveKeys, OfTier, Catalog
<1>3. CASE UNCHANGED vars
  BY <1>2, <1>3 DEF vars, record
<1>4. ASSUME NEW warm \in SUBSET Keys, Unrecorded(warm) PROVE SweepInv'
  BY <1>2, <1>4 DEF Unrecorded, record
<1>5. ASSUME NEW keys \in SUBSET Keys, NEW k \in keys, NEW status \in Benchmarked,
             NEW little \in BOOLEAN, NEW better \in BOOLEAN,
             Batch(keys, k, status, little, better)
      PROVE  SweepInv'
  <2>1. /\ policy' = policy /\ phase' = phase /\ stage \notin {"iterate", "done"}
        /\ \E p \in {"resolve", "knowledge_driven"} :
             seen' = seen \cup {[key |-> j, outcome |-> Outcome(status), sweep |-> p = "wide_sweep"] : j \in {k}}
    BY <1>5 DEF Batch, RecordIteration
  <2>2. phase = Phase(1) /\ SweptKeys = {}
    BY <2>1 DEF SweepInv, Phase, PHASE_SEQUENCE
  <2>3. seen \subseteq seen' /\ \A s \in seen' : s \in seen \/ ~s.sweep
    <3>1. PICK p \in {"resolve", "knowledge_driven"} :
            seen' = seen \cup {[key |-> j, outcome |-> Outcome(status), sweep |-> p = "wide_sweep"] : j \in {k}}
      BY <2>1
    <3>2. p # "wide_sweep"
      OBVIOUS
    <3>3. ASSUME NEW t \in seen', t \notin seen PROVE ~t.sweep
      <4>1. PICK j \in {k} : t = [key |-> j, outcome |-> Outcome(status), sweep |-> p = "wide_sweep"]
        BY <3>1, <3>3, Zenon
      <4>2. t.sweep = (p = "wide_sweep")
        BY <4>1, Zenon
      <4> QED BY <3>2, <4>2, Zenon
    <3> QED BY <3>1, <3>3
  <2>4. SweptKeys' = {} /\ SweepOrder'
    BY <2>2, <2>3, UnsweptRecords
  <2>5. phase' = Phase(1)'
    BY <2>1, <2>2 DEF Phase
  <2> QED BY <1>1, <2>4, <2>5 DEF SweepInv, LowSwept
<1>6. CASE EnterLoop
  BY <1>2, <1>6 DEF EnterLoop, GoOn, record
<1>7. ASSUME NEW p \in Determined, RunOut(p) PROVE SweepInv'
  <2>1. /\ seen' = seen /\ policy' = policy /\ phase' = p /\ stage' = "done"
    BY <1>7 DEF RunOut, record
  <2>2. /\ p = "wide_sweep" => ~policy.unified /\ phase \in {"knowledge_driven", "wide_sweep"}
        /\ p = "knowledge_driven" => phase = "knowledge_driven"
    BY SweepIsSecond
  <2>3. /\ SweptKeys' = SweptKeys /\ SweepOrder' /\ FailedKeys' = FailedKeys
        /\ LowSwept' = LowSwept /\ Prior' = Prior
    BY <2>1 DEF SweptKeys, FailedKeys, PositiveKeys, SweepOrder, SweepInv, OfTier, Catalog, LowSwept, Prior
  <2>4. ASSUME ~Gated, LowSwept, p = "wide_sweep" PROVE Prior \subseteq FailedKeys \cup SweptKeys
    BY <2>2, <2>4 DEF SweepInv, LowSwept
  <2> QED BY <1>1, <2>1, <2>2, <2>3, <2>4 DEF SweepInv
<1>8. ASSUME NEW p \in Determined, NEW k \in UNION Offers(p), NEW ks \in {{}, {k}},
             NEW status \in Mechanical, NEW quick \in BOOLEAN, Fail(p, ks, status, quick)
      PROVE  SweepInv'
  <2>1. /\ policy' = policy /\ phase' = p /\ stage' \in {"iterate", "done"}
        /\ seen' = seen \cup {[key |-> j, outcome |-> Outcome(status), sweep |-> p = "wide_sweep"] : j \in ks}
    BY <1>8 DEF Fail, Turn, GoOn, RecordIteration
  <2> QED BY <1>1, <2>1, TurnKeepsSweepInv
<1>9. ASSUME NEW p \in Determined, NEW k \in UNION Offers(p),
             NEW companions \in SUBSET Companions[k], NEW status \in Benchmarked,
             NEW little \in BOOLEAN, NEW better \in BOOLEAN,
             Measure(p, k, companions, status, little, better)
      PROVE  SweepInv'
  <2>1. /\ policy' = policy /\ phase' = p /\ stage' \in {"iterate", "done"}
        /\ seen' = seen \cup {[key |-> j, outcome |-> Outcome(status), sweep |-> p = "wide_sweep"] : j \in {k}}
    BY <1>9 DEF Measure, Turn, GoOn, RecordIteration
  <2> QED BY <1>1, <2>1, TurnKeepsSweepInv
<1> QED BY <1>3, <1>4, <1>5, <1>6, <1>7, <1>8, <1>9, ZenonT(60) DEF Next

\* Ungated, a LOW key is swept only when the other keys of the catalog were swept
\* or had failed, and never after the sweep accepted one of them.
\* (PhaseController._filter_by_priority_tier, determine_phase)
THEOREM SweepKeepsOrder == Spec => []SweepOrder
<1>1. Init => SweepInv
  <2> SUFFICES ASSUME Init PROVE SweepInv
    OBVIOUS
  <2>1. TypeOK
    BY InitTypes
  <2>2. seen = {} /\ phase = Phase(1)
    BY DEF Init
  <2>3. SweptKeys = {}
    BY <2>2 DEF SweptKeys
  <2> QED BY <2>1, <2>2, <2>3 DEF SweepInv, SweepOrder, LowSwept
<1>2. SweepInv => SweepOrder
  BY DEF SweepInv
<1> QED BY <1>1, <1>2, NextKeepsSweepInv, PTL DEF Spec

-----------------------------------------------------------------------------
\* The end of the loop.  What is left of the budgets, RESOLVE's included, falls
\* with every iteration, and everything else leads to a later stage.
LEMMA LeftIsNat ==
  ASSUME NEW b \in [Phases -> Nat]
  PROVE  Left(b) \in Nat
BY DEF Left, Allowance, Phases

\* A mapping of phases to budgets with less of one phase, and no more of others,
\* has less left.
LEMMA LessOfOneIsLess ==
  ASSUME NEW b \in [Phases -> Nat], NEW c \in [Phases -> Nat],
         \A q \in Phases : c[q] <= b[q]
  PROVE  /\ Left(c) <= Left(b)
         /\ \A p \in Phases : c[p] < b[p] => Left(c) < Left(b)
<1>1. \A q \in Phases : c[q] \in Nat /\ b[q] \in Nat
  OBVIOUS
<1>2. Left(c) <= Left(b)
  BY <1>1 DEF Left, Allowance, Phases
<1>3. ASSUME NEW p \in Phases, c[p] < b[p] PROVE Left(c) < Left(b)
  BY <1>1, <1>3 DEF Left, Allowance, Phases
<1> QED BY <1>2, <1>3

\* (TuneState.record_iteration)
LEMMA SpendingLowersWhatIsLeft ==
  ASSUME NEW b \in [Phases -> Nat], NEW p \in Phases
  PROVE  /\ Left(Spend(b, p)) <= Left(b)
         /\ b[p] > 0 => Left(Spend(b, p)) < Left(b)
<1>1. Spend(b, p) \in [Phases -> Nat]
  BY DEF Spend
<1>2. \A q \in Phases : Spend(b, p)[q] <= b[q]
  BY DEF Spend
<1>3. b[p] > 0 => Spend(b, p)[p] < b[p]
  BY DEF Spend
<1> QED BY <1>1, <1>2, <1>3, LessOfOneIsLess

\* (TuneEngine._try_recipe_shortcut)
LEMMA RecipeLowersWhatIsLeft ==
  ASSUME NEW b \in [Phases -> Nat], NEW acts
  PROVE  Left(AfterRecipe(b, acts)) <= Left(b)
<1>1. /\ AfterRecipe(b, acts) \in [Phases -> Nat]
      /\ \A q \in Phases : AfterRecipe(b, acts)[q] <= b[q]
  BY DEF AfterRecipe
<1> QED BY <1>1, LessOfOneIsLess

\* A stage before the loop is followed by a later one, recipe or not.
LEMMA StagesFollow ==
  ASSUME NEW s \in {"resolve", "recipe", "warm", "kb", "autofix"}, NEW acts
  PROVE  Later(s, StageAfter(s, acts))
<1>1. s \in {"resolve", "recipe"} => s \in StageOrder[1]
  BY DEF StageOrder
<1>2. StageAfter(s, acts) \in (CASE s = "recipe" -> {"warm", "autofix"} [] s = "warm" -> {"kb"}
                                 [] s = "kb" -> {"autofix"} [] OTHER -> {"loop"})
  BY DEF StageAfter
<1>3. /\ "warm" \in StageOrder[2] /\ "kb" \in StageOrder[3]
      /\ "autofix" \in StageOrder[4] /\ "loop" \in StageOrder[5]
      /\ 1..7 = DOMAIN StageOrder
  BY DEF StageOrder
<1>4. CASE s = "recipe"
  BY <1>1, <1>2, <1>3, <1>4 DEF Later
<1>5. CASE s = "resolve"
  BY <1>1, <1>2, <1>3, <1>5 DEF Later
<1>6. CASE s = "warm"
  BY <1>2, <1>3, <1>6 DEF Later
<1>7. CASE s = "kb"
  BY <1>2, <1>3, <1>7 DEF Later
<1>8. CASE s = "autofix"
  BY <1>2, <1>3, <1>8 DEF Later
<1> QED BY <1>4, <1>5, <1>6, <1>7, <1>8

LEMMA LoopIsLast ==
  /\ Later("loop", "iterate") /\ Later("loop", "done") /\ Later("iterate", "done")
<1>1. /\ "loop" \in StageOrder[5] /\ "iterate" \in StageOrder[6] /\ "done" \in StageOrder[7]
      /\ 1..7 = DOMAIN StageOrder
  BY DEF StageOrder
<1> QED BY <1>1 DEF Later

\* What LoopDescends says of a step.
Descends ==
  ~policy.reboot =>
    \/ Later(stage, stage') /\ Left(budget') <= Left(budget)
    \/ stage' = stage /\ Left(budget') < Left(budget)

\* An iteration is made in a phase that has budget.
LEMMA TurnDescends ==
  ASSUME BudgetInv, NEW p \in Determined, NEW k \in UNION Offers(p), Turn(p), GoOn
  PROVE  Descends
<1>1. p \in Phases /\ (p = "reboot_batch" \/ budget[p] > 0)
  BY DeterminedHasBudget DEF BudgetInv
<1>2. ~policy.reboot => budget[p] > 0
  BY <1>1, NoRebootNoCandidates
<1>3. budget' = Spend(budget, p)
  BY DEF Turn
<1>4. /\ Left(budget') <= Left(budget)
      /\ budget[p] > 0 => Left(budget') < Left(budget)
  BY <1>1, <1>3, SpendingLowersWhatIsLeft DEF BudgetInv
<1>5. stage = "iterate" /\ stage' \in {"iterate", "done"}
  BY DEF Determined, GoOn
<1> QED BY <1>2, <1>4, <1>5, LoopIsLast DEF Descends

\* Every step of the session descends.
LEMMA NextDescends ==
  ASSUME BudgetInv, Next
  PROVE  Descends
<1>1. Left(budget) \in Nat
  BY LeftIsNat DEF BudgetInv
<1>2. ASSUME NEW warm \in SUBSET Keys, Unrecorded(warm) PROVE Descends
  <2>1. /\ stage \in {"resolve", "recipe", "warm", "kb", "autofix"}
        /\ stage' = StageAfter(stage, active') /\ budget' = budget
    BY <1>2 DEF Unrecorded
  <2> QED BY <1>1, <2>1, StagesFollow DEF Descends
<1>3. ASSUME NEW keys \in SUBSET Keys, NEW k \in keys, NEW status \in Benchmarked,
             NEW little \in BOOLEAN, NEW better \in BOOLEAN,
             Batch(keys, k, status, little, better)
      PROVE  Descends
  <2> DEFINE p == IF stage = "resolve" THEN "resolve" ELSE "knowledge_driven"
  <2>1. /\ stage \in {"resolve", "recipe", "warm", "kb", "autofix"}
        /\ stage' = StageAfter(stage, active')
        /\ p \in Phases /\ budget' = AfterRecipe(Spend(budget, p), active')
    BY <1>3 DEF Batch, Phases
  <2> HIDE DEF p
  <2>2. Spend(budget, p) \in [Phases -> Nat]
    BY <2>1, SpendTakesOne DEF BudgetInv
  <2>3. Left(budget') <= Left(Spend(budget, p)) /\ Left(Spend(budget, p)) <= Left(budget)
    BY <2>1, <2>2, SpendingLowersWhatIsLeft, RecipeLowersWhatIsLeft DEF BudgetInv
  <2>4. Left(Spend(budget, p)) \in Nat /\ Left(budget') \in Nat
    BY <2>1, <2>2, LeftIsNat, RecipeTakesBudget
  <2> QED BY <1>1, <2>1, <2>3, <2>4, StagesFollow DEF Descends
<1>4. CASE EnterLoop
  BY <1>1, <1>4, LoopIsLast DEF EnterLoop, GoOn, Descends
<1>5. ASSUME NEW p \in Determined, RunOut(p) PROVE Descends
  BY <1>1, <1>5, LoopIsLast DEF RunOut, Determined, Descends
<1>6. ASSUME NEW p \in Determined, NEW k \in UNION Offers(p), NEW ks, NEW status, NEW quick,
             Fail(p, ks, status, quick)
      PROVE  Descends
  <2>1. Turn(p) /\ GoOn
    BY <1>6 DEF Fail
  <2> QED BY <2>1, TurnDescends
<1>7. ASSUME NEW p \in Determined, NEW k \in UNION Offers(p), NEW companions, NEW status,
             NEW little, NEW better, Measure(p, k, companions, status, little, better)
      PROVE  Descends
  <2>1. Turn(p) /\ GoOn
    BY <1>7 DEF Measure
  <2> QED BY <2>1, TurnDescends
<1> QED BY <1>2, <1>3, <1>4, <1>5, <1>6, <1>7 DEF Next

\* No step of a session without reboots goes back to an earlier stage, and none
\* stays in its stage without taking from what is left of the budgets: there is
\* no endless loop of iterations that fail, find nothing or have no budget.
\* (TuneEngine.run, PhaseController.determine_phase, TuneState.record_iteration)
THEOREM LoopOnlyDescends == Spec => LoopDescends
<1>1. BudgetInv /\ [Next]_vars => [Descends]_vars
  BY NextDescends
<1>2. [](BudgetInv) /\ [][Next]_vars => [][Descends]_vars
  BY <1>1, PTL
<1>3. Spec => []BudgetInv
  BY InitBudgetInv, NextKeepsBudgetInv, PTL DEF Spec
<1>4. Spec => [][Descends]_vars
  BY <1>2, <1>3, PTL DEF Spec
<1> QED BY <1>4 DEF LoopDescends, Descends

-----------------------------------------------------------------------------
\* The loop always has a way on.

\* The phase is one of the session's sequence.
InSequence == policy \in Policies /\ phase \in {Phase(i) : i \in 1..Last}

\* A phase has one place in the sequence.
LEMMA OnePlace ==
  ASSUME NEW i \in 1..Last, NEW j \in 1..Last, Phase(i) = Phase(j)
  PROVE  i = j
<1>1. CASE policy.unified
  BY <1>1 DEF Last, Phase, UNIFIED_PHASE_SEQUENCE
<1>2. CASE ~policy.unified
  BY <1>2 DEF Last, Phase, PHASE_SEQUENCE
<1> QED BY <1>1, <1>2

\* Of the places from j on, the last among them, there is a first one to stay at.
LEMMA FirstPlace ==
  ASSUME NEW stay, NEW j \in 1..Last, Last \in stay
  PROVE  \E i \in j..Last : i \in stay /\ \A m \in j..(i - 1) : m \notin stay
<1>1. Last \in {4, 7}
  BY DEF Last
<1> DEFINE First(i) == i \in stay /\ \A m \in j..(i - 1) : m \notin stay
<1>2. SUFFICES ASSUME \A i \in j..Last : ~First(i) PROVE FALSE
  OBVIOUS
<1>3. \A i \in j..Last : i \in stay => \E m \in j..(i - 1) : m \in stay
  BY <1>2
<1> HIDE DEF First
<1>4. ASSUME NEW n \in Nat, \A m \in j..Last : m <= n => m \notin stay
      PROVE  \A m \in j..Last : m <= n + 1 => m \notin stay
  BY <1>1, <1>3, <1>4
<1>5. \A m \in j..Last : m <= 0 => m \notin stay
  BY <1>1
<1>6. \A m \in j..Last : m <= 4 => m \notin stay
  <2>1. \A m \in j..Last : m <= 1 => m \notin stay
    BY <1>4, <1>5, 0 + 1 = 1
  <2>2. \A m \in j..Last : m <= 2 => m \notin stay
    BY <1>4, <2>1, 1 + 1 = 2
  <2>3. \A m \in j..Last : m <= 3 => m \notin stay
    BY <1>4, <2>2, 2 + 1 = 3
  <2> QED BY <1>4, <2>3, 3 + 1 = 4
<1>7. \A m \in j..Last : m <= 7 => m \notin stay
  <2>1. \A m \in j..Last : m <= 5 => m \notin stay
    BY <1>4, <1>6, 4 + 1 = 5
  <2>2. \A m \in j..Last : m <= 6 => m \notin stay
    BY <1>4, <2>1, 5 + 1 = 6
  <2> QED BY <1>4, <2>2, 6 + 1 = 7
<1> QED BY <1>1, <1>7

\* determine_phase returns one phase, and one of the sequence.
LEMMA OnePhase ==
  ASSUME InSequence, stage = "iterate"
  PROVE  \E i \in 1..Last : Determined = {Phase(i)}
<1>1. Last \in {4, 7}
  BY DEF Last
<1>2. PICK j \in 1..Last : phase = Phase(j)
  BY DEF InSequence
<1> DEFINE stay == {i \in 1..Last : i < Last => ~ShouldAdvance(Phase(i))}
<1>3. \A i \in 1..Last : i \in stay <=> (i < Last => ~ShouldAdvance(Phase(i)))
  OBVIOUS
<1>4. Last \in stay
  BY <1>1
<1> HIDE DEF stay
<1>5. PICK i \in j..Last : i \in stay /\ \A m \in j..(i - 1) : m \notin stay
  BY <1>4, FirstPlace
<1>6. \A m \in j..(i - 1) : m \in 1..Last /\ ShouldAdvance(Phase(m))
  BY <1>1, <1>3, <1>5
<1>7. i \in 1..Last /\ (i < Last => ~ShouldAdvance(Phase(i)))
  BY <1>1, <1>3, <1>5
<1>8. Phase(i) \in Determined
  BY <1>1, <1>2, <1>5, <1>6, <1>7 DEF Determined
<1>9. ASSUME NEW p \in Determined PROVE p = Phase(i)
  <2>1. PICK n \in 1..Last :
          /\ p = Phase(n) /\ (n < Last => ~ShouldAdvance(Phase(n)))
          /\ \E a \in 1..n : Phase(a) = phase /\ \A m \in a..(n - 1) : ShouldAdvance(Phase(m))
    BY <1>9 DEF Determined
  <2>2. PICK a \in 1..n : Phase(a) = phase /\ \A m \in a..(n - 1) : ShouldAdvance(Phase(m))
    BY <2>1
  <2>3. a = j
    BY <1>1, <1>2, <2>1, <2>2, OnePlace
  <2>4. ~(n < i)
    BY <1>1, <1>6, <2>1, <2>2, <2>3
  <2>5. ~(i < n)
    BY <1>1, <1>5, <1>7, <2>1, <2>2, <2>3
  <2> QED BY <1>1, <2>1, <2>4, <2>5
<1> QED BY <1>7, <1>8, <1>9

\* A step stays in the sequence.
LEMMA NextStaysInSequence ==
  ASSUME InSequence, [Next]_vars
  PROVE  InSequence'
<1> DEFINE Stays == policy' = policy /\ (phase' = phase \/ phase' \in Determined)
<1>1. Stays
  <2>1. CASE UNCHANGED vars
    BY <2>1 DEF vars
  <2>2. ASSUME NEW warm, Unrecorded(warm) PROVE Stays
    BY <2>2 DEF Unrecorded
  <2>3. ASSUME NEW keys, NEW k, NEW status, NEW little, NEW better,
               Batch(keys, k, status, little, better)
        PROVE  Stays
    BY <2>3 DEF Batch
  <2>4. CASE EnterLoop
    BY <2>4 DEF EnterLoop
  <2>5. ASSUME NEW p \in Determined, RunOut(p) PROVE Stays
    BY <2>5 DEF RunOut
  <2>6. ASSUME NEW p \in Determined, NEW ks, NEW status, NEW quick, Fail(p, ks, status, quick)
        PROVE  Stays
    BY <2>6 DEF Fail, Turn
  <2>7. ASSUME NEW p \in Determined, NEW k, NEW companions, NEW status, NEW little, NEW better,
               Measure(p, k, companions, status, little, better)
        PROVE  Stays
    BY <2>7 DEF Measure, Turn
  <2> HIDE DEF Stays
  <2> QED BY <2>1, <2>2, <2>3, <2>4, <2>5, <2>6, <2>7 DEF Next
<1>2. policy' = policy /\ (phase' = phase \/ phase' \in Determined)
  BY <1>1
<1>3. Determined \subseteq {Phase(i) : i \in 1..Last}
  BY DEF Determined
<1>4. {Phase(i) : i \in 1..Last}' = {Phase(i) : i \in 1..Last}
  BY <1>2 DEF Phase, Last
<1> QED BY <1>2, <1>3, <1>4 DEF InSequence

\* Whatever budgets are left and however phases were left, determine_phase has one
\* phase for the next iteration. With LoopOnlyDescends: the loop comes to its end.
\* (PhaseController.determine_phase)
THEOREM LoopIsNeverStuck == Spec => []NeverStuck
<1>1. Init => InSequence
  BY DEF Init, InSequence, Last
<1>2. InSequence => NeverStuck
  <2> SUFFICES ASSUME InSequence, stage = "iterate"
               PROVE  \E p \in Phases : Determined = {p}
    BY DEF NeverStuck
  <2>1. PICK i \in 1..Last : Determined = {Phase(i)}
    BY OnePhase
  <2>2. Phase(i) \in Phases
    BY DEF Last, Phase, Phases, PHASE_SEQUENCE, UNIFIED_PHASE_SEQUENCE
  <2> QED BY <2>1, <2>2
<1> QED BY <1>1, <1>2, NextStaysInSequence, PTL DEF Spec
=============================================================================
