--------------------------- MODULE ResultEvaluator ---------------------------
(***************************************************************************)
(* What a benchmark says: the summary of a workload over its runs and the  *)
(* decision of ResultEvaluator against the baseline.                       *)
(*                                                                         *)
(* The program computes with floats, this module with integers: a median   *)
(* is given doubled, a relative change as the numerator over Scale, and a  *)
(* threshold in percent.                                                   *)
(***************************************************************************)
EXTENDS Integers, Sequences, FiniteSets, FiniteSetsExt

CONSTANTS
  Workloads,       \* the workloads of the benchmark, all of them in the baseline
  Variance         \* effective_variance_threshold, in percent

ASSUME EvaluatorAssumption == IsFiniteSet(Workloads) /\ Variance \in Nat

Values(s) == {s[i] : i \in DOMAIN s}

\* The k-th entry of s in ascending order.
Ranked(s, k) ==
  CHOOSE v \in Values(s) : /\ Cardinality({i \in DOMAIN s : s[i] < v}) < k
                           /\ Cardinality({i \in DOMAIN s : s[i] <= v}) >= k

TwiceMaximum(s) == 2 * Max({s[i] : i \in DOMAIN s})   \* mutant: the best run counts

TwiceMedian(s) == Ranked(s, (Len(s) + 1) \div 2) + Ranked(s, Len(s) \div 2 + 1)

Spread(s) == Max(Values(s)) - Min(Values(s))

\* _summarize_workload: a median of zero counts as no variance at all.
Stable(s) ==
  LET median == TwiceMedian(s)
  IN median = 0 \/ 200 * Spread(s) <= Variance * median

\* Relative changes have the common denominator Scale; a workload whose
\* baseline is zero has none.
Counted(baseline) == {w \in Workloads : baseline[w] > 0}
Scale(baseline) == ReduceSet(LAMBDA w, p : 2 * baseline[w] * p, Counted(baseline), 1)
Change(baseline, w, s) ==
  IF baseline[w] = 0 THEN 0
  ELSE (TwiceMedian(s) - 2 * baseline[w]) * (Scale(baseline) \div (2 * baseline[w]))

\* The average change over the workloads compared with a threshold in tenths
\* of a percent: 1000 times its numerator, and the threshold times n * Scale.
TotalChange(baseline, samples) ==
  MapThenSumSet(LAMBDA w : 1000 * Change(baseline, w, samples[w]), Workloads)
Threshold(baseline, tenths) == tenths * Cardinality(Workloads) * Scale(baseline)

\* _decide. missing: a guardrail metric that is not supported; sweep: the phase
\* is WIDE_SWEEP.
Decide(baseline, samples, missing, sweep) ==
  LET total == TotalChange(baseline, samples)
      At(tenths) == Threshold(baseline, tenths)
  IN CASE missing \/ Workloads = {} \/ \E w \in Workloads : ~Stable(samples[w]) -> "inconclusive"
       [] OTHER -> IF total <= At(-200) \/ total < At(-10 * Variance) THEN "reject"
                   ELSE IF total > At(10 * Variance) THEN "accept"
                   ELSE IF sweep /\ total >= At(25) THEN "promising" ELSE "inconclusive"
=============================================================================
