----------------------- MODULE TuneSessionRefinement -----------------------
(***************************************************************************)
(* TuneSession keeps the promises of TuningContract.                       *)
(***************************************************************************)
EXTENDS TuneSessionInv

Group == [k \in Keys |-> IF pending[k] = None THEN None ELSE pending[k].applied]

BestConf == [k \in Keys |-> IF best.values[k] = None THEN Baseline[k] ELSE best.values[k]]

Mode ==
  CASE pc = "aborted" -> "cut"
    [] pc = "done" -> "closed"
    [] pc \in {"exit_undo", "exit_apply"} -> "closing"
    [] pc = "undo" -> "discarding"
    [] OTHER -> IF AppliedKeys = {} THEN "open" ELSE "trying"

Contract == INSTANCE TuningContract
  WITH conf <- [k \in Keys |-> Committed(k)], group <- Group, best <- BestConf, mode <- Mode

\* Every group of changes is kept whole or taken back whole, whatever fails in
\* between; the best configuration is one the session committed; and the exit
\* moves a parameter only to its best value, the baseline when there is none.
KeepsContract == Contract!Spec
=============================================================================
