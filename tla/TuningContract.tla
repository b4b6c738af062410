--------------------------- MODULE TuningContract ---------------------------
(***************************************************************************)
(* What a tuning session promises about the configuration it works on,     *)
(* with the host, its failing commands and the benchmarks left out.        *)
(*                                                                         *)
(* A group of changes is tried, then committed as a whole or taken back as *)
(* a whole.  The best configuration is one that was committed.  When the   *)
(* session closes, a parameter only ever moves to its best value.          *)
(***************************************************************************)
CONSTANTS Keys, Values, Baseline, None

VARIABLES
  conf,   \* the configuration the session stands by
  group,  \* the values being tried, by key
  best,   \* the best configuration; the baseline until there is one
  mode    \* what the session is doing

vars == <<conf, group, best, mode>>

NoGroup == [k \in Keys |-> None]

Init ==
  /\ conf = Baseline /\ best = Baseline
  /\ group = NoGroup
  /\ mode = "open"

\* A value known from earlier sessions is taken over without being tried.
Preload(k, v) ==
  /\ mode = "open"
  /\ conf' = [conf EXCEPT ![k] = v]
  /\ UNCHANGED <<group, best, mode>>

Try(k, v) ==
  /\ mode \in {"open", "trying"}
  /\ group' = [group EXCEPT ![k] = v]
  /\ mode' = "trying"
  /\ UNCHANGED <<conf, best>>

Commit ==
  /\ mode = "trying"
  /\ conf' = [k \in Keys |-> IF group[k] = None THEN conf[k] ELSE group[k]]
  /\ best' \in {best, conf'}
  /\ group' = NoGroup /\ mode' = "open"

GiveUp ==
  /\ mode \in {"open", "trying"}
  /\ mode' = "discarding"
  /\ UNCHANGED <<conf, group, best>>

Discard(k) ==
  /\ mode = "discarding"
  /\ group' = [group EXCEPT ![k] = None]
  /\ UNCHANGED <<conf, best, mode>>

Discarded ==
  /\ mode = "discarding" /\ group = NoGroup
  /\ mode' = "open"
  /\ UNCHANGED <<conf, group, best>>

Finish ==
  /\ mode = "open"
  /\ mode' = "closing"
  /\ UNCHANGED <<conf, group, best>>

Restore(k) ==
  /\ mode = "closing"
  /\ conf' = [conf EXCEPT ![k] = best[k]]
  /\ UNCHANGED <<group, best, mode>>

Close ==
  /\ mode = "closing"
  /\ mode' = "closed"
  /\ UNCHANGED <<conf, group, best>>

Cut ==
  /\ mode' = "cut"
  /\ UNCHANGED <<conf, group, best>>

Next ==
  \/ \E k \in Keys, v \in Values : Preload(k, v) \/ Try(k, v)
  \/ Commit \/ GiveUp \/ Discarded
  \/ \E k \in Keys : Discard(k) \/ Restore(k)
  \/ Finish \/ Close \/ Cut

Spec == Init /\ [][Next]_vars
=============================================================================
