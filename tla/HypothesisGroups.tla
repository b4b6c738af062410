--------------------------- MODULE HypothesisGroups ---------------------------
(***************************************************************************)
(* What _run_iteration makes of the hypotheses of the generator before     *)
(* anything is applied: members of a parameter group are proposed          *)
(* together, worker_connections brings worker_rlimit_nofile along, and a   *)
(* group that breaks the limit between the two is rejected.                *)
(*                                                                         *)
(* Hypotheses are a sequence of <<key, value>> pairs, the primary one      *)
(* first; current maps the keys of the candidate pool to current_value,    *)
(* planned to the value of an active change where there is one.            *)
(***************************************************************************)
EXTENDS Integers, Sequences

CONSTANTS
  ParameterGroups,     \* the members of all groups in order: group, key, value
  Connections, Rlimit, \* service.directive.worker_connections, .worker_rlimit_nofile
  RlimitMin, RlimitMax \* bounds of the worker_rlimit_nofile candidate

KeysOf(hyps) == {hyps[i][1] : i \in DOMAIN hyps}
ValueOf(hyps, k) == hyps[CHOOSE i \in DOMAIN hyps : hyps[i][1] = k][2]

\* The elements of s with the given indices, in order.
Selected(s, indices) ==
  LET upTo[n \in 0..Len(s)] ==
        IF n = 0 THEN <<>>
        ELSE IF n \in indices THEN Append(upTo[n - 1], s[n]) ELSE upTo[n - 1]
  IN upTo[Len(s)]

\* _normalize_parameter_group_hypotheses: proposed members take the value of
\* their group; members not yet proposed follow, unless at their value already.
\* Groups are disjoint.
Touched(hyps) ==
  {ParameterGroups[i].group :
     i \in {j \in DOMAIN ParameterGroups : ParameterGroups[j].key \in KeysOf(hyps)}}

Enforced(h, current) ==
  LET same == {i \in DOMAIN ParameterGroups : ParameterGroups[i].key = h[1]}
  IN IF same # {} /\ h[1] \in DOMAIN current
     THEN <<h[1], ParameterGroups[CHOOSE i \in same : TRUE].value>> ELSE h

Missing(hyps, current) ==
  {i \in DOMAIN ParameterGroups :
     LET m == ParameterGroups[i]
     IN /\ m.group \in Touched(hyps) /\ m.key \in DOMAIN current \ KeysOf(hyps)
        /\ current[m.key] # m.value}

WithGroups(hyps, current) ==
  [i \in DOMAIN hyps |-> Enforced(hyps[i], current)]
    \o Selected([i \in DOMAIN ParameterGroups |->
                   <<ParameterGroups[i].key, ParameterGroups[i].value>>],
                Missing(hyps, current))

\* _normalize_worker_connections_nofile_chain_hypotheses
Needed(connections) ==
  LET atLeast == IF connections < RlimitMin THEN RlimitMin ELSE connections
  IN IF atLeast > RlimitMax THEN RlimitMax ELSE atLeast

WithRlimit(hyps, current, planned) ==
  IF Connections \notin KeysOf(hyps) \/ Rlimit \notin DOMAIN current THEN hyps
  ELSE LET needed == Needed(ValueOf(hyps, Connections))
       IN CASE Rlimit \in KeysOf(hyps) ->
                 [i \in DOMAIN hyps |-> IF hyps[i][1] = Rlimit /\ hyps[i][2] < needed
                                        THEN <<Rlimit, needed>> ELSE hyps[i]]
            [] Rlimit \notin KeysOf(hyps) /\ planned[Rlimit] < needed ->
                 Append(hyps, <<Rlimit, needed>>)
            [] OTHER -> hyps

Normalized(hyps, current, planned) ==
  WithRlimit(WithGroups(hyps, current), current, planned)

\* _worker_connections_nofile_chain_violation_reason
ChainViolated(hyps, planned) ==
  /\ Connections \in KeysOf(hyps)
  /\ \/ Rlimit \notin KeysOf(hyps) \cup DOMAIN planned
     \/ (IF Rlimit \in KeysOf(hyps) THEN ValueOf(hyps, Rlimit) ELSE planned[Rlimit])
          < ValueOf(hyps, Connections)
=============================================================================
