---------------------------- MODULE KnowledgeBase ----------------------------
(***************************************************************************)
(* The SQLite knowledge base that outlives a session: its runs, its events *)
(* and its degradation recipes, as the value kb, and the queries that tell *)
(* a later session what earlier ones found out.                            *)
(*                                                                         *)
(* All runs here are of one service on one class of hosts, the columns     *)
(* find_similar_runs compares. Of the events, those are kept that a query  *)
(* reads or that record a change of the host, each with what its payload   *)
(* says. Every operator is one SQL transaction.                            *)
(***************************************************************************)
EXTENDS Naturals, Sequences, FiniteSets, FiniteSetsExt

CONSTANTS
  Absent,          \* SQL's NULL
  Similarity,      \* cosine similarity of two baselines, by their classes; 0 below the threshold
  BlockedRuns,     \* similar runs get_prior_blocked_pairs reads
  ConfidentRuns    \* similar runs get_parameter_confidence_scores reads

ASSUME NullAssumption == Absent \notin Nat

Nothing == [k \in {} |-> k]    \* the mapping with no entry
With(f, k, v) == [x \in DOMAIN f \cup {k} |-> IF x = k THEN v ELSE f[x]]

EmptyKB == [runs |-> Nothing, events |-> <<>>, recipes |-> Nothing]

\* record_run leaves the columns finalize_run writes as they are.
RecordRun(kb, r) ==
  IF r \in DOMAIN kb.runs THEN kb
  ELSE [kb EXCEPT !.runs = With(@, r, [completed |-> 0, score |-> Absent,
                                         config |-> Nothing, final |-> Nothing])]

Record(kb, event) == [kb EXCEPT !.events = Append(@, event)]

Clock(kb) == 1 + Max({0} \cup {kb.runs[r].completed : r \in DOMAIN kb.runs})

FinalizeOpenRuns(kb, r, score, config, final) ==   \* mutant: runs that were cut off as well
  [kb EXCEPT !.runs = [q \in DOMAIN @ |->
     IF @[q].completed > 0 THEN @[q]
     ELSE [completed |-> Clock(kb), score |-> score, config |-> config, final |-> final]]]

\* An UPDATE: a run that was never recorded stays unrecorded.
FinalizeRun(kb, r, score, config, final) ==
  IF r \notin DOMAIN kb.runs THEN kb
  ELSE [kb EXCEPT !.runs[r] = [completed |-> Clock(kb), score |-> score,
                               config |-> config, final |-> final]]

StoreRecipe(kb, r, shape, steps, score) ==
  [kb EXCEPT !.recipes = With(@, r, [shape |-> shape, steps |-> steps, score |-> score])]

-----------------------------------------------------------------------------
(* Queries. r is the session that asks; it never sees itself.              *)

EventsOf(kb, r, kind) ==
  {i \in DOMAIN kb.events : kb.events[i].run = r /\ kb.events[i].kind = kind}

\* Best homepage throughput of a run over its best_config_updated events.
HomepageRps(kb, r) ==
  Max({0} \cup {kb.events[i].payload.rps : i \in EventsOf(kb, r, "best_config_updated")})

EveryFinished(kb, r) ==   \* mutant: the session that asks is among them
  {q \in DOMAIN kb.runs : /\ kb.runs[q].completed > 0
                          /\ kb.runs[q].score # Absent
                          /\ kb.runs[q].config # Nothing}

Comparable(kb, r) ==
  {q \in DOMAIN kb.runs \ {r} : /\ kb.runs[q].completed > 0
                                /\ kb.runs[q].score # Absent
                                /\ kb.runs[q].config # Nothing}

\* The order of find_similar_runs: throughput, then score, then the latest.
RanksAbove(kb, p, q) ==
  LET same == HomepageRps(kb, p) = HomepageRps(kb, q)
      P == kb.runs[p]  Q == kb.runs[q]
  IN \/ HomepageRps(kb, p) > HomepageRps(kb, q)
     \/ same /\ P.score > Q.score
     \/ same /\ P.score = Q.score /\ P.completed > Q.completed

SimilarRuns(kb, r, limit) ==
  {q \in Comparable(kb, r) :
     Cardinality({p \in Comparable(kb, r) : RanksAbove(kb, p, q)}) < limit}

Decisions(kb, runs) == UNION {EventsOf(kb, q, "evaluation_completed") : q \in runs}

FailedPairs(kb, i, decisions) ==
  LET e == kb.events[i].payload
  IN IF e.decision \in decisions THEN {<<k, e.values[k]>> : k \in DOMAIN e.values} ELSE {}

BlockedPairs(kb, r) ==
  UNION {FailedPairs(kb, i, {"reject", "inconclusive"}) :
           i \in Decisions(kb, SimilarRuns(kb, r, BlockedRuns))}

\* Keys accepted in at least the given share (percent) of their tests.
Confident(kb, r, percent) ==
  LET events == Decisions(kb, SimilarRuns(kb, r, ConfidentRuns))
      Tests(k) == {i \in events : k \in DOMAIN kb.events[i].payload.values}
      Accepted(k) == {i \in Tests(k) : kb.events[i].payload.decision = "accept"}
      tested == UNION {DOMAIN kb.events[i].payload.values : i \in events}
  IN {k \in tested : 100 * Cardinality(Accepted(k)) >= percent * Cardinality(Tests(k))}

PriorBestConfig(kb, r) ==
  LET best == SimilarRuns(kb, r, 1)
  IN IF best = {} THEN Nothing ELSE kb.runs[CHOOSE q \in best : TRUE].config

\* The recipe stored for the most similar degradation; of equally similar ones
\* the one with the highest score.
Recipe(kb, r, shape) ==
  LET Likeness(q) == Similarity[shape, kb.recipes[q].shape]
      matching == {q \in DOMAIN kb.recipes \ {r} : Likeness(q) > 0}
      closest == {q \in matching : \A p \in matching : Likeness(p) <= Likeness(q)}
      top == {q \in closest : \A p \in closest : kb.recipes[p].score <= kb.recipes[q].score}
  IN IF top = {} THEN <<>> ELSE kb.recipes[Min(top)].steps
=============================================================================
