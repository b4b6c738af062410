----------------------- MODULE TuneSessionsRefinement -----------------------
(***************************************************************************)
(* The sessions of TuneSessions keep the promises of SharedKnowledge.      *)
(***************************************************************************)
EXTENDS TuneSessionsInv

Evaluations == {i \in DOMAIN kb.events : kb.events[i].kind = "evaluation_completed"}

\* What event i says of its values.
Sayings(i) ==
  LET e == kb.events[i]
  IN {[run |-> e.run, key |-> k, value |-> e.payload.values[k], decision |-> e.payload.decision] :
        k \in DOMAIN e.payload.values}

Judgements == UNION {Sayings(i) : i \in Evaluations}

Results ==
  [r \in {q \in DOMAIN kb.runs : Finished(q)} |->
     [score |-> kb.runs[r].score, config |-> kb.runs[r].config, final |-> kb.runs[r].final]]

Recipes ==
  [r \in DOMAIN kb.recipes |->
     [score |-> kb.recipes[r].score, steps |-> kb.recipes[r].steps]]

Shared == INSTANCE SharedKnowledge
  WITH session <- run, judgements <- Judgements, results <- Results, recipes <- Recipes

\* A session only adds to the knowledge base, and only about itself; a killed one
\* leaves judgements, never results. The best configuration and the one left on
\* the host consist of values a benchmark of the session was taken with and did
\* not reject, whatever failed, was undone or restored meanwhile; the recipe of
\* values it accepted. (HostTuneInstance.run_tune, KnowledgeBase)
KeepsKnowledge == Shared!Spec
=============================================================================
