-------------------------- MODULE SharedKnowledge --------------------------
(***************************************************************************)
(* What sessions that share a knowledge base promise one another, with the *)
(* host, the changes made to it and every way a session can fail left out. *)
(*                                                                         *)
(* A session only adds to what is known, and only about itself. What it    *)
(* passes on, its best configuration, the one it left on the host and its  *)
(* recipe, consists of values its own benchmarks judged, and is passed on  *)
(* once. A session that was cut off passes on nothing but its judgements.  *)
(***************************************************************************)
EXTENDS Naturals, Sequences

CONSTANT Absent    \* no score: the session gained nothing

VARIABLES
  session,      \* number of the latest session
  judgements,   \* what benchmarks said of values: run, key, value, decision
  results,      \* what finished sessions passed on: score, config, final
  recipes       \* by session: score and steps, <<key, value>> pairs

vars == <<session, judgements, results, recipes>>

JudgedIn(r, k, v, decisions) ==
  \E d \in decisions : [run |-> r, key |-> k, value |-> v, decision |-> d] \in judgements

\* A benchmark of run r did not speak against value v of key k.
Upheld(r, k, v) == JudgedIn(r, k, v, {"accept", "inconclusive"})
Accepted(r, k, v) == JudgedIn(r, k, v, {"accept"})

\* A recipe repeats what the accepted judgements of its run name.
Backed(r, recipe) ==
  /\ r \in DOMAIN results /\ recipe.score = results[r].score /\ recipe.score # Absent
  /\ \A i \in DOMAIN recipe.steps : Accepted(r, recipe.steps[i][1], recipe.steps[i][2])

Init ==
  /\ session \in Nat
  /\ \A j \in judgements : j.run \in 1..session
  /\ DOMAIN results \subseteq 1..session
  /\ \A r \in DOMAIN recipes : Backed(r, recipes[r])

Begin ==
  /\ session' = session + 1
  /\ UNCHANGED <<judgements, results, recipes>>

\* One benchmark, one decision on all it had on the host.
Judge ==
  /\ session \notin DOMAIN results
  /\ judgements \subseteq judgements'
  /\ \E d \in {"accept", "inconclusive", "reject"} :
       \A j \in judgements' \ judgements : j.run = session /\ j.decision = d
  /\ UNCHANGED <<session, results, recipes>>

\* The entries of f stay, and the session gets one.
AddsItsOwn(f, g) ==
  /\ session \notin DOMAIN f /\ DOMAIN g = DOMAIN f \cup {session}
  /\ \A r \in DOMAIN f : g[r] = f[r]

Conclude ==
  /\ AddsItsOwn(results, results')
  /\ LET result == results'[session]
     IN /\ \A k \in DOMAIN result.config : Upheld(session, k, result.config[k])
        /\ \A k \in DOMAIN result.final : Upheld(session, k, result.final[k])
        /\ IF result.score = Absent THEN DOMAIN result.config = {}
           ELSE \E k \in DOMAIN result.config : Accepted(session, k, result.config[k])
  /\ UNCHANGED <<session, judgements, recipes>>

Prescribe ==
  /\ AddsItsOwn(recipes, recipes')
  /\ Backed(session, recipes'[session])
  /\ UNCHANGED <<session, judgements, results>>

Next == Begin \/ Judge \/ Conclude \/ Prescribe

Spec == Init /\ [][Next]_vars
=============================================================================
