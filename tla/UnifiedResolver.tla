--------------------------- MODULE UnifiedResolver ---------------------------
(***************************************************************************)
(* UnifiedResolver.resolve: one walk through the layers of the dependency  *)
(* graph that turns what the knowledge base, the graph and the triage      *)
(* rules say into the changes applied before the tuning loop.              *)
(*                                                                         *)
(* The graph is a sequence of parameters in layer order.  A parameter has  *)
(*   key, from     the parameter_key and its sources (resolve_from)        *)
(*   target, expr, floor, ceiling   as in the graph, Unset where it has    *)
(*                 none; expr is the value of floor_expr, which depends on *)
(*                 preflight facts only                                    *)
(*   within        the key of its "MUST be <=" constraint, or Unset        *)
(* An input of the resolver has                                            *)
(*   current       current_value of every candidate in the catalog         *)
(*   active        keys of state.active_changes                            *)
(*   recipe, best, sure       recipe steps, prior best configuration, and  *)
(*                 keys with confidence 0.80 or more                       *)
(*   blocked       prior blocked pairs                                     *)
(***************************************************************************)
EXTENDS Naturals, Sequences

CONSTANTS
  Graph,     \* the dependency graph, in layer order
  Rules,     \* triage rules with action autofix: key, value, when
  Unset,     \* no value
  Deferred   \* "__llm_deferred__"

Lookup(f, k) == IF k \in DOMAIN f THEN f[k] ELSE Unset

\* A recipe that names a key twice means the later step.
RecipeValues(steps) ==
  [k \in {steps[i][1] : i \in DOMAIN steps} |->
     LET last == CHOOSE i \in DOMAIN steps :
                   /\ steps[i][1] = k
                   /\ \A j \in DOMAIN steps : steps[j][1] = k => j <= i
     IN steps[last][2]]

\* The autofix rules that fire for candidates with the given current values;
\* can_autofix admits enum parameters only.
Firing(current) ==
  {i \in DOMAIN Rules : LET r == Rules[i]
                        IN /\ r.key \in DOMAIN current
                           /\ current[r.key] \in r.when /\ current[r.key] # r.value}

\* collect_all_autofixes, as the resolver takes it: the last rule of a key wins.
Autofixes(current) ==
  LET firing == Firing(current)
  IN [k \in {Rules[i].key : i \in firing} |->
        LET last == CHOOSE i \in firing : Rules[i].key = k /\ \A j \in firing : Rules[j].key = k => j <= i
        IN Rules[last].value]

\* The autofix_action of evaluate, if any: that of the first rule that fires.
AutofixAction(current) ==
  LET firing == Firing(current)
  IN {<<Rules[i].key, Rules[i].value>> : i \in {j \in firing : \A k \in firing : j <= k}}

\* A floor_expr does not bind a recipe.
WithinBounds(p, v) ==
  /\ p.floor # Unset => v >= p.floor
  /\ p.ceiling # Unset => v <= p.ceiling

\* The first of target, dynamic floor, static floor and ceiling that there is.
GraphValue(p, now) ==
  LET floor == IF p.expr # Unset THEN p.expr ELSE p.floor
  IN CASE p.target # Unset -> p.target
       [] p.target = Unset /\ floor # Unset -> IF now >= floor THEN Unset ELSE floor
       [] p.target = Unset /\ floor = Unset /\ p.ceiling # Unset ->
            IF now <= p.ceiling THEN Unset ELSE p.ceiling
       [] OTHER -> Unset

RecipeValue(p, input) ==
  LET v == Lookup(RecipeValues(input.recipe), p.key)
  IN IF v = Unset \/ WithinBounds(p, v) THEN v ELSE Unset

\* _try_source: the value a source offers.
Offer(source, p, input) ==
  CASE source = "recipe"  -> RecipeValue(p, input)
    [] source = "kb"      -> IF p.key \in input.sure THEN Lookup(input.best, p.key) ELSE Unset
    [] source = "graph"   -> GraphValue(p, input.current[p.key])
    [] source = "autofix" -> Lookup(Autofixes(input.current), p.key)
    [] source = "llm"     -> Deferred

\* _resolve_value: the first source whose offer is not blocked decides; when it
\* offers the current value the parameter is left alone.
RetryBlocked(p, input) ==   \* mutant: blocked pairs are not skipped
  LET Decides(i) == Offer(p.from[i], p, input) # Unset
      deciding == {i \in DOMAIN p.from : Decides(i) /\ \A j \in 1..(i - 1) : ~Decides(j)}
  IN IF deciding = {} THEN Unset
     ELSE LET v == Offer(p.from[CHOOSE i \in deciding : TRUE], p, input)
          IN IF v = input.current[p.key] THEN Unset ELSE v

ResolvedValue(p, input) ==
  LET Decides(i) == LET v == Offer(p.from[i], p, input)
                    IN v # Unset /\ (v = input.current[p.key] \/ <<p.key, v>> \notin input.blocked)
      deciding == {i \in DOMAIN p.from : Decides(i) /\ \A j \in 1..(i - 1) : ~Decides(j)}
  IN IF deciding = {} THEN Unset
     ELSE LET v == Offer(p.from[CHOOSE i \in deciding : TRUE], p, input)
          IN IF v = input.current[p.key] THEN Unset ELSE v

\* _check_constraint: the limit is looked up among the values resolved so far.
RespectsLimit(p, v, resolved) ==
  \A i \in DOMAIN resolved : resolved[i][1] = p.within => v <= resolved[i][2]

\* The hypotheses of all layers in order, as <<key, value>> pairs. A value left
\* to the LLM only defers its layer.
Resolve(input) ==
  LET Offered(p) == p.key \in DOMAIN input.current /\ p.key \notin input.active
      walk[n \in 0..Len(Graph)] ==
        IF n = 0 THEN <<>>
        ELSE LET p == Graph[n]
                 v == IF Offered(p) THEN ResolvedValue(p, input) ELSE Unset
             IN IF v \notin {Unset, Deferred} /\ RespectsLimit(p, v, walk[n - 1])
                THEN Append(walk[n - 1], <<p.key, v>>)
                ELSE walk[n - 1]
  IN walk[Len(Graph)]
=============================================================================
