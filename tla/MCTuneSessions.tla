---------------------------- MODULE MCTuneSessions ----------------------------
(***************************************************************************)
(* Instances of TuneSessions for TLC: the descriptor limits of nginx, for  *)
(* which values 1 to 4 stand for 1024, 65535, 524288 and 2097152, and one  *)
(* toggle, tcp_nopush, which is absent (1), on (2) or off (3).             *)
(***************************************************************************)
EXTENDS TuneSessionsRefinement

CONSTANTS Seeded   \* whether an earlier run is in the knowledge base

Param(key, from, floor, ceiling, within) ==
  [key |-> key, from |-> from, target |-> Unset, expr |-> Unset, floor |-> floor,
   ceiling |-> ceiling, within |-> within]
Stored == <<"recipe", "kb", "graph">>

MCGraph ==
  <<Param("limit", Stored, 3, 4, Unset),
    Param("rlimit", Stored \o <<"llm">>, 3, 4, "limit"),
    Param("conns", Stored, 2, 2, "rlimit"),
    Param("nopush", <<"autofix">>, Unset, Unset, Unset)>>

MCSmallGraph == Tail(MCGraph)

MCRules == <<[key |-> "nopush", value |-> 2, when |-> {3}]>>
MCGroups == <<[group |-> "static_io", key |-> "nopush", value |-> 2]>>

Config(l, r, c, s) == [k \in Keys |->
  CASE k = "limit" -> l [] k = "rlimit" -> r [] k = "conns" -> c [] OTHER -> s]

MCHosts == {Config(1, 1, 1, 1), Config(3, 1, 2, 2)}
MCOneHost == {Config(1, 1, 1, 3)}
MCShape == [h \in [Keys -> 1..4] |-> h["conns"]]
MCSimilarity == [s \in (1..4) \X (1..4) |->
                   CASE s[1] = s[2] -> 100 [] s[1] + s[2] = 3 -> 95 [] OTHER -> 0]
MCProposals == {<<"rlimit", 3>>, <<"nopush", 3>>}
MCOneGain == {[score |-> 1, rps |-> 1]}
MCGains == {[score |-> 1, rps |-> 2], [score |-> 2, rps |-> 1]}

\* An earlier run that accepted rlimit = 4 and found tcp_nopush = on of no use.
EarlierRun ==
  LET E(n, kind, payload) == [run |-> 1, kind |-> kind, phase |-> "optimize", iteration |-> n,
                              payload |-> payload]
      events == <<E(1, "change_applied", [key |-> "rlimit", prev |-> 3, value |-> 4]),
                  E(1, "evaluation_completed", [decision |-> "accept", values |-> ("rlimit" :> 4)]),
                  E(1, "best_config_updated", [rps |-> 1]),
                  E(2, "change_applied", [key |-> "nopush", prev |-> 1, value |-> 2]),
                  E(2, "evaluation_completed",
                    [decision |-> "inconclusive", values |-> ("nopush" :> 2)]),
                  E(2, "rollback_completed", [keys |-> {"nopush"}])>>
      done == FinalizeRun(RecordRun(EmptyKB, 1), 1, 1, "rlimit" :> 4, "rlimit" :> 4)
  IN StoreRecipe([done EXCEPT !.events = events], 1, 2, << <<"rlimit", 4>> >>, 1)

MCInitialKBs == {IF Seeded THEN EarlierRun ELSE EmptyKB}
=============================================================================
