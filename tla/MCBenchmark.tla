------------------------------ MODULE MCBenchmark ------------------------------
(***************************************************************************)
(* Instances of Benchmark for TLC: one or three runs and several rates     *)
(* without telemetry. With it, two runs whose files have no figure: the    *)
(* threads are what differs there, and they look at no figure.             *)
(***************************************************************************)
EXTENDS Benchmark

MCBaselines == [t \in BOOLEAN |-> IF t THEN {} ELSE {10}]
MCRates == [t \in BOOLEAN |-> IF t THEN {} ELSE {11, 12}]
MCWideRates == [t \in BOOLEAN |-> IF t THEN {} ELSE {5, 10}]
MCRunCounts == [t \in BOOLEAN |-> IF t THEN {2} ELSE {1, 3}]
MCMaxCaptures == <<2, 1, 1>>
=============================================================================
