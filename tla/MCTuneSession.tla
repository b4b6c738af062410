---------------------------- MODULE MCTuneSession ----------------------------
(***************************************************************************)
(* Instances of TuneSession for TLC.                                       *)
(***************************************************************************)
EXTENDS TuneSessionRefinement, TLC

CONSTANTS v0

\* Every key starts at v0.
MCBaseline == [k \in Keys |-> v0]

\* Keys behave alike, and so do the values other than the one they start at.
Symmetry == Permutations(Keys) \cup Permutations(Values \ {v0})
=============================================================================
