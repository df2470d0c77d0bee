-------------------------- MODULE MCObserveLaunch --------------------------
(***************************************************************************)
(* ObserveLaunch for TLC: callers and launches are interchangeable.         *)
(***************************************************************************)
EXTENDS ObserveLaunch, TLC

Symmetry == Permutations(Callers) \cup Permutations(Launches)
=============================================================================
