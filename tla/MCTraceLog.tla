----------------------------- MODULE MCTraceLog -----------------------------
(***************************************************************************)
(* TraceLog for TLC: files differ by nothing but their identity.            *)
(***************************************************************************)
EXTENDS TraceLog, TLC

Symmetry == Permutations(Files)
=============================================================================
