----------------------------- MODULE MCPidLock -----------------------------
(***************************************************************************)
(* PidLock for TLC: processes are interchangeable.                         *)
(***************************************************************************)
EXTENDS PidLock, TLC

Symmetry == Permutations(Procs)
=============================================================================
