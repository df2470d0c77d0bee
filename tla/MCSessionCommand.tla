------------------------- MODULE MCSessionCommand -------------------------
(***************************************************************************)
(* SessionCommand for TLC: every command of the tool, a recorder at any    *)
(* moment of it, and one kill of either.                                   *)
(***************************************************************************)
EXTENDS SessionCommand, TLC

CONSTANTS r1
=============================================================================
