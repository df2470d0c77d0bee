-------------------------- MODULE MCArtifactServer --------------------------
(***************************************************************************)
(* ArtifactServer for TLC.                                                 *)
(***************************************************************************)
EXTENDS ArtifactServer, TLC

CONSTANTS s1, s2

\* In the background with any port, and as the server is called.
MCModes == {[foreground |-> FALSE, auto |-> TRUE], [foreground |-> TRUE, auto |-> FALSE]}
=============================================================================
