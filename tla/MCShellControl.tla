--------------------------- MODULE MCShellControl ---------------------------
(***************************************************************************)
(* ShellControl for TLC: two calls, the second with structured output.     *)
(***************************************************************************)
EXTENDS ShellControl, TLC

\* A line that a later login takes for the question for a password, and one that is
\* dropped, in front of one that is not.
MCLines == << <<{"password"}>>, <<{"prompt"}, {}>> >>
MCCodes == <<0, 12>>
=============================================================================
