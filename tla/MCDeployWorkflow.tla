-------------------------- MODULE MCDeployWorkflow -------------------------
(***************************************************************************)
(* DeployWorkflow for TLC: the command lines that differ in what they do.  *)
(***************************************************************************)
EXTENDS DeployWorkflow, TLC

Line(kind, transfer, offline, long, observe) ==
    [kind |-> kind, transfer |-> transfer, offline |-> offline, long |-> long,
     apply |-> TRUE, reboot |-> TRUE, observe |-> observe]

\* The first call may be any line; the second is one that holds everything a
\* pull can hold, or uploads.
CONSTANTS c1, c2

Lines ==
    {Line("pull", "auto", FALSE, long, FALSE) : long \in {"sd_http_helper", "http", "none"}}
      \cup {Line("pull", "auto", TRUE, "finalize", FALSE),
            Line("pull", "http", TRUE, "none", FALSE),
            Line("pull", "http", FALSE, "http", FALSE),
            Line("pull", "serial_bundle", FALSE, "none", TRUE),
            Line("verify", "auto", FALSE, "none", TRUE),
            [Line("verify", "auto", FALSE, "none", TRUE) EXCEPT !.apply = FALSE, !.reboot = FALSE]}

MCOptions == (c1 :> Lines) @@ (c2 :> {Line("pull", "auto", FALSE, "none", FALSE)})
=============================================================================
