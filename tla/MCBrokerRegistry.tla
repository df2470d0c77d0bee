-------------------------- MODULE MCBrokerRegistry --------------------------
(***************************************************************************)
(* BrokerRegistry for TLC.  Brokers are interchangeable; clients are too,   *)
(* apart from what they may inspect.                                        *)
(***************************************************************************)
EXTENDS BrokerRegistry, TLC

Symmetry == Permutations(Brokers) \cup Permutations(Clients \ Sandboxed)
=============================================================================
