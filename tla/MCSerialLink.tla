---------------------------- MODULE MCSerialLink ----------------------------
(***************************************************************************)
(* SerialLink for TLC: handler threads are interchangeable, handles too.    *)
(***************************************************************************)
EXTENDS SerialLink, TLC

Symmetry == Permutations(Writers) \cup Permutations(Handles)
=============================================================================
