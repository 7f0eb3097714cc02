---------------------------- MODULE MCOlmSessions ----------------------------
(***************************************************************************)
(* Instances of OlmSessions for TLC.                                       *)
(***************************************************************************)
EXTENDS OlmSessions, TLC

\* Devices are interchangeable.
Symmetry == Permutations(Devices)
=============================================================================
