--------------------------- MODULE MCOneTimeKeys ---------------------------
(***************************************************************************)
(* Instances of OneTimeKeys for TLC.                                       *)
(***************************************************************************)
EXTENDS OneTimeKeys, TLC

Perms == Permutations(Devices)
=============================================================================
