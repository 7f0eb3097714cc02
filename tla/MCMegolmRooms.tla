---------------------------- MODULE MCMegolmRooms ----------------------------
(***************************************************************************)
(* Instances of MegolmRooms for TLC.                                       *)
(***************************************************************************)
EXTENDS MegolmRooms, TLC

\* Rooms are interchangeable.
Symmetry == Permutations(Rooms)
=============================================================================
