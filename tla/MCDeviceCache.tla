---------------------------- MODULE MCDeviceCache ----------------------------
(***************************************************************************)
(* Instances of DeviceCache for TLC.  There are as many devices as the     *)
(* table holds, and a garbled id on top, so that it fills up and a device  *)
(* is left out; and two generations of keys, so that a device can log in   *)
(* again under its id.                                                     *)
(***************************************************************************)
EXTENDS DeviceCache, TLC

NoMasterOnly == {"noMaster"}
AllIrregular == Irregularities

\* Devices and generations are interchangeable.
Symmetry == Permutations(Devices) \cup Permutations(Gens)
=============================================================================
