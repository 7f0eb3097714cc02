------------------------------ MODULE MCEspNode ------------------------------
(***************************************************************************)
(* Instances of EspNode for TLC: a buffer of two cells for an answer of up *)
(* to three, and servers that write next_batch first or last.              *)
(***************************************************************************)
EXTENDS EspNode

FirstOrLast == { <<"next_batch", "to_device", "rooms">>,
                 <<"to_device", "rooms", "next_batch">> }
=============================================================================
