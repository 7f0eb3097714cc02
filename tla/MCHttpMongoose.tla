--------------------------- MODULE MCHttpMongoose ---------------------------
(***************************************************************************)
(* The instance of HttpMongoose for TLC: enough calls to lose a            *)
(* connection, come back, and lose the next one.                           *)
(***************************************************************************)
EXTENDS HttpMongoose
=============================================================================
