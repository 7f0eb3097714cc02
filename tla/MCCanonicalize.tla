--------------------------- MODULE MCCanonicalize ---------------------------
(***************************************************************************)
(* Instances of Canonicalize for TLC: every object of four of eight keys   *)
(* in any order, one value being null.  One key is the beginning of three  *)
(* others, one of which goes on with a character below the quote; one has  *)
(* a dot, and one is longer than the path.  One value is too long for an   *)
(* entry under any key but the shortest.  And one object of five keys, too *)
(* many for the array.                                                     *)
(***************************************************************************)
EXTENDS Canonicalize, FiniteSetsExt

\* a  ab  abc  a!  b  ba  bb  .
SomeKeys == { <<97, 34>>, <<97, 98, 34>>, <<97, 98, 99, 34>>, <<97, 33, 34>>,
              <<98, 34>>, <<98, 97, 34>>, <<98, 98, 34>>, <<46, 34>> }

Lengths == <<2, 3, 6, 2>>

Orders == UNION { SetToSeqs(s) : s \in kSubset(4, SomeKeys) }

Small == { [n \in DOMAIN ks |-> [key |-> ks[n], value |-> vs[n]]] :
             ks \in Orders, vs \in { <<1, 2, 3, 4>>, <<1, Null, 3, 4>> } }
         \cup { [n \in 1 .. 5 |-> [key |-> <<96 + n, 34>>, value |-> 1]] }
=============================================================================
