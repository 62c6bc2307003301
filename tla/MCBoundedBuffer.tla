--------------------------- MODULE MCBoundedBuffer ---------------------------
(***************************************************************************)
(* Three producers and three consumers over three slots, the smallest      *)
(* buffer the program's assumption allows, started from a negative number, *)
(* from below, at and above a prime, and just below 25, the first square   *)
(* that the 6k - 1 candidates have to reject.                              *)
(***************************************************************************)
EXTENDS BoundedBuffer

MCFirstNums == {-3, 1, 7, 23}
=============================================================================
