------------------------- MODULE MCDiningPhilosophers -------------------------
(***************************************************************************)
(* The five philosophers of the program.                                   *)
(***************************************************************************)
EXTENDS DiningPhilosophers
=============================================================================
