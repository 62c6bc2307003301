------------------------------- MODULE Counting -------------------------------
(***************************************************************************)
(* How many members of a function's domain it maps into a set: the form in *)
(* which the modules count the threads that are at one of several places.  *)
(***************************************************************************)
EXTENDS Integers, FiniteSets

HowMany(f, A) == Cardinality({x \in DOMAIN f : f[x] \in A})
=============================================================================
