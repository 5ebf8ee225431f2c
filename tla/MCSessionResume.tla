-------------------------- MODULE MCSessionResume --------------------------
(* SessionResume on small instances. *)
EXTENDS SessionResume, TLC

Symmetry == Permutations(Browser)
============================================================================
