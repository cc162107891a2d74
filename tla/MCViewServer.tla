---------------------------- MODULE MCViewServer ----------------------------
(* Instances of ViewServer for TLC. *)
EXTENDS ViewServer, TLC

Symmetry == Permutations(Keys)
=============================================================================
