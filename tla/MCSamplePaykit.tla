--------------------------- MODULE MCSamplePaykit ---------------------------
(* Instances of SamplePaykit for TLC. *)
EXTENDS SamplePaykit, TLC

Symmetry == Permutations(Rngs)
=============================================================================
