---------------------------- MODULE MCOramStorage ----------------------------
(* OramStorage on small instances. *)
EXTENDS OramStorage
=============================================================================
