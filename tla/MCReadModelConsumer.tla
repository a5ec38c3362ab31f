------------------------ MODULE MCReadModelConsumer -------------------------
(***************************************************************************)
(* Small instances of ReadModelConsumer: two replicas, two assessments and *)
(* a topic with room for a duplicate.                                      *)
(***************************************************************************)
EXTENDS ReadModelConsumer, TLC

Symmetry == Permutations(Replicas)
=============================================================================
