--------------------------- MODULE MCActiveEdges ---------------------------
(* Instances of ActiveEdges for TLC. *)
EXTENDS ActiveEdges, TLC

EdgeSymmetry == Permutations(Edge)
=============================================================================
