-------------------------- MODULE MCIntersectionList --------------------------
(* Model-checking instance of IntersectionList. *)
EXTENDS IntersectionList
=============================================================================
