--------------------------- MODULE MCPathSetBuilder ---------------------------
(* Model-checking instance of PathSetBuilder. *)
EXTENDS PathSetBuilder
=============================================================================
