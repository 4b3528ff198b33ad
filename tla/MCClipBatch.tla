---------------------------- MODULE MCClipBatch ----------------------------
(* Model-checking instance of ClipBatch. *)
EXTENDS ClipBatch, TLC

WorkerSymmetry == Permutations(Worker)
=============================================================================
