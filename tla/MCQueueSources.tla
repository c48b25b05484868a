--------------------------- MODULE MCQueueSources ---------------------------
(* Model-checking instance of QueueSources; the constants come from the .cfg. *)
EXTENDS QueueSources, TLC

(* Jobs are interchangeable; used by the safety runs only. *)
JobSymmetry == Permutations(Jobs)
=============================================================================
