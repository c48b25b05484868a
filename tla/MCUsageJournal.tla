--------------------------- MODULE MCUsageJournal ---------------------------
(* Model-checking instance of UsageJournal. *)
EXTENDS UsageJournal, TLC

Symmetry == Permutations(Trays) \cup Permutations(Reels)
=============================================================================
