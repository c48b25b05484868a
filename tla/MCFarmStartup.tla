---------------------------- MODULE MCFarmStartup ----------------------------
(* Model-checking instance of FarmStartup: people and processes are        *)
(* interchangeable, numbered records are not.                              *)
EXTENDS FarmStartup, TLC

Symmetry == Permutations(Operators) \cup Permutations(Procs)

(* A process that failed to take the lock runs alone. *)
LocklessIsAlone ==
    \A p \in Procs : pc'[p] \notin {"down", "locked"} /\ lock' # p =>
                        \A q \in Procs \ {p} : pc'[q] = "down"

=============================================================================
