------------------------------ MODULE MCTasks ------------------------------
(* Finite instances of the task list for TLC. *)
EXTENDS Tasks, TLC

CONSTANTS a1, a2, a3, a4

\* No action and no safety property tells task addresses apart.
AddressSymmetry == Permutations({a1, a2, a3, a4})
==============================================================================
