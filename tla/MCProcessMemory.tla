-------------------------- MODULE MCProcessMemory --------------------------
(* Finite instances of the memory of processes for TLC. *)
EXTENDS ProcessMemory, TLC

CONSTANTS p1, p2

\* No action and no property tells the processes apart.
ProcSymmetry == Permutations({p1, p2})
==============================================================================
