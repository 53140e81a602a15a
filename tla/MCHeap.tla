------------------------------- MODULE MCHeap -------------------------------
(* Finite instances of the kernel heap for TLC. *)
EXTENDS Heap, TLC

CONSTANTS c1, c2, c3

\* The clients are interchangeable: no action and no safety property names one.
ClientSymmetry == Permutations({c1, c2, c3})
==============================================================================
