----------------------------- MODULE MCConsole -----------------------------
(* A finite instance of tasks and keyboard together for TLC. *)
EXTENDS Console, TLC

CONSTANTS a1, a2, a3

\* A key without a character (here caps lock) and a digit.
MCScanSet == (0 :> 0) @@ (1 :> 49)
==============================================================================
