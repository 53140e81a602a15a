----------------------------- MODULE MCContext -----------------------------
(***************************************************************************)
(* Two tasks, and one interrupt of each kind.                              *)
(***************************************************************************)
EXTENDS Context
============================================================================
