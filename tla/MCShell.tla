------------------------------ MODULE MCShell ------------------------------
(***************************************************************************)
(* Rows of 3 cells, so that a line and its backspaces cross their ends.    *)
(***************************************************************************)
EXTENDS Shell

MCBanner == <<"B", Newline>>
============================================================================
