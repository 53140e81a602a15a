----------------------------- MODULE MCKeyboard -----------------------------
(* Finite instances of the keyboard layer for TLC. *)
EXTENDS Keyboard, TLC

\* A key without a character, a letter, a digit, and caps lock.
MCScanSet == (0 :> 0) @@ (1 :> 65) @@ (2 :> 49) @@ (3 :> 0)

\* A key without a character, a letter, and caps lock.
MCLetterSet == (0 :> 0) @@ (1 :> 65) @@ (2 :> 0)
==============================================================================
