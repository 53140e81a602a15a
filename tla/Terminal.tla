------------------------------ MODULE Terminal ------------------------------
(***************************************************************************)
(* The text terminal (src/kernel.c): a row, a column and the cells of the  *)
(* video memory.  The colours are left out.                                *)
(*                                                                         *)
(* The cells are numbered as the video memory numbers them.  Nothing       *)
(* scrolls, and a backspace may leave a negative column: what is written   *)
(* before or after the screen is not kept.                                 *)
(***************************************************************************)
EXTENDS Integers, Sequences, SequencesExt

CONSTANTS
  Width,     \* VGA_WIDTH
  Height     \* VGA_HEIGHT

ASSUME TerminalAssumption == Width \in Nat \ {0} /\ Height \in Nat \ {0}

Blank == " "
Newline == "LF"
Backspace == "BS"

Cells == 0 .. Width * Height - 1

\* The cell the cursor of t is at.
Cursor(t) == Width * t.row + t.column

terminal_putchar(t, character) ==
  [t EXCEPT !.cells = [c \in Cells |-> IF c = Cursor(t) THEN character ELSE @[c]]]

\* A character that is shown: the column moves on, and past the end of the row
\* into the next.
Shown(t, character) ==
  LET put  == terminal_putchar(t, character)
      wrap == t.column + 1 >= Width
  IN [put EXCEPT !.row = IF wrap THEN @ + 1 ELSE @,
                 !.column = IF wrap THEN 0 ELSE @ + 1]

\* Mutation: the column is not moved back after the blank.
terminal_backspace_stays(t) ==
  IF t.row = 0 /\ t.column = 0 THEN t
  ELSE Shown(IF t.column = 0
               THEN [t EXCEPT !.row = @ - 1, !.column = Width - 1]
               ELSE [t EXCEPT !.column = @ - 1], Blank)

terminal_backspace(t) ==
  LET back == IF t.column = 0
                THEN [t EXCEPT !.row = @ - 1, !.column = Width - 1]
                ELSE [t EXCEPT !.column = @ - 1]
  IN IF t.row = 0 /\ t.column = 0 THEN t
     ELSE [Shown(back, Blank) EXCEPT !.column = @ - 1]

terminal_writechar(t, character) ==
  IF character = Newline THEN [t EXCEPT !.row = @ + 1, !.column = 0]
  ELSE IF character = Backspace THEN terminal_backspace(t)
  ELSE Shown(t, character)

\* A string, in one go.
print(t, str) == FoldLeft(terminal_writechar, t, str)

terminal_initialize == [row |-> 0, column |-> 0, cells |-> [c \in Cells |-> Blank]]
==============================================================================
