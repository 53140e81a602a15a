---------------------------- MODULE ShellProofs ----------------------------
(***************************************************************************)
(* Proofs about the shell and the terminal, for any size of the screen and *)
(* of the line.                                                            *)
(***************************************************************************)
EXTENDS Shell, FiniteSetTheorems, SequenceTheorems, TLAPS

(***************************************************************************)
(* The cursor moves one cell at a time over the rows of the screen.        *)
(***************************************************************************)

\* The first cell of a row.
RowStart(r) == Width * r

\* The rows follow each other.
LEMMA NextRow ==
  ASSUME NEW r \in Int
  PROVE  /\ RowStart(r) \in Int
         /\ RowStart(r + 1) = RowStart(r) + Width
         /\ RowStart(r - 1) = RowStart(r) - Width
<1>1. Width \in Int
  BY TerminalAssumption
<1>2. /\ Width * r \in Int
      /\ Width * (r + 1) = Width * r + Width
      /\ Width * (r - 1) = Width * r - Width
  BY <1>1
<1>3. QED
  BY <1>2 DEF RowStart

\* What a cell may show, and what may be written to the terminal.
Characters == Letters \cup {Other, ">"} \cup Range(Banner)
Output == Characters \cup {Newline, Backspace}

\* The column may be negative after a backspace, but never in the first row.
Screen(t) ==
  /\ t = [row |-> t.row, column |-> t.column, cells |-> t.cells]
  /\ t.row \in Nat
  /\ t.column \in Int /\ t.column < Width
  /\ t.row = 0 => t.column >= 0
  /\ t.cells \in [Cells -> Characters]

\* The cells after a character was put at a place.
Put(cells, place, character) ==
  [c \in Cells |-> IF c = place THEN character ELSE cells[c]]

\* A terminal with another row or another column.
LEMMA MovedTo ==
  ASSUME NEW r, NEW k, NEW cs, NEW r2, NEW k2,
         NEW x, x = [row |-> r, column |-> k, cells |-> cs]
  PROVE  /\ [x EXCEPT !.row = r2, !.column = k2] = [row |-> r2, column |-> k2, cells |-> cs]
         /\ [x EXCEPT !.column = k2] = [row |-> r, column |-> k2, cells |-> cs]
         /\ x.row = r /\ x.column = k /\ x.cells = cs
<1> DEFINE m == [x EXCEPT !.row = r2]
           y == [m EXCEPT !.column = k2]
           z == [x EXCEPT !.column = k2]
<1>1. y = [row |-> r2, column |-> k2, cells |-> cs]
  <2>1. m = [row |-> r2, column |-> k, cells |-> cs]
    OBVIOUS
  <2> HIDE DEF m
  <2>2. QED
    BY <2>1
<1>2. z = [row |-> r, column |-> k2, cells |-> cs]
  OBVIOUS
<1>3. QED
  BY <1>1, <1>2

\* The cursor counts on from the start of its row.
LEMMA CursorOf ==
  ASSUME NEW t, t.row \in Int, t.column \in Int
  PROVE  Cursor(t) = RowStart(t.row) + t.column /\ Cursor(t) \in Int
BY NextRow DEF Cursor, RowStart

\* A character that is shown is put at the cursor, and the cursor moves to the
\* next cell, be it in the next row.
LEMMA ShownMoves ==
  ASSUME NEW t, Screen(t), NEW character \in Characters
  PROVE  LET u == Shown(t, character)
         IN /\ Screen(u)
            /\ Cursor(u) = Cursor(t) + 1
            /\ u.cells = Put(t.cells, Cursor(t), character)
            /\ u.row >= t.row
            /\ u.row = 0 => Cursor(u) >= 1
            /\ u = IF t.column + 1 >= Width
                     THEN [row |-> t.row + 1, column |-> 0,
                           cells |-> Put(t.cells, Cursor(t), character)]
                     ELSE [row |-> t.row, column |-> t.column + 1,
                           cells |-> Put(t.cells, Cursor(t), character)]
<1> DEFINE u == Shown(t, character)
           place == Cursor(t)
           cells == Put(t.cells, place, character)
           wrap == t.column + 1 >= Width
<1>1. t = [row |-> t.row, column |-> t.column, cells |-> t.cells]
  BY DEF Screen
<1>2. terminal_putchar(t, character) = [row |-> t.row, column |-> t.column, cells |-> cells]
  BY <1>1 DEF terminal_putchar, Put
<1> HIDE DEF place, cells
<1>3. u = [row    |-> IF wrap THEN t.row + 1 ELSE t.row,
           column |-> IF wrap THEN 0 ELSE t.column + 1,
           cells  |-> cells]
  <2> DEFINE put == terminal_putchar(t, character)
  <2>1. /\ put = [row |-> t.row, column |-> t.column, cells |-> cells]
        /\ u = [put EXCEPT !.row = IF wrap THEN put.row + 1 ELSE put.row,
                           !.column = IF wrap THEN 0 ELSE put.column + 1]
    BY <1>2 DEF Shown
  <2> HIDE DEF put, u
  <2>2. QED
    BY <2>1, MovedTo
<1>4. /\ u.row = IF wrap THEN t.row + 1 ELSE t.row
      /\ u.column = IF wrap THEN 0 ELSE t.column + 1
      /\ u.cells = cells
      /\ u = [row |-> u.row, column |-> u.column, cells |-> u.cells]
  BY <1>3
<1>5. u = IF wrap THEN [row |-> t.row + 1, column |-> 0, cells |-> cells]
          ELSE [row |-> t.row, column |-> t.column + 1, cells |-> cells]
  BY <1>3
<1> HIDE DEF u
<1>6. t.row \in Nat /\ t.column \in Int /\ t.column < Width /\ (t.row = 0 => t.column >= 0)
  BY DEF Screen
<1>7. Width \in Nat \ {0}
  BY TerminalAssumption
<1>8. /\ u.row \in Nat /\ u.column \in Int /\ u.column < Width
      /\ u.row = 0 => u.column >= 1
      /\ u.row >= t.row
  BY <1>4, <1>6, <1>7
<1>9. place = RowStart(t.row) + t.column /\ RowStart(t.row) \in Int
  BY <1>6, CursorOf, NextRow DEF place
<1>10. Cursor(u) = RowStart(u.row) + u.column
  BY <1>8, CursorOf
<1>11. RowStart(t.row + 1) = RowStart(t.row) + Width
  BY <1>6, NextRow
<1>12. Cursor(u) = place + 1
  <2>1. CASE wrap
    <3>1. u.row = t.row + 1 /\ u.column = 0 /\ t.column = Width - 1
      BY <1>4, <1>6, <1>7, <2>1
    <3>2. Cursor(u) = RowStart(t.row) + Width
      BY <1>7, <1>9, <1>10, <1>11, <3>1
    <3>3. QED
      BY <1>6, <1>7, <1>9, <3>1, <3>2
  <2>2. CASE ~wrap
    <3>1. u.row = t.row /\ u.column = t.column + 1
      BY <1>4, <2>2
    <3>2. QED
      BY <1>6, <1>9, <1>10, <3>1
  <2>3. QED
    BY <2>1, <2>2
<1>13. u.row = 0 => Cursor(u) >= 1
  <2>1. RowStart(0) = 0
    BY <1>7 DEF RowStart
  <2>2. QED
    BY <1>8, <1>10, <2>1
<1>14. Screen(u)
  <2>1. cells \in [Cells -> Characters]
    BY DEF cells, Put, Screen
  <2>2. QED
    BY <1>4, <1>8, <2>1 DEF Screen
<1>15. QED
  BY <1>4, <1>5, <1>8, <1>12, <1>13, <1>14 DEF u, place, cells

\* A backspace moves the cursor one cell back and clears that cell, but for the
\* first cell of the screen.
LEMMA BackspaceMoves ==
  ASSUME NEW t, Screen(t)
  PROVE  LET u == terminal_backspace(t)
         IN /\ Screen(u)
            /\ u.row = t.row
            /\ IF t.row = 0 /\ t.column = 0 THEN u = t
               ELSE /\ Cursor(u) = Cursor(t) - 1
                    /\ u.cells = Put(t.cells, Cursor(t) - 1, Blank)
<1>1. CASE t.row = 0 /\ t.column = 0
  BY <1>1 DEF terminal_backspace
<1>2. CASE ~(t.row = 0 /\ t.column = 0)
  <2> DEFINE back == IF t.column = 0
                       THEN [row |-> t.row - 1, column |-> Width - 1, cells |-> t.cells]
                       ELSE [row |-> t.row, column |-> t.column - 1, cells |-> t.cells]
             s == Shown(back, Blank)
             u == terminal_backspace(t)
  <2>1. t = [row |-> t.row, column |-> t.column, cells |-> t.cells]
    BY DEF Screen
  <2>2. u = [s EXCEPT !.column = s.column - 1]
    <3>1. /\ [t EXCEPT !.row = @ - 1, !.column = Width - 1]
                = [row |-> t.row - 1, column |-> Width - 1, cells |-> t.cells]
          /\ [t EXCEPT !.column = @ - 1]
                = [row |-> t.row, column |-> t.column - 1, cells |-> t.cells]
      <4> DEFINE r == t.row - 1
                 k == Width - 1
                 l == t.column - 1
                 row == t.row
                 column == t.column
                 cells == t.cells
      <4>0. t = [row |-> row, column |-> column, cells |-> cells]
        BY <2>1
      <4> HIDE DEF r, k, l, row, column, cells
      <4>1. [t EXCEPT !.row = r, !.column = k] = [row |-> r, column |-> k, cells |-> cells]
        <5> DEFINE v == [t EXCEPT !.row = r, !.column = k]
        <5>1. v = [t EXCEPT !.row = r, !.column = k]
          OBVIOUS
        <5> HIDE DEF v
        <5>2. v = [row |-> r, column |-> k, cells |-> cells]
          BY <4>0, <5>1, MovedTo
        <5>3. QED
          BY <5>2 DEF v
      <4>2. [t EXCEPT !.column = l] = [row |-> row, column |-> l, cells |-> cells]
        BY <4>0
      <4>3. QED
        BY <4>1, <4>2 DEF r, k, l, row, column, cells
    <3>2. QED
      BY <1>2, <3>1 DEF terminal_backspace
  <2>3. t.row \in Nat /\ t.column \in Int /\ t.column < Width /\ (t.row = 0 => t.column >= 0)
    BY DEF Screen
  <2>4. Width \in Nat \ {0}
    BY TerminalAssumption
  <2>5. /\ back.row = IF t.column = 0 THEN t.row - 1 ELSE t.row
        /\ back.column = IF t.column = 0 THEN Width - 1 ELSE t.column - 1
        /\ back.cells = t.cells
        /\ back = [row |-> back.row, column |-> back.column, cells |-> back.cells]
    OBVIOUS
  <2> HIDE DEF back
  <2>6. Screen(back)
    <3>1. /\ back.row \in Nat /\ back.column \in Int /\ back.column < Width
          /\ back.row = 0 => back.column >= 0
      BY <1>2, <2>3, <2>4, <2>5
    <3>2. QED
      BY <2>5, <3>1 DEF Screen
  <2>7. Cursor(back) = Cursor(t) - 1
    <3>1. /\ Cursor(t) = RowStart(t.row) + t.column
          /\ RowStart(t.row) \in Int
          /\ RowStart(t.row - 1) = RowStart(t.row) - Width
      BY <2>3, CursorOf, NextRow
    <3>2. Cursor(back) = RowStart(back.row) + back.column
      BY <2>6, CursorOf DEF Screen
    <3>3. CASE t.column = 0
      <4>1. back.row = t.row - 1 /\ back.column = Width - 1
        BY <2>5, <3>3
      <4>2. Cursor(back) = (RowStart(t.row) - Width) + (Width - 1)
        BY <3>1, <3>2, <4>1
      <4>3. QED
        BY <2>4, <3>1, <3>3, <4>2
    <3>4. CASE t.column # 0
      <4>1. back.row = t.row /\ back.column = t.column - 1
        BY <2>5, <3>4
      <4>2. QED
        BY <2>3, <3>1, <3>2, <4>1
    <3>5. QED
      BY <3>3, <3>4
  <2>8. /\ Screen(s)
        /\ Cursor(s) = Cursor(back) + 1
        /\ s.cells = Put(back.cells, Cursor(back), Blank)
        /\ s = IF back.column + 1 >= Width
                 THEN [row |-> back.row + 1, column |-> 0,
                       cells |-> Put(back.cells, Cursor(back), Blank)]
                 ELSE [row |-> back.row, column |-> back.column + 1,
                       cells |-> Put(back.cells, Cursor(back), Blank)]
    <3>1. Blank \in Characters
      BY ShellAssumption DEF Characters
    <3>2. QED
      BY <2>6, <3>1, ShownMoves
  <2>9. s.row = t.row /\ s.column = t.column
    <3>1. CASE t.column = 0
      <4>1. back.row = t.row - 1 /\ back.column + 1 >= Width
        BY <2>4, <2>5, <3>1
      <4>2. s.row = back.row + 1 /\ s.column = 0
        BY <2>8, <4>1
      <4>3. QED
        BY <2>3, <3>1, <4>1, <4>2
    <3>2. CASE t.column # 0
      <4>1. back.row = t.row /\ back.column = t.column - 1 /\ ~(back.column + 1 >= Width)
        BY <2>3, <2>4, <2>5, <3>2
      <4>2. s.row = back.row /\ s.column = back.column + 1
        BY <2>8, <4>1
      <4>3. QED
        BY <2>3, <4>1, <4>2
    <3>3. QED
      BY <3>1, <3>2
  <2> HIDE DEF s
  <2>10. s = [row |-> s.row, column |-> s.column, cells |-> s.cells]
    BY <2>8 DEF Screen
  <2>11. u = [row |-> t.row, column |-> t.column - 1, cells |-> s.cells]
    BY <2>2, <2>9, <2>10
  <2> HIDE DEF u
  <2>12. /\ u.row = t.row /\ u.column = t.column - 1 /\ u.cells = s.cells
         /\ u = [row |-> u.row, column |-> u.column, cells |-> u.cells]
    BY <2>11
  <2>13. Screen(u)
    <3>1. /\ u.row \in Nat /\ u.column \in Int /\ u.column < Width
          /\ u.row = 0 => u.column >= 0
      BY <1>2, <2>3, <2>4, <2>12
    <3>2. s.cells \in [Cells -> Characters]
      BY <2>8 DEF Screen
    <3>3. QED
      BY <2>12, <3>1, <3>2 DEF Screen
  <2>14. Cursor(u) = Cursor(t) - 1
    <3>1. Cursor(u) = RowStart(t.row) + (t.column - 1)
      BY <2>12, <2>13, CursorOf DEF Screen
    <3>2. Cursor(t) = RowStart(t.row) + t.column /\ RowStart(t.row) \in Int
      BY <2>3, CursorOf, NextRow
    <3>3. QED
      BY <2>3, <3>1, <3>2
  <2>15. u.cells = Put(t.cells, Cursor(t) - 1, Blank)
    BY <2>5, <2>7, <2>8, <2>12
  <2>16. QED
    BY <1>2, <2>12, <2>13, <2>14, <2>15 DEF u
<1>3. QED
  BY <1>1, <1>2

\* Whatever is written, the screen stays one and the cursor does not go up.
LEMMA WriteKeepsScreen ==
  ASSUME NEW t, Screen(t), NEW character \in Output
  PROVE  LET u == terminal_writechar(t, character)
         IN Screen(u) /\ u.row >= t.row
<1>1. t.row \in Nat /\ t = [row |-> t.row, column |-> t.column, cells |-> t.cells]
  BY DEF Screen
<1>2. CASE character = Newline
  <2> DEFINE u == terminal_writechar(t, character)
  <2>1. u = [row |-> t.row + 1, column |-> 0, cells |-> t.cells]
    BY <1>1, <1>2 DEF terminal_writechar
  <2>2. Width \in Nat \ {0}
    BY TerminalAssumption
  <2> HIDE DEF u
  <2>3. /\ u.row = t.row + 1 /\ u.column = 0 /\ u.cells = t.cells
        /\ u = [row |-> u.row, column |-> u.column, cells |-> u.cells]
    BY <2>1
  <2>4. u.row \in Nat /\ u.column \in Int /\ u.column < Width /\ u.column >= 0 /\ u.row >= t.row
    BY <1>1, <2>2, <2>3
  <2>5. QED
    BY <2>3, <2>4 DEF Screen, u
<1>3. CASE character # Newline /\ character = Backspace
  BY <1>1, <1>3, BackspaceMoves DEF terminal_writechar
<1>4. CASE character # Newline /\ character # Backspace
  <2>1. character \in Characters
    BY <1>4 DEF Output
  <2>2. QED
    BY <1>4, <2>1, ShownMoves DEF terminal_writechar
<1>5. QED
  BY <1>2, <1>3, <1>4
------------------------------------------------------------------------------
(***************************************************************************)
(* print: a fold over the characters, which is a recursion over sets of    *)
(* their positions.                                                        *)
(***************************************************************************)

\* The positions of a string, the calls of the fold, and what they leave.
Positions(c) == SUBSET (1 .. Len(c.str))
Written(c, f, s) ==
  IF s = {} THEN c.terminal ELSE terminal_writechar(f[s \ {Max(s)}], c.str[Max(s)])

Placed(c, s) == Cardinality(s)

Writing == INSTANCE Recursion WITH Dom <- Positions, Size <- Placed, Def <- Written

\* The largest of some positions is one of them.
LEMMA LargestOf ==
  ASSUME NEW n \in Nat, NEW s \in SUBSET (1 .. n), s # {}
  PROVE  Max(s) \in s
<1> DEFINE T == {n - k : k \in s}
<1>1. PICK j \in T : \A i \in T : j <= i
  <2>1. T \subseteq Nat /\ T # {}
    <3>1. \A k \in s : k \in Int /\ k <= n
      OBVIOUS
    <3>2. T \subseteq Nat
      BY <3>1
    <3>3. QED
      BY <3>2
  <2>2. QED
    BY <2>1, Writing!LeastNumber
<1>2. PICK k \in s : j = n - k
  BY <1>1
<1>3. \A l \in s : k >= l
  <2> SUFFICES ASSUME NEW l \in s PROVE k >= l
    OBVIOUS
  <2>1. n - l \in T /\ l \in Int /\ k \in Int
    BY <1>2
  <2>2. QED
    BY <1>1, <1>2, <2>1
<1>4. QED
  BY <1>3 DEF Max

\* A set of positions has fewer without its largest one.
LEMMA FewerPositions ==
  ASSUME NEW n \in Nat, NEW s \in SUBSET (1 .. n)
  PROVE  /\ Cardinality(s) \in Nat
         /\ s # {} => /\ s \ {Max(s)} \in SUBSET (1 .. n)
                      /\ Cardinality(s \ {Max(s)}) < Cardinality(s)
<1>1. IsFiniteSet(1 .. n)
  BY FS_Interval
<1>2. IsFiniteSet(s) /\ Cardinality(s) \in Nat
  BY <1>1, FS_Subset, FS_CardinalityType
<1>3. ASSUME s # {} PROVE Cardinality(s \ {Max(s)}) < Cardinality(s)
  <2>1. Max(s) \in s
    BY <1>3, LargestOf
  <2>2. Cardinality(s \ {Max(s)}) = Cardinality(s) - 1
    BY <1>2, <2>1, FS_RemoveElement
  <2>3. QED
    BY <1>2, <2>2
<1>4. QED
  BY <1>2, <1>3

\* What a program prints keeps the screen one, and the cursor does not go up.
LEMMA PrintKeepsScreen ==
  ASSUME NEW t, Screen(t), NEW str \in Seq(Output)
  PROVE  LET u == print(t, str)
         IN Screen(u) /\ u.row >= t.row
<1> DEFINE n == Len(str)
           S == SUBSET (1 .. n)
           iter == CHOOSE f : f = [s \in S |-> IF s = {} THEN t
                                               ELSE terminal_writechar(f[s \ {Max(s)}], str[Max(s)])]
           c == [terminal |-> t, str |-> str]
<1>1. n \in Nat /\ DOMAIN str = 1 .. n
  OBVIOUS
<1>2. iter = [s \in S |-> IF s = {} THEN t
                          ELSE terminal_writechar(iter[s \ {Max(s)}], str[Max(s)])]
  <2>1. Positions(c) = S
    BY DEF Positions
  <2>2. \A f, s : Written(c, f, s) = IF s = {} THEN t
                                     ELSE terminal_writechar(f[s \ {Max(s)}], str[Max(s)])
    BY DEF Written
  <2>3. ASSUME NEW s \in S, NEW g, NEW h,
               \A r \in S : Cardinality(r) < Cardinality(s) => g[r] = h[r]
        PROVE  Written(c, g, s) = Written(c, h, s)
    <3> HIDE DEF c
    <3>1. CASE s = {}
      BY <2>2, <3>1
    <3>2. CASE s # {}
      <4>1. g[s \ {Max(s)}] = h[s \ {Max(s)}]
        BY <1>1, <2>3, <3>2, FewerPositions
      <4>2. QED
        BY <2>2, <3>2, <4>1
    <3>3. QED
      BY <3>1, <3>2
  <2>4. \A s \in S : Cardinality(s) \in Nat
    BY <1>1, FewerPositions
  <2> HIDE DEF c, S
  <2>5. Writing!Decreasing(c)
    BY <2>1, <2>3, <2>4 DEF Writing!Decreasing, Placed
  <2>6. PICK f : f = [s \in S |-> Written(c, f, s)]
    <3>1. \E f : f = [s \in Positions(c) |-> Written(c, f, s)]
      BY <2>5, Writing!RecursionDefines
    <3>2. QED
      BY <2>1, <3>1
  <2>7. \E g : g = [s \in S |-> IF s = {} THEN t
                                ELSE terminal_writechar(g[s \ {Max(s)}], str[Max(s)])]
    <3>1. f = [s \in S |-> IF s = {} THEN t
                          ELSE terminal_writechar(f[s \ {Max(s)}], str[Max(s)])]
      BY <2>2, <2>6
    <3>2. QED
      BY <3>1
  <2>8. QED
    BY <2>7
<1>3. print(t, str) = iter[1 .. n]
  BY <1>1 DEF print, FoldLeft, MapThenFoldSet
<1> HIDE DEF iter
<1> DEFINE Good(u) == Screen(u) /\ u.row >= t.row
           T == {k \in Nat : \E s \in S : Cardinality(s) = k /\ ~Good(iter[s])}
<1>4. T = {}
  <2> SUFFICES ASSUME T # {} PROVE FALSE
    OBVIOUS
  <2>1. PICK k \in T : \A l \in T : k <= l
    BY Writing!LeastNumber
  <2>2. PICK s \in S : Cardinality(s) = k /\ ~Good(iter[s])
    BY <2>1
  <2>3. CASE s = {}
    <3>1. iter[s] = t
      BY <1>2, <2>3
    <3>2. t.row >= t.row
      BY DEF Screen
    <3>3. QED
      BY <2>2, <3>1, <3>2
  <2>4. CASE s # {}
    <3> DEFINE m == Max(s)
               r == s \ {m}
    <3>1. /\ r \in S /\ Cardinality(r) < k /\ Cardinality(r) \in Nat
          /\ m \in 1 .. n
      BY <1>1, <2>2, <2>4, FewerPositions, LargestOf
    <3>2. iter[s] = terminal_writechar(iter[r], str[m])
      BY <1>2, <2>4
    <3> HIDE DEF m, r
    <3>3. Good(iter[r])
      <4>1. Cardinality(r) \in T \/ Good(iter[r])
        BY <3>1
      <4>2. QED
        BY <2>1, <3>1, <4>1
    <3>4. str[m] \in Output
      BY <3>1
    <3>5. Screen(iter[s]) /\ iter[s].row >= iter[r].row
      BY <3>2, <3>3, <3>4, WriteKeepsScreen
    <3>6. iter[s].row \in Nat /\ iter[r].row \in Nat /\ t.row \in Nat
      BY <3>3, <3>5 DEF Screen
    <3>7. QED
      BY <2>2, <3>3, <3>5, <3>6
  <2>5. QED
    BY <2>3, <2>4
<1>5. Good(iter[1 .. n])
  <2>1. 1 .. n \in S /\ Cardinality(1 .. n) \in Nat
    BY <1>1, FewerPositions
  <2>2. QED
    BY <1>4, <2>1
<1>6. QED
  BY <1>3, <1>5
------------------------------------------------------------------------------
(***************************************************************************)
(* strtok, and the recursion of bimbleos_parse_command over it.            *)
(***************************************************************************)

\* The first letter from offset o on, and the first blank; or the terminator.
NextLetter(s, o) ==
  CHOOSE p \in o .. Len(s) + 1 :
    /\ p <= Len(s) => s[p] # Blank
    /\ \A q \in o .. p - 1 : ~(s[q] # Blank)

NextBlank(s, o) ==
  CHOOSE p \in o .. Len(s) + 1 :
    /\ p <= Len(s) => s[p] = Blank
    /\ \A q \in o .. p - 1 : ~(s[q] = Blank)

\* Both exist.
LEMMA NextLetterOf ==
  ASSUME NEW S, NEW s \in Seq(S), NEW o \in 1 .. Len(s) + 1
  PROVE  /\ NextLetter(s, o) \in o .. Len(s) + 1
         /\ NextLetter(s, o) <= Len(s) => s[NextLetter(s, o)] # Blank
         /\ \A q \in o .. NextLetter(s, o) - 1 : s[q] = Blank
<1> DEFINE T == {p \in o .. Len(s) + 1 : p <= Len(s) => s[p] # Blank}
<1>1. Len(s) \in Nat /\ Len(s) + 1 \in T /\ T \subseteq Nat
  OBVIOUS
<1>2. PICK p \in T : \A q \in T : p <= q
  BY <1>1, Writing!LeastNumber
<1>3. \A q \in o .. p - 1 : ~(s[q] # Blank)
  <2> SUFFICES ASSUME NEW q \in o .. p - 1, s[q] # Blank PROVE FALSE
    OBVIOUS
  <2>1. q \in T /\ q < p
    BY <1>1, <1>2
  <2>2. QED
    BY <1>1, <1>2, <2>1
<1>4. QED
  BY <1>2, <1>3 DEF NextLetter

\* The end of a word is the first blank from an offset on, or the end of the line.
LEMMA NextBlankOf ==
  ASSUME NEW S, NEW s \in Seq(S), NEW o \in 1 .. Len(s) + 1
  PROVE  /\ NextBlank(s, o) \in o .. Len(s) + 1
         /\ NextBlank(s, o) <= Len(s) => s[NextBlank(s, o)] = Blank
         /\ \A q \in o .. NextBlank(s, o) - 1 : s[q] # Blank
<1> DEFINE T == {p \in o .. Len(s) + 1 : p <= Len(s) => s[p] = Blank}
<1>1. Len(s) \in Nat /\ Len(s) + 1 \in T /\ T \subseteq Nat
  OBVIOUS
<1>2. PICK p \in T : \A q \in T : p <= q
  BY <1>1, Writing!LeastNumber
<1>3. \A q \in o .. p - 1 : ~(s[q] = Blank)
  <2> SUFFICES ASSUME NEW q \in o .. p - 1, s[q] = Blank PROVE FALSE
    OBVIOUS
  <2>1. q \in T /\ q < p
    BY <1>1, <1>2
  <2>2. QED
    BY <1>1, <1>2, <2>1
<1>4. QED
  BY <1>2, <1>3 DEF NextBlank

\* The token is what lies between the two, and the search goes on behind it.
LEMMA StrtokOf ==
  ASSUME NEW S, NEW s \in Seq(S), NEW o \in 1 .. Len(s) + 1
  PROVE  LET t == strtok(s, o)
             p == NextLetter(s, o)
             e == NextBlank(s, p)
         IN IF p > Len(s) THEN t = [token |-> <<>>, sp |-> 0]
            ELSE /\ e \in p + 1 .. Len(s) + 1
                 /\ t.token = SubSeq(s, p, e - 1)
                 /\ t.token \in Seq(S) /\ t.token # <<>>
                 /\ t.sp = IF e <= Len(s) THEN e + 1 ELSE e
                 /\ t.sp \in p + 1 .. Len(s) + 1
<1> DEFINE t == strtok(s, o)
           p == NextLetter(s, o)
           e == NextBlank(s, p)
<1>1. t = IF p > Len(s) THEN [token |-> <<>>, sp |-> 0]
          ELSE [token |-> SubSeq(s, p, e - 1), sp |-> IF e <= Len(s) THEN e + 1 ELSE e]
  BY DEF strtok, First, NextLetter, NextBlank
<1>2. Len(s) \in Nat /\ p \in 1 .. Len(s) + 1 /\ (p <= Len(s) => s[p] # Blank)
  <2>1. p \in o .. Len(s) + 1 /\ (p <= Len(s) => s[p] # Blank)
    BY NextLetterOf
  <2>2. QED
    BY <2>1
<1> HIDE DEF p
<1>3. e \in p .. Len(s) + 1 /\ (e <= Len(s) => s[e] = Blank)
  BY <1>2, NextBlankOf
<1> HIDE DEF e, t
<1>4. ASSUME p <= Len(s)
      PROVE  /\ e \in p + 1 .. Len(s) + 1
             /\ t.token = SubSeq(s, p, e - 1)
             /\ t.token \in Seq(S) /\ t.token # <<>>
             /\ t.sp = IF e <= Len(s) THEN e + 1 ELSE e
             /\ t.sp \in p + 1 .. Len(s) + 1
  <2>1. e # p
    BY <1>2, <1>3, <1>4
  <2>2. e \in p + 1 .. Len(s) + 1
    BY <1>2, <1>3, <2>1
  <2>3. t.token = SubSeq(s, p, e - 1) /\ t.sp = IF e <= Len(s) THEN e + 1 ELSE e
    <3>1. ~(p > Len(s))
      BY <1>2, <1>4
    <3>2. t = [token |-> SubSeq(s, p, e - 1), sp |-> IF e <= Len(s) THEN e + 1 ELSE e]
      BY <1>1, <3>1
    <3>3. QED
      BY <3>2
  <2>4. t.sp \in p + 1 .. Len(s) + 1
    BY <1>2, <2>2, <2>3
  <2>5. \A i \in p .. e - 1 : s[i] \in S
    BY <1>2, <2>2
  <2>6. SubSeq(s, p, e - 1) \in Seq(S) /\ Len(SubSeq(s, p, e - 1)) = (e - 1) - p + 1
    BY <1>2, <2>2, <2>5, SubSeqProperties
  <2>7. Len(SubSeq(s, p, e - 1)) > 0
    BY <1>2, <2>2, <2>6
  <2>8. SubSeq(s, p, e - 1) # <<>>
    <3> DEFINE w == SubSeq(s, p, e - 1)
    <3>1. Len(w) > 0
      BY <2>7
    <3> HIDE DEF w
    <3>2. w # <<>>
      BY <3>1
    <3>3. QED
      BY <3>2 DEF w
  <2>9. QED
    BY <2>2, <2>3, <2>4, <2>6, <2>8
<1>5. CASE p > Len(s)
  BY <1>1, <1>5 DEF t, p, e
<1>6. CASE p <= Len(s)
  <2>1. ~(p > Len(s))
    BY <1>2, <1>6
  <2>2. QED
    BY <1>4, <1>6, <2>1 DEF t, p, e
<1>7. QED
  BY <1>2, <1>5, <1>6

\* What the recursion leaves for offset o and memory for k arguments, when parse
\* is what it leaves further on.
ParseStep(s, parse, o, k) ==
  LET t    == strtok(s, o)
      rest == parse[<<t.sp, k - 1>>]
  IN IF t.token = <<>> THEN [arguments |-> <<>>, sp |-> 0]
     ELSE IF k = 0 THEN [arguments |-> <<>>, sp |-> t.sp]
     ELSE [arguments |-> <<t.token>> \o rest.arguments, sp |-> rest.sp]

\* The recursion as module Recursion has it: its calls and its right-hand side.
Calls(c) == (1 .. Len(c.s) + 1) \X (0 .. c.n)
Left(c, x) == x[2]
Parsed(c, f, x) == ParseStep(c.s, f, x[1], x[2])

Parsing == INSTANCE Recursion WITH Dom <- Calls, Size <- Left, Def <- Parsed

\* What bimbleos_parse_command does with one token.
LEMMA ParseOf ==
  ASSUME NEW S, NEW s \in Seq(S), NEW n \in Nat
  PROVE  \E parse :
           /\ \A o \in 1 .. Len(s) + 1 : bimbleos_parse_command(s, o, n) = parse[<<o, n>>]
           /\ \A o \in 1 .. Len(s) + 1, k \in 0 .. n :
                parse[<<o, k>>] = ParseStep(s, parse, o, k)
<1> DEFINE c == [s |-> s, n |-> n]
           D == (1 .. Len(s) + 1) \X (0 .. n)
           parse == CHOOSE f : f = [x \in D |-> ParseStep(s, f, x[1], x[2])]
<1>1. Calls(c) = D /\ (\A f, x : Parsed(c, f, x) = ParseStep(s, f, x[1], x[2]))
  BY DEF Calls, Parsed
<1>2. parse = [x \in D |-> ParseStep(s, parse, x[1], x[2])]
  <2>1. ASSUME NEW x \in D, NEW g, NEW h, \A y \in D : y[2] < x[2] => g[y] = h[y]
        PROVE  ParseStep(s, g, x[1], x[2]) = ParseStep(s, h, x[1], x[2])
    <3> DEFINE t == strtok(s, x[1])
               z == <<t.sp, x[2] - 1>>
    <3>1. x[1] \in 1 .. Len(s) + 1 /\ x[2] \in 0 .. n
      OBVIOUS
    <3>2. CASE t.token = <<>> \/ x[2] = 0
      BY <3>2 DEF ParseStep
    <3>3. CASE t.token # <<>> /\ x[2] # 0
      <4>1. t.sp \in 1 .. Len(s) + 1
        <5> DEFINE p == NextLetter(s, x[1])
        <5>1. p \in 1 .. Len(s) + 1
          BY <3>1, NextLetterOf
        <5>2. t.sp \in p + 1 .. Len(s) + 1
          BY <3>1, <3>3, StrtokOf
        <5> HIDE DEF p
        <5>3. QED
          BY <5>1, <5>2
      <4>2. x[2] - 1 \in 0 .. n /\ x[2] - 1 < x[2]
        BY <3>1, <3>3
      <4> HIDE DEF t
      <4>3. z \in D /\ z[2] < x[2]
        BY <4>1, <4>2
      <4>4. g[z] = h[z]
        BY <2>1, <4>3
      <4> HIDE DEF z
      <4>5. QED
        BY <4>4 DEF t, z, ParseStep
    <3>4. QED
      BY <3>2, <3>3
  <2>2. \A x \in D : x[2] \in Nat
    OBVIOUS
  <2> HIDE DEF c, D
  <2>3. Parsing!Decreasing(c)
    <3>1. \A x \in Calls(c) : Left(c, x) \in Nat
      BY <1>1, <2>2 DEF Left
    <3>2. ASSUME NEW x \in Calls(c), NEW g, NEW h,
                 \A y \in Calls(c) : Left(c, y) < Left(c, x) => g[y] = h[y]
          PROVE  Parsed(c, g, x) = Parsed(c, h, x)
      <4>1. x \in D /\ \A y \in D : y[2] < x[2] => g[y] = h[y]
        BY <1>1, <3>2 DEF Left
      <4>2. ParseStep(s, g, x[1], x[2]) = ParseStep(s, h, x[1], x[2])
        BY <2>1, <4>1
      <4>3. QED
        BY <1>1, <4>2
    <3>3. QED
      BY <3>1, <3>2 DEF Parsing!Decreasing
  <2>4. PICK f : f = [x \in D |-> Parsed(c, f, x)]
    <3>1. \E f : f = [x \in Calls(c) |-> Parsed(c, f, x)]
      BY <2>3, Parsing!RecursionDefines
    <3>2. QED
      BY <1>1, <3>1
  <2>5. f = [x \in D |-> ParseStep(s, f, x[1], x[2])]
    BY <1>1, <2>4
  <2>6. QED
    BY <2>5
<1>3. \A o \in 1 .. Len(s) + 1 : bimbleos_parse_command(s, o, n) = parse[<<o, n>>]
  BY DEF bimbleos_parse_command, ParseStep
<1> HIDE DEF parse
<1>4. ASSUME NEW o \in 1 .. Len(s) + 1, NEW k \in 0 .. n
      PROVE  parse[<<o, k>>] = ParseStep(s, parse, o, k)
  <2> DEFINE x == <<o, k>>
  <2>1. x \in D /\ x[1] = o /\ x[2] = k
    OBVIOUS
  <2> HIDE DEF x, D
  <2>2. parse[x] = ParseStep(s, parse, x[1], x[2])
    BY <1>2, <2>1
  <2>3. QED
    BY <2>1, <2>2 DEF x
<1>5. QED
  BY <1>3, <1>4

\* At most as many arguments as there is memory for, and sp stays in the line.
LEMMA ParseType ==
  ASSUME NEW S, NEW s \in Seq(S), NEW n \in Nat, NEW o \in 1 .. Len(s) + 1
  PROVE  LET r == bimbleos_parse_command(s, o, n)
         IN /\ r.arguments \in Seq(Seq(S)) /\ Len(r.arguments) <= n
            /\ r.sp \in 0 .. Len(s) + 1
<1> DEFINE Good(r, k) == /\ r.arguments \in Seq(Seq(S)) /\ Len(r.arguments) <= k
                         /\ r.sp \in 0 .. Len(s) + 1
<1>1. PICK parse :
        /\ \A p \in 1 .. Len(s) + 1 : bimbleos_parse_command(s, p, n) = parse[<<p, n>>]
        /\ \A p \in 1 .. Len(s) + 1, k \in 0 .. n : parse[<<p, k>>] = ParseStep(s, parse, p, k)
  BY ParseOf
<1> DEFINE T == {k \in Nat : k <= n /\ \E p \in 1 .. Len(s) + 1 : ~Good(parse[<<p, k>>], k)}
<1>2. T = {}
  <2> SUFFICES ASSUME T # {} PROVE FALSE
    OBVIOUS
  <2>1. PICK k \in T : \A l \in T : k <= l
    BY Writing!LeastNumber
  <2>2. PICK p \in 1 .. Len(s) + 1 : ~Good(parse[<<p, k>>], k)
    BY <2>1
  <2>3. k \in 0 .. n /\ parse[<<p, k>>] = ParseStep(s, parse, p, k)
    <3>1. k \in Nat /\ k <= n
      BY <2>1
    <3> HIDE DEF T
    <3>2. QED
      BY <1>1, <3>1
  <2> DEFINE t == strtok(s, p)
  <2>4. Len(s) + 1 \in Nat /\ <<>> \in Seq(Seq(S)) /\ Len(<<>>) = 0
    OBVIOUS
  <2>5. t.token = <<>> \/ (t.token \in Seq(S) /\ t.sp \in 1 .. Len(s) + 1)
    <3> DEFINE q == NextLetter(s, p)
    <3>1. q \in 1 .. Len(s) + 1
      BY NextLetterOf
    <3>2. \/ t = [token |-> <<>>, sp |-> 0]
          \/ t.token \in Seq(S) /\ t.sp \in q + 1 .. Len(s) + 1
      BY StrtokOf
    <3> HIDE DEF q, t
    <3>3. CASE t = [token |-> <<>>, sp |-> 0]
      BY <3>3
    <3>4. CASE t.token \in Seq(S) /\ t.sp \in q + 1 .. Len(s) + 1
      BY <3>1, <3>4
    <3>5. QED
      BY <3>2, <3>3, <3>4
  <2>6. CASE t.token = <<>>
    <3>1. parse[<<p, k>>] = [arguments |-> <<>>, sp |-> 0]
      BY <2>3, <2>6 DEF ParseStep
    <3>2. QED
      BY <2>2, <2>3, <2>4, <3>1
  <2>7. CASE t.token # <<>> /\ k = 0
    <3>1. parse[<<p, k>>] = [arguments |-> <<>>, sp |-> t.sp]
      BY <2>3, <2>7 DEF ParseStep
    <3> HIDE DEF t
    <3>2. Good(parse[<<p, k>>], k)
      <4> DEFINE r == parse[<<p, k>>]
      <4>1. r.arguments = <<>> /\ r.sp = t.sp
        BY <3>1
      <4>2. t.sp \in 0 .. Len(s) + 1
        BY <2>5, <2>7
      <4>3. Len(<<>>) <= k
        BY <2>4, <2>7
      <4> HIDE DEF r
      <4>4. QED
        BY <2>4, <4>1, <4>2, <4>3 DEF r
    <3>3. QED
      BY <2>2, <3>2
  <2>8. CASE t.token # <<>> /\ k # 0
    <3> DEFINE rest == parse[<<t.sp, k - 1>>]
    <3>1. parse[<<p, k>>] = [arguments |-> <<t.token>> \o rest.arguments, sp |-> rest.sp]
      BY <2>3, <2>8 DEF ParseStep
    <3> HIDE DEF t
    <3>2. k - 1 \in Nat /\ k - 1 <= n /\ k - 1 < k /\ k - 1 \notin T
      <4>1. k \in Nat /\ k # 0 /\ k <= n
        BY <2>3, <2>8
      <4>2. k - 1 \in Nat /\ k - 1 <= n /\ k - 1 < k
        BY <4>1
      <4> HIDE DEF T
      <4>3. k - 1 \notin T
        BY <2>1, <4>1, <4>2
      <4>4. QED
        BY <4>2, <4>3
    <3>3. Good(rest, k - 1)
      BY <2>5, <2>8, <3>2
    <3> HIDE DEF rest
    <3> DEFINE a == <<t.token>>
               b == rest.arguments
    <3>4. a \in Seq(Seq(S)) /\ Len(a) = 1
      BY <2>5, <2>8
    <3>5. b \in Seq(Seq(S)) /\ Len(b) <= k - 1 /\ rest.sp \in 0 .. Len(s) + 1
      BY <3>3
    <3> HIDE DEF a, b
    <3>6. a \o b \in Seq(Seq(S)) /\ Len(a \o b) = 1 + Len(b) /\ Len(b) \in Nat
      <4> DEFINE W == Seq(S)
      <4>1. a \in Seq(W) /\ b \in Seq(W)
        BY <3>4, <3>5
      <4> HIDE DEF W
      <4>2. a \o b \in Seq(W) /\ Len(a \o b) = Len(a) + Len(b) /\ Len(b) \in Nat
        BY <4>1
      <4>3. QED
        BY <3>4, <4>2 DEF W
    <3>7. Len(a \o b) <= k
      BY <2>3, <3>5, <3>6
    <3>8. parse[<<p, k>>] = [arguments |-> a \o b, sp |-> rest.sp]
      BY <3>1 DEF a, b
    <3>9. Good(parse[<<p, k>>], k)
      BY <3>5, <3>6, <3>7, <3>8
    <3>10. QED
      BY <2>2, <3>9
  <2>9. QED
    BY <2>6, <2>7, <2>8
<1>3. Good(parse[<<o, n>>], n)
  <2>1. n \in Nat /\ n <= n
    OBVIOUS
  <2>2. n \notin T
    BY <1>2
  <2>3. QED
    BY <2>1, <2>2
<1>4. QED
  BY <1>1, <1>3
------------------------------------------------------------------------------
(***************************************************************************)
(* strtok, called again and again, gives the words of the line in order.   *)
(***************************************************************************)

\* Where the words of a string end, which ones end before an offset, where the
\* one that ends at e begins, and where the i-th one ends.
Ends(s) == {k \in 1 .. Len(s) : s[k] # Blank /\ (k = Len(s) \/ s[k + 1] = Blank)}
EndsBefore(s, o) == {d \in Ends(s) : d < o}
EndsUpTo(s, e) == {d \in Ends(s) : d <= e}
StartOf(s, e) == CHOOSE b \in 1 .. e : /\ \A k \in b .. e : s[k] # Blank
                                       /\ b = 1 \/ s[b - 1] = Blank
EndOf(s, i) == CHOOSE e \in Ends(s) : Cardinality(EndsUpTo(s, e)) = i

\* No word goes on over this offset.
Boundary(s, o) == o = 1 \/ o = Len(s) + 1 \/ s[o - 1] = Blank

\* The words of a string, one for each end.
LEMMA WordsOf ==
  ASSUME NEW S, NEW s \in Seq(S)
  PROVE  /\ IsFiniteSet(Ends(s)) /\ Cardinality(Ends(s)) \in Nat
         /\ Words(s) = [i \in 1 .. Cardinality(Ends(s)) |->
                          SubSeq(s, StartOf(s, EndOf(s, i)), EndOf(s, i))]
         /\ \A o : /\ Cardinality(EndsBefore(s, o)) \in Nat
                   /\ Cardinality(EndsBefore(s, o)) <= Cardinality(Ends(s))
<1>1. IsFiniteSet(1 .. Len(s)) /\ Ends(s) \subseteq 1 .. Len(s)
  BY FS_Interval DEF Ends
<1>2. IsFiniteSet(Ends(s)) /\ Cardinality(Ends(s)) \in Nat
  BY <1>1, FS_Subset, FS_CardinalityType
<1>3. Words(s) = [i \in 1 .. Cardinality(Ends(s)) |->
                    SubSeq(s, StartOf(s, EndOf(s, i)), EndOf(s, i))]
  BY DEF Words, Ends, StartOf, EndOf, EndsUpTo
<1>4. ASSUME NEW o
      PROVE  /\ Cardinality(EndsBefore(s, o)) \in Nat
             /\ Cardinality(EndsBefore(s, o)) <= Cardinality(Ends(s))
  <2>1. EndsBefore(s, o) \subseteq Ends(s)
    BY DEF EndsBefore
  <2>2. QED
    BY <1>2, <2>1, FS_Subset, FS_CardinalityType
<1>5. QED
  BY <1>2, <1>3, <1>4

\* Two words that come after as many others are the same one.
LEMMA SameRank ==
  ASSUME NEW S, NEW s \in Seq(S), NEW a \in Ends(s), NEW b \in Ends(s),
         Cardinality(EndsUpTo(s, a)) = Cardinality(EndsUpTo(s, b))
  PROVE  a = b
<1> SUFFICES ASSUME NEW c \in Ends(s), NEW d \in Ends(s), c < d,
                    Cardinality(EndsUpTo(s, c)) = Cardinality(EndsUpTo(s, d))
             PROVE  FALSE
  BY DEF Ends
<1>1. EndsUpTo(s, c) \subseteq EndsUpTo(s, d) /\ d \in EndsUpTo(s, d) /\ d \notin EndsUpTo(s, c)
  BY DEF EndsUpTo, Ends
<1>2. IsFiniteSet(EndsUpTo(s, d))
  BY WordsOf, FS_Subset DEF EndsUpTo
<1>3. EndsUpTo(s, c) = EndsUpTo(s, d)
  BY <1>1, <1>2, FS_Subset
<1>4. QED
  BY <1>1, <1>3

\* A word that lies from p to e is the one that ends at e.
LEMMA StartIs ==
  ASSUME NEW S, NEW s \in Seq(S), NEW e \in Nat, NEW p \in 1 .. e,
         \A k \in p .. e : s[k] # Blank,
         p = 1 \/ s[p - 1] = Blank
  PROVE  StartOf(s, e) = p
<1>1. ASSUME NEW b \in 1 .. e, \A k \in b .. e : s[k] # Blank, b = 1 \/ s[b - 1] = Blank
      PROVE  b = p
  <2>1. ~(b < p)
    <3> SUFFICES ASSUME b < p PROVE FALSE
      OBVIOUS
    <3>1. p - 1 \in b .. e /\ p # 1
      OBVIOUS
    <3>2. QED
      BY <1>1, <3>1
  <2>2. ~(p < b)
    <3> SUFFICES ASSUME p < b PROVE FALSE
      OBVIOUS
    <3>1. b - 1 \in p .. e /\ b # 1
      OBVIOUS
    <3>2. QED
      BY <1>1, <3>1
  <2>3. QED
    BY <2>1, <2>2
<1>2. QED
  BY <1>1 DEF StartOf

\* One call of strtok from a boundary gives the next word and goes on behind it, or
\* there is none left.
LEMMA NextWord ==
  ASSUME NEW S, NEW s \in Seq(S), NEW o \in 1 .. Len(s) + 1, Boundary(s, o)
  PROVE  LET t == strtok(s, o)
             j == Cardinality(EndsBefore(s, o))
         IN \/ /\ t.token = <<>> /\ j = Cardinality(Ends(s))
            \/ /\ t.token # <<>> /\ t.token \in Seq(S)
               /\ j + 1 <= Cardinality(Ends(s))
               /\ t.token = Words(s)[j + 1]
               /\ t.sp \in 1 .. Len(s) + 1 /\ Boundary(s, t.sp)
               /\ Cardinality(EndsBefore(s, t.sp)) = j + 1
<1> DEFINE t == strtok(s, o)
           j == Cardinality(EndsBefore(s, o))
           n == Len(s)
           p == NextLetter(s, o)
           e == NextBlank(s, p)
<1>1. n \in Nat /\ o \in 1 .. n + 1
  OBVIOUS
<1>2. /\ p \in o .. n + 1 /\ (p <= n => s[p] # Blank)
      /\ \A q \in o .. p - 1 : s[q] = Blank
  BY NextLetterOf
<1>3. p \in 1 .. n + 1
  BY <1>1, <1>2
<1> HIDE DEF p
<1>4. /\ e \in p .. n + 1 /\ (e <= n => s[e] = Blank)
      /\ \A q \in p .. e - 1 : s[q] # Blank
  BY <1>3, NextBlankOf
<1>5. IF p > n THEN t = [token |-> <<>>, sp |-> 0]
      ELSE /\ e \in p + 1 .. n + 1
           /\ t.token = SubSeq(s, p, e - 1)
           /\ t.token \in Seq(S) /\ t.token # <<>>
           /\ t.sp = IF e <= n THEN e + 1 ELSE e
           /\ t.sp \in p + 1 .. n + 1
  BY StrtokOf DEF p
<1> HIDE DEF e, t
<1>6. /\ IsFiniteSet(Ends(s)) /\ Cardinality(Ends(s)) \in Nat
      /\ j \in Nat
  BY WordsOf
<1>7. CASE p > n
  <2>1. t.token = <<>>
    BY <1>5, <1>7
  <2>2. EndsBefore(s, o) = Ends(s)
    <3> SUFFICES ASSUME NEW d \in Ends(s), ~(d < o) PROVE FALSE
      BY DEF EndsBefore
    <3>1. d \in 1 .. n /\ s[d] # Blank
      BY DEF Ends
    <3>2. d \in o .. p - 1
      BY <1>1, <1>3, <1>7, <3>1
    <3>3. QED
      BY <1>2, <3>1, <3>2
  <2>3. QED
    BY <2>1, <2>2 DEF t
<1>8. CASE p <= n
  <2> DEFINE last == e - 1
  <2>1. /\ e \in p + 1 .. n + 1
        /\ t.token = SubSeq(s, p, last)
        /\ t.token \in Seq(S) /\ t.token # <<>>
        /\ t.sp = IF e <= n THEN e + 1 ELSE e
        /\ t.sp \in p + 1 .. n + 1
    <3>1. ~(p > n)
      BY <1>1, <1>3, <1>8
    <3>2. QED
      BY <1>5, <3>1
  <2>2. last \in Nat /\ p \in 1 .. last /\ last \in p .. n /\ e = last + 1
    BY <1>1, <1>3, <2>1
  <2>3. \A q \in p .. last : s[q] # Blank
    BY <1>4
  <2>4. last \in Ends(s)
    <3>1. last \in 1 .. n /\ s[last] # Blank
      BY <1>1, <2>2, <2>3
    <3>2. last = n \/ s[last + 1] = Blank
      BY <1>1, <1>4, <2>2
    <3>3. QED
      BY <3>1, <3>2 DEF Ends
  <2>5. p = 1 \/ s[p - 1] = Blank
    <3>1. CASE p = o
      BY <1>1, <1>8, <3>1 DEF Boundary
    <3>2. CASE p # o
      <4>1. p - 1 \in o .. p - 1
        BY <1>1, <1>2, <3>2
      <4>2. QED
        BY <1>2, <4>1
    <3>3. QED
      BY <3>1, <3>2
  <2>6. StartOf(s, last) = p
    BY <2>2, <2>3, <2>5, StartIs
  <2> HIDE DEF last
  <2>7. EndsUpTo(s, last) = EndsBefore(s, o) \cup {last} /\ last \notin EndsBefore(s, o)
    <3>1. ASSUME NEW d \in Ends(s), d <= last, ~(d < o) PROVE d = last
      <4>1. d \in 1 .. n /\ s[d] # Blank /\ (d = n \/ s[d + 1] = Blank)
        BY DEF Ends
      <4>2. ~(d < p)
        <5> SUFFICES ASSUME d < p PROVE FALSE
          OBVIOUS
        <5>1. d \in o .. p - 1
          BY <1>1, <1>3, <3>1, <4>1
        <5>2. QED
          BY <1>2, <4>1, <5>1
      <4>3. ~(d < last)
        <5> SUFFICES ASSUME d < last PROVE FALSE
          OBVIOUS
        <5>1. d + 1 \in p .. last /\ d # n
          BY <1>1, <1>3, <2>2, <4>1, <4>2
        <5>2. QED
          BY <2>3, <4>1, <5>1
      <4>4. QED
        BY <2>2, <3>1, <4>1, <4>3
    <3>2. o <= last
      BY <1>1, <1>2, <2>2
    <3>3. ASSUME NEW d \in Ends(s), d < o PROVE d <= last
      <4>1. d \in Int
        BY DEF Ends
      <4>2. QED
        BY <1>1, <2>2, <3>2, <3>3, <4>1
    <3>4. last <= last /\ ~(last < o)
      BY <1>1, <2>2, <3>2
    <3>5. QED
      BY <2>4, <3>1, <3>3, <3>4 DEF EndsUpTo, EndsBefore
  <2>8. Cardinality(EndsUpTo(s, last)) = j + 1
    <3>1. IsFiniteSet(EndsBefore(s, o))
      BY <1>6, FS_Subset DEF EndsBefore
    <3>2. QED
      BY <2>7, <3>1, FS_AddElement
  <2>9. EndOf(s, j + 1) = last
    BY <2>4, <2>8, SameRank DEF EndOf
  <2>10. j + 1 <= Cardinality(Ends(s))
    <3>1. EndsUpTo(s, last) \subseteq Ends(s)
      BY DEF EndsUpTo
    <3>2. QED
      BY <1>6, <2>8, <3>1, FS_Subset
  <2>11. t.token = Words(s)[j + 1]
    <3>1. j + 1 \in 1 .. Cardinality(Ends(s))
      BY <1>6, <2>10
    <3>2. Words(s)[j + 1] = SubSeq(s, StartOf(s, EndOf(s, j + 1)), EndOf(s, j + 1))
      BY <3>1, WordsOf
    <3>3. QED
      BY <2>1, <2>6, <2>9, <3>2
  <2>12. Boundary(s, t.sp)
    <3>1. CASE e <= n
      <4>1. t.sp = e + 1 /\ t.sp - 1 = e /\ s[e] = Blank
        BY <1>1, <1>4, <2>1, <3>1
      <4>2. QED
        BY <4>1 DEF Boundary
    <3>2. CASE ~(e <= n)
      <4>1. e = n + 1
        BY <1>1, <2>2, <3>2
      <4>2. t.sp = n + 1
        BY <2>1, <3>2, <4>1
      <4>3. QED
        BY <4>2 DEF Boundary
    <3>3. QED
      BY <3>1, <3>2
  <2>13. EndsBefore(s, t.sp) = EndsUpTo(s, last)
    <3> SUFFICES ASSUME NEW d \in Ends(s) PROVE d < t.sp <=> d <= last
      BY DEF EndsBefore, EndsUpTo
    <3>1. d \in 1 .. n /\ s[d] # Blank
      BY DEF Ends
    <3>2. CASE e <= n
      <4>1. t.sp = e + 1 /\ d # e
        BY <1>4, <2>1, <3>1, <3>2
      <4>2. QED
        BY <1>1, <2>1, <2>2, <3>1, <4>1
    <3>3. CASE ~(e <= n)
      <4>1. t.sp = e
        BY <2>1, <3>3
      <4>2. QED
        BY <1>1, <2>1, <2>2, <3>1, <4>1
    <3>4. QED
      BY <3>2, <3>3
  <2>14. t.sp \in 1 .. n + 1
    BY <1>1, <1>3, <2>1
  <2>15. QED
    BY <2>1, <2>8, <2>10, <2>11, <2>12, <2>13, <2>14 DEF t
<1>9. QED
  BY <1>1, <1>3, <1>7, <1>8

\* The arguments of a command are the next words, as many as there is memory for,
\* and strtok is left in its first state if and only if none is left.
LEMMA ParseWords ==
  ASSUME NEW S, NEW s \in Seq(S), NEW n \in Nat
  PROVE  LET r == bimbleos_parse_command(s, 1, n)
             w == Cardinality(Ends(s))
         IN /\ r.arguments \in Seq(Seq(S))
            /\ Len(r.arguments) = IF n < w THEN n ELSE w
            /\ \A i \in 1 .. Len(r.arguments) : r.arguments[i] = Words(s)[i]
            /\ r.sp = 0 <=> n >= w
<1> DEFINE w == Cardinality(Ends(s))
           Taken(o) == Cardinality(EndsBefore(s, o))
           W == Seq(S)
           Good(r, j, k) == /\ r.arguments \in Seq(W)
                            /\ Len(r.arguments) = IF k < w - j THEN k ELSE w - j
                            /\ \A i \in 1 .. Len(r.arguments) :
                                 r.arguments[i] = Words(s)[j + i]
                            /\ r.sp = 0 <=> k >= w - j
<1>1. PICK parse :
        /\ \A o \in 1 .. Len(s) + 1 : bimbleos_parse_command(s, o, n) = parse[<<o, n>>]
        /\ \A o \in 1 .. Len(s) + 1, k \in 0 .. n : parse[<<o, k>>] = ParseStep(s, parse, o, k)
  BY ParseOf
<1> DEFINE T == {k \in Nat : k <= n /\ \E o \in 1 .. Len(s) + 1 :
                                           Boundary(s, o) /\ ~Good(parse[<<o, k>>], Taken(o), k)}
<1>2. w \in Nat /\ \A o : Taken(o) \in Nat /\ Taken(o) <= w
  BY WordsOf
<1>3. T = {}
  <2> SUFFICES ASSUME T # {} PROVE FALSE
    OBVIOUS
  <2>1. PICK k \in T : \A l \in T : k <= l
    BY Writing!LeastNumber
  <2>2. PICK o \in 1 .. Len(s) + 1 : Boundary(s, o) /\ ~Good(parse[<<o, k>>], Taken(o), k)
    BY <2>1
  <2>3. k \in 0 .. n /\ parse[<<o, k>>] = ParseStep(s, parse, o, k)
    <3>1. k \in Nat /\ k <= n
      BY <2>1
    <3> HIDE DEF T
    <3>2. QED
      BY <1>1, <3>1
  <2> DEFINE t == strtok(s, o)
             j == Taken(o)
  <2>4. \/ /\ t.token = <<>> /\ j = w
        \/ /\ t.token # <<>> /\ t.token \in Seq(S)
           /\ j + 1 <= w
           /\ t.token = Words(s)[j + 1]
           /\ t.sp \in 1 .. Len(s) + 1 /\ Boundary(s, t.sp)
           /\ Taken(t.sp) = j + 1
    BY <2>2, NextWord
  <2>5. j \in Nat /\ j <= w /\ w \in Nat /\ Len(s) \in Nat
    BY <1>2
  <2>6. CASE t.token = <<>>
    <3>1. parse[<<o, k>>] = [arguments |-> <<>>, sp |-> 0]
      BY <2>3, <2>6 DEF ParseStep
    <3>2. j = w
      BY <2>4, <2>6
    <3> DEFINE r == parse[<<o, k>>]
    <3>3. r.arguments \in Seq(W) /\ Len(r.arguments) = 0 /\ r.sp = 0
      BY <3>1
    <3> HIDE DEF r, j, w, t, W
    <3>4. Good(r, j, k)
      BY <2>3, <2>5, <3>2, <3>3
    <3>5. QED
      BY <2>2, <3>4 DEF r, j, w, W
  <2>7. CASE t.token # <<>> /\ k = 0
    <3>1. parse[<<o, k>>] = [arguments |-> <<>>, sp |-> t.sp]
      BY <2>3, <2>7 DEF ParseStep
    <3> DEFINE r == parse[<<o, k>>]
    <3> HIDE DEF t
    <3>2. r.arguments \in Seq(W) /\ Len(r.arguments) = 0 /\ r.sp = t.sp
      BY <3>1
    <3>3. j + 1 <= w /\ t.sp \in 1 .. Len(s) + 1
      BY <2>4, <2>7
    <3> HIDE DEF r, j, w, W
    <3>4. r.sp # 0 /\ k = 0 /\ 0 < w - j
      BY <2>5, <2>7, <3>2, <3>3
    <3>5. Good(r, j, k)
      BY <2>5, <3>2, <3>4
    <3>6. QED
      BY <2>2, <3>5 DEF r, j, w, W
  <2>8. CASE t.token # <<>> /\ k # 0
    <3> DEFINE rest == parse[<<t.sp, k - 1>>]
               a == <<t.token>>
               b == rest.arguments
               r == parse[<<o, k>>]
    <3>1. r = [arguments |-> a \o b, sp |-> rest.sp]
      BY <2>3, <2>8 DEF ParseStep
    <3>2. /\ t.token \in Seq(S) /\ j + 1 <= w /\ t.token = Words(s)[j + 1]
          /\ t.sp \in 1 .. Len(s) + 1 /\ Boundary(s, t.sp) /\ Taken(t.sp) = j + 1
      BY <2>4, <2>8
    <3> HIDE DEF t
    <3>3. k - 1 \in 0 .. n /\ k - 1 \in Nat /\ k - 1 <= n /\ k - 1 \notin T
      <4>1. k \in Nat /\ k # 0 /\ k <= n
        BY <2>3, <2>8
      <4>2. k - 1 \in Nat /\ k - 1 <= n /\ k - 1 < k /\ k - 1 \in 0 .. n
        BY <4>1
      <4> HIDE DEF T
      <4>3. k - 1 \notin T
        BY <2>1, <4>1, <4>2
      <4>4. QED
        BY <4>2, <4>3
    <3>4. Good(rest, Taken(t.sp), k - 1)
      BY <3>2, <3>3
    <3>5. Good(rest, j + 1, k - 1)
      BY <3>2, <3>4
    <3>6. a \in Seq(W) /\ Len(a) = 1 /\ a[1] = Words(s)[j + 1]
      BY <3>2
    <3> HIDE DEF rest
    <3>7. /\ b \in Seq(W)
          /\ Len(b) = IF k - 1 < w - (j + 1) THEN k - 1 ELSE w - (j + 1)
          /\ \A i \in 1 .. Len(b) : b[i] = Words(s)[j + 1 + i]
          /\ rest.sp = 0 <=> k - 1 >= w - (j + 1)
      BY <3>5
    <3>8. k \in Nat /\ k # 0 /\ j + 1 <= w
      BY <2>3, <2>8, <3>2
    <3> HIDE DEF a, b, r, j, w, W
    <3> DEFINE q == a \o b
    <3>9. /\ q \in Seq(W) /\ Len(q) = Len(b) + 1 /\ Len(b) \in Nat
          /\ q[1] = a[1] /\ \A i \in 1 .. Len(b) : q[i + 1] = b[i]
      <4>1. q \in Seq(W) /\ Len(q) = 1 + Len(b) /\ Len(b) \in Nat
        <5>1. a \in Seq(W) /\ b \in Seq(W)
          BY <3>6, <3>7
        <5>2. q \in Seq(W) /\ Len(q) = Len(a) + Len(b) /\ Len(b) \in Nat
          BY <5>1
        <5>3. QED
          BY <3>6, <5>2
      <4>2. \A i \in 1 .. Len(q) : q[i] = IF i <= 1 THEN a[i] ELSE b[i - 1]
        BY <3>6, <3>7, <4>1
      <4>3. q[1] = a[1]
        BY <4>1, <4>2
      <4>4. ASSUME NEW i \in 1 .. Len(b) PROVE q[i + 1] = b[i]
        <5>1. i + 1 \in 1 .. Len(q) /\ ~(i + 1 <= 1) /\ (i + 1) - 1 = i
          BY <4>1
        <5>2. QED
          BY <4>2, <5>1
      <4>5. QED
        BY <4>1, <4>3, <4>4
    <3>10. r.arguments = q /\ r.sp = rest.sp
      BY <3>1
    <3> HIDE DEF q
    <3>11. Len(q) = IF k < w - j THEN k ELSE w - j
      BY <2>5, <3>7, <3>8, <3>9
    <3>12. r.sp = 0 <=> k >= w - j
      BY <2>5, <3>7, <3>8, <3>10
    <3>13. ASSUME NEW i \in 1 .. Len(q) PROVE q[i] = Words(s)[j + i]
      <4>1. CASE i = 1
        BY <3>6, <3>9, <4>1
      <4>2. CASE i # 1
        <5> DEFINE l == i - 1
        <5>1. l \in 1 .. Len(b) /\ l + 1 = i /\ j + 1 + l = j + i
          BY <2>5, <3>9, <4>2
        <5> HIDE DEF l
        <5>2. q[l + 1] = b[l] /\ b[l] = Words(s)[j + 1 + l]
          BY <3>7, <3>9, <5>1
        <5>3. QED
          BY <5>1, <5>2
      <4>3. QED
        BY <4>1, <4>2
    <3>14. Good(r, j, k)
      BY <3>9, <3>10, <3>11, <3>12, <3>13
    <3>15. QED
      BY <2>2, <3>14 DEF r, j, w, W
  <2>9. QED
    BY <2>6, <2>7, <2>8
<1>4. Good(parse[<<1, n>>], Taken(1), n)
  <2>1. n \in Nat /\ n <= n /\ 1 \in 1 .. Len(s) + 1 /\ Boundary(s, 1)
    BY DEF Boundary
  <2>2. n \notin T
    BY <1>3
  <2>3. QED
    BY <2>1, <2>2
<1>5. Taken(1) = 0
  <2>1. EndsBefore(s, 1) = {}
    BY DEF EndsBefore, Ends
  <2>2. QED
    BY <2>1, FS_EmptySet
<1>6. bimbleos_parse_command(s, 1, n) = parse[<<1, n>>]
  BY <1>1
<1> DEFINE r == parse[<<1, n>>]
<1> HIDE DEF T, r, w
<1>7. Good(r, 0, n)
  BY <1>4, <1>5 DEF r
<1>8. w - 0 = w /\ \A i \in Nat : 0 + i = i
  BY <1>2
<1>9. /\ r.arguments \in Seq(Seq(S))
      /\ Len(r.arguments) = IF n < w THEN n ELSE w
      /\ \A i \in 1 .. Len(r.arguments) : r.arguments[i] = Words(s)[i]
      /\ r.sp = 0 <=> n >= w
  BY <1>7, <1>8
<1>10. QED
  BY <1>6, <1>9 DEF r, w
------------------------------------------------------------------------------
(***************************************************************************)
(* The inductive invariant.                                                *)
(***************************************************************************)

\* The first n bytes of a line are on the screen from a cell on.
OnScreen(t, l, first, n) ==
  \A k \in 1 .. n : first + k - 1 \in Cells => t.cells[first + k - 1] = l[k]

\* What is on the screen while the shell reads a line: the line; the line and a
\* character that a backspace will clear; or the line but for its last character,
\* which will be echoed.
Echoing(t, l, o, first) ==
  \/ /\ o = <<>>
     /\ Cursor(t) = first + Len(l)
     /\ OnScreen(t, l, first, Len(l))
  \/ /\ o = <<Backspace>>
     /\ Cursor(t) = first + Len(l) + 1
     /\ OnScreen(t, l, first, Len(l))
  \/ /\ l # <<>> /\ l[Len(l)] \in Letters
     /\ o = <<l[Len(l)]>>
     /\ Cursor(t) = first + Len(l) - 1
     /\ OnScreen(t, l, first, Len(l) - 1)

ShellType ==
  /\ Screen(terminal)
  /\ pending \in Seq(Keys) /\ Len(pending) <= Capacity
  /\ phase \in {"prompt", "read", "run"}
  /\ out \in Seq(Output)
  /\ line \in Seq(Keys) /\ Len(line) < MaxLine
  /\ sp \in 0 .. MaxLine
  /\ allocations \in 0 .. MaxAllocations
  /\ start \in Int
  /\ quiet \in BOOLEAN

\* In the first row there is a prompt before the line, so that no backspace
\* reaches the first cell of the screen, where it would do nothing.
EchoInv ==
  /\ phase = "prompt" => line = <<>>
  /\ (phase = "read" /\ quiet) =>
       /\ terminal.row = 0 => start >= 1
       /\ Echoing(terminal, line, out, start)

ShellInv == ShellType /\ EchoInv

\* The keys are characters or Return or Backspace, and these three differ.
LEMMA KeyKinds ==
  /\ Keys \subseteq Output \cup {Return}
  /\ Newline \notin Letters /\ Backspace \notin Letters /\ Return \notin Letters
  /\ Letters \subseteq Characters /\ Letters \subseteq Keys /\ Backspace \in Keys
  /\ Return # Backspace /\ Newline # Backspace
  /\ ">" \in Characters /\ ">" # Newline /\ ">" # Backspace
  /\ Newline \in Output /\ Backspace \in Output /\ Other \in Output
  /\ Characters \subseteq Output
BY ShellAssumption DEF Keys, Return, Newline, Backspace, Output, Characters, Other

\* The echo of a character, or of a backspace, that the shell has still to write.
LEMMA EchoStep ==
  ASSUME NEW t, Screen(t), NEW l \in Seq(Keys), NEW o, NEW first \in Int,
         o # <<>>, t.row = 0 => first >= 1, Echoing(t, l, o, first)
  PROVE  LET u == terminal_writechar(t, Head(o))
         IN /\ u.row = 0 => first >= 1
            /\ Echoing(u, l, Tail(o), first)
<1> DEFINE u == terminal_writechar(t, Head(o))
           n == Len(l)
<1>1. n \in Nat
  OBVIOUS
<1>2. t.row \in Nat /\ t.column \in Int /\ Cursor(t) \in Int
  BY CursorOf DEF Screen
<1>3. CASE /\ o = <<Backspace>>
           /\ Cursor(t) = first + n + 1
           /\ OnScreen(t, l, first, n)
  <2>1. Head(o) = Backspace /\ Tail(o) = <<>>
    BY <1>3
  <2>2. u = terminal_backspace(t)
    BY <2>1, KeyKinds DEF terminal_writechar
  <2>3. ~(t.row = 0 /\ t.column = 0)
    <3> SUFFICES ASSUME t.row = 0, t.column = 0 PROVE FALSE
      OBVIOUS
    <3>1. RowStart(0) = 0
      BY TerminalAssumption DEF RowStart
    <3>2. Cursor(t) = 0
      BY <1>2, <3>1, CursorOf
    <3>3. QED
      BY <1>1, <1>3, <3>2
  <2>4. /\ u.row = t.row
        /\ Cursor(u) = Cursor(t) - 1
        /\ u.cells = Put(t.cells, Cursor(t) - 1, Blank)
    BY <2>2, <2>3, BackspaceMoves
  <2> HIDE DEF u
  <2>5. Cursor(u) = first + n
    BY <1>1, <1>3, <2>4
  <2>6. OnScreen(u, l, first, n)
    <3> SUFFICES ASSUME NEW k \in 1 .. n, first + k - 1 \in Cells
                 PROVE  u.cells[first + k - 1] = l[k]
      BY DEF OnScreen
    <3>1. first + k - 1 # Cursor(t) - 1
      BY <1>1, <1>3
    <3>2. u.cells[first + k - 1] = t.cells[first + k - 1]
      BY <2>4, <3>1 DEF Put
    <3>3. QED
      BY <1>3, <3>2 DEF OnScreen
  <2>7. QED
    BY <2>1, <2>4, <2>5, <2>6 DEF Echoing, u
<1>4. CASE /\ l # <<>> /\ l[n] \in Letters
           /\ o = <<l[n]>>
           /\ Cursor(t) = first + n - 1
           /\ OnScreen(t, l, first, n - 1)
  <2>1. Head(o) = l[n] /\ Tail(o) = <<>>
    BY <1>4
  <2>2. u = Shown(t, l[n]) /\ l[n] \in Characters
    BY <1>4, <2>1, KeyKinds DEF terminal_writechar
  <2>3. /\ Cursor(u) = Cursor(t) + 1
        /\ u.cells = Put(t.cells, Cursor(t), l[n])
        /\ u.row >= t.row
        /\ Screen(u)
    BY <2>2, ShownMoves
  <2> HIDE DEF u
  <2>4. u.row = 0 => first >= 1
    <3>1. u.row \in Nat
      BY <2>3 DEF Screen
    <3>2. QED
      BY <1>2, <2>3, <3>1
  <2>5. Cursor(u) = first + n
    BY <1>1, <1>4, <2>3
  <2>6. OnScreen(u, l, first, n)
    <3> SUFFICES ASSUME NEW k \in 1 .. n, first + k - 1 \in Cells
                 PROVE  u.cells[first + k - 1] = l[k]
      BY DEF OnScreen
    <3>1. CASE k = n
      <4>1. first + k - 1 = Cursor(t)
        BY <1>1, <1>4, <3>1
      <4>2. QED
        BY <2>3, <3>1, <4>1 DEF Put
    <3>2. CASE k # n
      <4>1. first + k - 1 # Cursor(t) /\ k \in 1 .. n - 1
        BY <1>1, <1>4, <3>2
      <4>2. u.cells[first + k - 1] = t.cells[first + k - 1]
        BY <2>3, <4>1 DEF Put
      <4>3. QED
        BY <1>4, <4>1, <4>2 DEF OnScreen
    <3>3. QED
      BY <3>1, <3>2
  <2>7. QED
    BY <2>1, <2>4, <2>5, <2>6 DEF Echoing, u
<1>5. QED
  BY <1>3, <1>4 DEF Echoing

\* The terminal at boot is empty, and the banner is to be printed.
LEMMA ShellInit ==
  ASSUME Init
  PROVE  ShellInv
<1>1. Screen(terminal)
  <2>1. terminal = [row |-> 0, column |-> 0, cells |-> [c \in Cells |-> Blank]]
    BY DEF Init, terminal_initialize
  <2>2. [c \in Cells |-> Blank] \in [Cells -> Characters]
    BY ShellAssumption DEF Characters
  <2>3. Width > 0 /\ Width \in Nat
    BY TerminalAssumption
  <2>4. terminal.row = 0 /\ terminal.column = 0 /\ terminal.cells = [c \in Cells |-> Blank]
    BY <2>1
  <2>5. terminal = [row |-> terminal.row, column |-> terminal.column, cells |-> terminal.cells]
    BY <2>1
  <2>6. QED
    BY <2>2, <2>3, <2>4, <2>5 DEF Screen
<1>2. out \in Seq(Output)
  <2>1. Banner \in Seq(STRING) /\ out = Banner
    BY ShellAssumption DEF Init
  <2>2. \A i \in 1 .. Len(Banner) : Banner[i] \in Output
    BY <2>1 DEF Output, Characters, Range
  <2>3. QED
    BY <2>1, <2>2
<1>3. MaxLine \in Nat /\ MaxAllocations \in Nat /\ Capacity \in Nat /\ MaxLine > 1
  BY ShellAssumption
<1>4. pending \in Seq(Keys) /\ Len(pending) = 0 /\ line \in Seq(Keys) /\ Len(line) = 0
  BY DEF Init
<1>5. phase = "prompt" /\ line = <<>> /\ sp = 0 /\ allocations = 0 /\ start = 0 /\ quiet = FALSE
  BY DEF Init
<1>6. ShellType
  <2>1. Len(pending) <= Capacity /\ Len(line) < MaxLine
    BY <1>3, <1>4
  <2>2. phase \in {"prompt", "read", "run"} /\ quiet \in BOOLEAN
    BY <1>5
  <2>3. sp \in 0 .. MaxLine /\ allocations \in 0 .. MaxAllocations /\ start \in Int
    BY <1>3, <1>5
  <2>4. QED
    BY <1>1, <1>2, <1>4, <2>1, <2>2, <2>3 DEF ShellType
<1>7. EchoInv
  BY <1>5 DEF EchoInv
<1>8. QED
  BY <1>6, <1>7 DEF ShellInv

\* A key is typed, or another program prints.
LEMMA OthersStep ==
  ASSUME ShellInv,
         (\E key \in Keys : Type(key)) \/ (\E str \in {<<Newline>>, <<Other, Other>>} : OtherPrints(str))
  PROVE  ShellInv'
<1>1. CASE \E key \in Keys : Type(key)
  <2>1. PICK key \in Keys : Type(key)
    BY <1>1
  <2>2. pending \in Seq(Keys) /\ Capacity \in Nat
    BY ShellAssumption DEF ShellInv, ShellType
  <2>3. pending' \in Seq(Keys) /\ Len(pending') <= Capacity
    BY <2>1, <2>2 DEF Type
  <2>4. UNCHANGED <<terminal, phase, out, line, sp, allocations, start, quiet>>
    BY <2>1 DEF Type
  <2>5. ShellType'
    BY <2>3, <2>4 DEF ShellInv, ShellType
  <2>6. EchoInv'
    BY <2>4 DEF ShellInv, EchoInv
  <2>7. QED
    BY <2>5, <2>6 DEF ShellInv
<1>2. CASE \E str \in {<<Newline>>, <<Other, Other>>} : OtherPrints(str)
  <2>1. PICK str \in {<<Newline>>, <<Other, Other>>} : OtherPrints(str)
    BY <1>2
  <2>2. str \in Seq(Output)
    <3>1. Newline \in Output /\ Other \in Output
      BY KeyKinds
    <3>2. <<Newline>> \in Seq(Output)
      BY <3>1
    <3>3. <<Other, Other>> \in Seq(Output)
      BY <3>1
    <3>4. QED
      BY <2>1, <3>2, <3>3
  <2>3. Screen(terminal')
    BY <2>1, <2>2, PrintKeepsScreen DEF OtherPrints, ShellInv, ShellType
  <2>4. ~quiet' /\ quiet' \in BOOLEAN
        /\ UNCHANGED <<pending, phase, out, line, sp, allocations, start>>
    BY <2>1 DEF OtherPrints
  <2>5. ShellType'
    BY <2>3, <2>4 DEF ShellInv, ShellType
  <2>6. EchoInv'
    BY <2>4 DEF ShellInv, EchoInv
  <2>7. QED
    BY <2>5, <2>6 DEF ShellInv
<1>3. QED
  BY <1>1, <1>2

\* The shell writes a character.
LEMMA PutcharStep ==
  ASSUME ShellInv, isr80h_command3_putchar
  PROVE  ShellInv'
<1>1. /\ out # <<>> /\ out' = Tail(out)
      /\ terminal' = terminal_writechar(terminal, Head(out))
      /\ UNCHANGED <<pending, phase, line, sp, allocations, start, quiet>>
  BY DEF isr80h_command3_putchar, env
<1>2. Head(out) \in Output /\ out' \in Seq(Output)
  BY <1>1 DEF ShellInv, ShellType
<1>3. Screen(terminal')
  BY <1>1, <1>2, WriteKeepsScreen DEF ShellInv, ShellType
<1>4. ShellType'
  BY <1>1, <1>2, <1>3 DEF ShellInv, ShellType
<1>5. ASSUME phase' = "read", quiet'
      PROVE  /\ terminal'.row = 0 => start' >= 1
             /\ Echoing(terminal', line', out', start')
  <2>1. /\ terminal.row = 0 => start >= 1
        /\ Echoing(terminal, line, out, start)
        /\ Screen(terminal) /\ line \in Seq(Keys) /\ start \in Int
    BY <1>1, <1>5 DEF ShellInv, EchoInv, ShellType
  <2>2. /\ terminal'.row = 0 => start >= 1
        /\ Echoing(terminal', line, out', start)
    BY <1>1, <2>1, EchoStep
  <2>3. QED
    BY <1>1, <2>2
<1>6. EchoInv'
  BY <1>1, <1>5 DEF ShellInv, EchoInv
<1>7. QED
  BY <1>4, <1>6 DEF ShellInv

\* The prompt, after which the line starts.
LEMMA PromptStep ==
  ASSUME ShellInv, Prompt
  PROVE  ShellInv'
<1>1. /\ phase = "prompt" /\ out = <<>>
      /\ terminal' = terminal_writechar(terminal, ">")
      /\ start' = Cursor(terminal')
      /\ phase' = "read" /\ quiet' = TRUE
      /\ UNCHANGED <<pending, out, line, sp, allocations>>
  BY DEF Prompt, env
<1>2. terminal' = Shown(terminal, ">")
  BY <1>1, KeyKinds DEF terminal_writechar
<1>3. Screen(terminal') /\ (terminal'.row = 0 => Cursor(terminal') >= 1)
  BY <1>2, KeyKinds, ShownMoves DEF ShellInv, ShellType
<1>4. Cursor(terminal') \in Int
  BY <1>3, CursorOf DEF Screen
<1>5. ShellType'
  BY <1>1, <1>3, <1>4 DEF ShellInv, ShellType
<1>6. line' = <<>> /\ out' = <<>>
  BY <1>1 DEF ShellInv, EchoInv
<1>7. Echoing(terminal', line', out', start')
  BY <1>1, <1>4, <1>6 DEF Echoing, OnScreen
<1>8. QED
  BY <1>1, <1>3, <1>5, <1>7 DEF ShellInv, EchoInv

\* A key that is not Return is stored, and its echo is to be written.
LEMMA EditStep ==
  ASSUME NEW t, NEW l \in Seq(Keys), NEW first \in Int, NEW key \in Keys, key # Return,
         NEW m, m = IF key = Backspace /\ l # <<>> THEN Front(l) ELSE Append(l, key)
  PROVE  /\ m \in Seq(Keys) /\ Len(m) <= Len(l) + 1
         /\ ~(key = Backspace /\ l = <<>>) /\ Echoing(t, l, <<>>, first)
              => Echoing(t, m, <<key>>, first)
<1>1. Len(l) \in Nat
  OBVIOUS
<1>2. CASE key = Backspace /\ l # <<>>
  <2>1. m = SubSeq(l, 1, Len(l) - 1) /\ Len(l) >= 1
    BY <1>2 DEF Front
  <2>2. /\ m \in Seq(Keys) /\ Len(m) = Len(l) - 1
        /\ \A k \in 1 .. Len(l) - 1 : m[k] = l[k]
    BY <1>1, <2>1
  <2>3. ASSUME Echoing(t, l, <<>>, first) PROVE Echoing(t, m, <<key>>, first)
    <3>1. Cursor(t) = first + Len(l) /\ OnScreen(t, l, first, Len(l))
      BY <2>3 DEF Echoing
    <3>2. Len(l) = Len(m) + 1 /\ Len(m) \in Nat
      BY <1>1, <2>1, <2>2
    <3>3. Cursor(t) = first + (Len(m) + 1)
      BY <3>1, <3>2
    <3>4. Cursor(t) = first + Len(m) + 1
      BY <3>2, <3>3
    <3>5. \A k \in 1 .. Len(m) : k \in 1 .. Len(l) /\ m[k] = l[k]
      BY <2>2, <3>2
    <3>6. OnScreen(t, m, first, Len(m))
      BY <3>1, <3>5 DEF OnScreen
    <3>7. QED
      BY <1>2, <3>4, <3>6 DEF Echoing
  <2>4. QED
    BY <1>1, <2>2, <2>3
<1>3. CASE ~(key = Backspace /\ l # <<>>)
  <2>1. m = Append(l, key)
    BY <1>3
  <2>2. /\ m \in Seq(Keys) /\ Len(m) = Len(l) + 1
        /\ m[Len(l) + 1] = key
        /\ \A k \in 1 .. Len(l) : m[k] = l[k]
    BY <1>1, <2>1, AppendProperties
  <2>3. ASSUME ~(key = Backspace /\ l = <<>>), Echoing(t, l, <<>>, first)
        PROVE  Echoing(t, m, <<key>>, first)
    <3>1. Cursor(t) = first + Len(l) /\ OnScreen(t, l, first, Len(l))
      BY <2>3 DEF Echoing
    <3>2. key \in Letters
      BY <1>3, <2>3 DEF Keys
    <3>3. Cursor(t) = first + Len(m) - 1 /\ Len(m) - 1 = Len(l)
      BY <1>1, <2>2, <3>1
    <3>4. OnScreen(t, m, first, Len(m) - 1)
      BY <1>1, <2>2, <3>1, <3>3 DEF OnScreen
    <3>5. m # <<>> /\ m[Len(m)] = key
      BY <1>1, <2>1, <2>2, AppendProperties
    <3>6. QED
      BY <3>2, <3>3, <3>4, <3>5 DEF Echoing
  <2>4. QED
    BY <1>1, <2>2, <2>3
<1>4. QED
  BY <1>2, <1>3

\* The line editor takes a key.
LEMMA ReadStep ==
  ASSUME ShellInv, bimbleos_terminal_realine
  PROVE  ShellInv'
<1> DEFINE key == Head(pending)
<1>1. /\ phase = "read" /\ out = <<>> /\ Len(line) < MaxLine - 1
      /\ pending # <<>> /\ pending' = Tail(pending)
      /\ UNCHANGED <<terminal, sp, allocations, start>>
  BY DEF bimbleos_terminal_realine, Reading, KeyWaits
<1>2. /\ key \in Keys /\ pending' \in Seq(Keys) /\ Len(pending') <= Capacity
      /\ line \in Seq(Keys) /\ Len(line) \in Nat /\ MaxLine \in Nat
  <2>1. pending \in Seq(Keys) /\ Len(pending) <= Capacity /\ line \in Seq(Keys)
    BY DEF ShellInv, ShellType
  <2>2. Capacity \in Nat /\ MaxLine \in Nat
    BY ShellAssumption
  <2>3. key \in Keys /\ Tail(pending) \in Seq(Keys) /\ Len(Tail(pending)) = Len(pending) - 1
    BY <1>1, <2>1, HeadTailProperties
  <2>4. Len(pending) \in Nat /\ Len(line) \in Nat
    BY <2>1
  <2> HIDE DEF key
  <2>5. QED
    BY <1>1, <2>1, <2>2, <2>3, <2>4
<1>3. CASE key = Return
  <2>1. phase' = "run" /\ out' = <<Newline>> /\ UNCHANGED <<line, quiet>>
    BY <1>3 DEF bimbleos_terminal_realine
  <2>2. out' \in Seq(Output)
    BY <2>1, KeyKinds
  <2>3. ShellType'
    BY <1>1, <1>2, <2>1, <2>2 DEF ShellInv, ShellType
  <2>4. QED
    BY <2>1, <2>3 DEF ShellInv, EchoInv
<1>4. CASE key # Return
  <2>1. /\ line' = IF key = Backspace /\ line # <<>> THEN Front(line) ELSE Append(line, key)
        /\ out' = <<key>>
        /\ quiet' = (quiet /\ ~(key = Backspace /\ line = <<>>))
        /\ phase' = phase
    BY <1>4 DEF bimbleos_terminal_realine, Edited
  <2> HIDE DEF key
  <2>2. start \in Int /\ Screen(terminal) /\ quiet \in BOOLEAN
    BY DEF ShellInv, ShellType
  <2>3. /\ line' \in Seq(Keys) /\ Len(line') <= Len(line) + 1
        /\ ~(key = Backspace /\ line = <<>>) /\ Echoing(terminal, line, <<>>, start)
              => Echoing(terminal, line', <<key>>, start)
    BY <1>2, <1>4, <2>1, <2>2, EditStep
  <2>4. out' \in Seq(Output)
    <3>1. key \in Output
      BY <1>2, <1>4, KeyKinds
    <3>2. QED
      BY <2>1, <3>1
  <2>5. Len(line') < MaxLine
    <3>1. Len(line') \in Nat
      BY <2>3
    <3>2. QED
      BY <1>1, <1>2, <2>3, <3>1
  <2>6. ShellType'
    BY <1>1, <1>2, <2>1, <2>2, <2>3, <2>4, <2>5 DEF ShellInv, ShellType
  <2>7. ASSUME phase' = "read", quiet'
        PROVE  /\ terminal'.row = 0 => start' >= 1
               /\ Echoing(terminal', line', out', start')
    <3>1. quiet /\ ~(key = Backspace /\ line = <<>>)
      BY <2>1, <2>7
    <3>2. (terminal.row = 0 => start >= 1) /\ Echoing(terminal, line, <<>>, start)
      BY <1>1, <3>1 DEF ShellInv, EchoInv
    <3>3. Echoing(terminal, line', out', start)
      BY <2>1, <2>3, <3>1, <3>2
    <3>4. QED
      BY <1>1, <3>2, <3>3
  <2>8. phase' # "prompt"
    BY <1>1, <2>1
  <2>9. QED
    BY <2>6, <2>7, <2>8 DEF ShellInv, EchoInv
<1>5. QED
  BY <1>3, <1>4

\* The line runs.
LEMMA RunStep ==
  ASSUME ShellInv, NEW n \in 0 .. MaxLine, bimbleos_system_run(n)
  PROVE  ShellInv'
<1>1. /\ phase' = "prompt" /\ line' = <<>> /\ out' = <<Newline>>
      /\ allocations' = allocations + Len(command')
      /\ n <= MaxAllocations - allocations
      /\ UNCHANGED <<terminal, pending, start, quiet>>
  BY DEF bimbleos_system_run, env
<1>2. /\ line \in Seq(Keys) /\ Len(line) < MaxLine /\ sp \in 0 .. MaxLine
      /\ allocations \in 0 .. MaxAllocations /\ Len(line) \in Nat
  BY DEF ShellInv, ShellType
<1>3. MaxLine \in Nat /\ MaxAllocations \in Nat /\ MaxLine > 1 /\ n \in Nat
  BY ShellAssumption
<1>4. Len(command') \in 0 .. n /\ sp' \in 0 .. MaxLine
  <2>1. CASE sp > Len(line) + 1
    <3>1. /\ command' \in {<<>>, IF n > 0 THEN <<Garbage>> ELSE <<>>}
          /\ sp' \in 0 .. MaxLine
      BY <2>1 DEF bimbleos_system_run
    <3>2. command' = <<>> \/ (n > 0 /\ command' = <<Garbage>>)
      BY <3>1
    <3>3. Len(<<>>) = 0 /\ Len(<<Garbage>>) = 1
      OBVIOUS
    <3>4. QED
      BY <1>3, <3>1, <3>2, <3>3
  <2>2. CASE ~(sp > Len(line) + 1)
    <3> DEFINE o == IF sp = 0 THEN 1 ELSE sp
               r == bimbleos_parse_command(line, o, n)
    <3>1. command' = r.arguments /\ sp' = r.sp
      BY <2>2 DEF bimbleos_system_run
    <3>2. o \in 1 .. Len(line) + 1
      BY <1>2, <2>2
    <3> HIDE DEF o
    <3>3. /\ r.arguments \in Seq(Seq(Keys)) /\ Len(r.arguments) <= n
          /\ r.sp \in 0 .. Len(line) + 1
      BY <1>2, <1>3, <3>2, ParseType
    <3> HIDE DEF r
    <3>4. Len(r.arguments) \in Nat
      BY <3>3
    <3>5. QED
      BY <1>2, <1>3, <3>1, <3>3, <3>4
  <2>3. QED
    BY <2>1, <2>2
<1>5. allocations' \in 0 .. MaxAllocations
  BY <1>1, <1>2, <1>3, <1>4
<1>6. out' \in Seq(Output) /\ line' \in Seq(Keys) /\ Len(line') = 0
  BY <1>1, KeyKinds
<1>7. ShellType'
  BY <1>1, <1>3, <1>4, <1>5, <1>6 DEF ShellInv, ShellType
<1>8. QED
  BY <1>1, <1>7 DEF ShellInv, EchoInv

\* The inductive invariant of the shell holds in every behaviour.
LEMMA ShellInvariance == Spec => []ShellInv
<1>1. Init => ShellInv
  BY ShellInit
<1>2. ShellInv /\ [Next]_vars => ShellInv'
  <2> SUFFICES ASSUME ShellInv, [Next]_vars PROVE ShellInv'
    OBVIOUS
  <2>1. CASE LineFull
    <3>1. /\ phase' = "run" /\ out' = <<Newline>>
          /\ UNCHANGED <<terminal, pending, line, sp, allocations, start, quiet>>
      BY <2>1 DEF LineFull, env
    <3>2. out' \in Seq(Output)
      BY <3>1, KeyKinds
    <3>3. ShellType'
      BY <3>1, <3>2 DEF ShellInv, ShellType
    <3>4. QED
      BY <3>1, <3>3 DEF ShellInv, EchoInv
  <2>2. CASE UNCHANGED vars
    <3>1. UNCHANGED <<terminal, pending, phase, out, line, sp, allocations, start, quiet>>
      BY <2>2 DEF vars, env
    <3>2. ShellType' /\ EchoInv'
      BY <3>1 DEF ShellInv, ShellType, EchoInv
    <3>3. QED
      BY <3>2 DEF ShellInv
  <2>3. CASE bimbleos_getkeyblock
    BY <2>2, <2>3 DEF bimbleos_getkeyblock
  <2>4. QED
    BY <2>1, <2>2, <2>3, OthersStep, PutcharStep, PromptStep, ReadStep, RunStep
       DEF Next, ShellStep
<1>3. QED
  BY <1>1, <1>2, PTL DEF Spec

\* The screen has rows and columns as the code's arithmetic needs them, the line
\* never reaches the last byte of its buffer, strtok's pointer stays in it and the
\* table of allocations is never overrun, whatever is typed and printed.
THEOREM ShellTypeCorrect == Spec => []TypeOK
<1>1. ShellInv => TypeOK
  BY DEF ShellInv, ShellType, TypeOK, Screen, Characters
<1>2. QED
  BY <1>1, ShellInvariance, PTL

\* What is on the screen behind the prompt is the line that will run, for every
\* size of the screen and of the line.
THEOREM EchoAlwaysMatches == Spec => []EchoMatchesLine
<1>1. ShellInv => EchoMatchesLine
  <2> SUFFICES ASSUME ShellInv, phase = "read", out = <<>>, quiet
               PROVE  /\ Cursor(terminal) = start + Len(line)
                      /\ \A k \in 1 .. Len(line) :
                           start + k - 1 \in Cells => terminal.cells[start + k - 1] = line[k]
    BY DEF EchoMatchesLine
  <2>1. Echoing(terminal, line, <<>>, start)
    BY DEF ShellInv, EchoInv
  <2>2. QED
    BY <2>1 DEF Echoing, OnScreen
<1>2. QED
  BY <1>1, ShellInvariance, PTL

\* A backspace takes back any character, wherever the cursor is, even at the end
\* of a row and in the negative columns an earlier backspace leaves.
THEOREM BackspaceAlwaysUndoes == Spec => []BackspaceUndoes
<1>1. ShellInv => BackspaceUndoes
  <2> SUFFICES ASSUME ShellInv, NEW c \in Letters
               PROVE  LET t == terminal_writechar(terminal, c)
                          u == terminal_writechar(t, Backspace)
                      IN /\ Cursor(u) = Cursor(terminal)
                         /\ \A k \in Cells \ {Cursor(terminal)} :
                              u.cells[k] = terminal.cells[k]
    BY DEF BackspaceUndoes
  <2> DEFINE t == terminal_writechar(terminal, c)
             u == terminal_writechar(t, Backspace)
             place == Cursor(terminal)
  <2>1. Screen(terminal) /\ c \in Characters
    BY KeyKinds DEF ShellInv, ShellType
  <2>2. t = Shown(terminal, c)
    BY KeyKinds DEF terminal_writechar
  <2>3. /\ Screen(t) /\ Cursor(t) = place + 1
        /\ t.cells = Put(terminal.cells, place, c)
        /\ t.row = 0 => Cursor(t) >= 1
    BY <2>1, <2>2, ShownMoves
  <2>4. place \in Int
    BY <2>1, CursorOf DEF Screen
  <2>5. u = terminal_backspace(t)
    BY KeyKinds DEF terminal_writechar
  <2> HIDE DEF t, u, place
  <2>6. ~(t.row = 0 /\ t.column = 0)
    <3> SUFFICES ASSUME t.row = 0, t.column = 0 PROVE FALSE
      OBVIOUS
    <3>1. RowStart(0) = 0
      BY TerminalAssumption DEF RowStart
    <3>2. Cursor(t) = 0
      BY <2>3, <3>1, CursorOf DEF Screen
    <3>3. QED
      BY <2>3, <3>2
  <2>7. Cursor(u) = Cursor(t) - 1 /\ u.cells = Put(t.cells, Cursor(t) - 1, Blank)
    BY <2>3, <2>5, <2>6, BackspaceMoves
  <2>8. Cursor(u) = place /\ u.cells = Put(t.cells, place, Blank)
    BY <2>3, <2>4, <2>7
  <2>9. \A k \in Cells \ {place} : u.cells[k] = terminal.cells[k]
    BY <2>3, <2>8 DEF Put
  <2>10. QED
    BY <2>8, <2>9 DEF t, u, place
<1>2. QED
  BY <1>1, ShellInvariance, PTL

\* The program that is started gets the words of the line that was typed, in their
\* order and as they were typed, or the first of them when memory runs out; and the
\* next line is taken apart from its beginning if and only if memory did not run out.
THEOREM LinesRun == Spec => RunsTheLine
<1>1. ShellInv /\ [Next]_vars =>
        [(phase = "run" /\ phase' = "prompt" /\ sp = 0) =>
           /\ IsPrefix(command', Words(line))
           /\ command' = Words(line) <=> sp' = 0]_vars
  <2> SUFFICES ASSUME ShellInv, Next, phase = "run", phase' = "prompt", sp = 0
               PROVE  /\ IsPrefix(command', Words(line))
                      /\ command' = Words(line) <=> sp' = 0
    OBVIOUS
  <2>1. PICK n \in 0 .. MaxLine : bimbleos_system_run(n)
    <3>1. ~(\/ isr80h_command3_putchar \/ Prompt \/ bimbleos_terminal_realine
            \/ bimbleos_getkeyblock \/ LineFull
            \/ (\E key \in Keys : Type(key))
            \/ (\E str \in {<<Newline>>, <<Other, Other>>} : OtherPrints(str)))
      BY DEF isr80h_command3_putchar, Prompt, bimbleos_terminal_realine, Reading,
             bimbleos_getkeyblock, LineFull, Type, OtherPrints
    <3>2. QED
      BY <3>1 DEF Next, ShellStep
  <2>2. line \in Seq(Keys) /\ Len(line) \in Nat /\ MaxLine \in Nat /\ n \in Nat
    BY <2>1, ShellAssumption DEF ShellInv, ShellType
  <2> DEFINE p == bimbleos_parse_command(line, 1, n)
             w == Cardinality(Ends(line))
             words == Words(line)
  <2>3. command' = p.arguments /\ sp' = p.sp
    BY <2>1, <2>2 DEF bimbleos_system_run
  <2>4. /\ p.arguments \in Seq(Seq(Keys))
        /\ Len(p.arguments) = IF n < w THEN n ELSE w
        /\ \A i \in 1 .. Len(p.arguments) : p.arguments[i] = words[i]
        /\ p.sp = 0 <=> n >= w
    BY <2>2, ParseWords
  <2>5. w \in Nat /\ words = [i \in 1 .. w |->
                                SubSeq(line, StartOf(line, EndOf(line, i)), EndOf(line, i))]
    BY <2>2, WordsOf
  <2>6. words \in Seq({words[i] : i \in 1 .. w}) /\ Len(words) = w
    <3> DEFINE R == {words[i] : i \in 1 .. w}
    <3>1. words = [i \in 1 .. w |-> words[i]] /\ w \in Nat
      BY <2>5
    <3> HIDE DEF words, w
    <3>2. \A i \in 1 .. w : words[i] \in R
      OBVIOUS
    <3> HIDE DEF R
    <3>3. words \in [1 .. w -> R]
      BY <3>1, <3>2
    <3>4. words \in Seq(R) /\ Len(words) = w
      BY <3>1, <3>3
    <3>5. QED
      BY <3>4 DEF R
  <2> HIDE DEF p, w, words
  <2> DEFINE a == p.arguments
  <2>7. /\ a \in Seq(Seq(Keys)) /\ Len(a) \in Nat /\ Len(a) <= Len(words)
        /\ \A i \in 1 .. Len(a) : a[i] = words[i]
    <3>1. a \in Seq(Seq(Keys)) /\ \A i \in 1 .. Len(a) : a[i] = words[i]
      BY <2>4
    <3>2. Len(a) = IF n < w THEN n ELSE w
      BY <2>4
    <3> HIDE DEF a
    <3>3. Len(a) \in Nat /\ Len(a) <= Len(words)
      BY <2>2, <2>5, <2>6, <3>2
    <3>4. QED
      BY <3>1, <3>3
  <2>8. Len(a) = Len(words) <=> p.sp = 0
    BY <2>2, <2>4, <2>5, <2>6
  <2> HIDE DEF a
  <2>9. IsPrefix(a, words)
    <3> DEFINE u == SubSeq(a, 1, Len(a))
               v == SubSeq(words, 1, Len(a))
    <3>1. u = [i \in 1 .. Len(a) |-> a[i]] /\ v = [i \in 1 .. Len(a) |-> words[i]]
      BY <2>6, <2>7
    <3>2. u = v
      BY <2>7, <3>1
    <3>3. QED
      BY <2>7, <3>2 DEF IsPrefix
  <2>10. a = words <=> Len(a) = Len(words)
    <3> SUFFICES ASSUME Len(a) = Len(words) PROVE a = words
      OBVIOUS
    <3>1. a = [i \in 1 .. Len(a) |-> a[i]] /\ words = [i \in 1 .. Len(words) |-> words[i]]
      BY <2>6, <2>7
    <3>2. QED
      BY <2>7, <3>1
  <2>11. QED
    BY <2>3, <2>8, <2>9, <2>10 DEF a, words
<1>2. QED
  BY <1>1, ShellInvariance, PTL DEF Spec, RunsTheLine
==============================================================================
