-------------------------------- MODULE Shell --------------------------------
(***************************************************************************)
(* The shell (src/programs/shell) with what it uses of the user library    *)
(* (src/programs/stdlib) and the terminal it shares with every other       *)
(* program.                                                                *)
(*                                                                         *)
(* Every system call of the shell is a step, and between any two of them   *)
(* another process may write to the terminal or a key may be typed.  The   *)
(* keys wait in the ring of the shell, which module Keyboard specifies.    *)
(***************************************************************************)
EXTENDS Terminal

CONSTANTS
  Letters,           \* the visible characters on the keyboard, Blank included
  Banner,            \* what the shell prints first
  MaxLine,           \* sizeof(buff), the last byte for the terminator
  MaxAllocations,    \* BIMBLEOS_MAX_PROGRAM_ALLOCATIONS
  Capacity,          \* keys that wait, at most
  MaxKeys,           \* bound on the keys typed
  MaxOutput          \* bound on the characters other programs write

Return == "CR"
Keys == Letters \cup {Return, Backspace}

\* What another program writes, and a token of bytes left on the stack.
Other == "y"
Garbage == <<"?">>

ASSUME ShellAssumption ==
  /\ Blank \in Letters
  /\ {Newline, Backspace, Return} \cap Letters = {}
  /\ Banner \in Seq(STRING)
  /\ {MaxLine, MaxAllocations, Capacity, MaxKeys, MaxOutput} \subseteq Nat
  /\ MaxLine > 1

VARIABLES
  terminal,      \* the terminal
  pending,       \* keys typed for the shell and not read yet
  typed, output, \* the characters typed, and written by others, so far
  phase,         \* where the shell is
  out,           \* what the shell has still to put on the terminal
  line,          \* the bytes of buff before index i
  sp,            \* sp of strtok: an offset into scommand, 0 when null
  allocations,   \* allocations the shell holds
  command,       \* the arguments given to bimbleos_system for the last line
  start,         \* history: the cursor after the prompt
  quiet          \* history: since then the shell wrote alone, and what is erased was typed

env == <<pending, typed, output>>
vars == <<terminal, env, phase, out, line, sp, allocations, command, start, quiet>>
------------------------------------------------------------------------------
(***************************************************************************)
(* Tokens.  Offset o is the o-th byte of the string, and the terminator    *)
(* is at Len(s) + 1.                                                       *)
(***************************************************************************)

\* The first offset from o on that satisfies Test, or the terminator.
First(s, o, Test(_)) ==
  CHOOSE p \in o .. Len(s) + 1 :
    /\ p <= Len(s) => Test(s[p])
    /\ \A q \in o .. p - 1 : ~Test(s[q])

\* Mutation: sp stays at the delimiter, which is the terminator of the token now.
strtok_stays(s, o) ==
  LET p_start == First(s, o, LAMBDA c : c # Blank)
      end     == First(s, p_start, LAMBDA c : c = Blank)
  IN IF p_start > Len(s) THEN [token |-> <<>>, sp |-> 0]
     ELSE [token |-> SubSeq(s, p_start, end - 1), sp |-> Len(s) + 1]

\* A token from offset o on, and where the search for the next one starts.
strtok(s, o) ==
  LET p_start == First(s, o, LAMBDA c : c # Blank)
      end     == First(s, p_start, LAMBDA c : c = Blank)
  IN IF p_start > Len(s) THEN [token |-> <<>>, sp |-> 0]
     ELSE [token |-> SubSeq(s, p_start, end - 1),
           sp    |-> IF end <= Len(s) THEN end + 1 ELSE end]

\* The arguments of a command when the first n allocations succeed.  When one
\* fails, sp keeps its value.
bimbleos_parse_command(s, o, n) ==
  LET parse[x \in (1 .. Len(s) + 1) \X (0 .. n)] ==
        LET t    == strtok(s, x[1])
            rest == parse[<<t.sp, x[2] - 1>>]
        IN IF t.token = <<>> THEN [arguments |-> <<>>, sp |-> 0]
           ELSE IF x[2] = 0 THEN [arguments |-> <<>>, sp |-> t.sp]
           ELSE [arguments |-> <<t.token>> \o rest.arguments, sp |-> rest.sp]
  IN parse[<<o, n>>]
------------------------------------------------------------------------------
Init ==
  /\ terminal = terminal_initialize
  /\ pending = <<>>
  /\ typed = 0 /\ output = 0
  /\ phase = "prompt"
  /\ out = Banner
  /\ line = <<>>
  /\ sp = 0
  /\ allocations = 0
  /\ command = <<>>
  /\ start = 0
  /\ quiet = FALSE

\* A key is typed while the shell has the keyboard.
Type(key) ==
  /\ typed < MaxKeys
  /\ Len(pending) < Capacity
  /\ pending' = Append(pending, key)
  /\ typed' = typed + 1
  /\ UNCHANGED <<terminal, output, phase, out, line, sp, allocations, command, start, quiet>>

\* Another process prints.
OtherPrints(str) ==
  /\ output < MaxOutput
  /\ terminal' = print(terminal, str)
  /\ output' = output + 1
  /\ quiet' = FALSE
  /\ UNCHANGED <<pending, typed, phase, out, line, sp, allocations, command, start>>

\* The next character of what the shell prints, or its echo of a key.
isr80h_command3_putchar ==
  /\ out # <<>>
  /\ terminal' = terminal_writechar(terminal, Head(out))
  /\ out' = Tail(out)
  /\ UNCHANGED <<env, phase, line, sp, allocations, command, start, quiet>>

\* The prompt, once what came before it is on the terminal.
Prompt ==
  /\ phase = "prompt"
  /\ out = <<>>
  /\ terminal' = terminal_writechar(terminal, ">")
  /\ start' = Cursor(terminal')
  /\ phase' = "read"
  /\ quiet' = TRUE
  /\ command' = <<>>
  /\ UNCHANGED <<env, out, line, sp, allocations>>

\* Mutation: the last byte of the buffer is used too.
Reading_last == phase = "read" /\ out = <<>> /\ Len(line) < MaxLine

Reading == phase = "read" /\ out = <<>> /\ Len(line) < MaxLine - 1

\* Mutation: the loop steps back one place too many.
Edited_three(key) ==
  IF key = Backspace /\ line # <<>> THEN SubSeq(line, 1, Len(line) - 2) ELSE Append(line, key)

\* The bytes before index i after the loop of the line editor took a key other
\* than Return: a backspace removes the byte before it, and is kept as a byte
\* where there is none.
Edited(key) ==
  IF key = Backspace /\ line # <<>> THEN Front(line) ELSE Append(line, key)

\* Mutation: a ring whose head and tail are at the same slot counts as empty.
KeyWaits_full == Len(pending) \in 1 .. Capacity - 1

\* A read of a key finds one.
KeyWaits == pending # <<>>

\* One turn of the loop: a key is read, stored and echoed.
bimbleos_terminal_realine ==
  LET key   == Head(pending)
      empty == key = Backspace /\ line = <<>>
  IN /\ Reading
     /\ KeyWaits
     /\ pending' = Tail(pending)
     /\ IF key = Return
          THEN /\ phase' = "run"
               /\ out' = <<Newline>>
               /\ UNCHANGED <<line, quiet>>
          ELSE /\ line' = Edited(key)
               /\ out' = <<key>>
               /\ quiet' = (quiet /\ ~empty)
               /\ UNCHANGED phase
     /\ UNCHANGED <<terminal, typed, output, sp, allocations, command, start>>

\* No key waits: the call returns 0 and is made again.
bimbleos_getkeyblock ==
  /\ Reading
  /\ ~KeyWaits
  /\ UNCHANGED vars

\* The buffer is full: the line ends without Return.
LineFull ==
  /\ phase = "read" /\ out = <<>>
  /\ Len(line) = MaxLine - 1
  /\ phase' = "run"
  /\ out' = <<Newline>>
  /\ UNCHANGED <<terminal, env, line, sp, allocations, command, start, quiet>>

\* The line is taken apart and given to the kernel, which starts the program or
\* does not.  Allocations fail when the table of the process is full, and
\* whenever the heap that all processes share has no room.
bimbleos_system_run(n) ==
  /\ phase = "run" /\ out = <<>>
  /\ n <= MaxAllocations - allocations
  /\ IF sp > Len(line) + 1
       THEN \* strtok goes on behind the end of the line, in what the stack has there
            /\ command' \in {<<>>, IF n > 0 THEN <<Garbage>> ELSE <<>>}
            /\ sp' \in 0 .. MaxLine
       ELSE LET p == bimbleos_parse_command(line, IF sp = 0 THEN 1 ELSE sp, n)
            IN command' = p.arguments /\ sp' = p.sp
  /\ allocations' = allocations + Len(command')
  /\ phase' = "prompt"
  /\ line' = <<>>
  /\ out' = <<Newline>>
  /\ UNCHANGED <<terminal, env, start, quiet>>

ShellStep ==
  \/ isr80h_command3_putchar
  \/ Prompt
  \/ bimbleos_terminal_realine
  \/ bimbleos_getkeyblock
  \/ LineFull
  \/ \E n \in 0 .. MaxLine : bimbleos_system_run(n)

Next ==
  \/ ShellStep
  \/ \E key \in Keys : Type(key)
  \/ \E str \in {<<Newline>>, <<Other, Other>>} : OtherPrints(str)

Spec == Init /\ [][Next]_vars

\* The scheduler comes back to the shell again and again.
FairSpec == Spec /\ WF_vars(ShellStep)
------------------------------------------------------------------------------
(***************************************************************************)
(* Properties.                                                             *)
(***************************************************************************)

TypeOK ==
  /\ terminal.row \in Nat
  /\ terminal.column \in Int /\ terminal.column < Width
  /\ terminal.cells \in [Cells -> Letters \cup {Other, ">"} \cup Range(Banner)]
  /\ pending \in Seq(Keys) /\ Len(pending) <= Capacity
  /\ phase \in {"prompt", "read", "run"}
  /\ line \in Seq(Keys) /\ Len(line) < MaxLine
  /\ sp \in 0 .. MaxLine
  /\ allocations \in 0 .. MaxAllocations

\* What is on the screen after the prompt is the line that will run, across the
\* ends of rows and after any backspaces, and the cursor is behind it, unless
\* another program wrote too or a backspace had nothing to erase.
EchoMatchesLine ==
  (phase = "read" /\ out = <<>> /\ quiet) =>
    /\ Cursor(terminal) = start + Len(line)
    /\ \A k \in 1 .. Len(line) :
         start + k - 1 \in Cells => terminal.cells[start + k - 1] = line[k]

\* A backspace undoes the character before it, also where that one ended a row and
\* where a backspace has left a negative column.
BackspaceUndoes ==
  \A c \in Letters :
    LET t == terminal_writechar(terminal, c)
        u == terminal_writechar(t, Backspace)
    IN /\ Cursor(u) = Cursor(terminal)
       /\ \A k \in Cells \ {Cursor(terminal)} : u.cells[k] = terminal.cells[k]

\* The longest parts of a line without a blank, in order.
Words(s) ==
  LET ends   == {k \in 1 .. Len(s) : s[k] # Blank /\ (k = Len(s) \/ s[k + 1] = Blank)}
      From(e) == CHOOSE b \in 1 .. e : /\ \A k \in b .. e : s[k] # Blank
                                       /\ b = 1 \/ s[b - 1] = Blank
      Nth(i) == CHOOSE e \in ends : Cardinality({d \in ends : d <= e}) = i
  IN [i \in 1 .. Cardinality(ends) |-> SubSeq(s, From(Nth(i)), Nth(i))]

\* What runs is the line, word by word, or the words for which there was memory;
\* and strtok is left in its first state for the next line if there was enough.
RunsTheLine ==
  [][(phase = "run" /\ phase' = "prompt" /\ sp = 0) =>
       /\ IsPrefix(command', Words(line))
       /\ command' = Words(line) <=> sp' = 0]_vars

\* A key typed is read, whatever the memory, the line and the other programs do.
KeysRead == (pending # <<>>) ~> (pending = <<>>)
==============================================================================
