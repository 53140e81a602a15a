------------------------------ MODULE KeyQueue ------------------------------
(***************************************************************************)
(* What the keyboard layer promises a process: the characters typed while  *)
(* it has the keyboard are read in the order they were typed, each once,   *)
(* and a read gives 0 only when nothing is left.  The promise lasts until  *)
(* more characters are typed than the buffer holds; from then on a read    *)
(* may give anything.                                                      *)
(***************************************************************************)
EXTENDS Integers, Sequences

CONSTANTS
  Procs,      \* the processes
  Chars,      \* the characters, without 0
  Capacity    \* characters a process's buffer holds

VARIABLES
  pending,    \* pending[p]: characters typed for p and not read yet
  overrun,    \* the processes that were typed more than their buffer holds
  key,        \* the result of the last read
  focus,      \* the process that has the keyboard
  running     \* the process that has the processor

vars == <<pending, overrun, key, focus, running>>

Init ==
  /\ pending = [p \in Procs |-> <<>>]
  /\ overrun = {}
  /\ key = 0
  /\ focus \in Procs
  /\ running \in Procs

Type(p, c) ==
  /\ \/ /\ p \notin overrun
        /\ Len(pending[p]) < Capacity
        /\ pending' = [pending EXCEPT ![p] = Append(@, c)]
        /\ UNCHANGED overrun
     \/ /\ p \notin overrun
        /\ Len(pending[p]) = Capacity
        /\ pending' = [pending EXCEPT ![p] = <<>>]
        /\ overrun' = overrun \cup {p}
     \/ /\ p \in overrun
        /\ UNCHANGED <<pending, overrun>>
  /\ UNCHANGED <<key, focus, running>>

Read(p) ==
  /\ \/ /\ p \notin overrun
        /\ pending[p] # <<>>
        /\ key' = Head(pending[p])
        /\ pending' = [pending EXCEPT ![p] = Tail(@)]
     \/ /\ p \notin overrun
        /\ pending[p] = <<>>
        /\ key' = 0
        /\ UNCHANGED pending
     \/ /\ p \in overrun
        /\ key' \in Chars \cup {0}
        /\ UNCHANGED pending
  /\ UNCHANGED <<overrun, focus, running>>

Schedule ==
  /\ focus' \in Procs
  /\ running' \in Procs
  /\ UNCHANGED <<pending, overrun, key>>

Next ==
  \/ \E c \in Chars : Type(focus, c)
  \/ Read(running)
  \/ Schedule

Spec == Init /\ [][Next]_vars
==============================================================================
