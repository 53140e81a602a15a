------------------------------ MODULE Console ------------------------------
(***************************************************************************)
(* The task list and the keyboard layer together: the keyboard interrupt   *)
(* finds the process to type to in current_process, and the read of a key  *)
(* finds the ring through current_task.  In module Keyboard both change    *)
(* freely; here they change as process.c and task.c change them.           *)
(***************************************************************************)
EXTENDS Tasks

CONSTANTS BufferSize, CounterRange, ScanSetSize, ScanSet, ReleasedBit, Capslock

VARIABLES keyboard, capslock, key, overrun

K == INSTANCE Keyboard WITH
  Procs <- Objects,
  focus <- current_process,
  running <- IF mode = "user" THEN Running ELSE current_process

ASSUME ConsoleAssumption == K!KeyboardAssumption

kbvars == <<keyboard, capslock, key, overrun>>
allvars == <<vars, kbvars>>

ConsoleInit == Init /\ K!Init

\* The struct Process of a new process is zeroed and never used before, so its
\* ring is the one it has from the start.
TaskStep == Next /\ UNCHANGED kbvars

\* The keyboard interrupt and the read of a key; both return to the task that
\* was interrupted.
KeyStep ==
  /\ mode = "user"
  /\ UNCHANGED vars
  /\ \/ \E s \in K!Scancodes : K!classic_keyboard_handle_interrupt(s)
     \/ K!isr80h_command2_getkey

ConsoleNext == TaskStep \/ KeyStep

ConsoleSpec == ConsoleInit /\ [][ConsoleNext]_allvars
------------------------------------------------------------------------------
\* Tasks and keyboard together behave as the keyboard layer does on its own: the
\* processor and the keyboard always belong to some process.
RefinesKeyboard == K!Spec
==============================================================================
