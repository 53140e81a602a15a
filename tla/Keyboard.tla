------------------------------ MODULE Keyboard ------------------------------
(***************************************************************************)
(* The virtual keyboard layer (src/keyboard/keyboard.c), the classic PS/2  *)
(* driver (classic.c) and the system call that reads a key                 *)
(* (isr80h/io.c).                                                          *)
(*                                                                         *)
(* A character goes into the ring of process_current(), and a read takes   *)
(* one from the ring of task_current()->process: two notions of the        *)
(* current process that change independently of each other.                *)
(***************************************************************************)
EXTENDS Integers, Sequences

CONSTANTS
  Procs,          \* the processes
  BufferSize,     \* BIMBLEOS_KEYBOARD_BUFFER_SIZE
  CounterRange,   \* head and tail count modulo this (2^32 on i686)
  ScanSetSize,    \* sizeof(keyboard_scan_set_one)
  ScanSet,        \* keyboard_scan_set_one: scancode -> character code
  ReleasedBit,    \* CLASSIC_KEYBOARD_KEY_RELEASED, the top bit of a scancode
  Capslock        \* CLASSIC_KEYBOARD_CAPSLOCK

Scancodes == 0 .. 2 * ReleasedBit - 1

IsUpper(c) == c \in 65 .. 90

\* The characters a process may be given: those of the table, in both cases.
Chars == LET upper == {ScanSet[s] : s \in DOMAIN ScanSet} \ {0}
         IN upper \cup {c + 32 : c \in {u \in upper : IsUpper(u)}}

ASSUME KeyboardAssumption ==
  /\ BufferSize \in Nat \ {0}
  /\ CounterRange \in Nat \ {0}
  /\ CounterRange > BufferSize
  /\ CounterRange % BufferSize = 0
  /\ ReleasedBit \in Nat \ {0}
  /\ ScanSetSize \in 1 .. ReleasedBit - 1
  /\ ScanSet \in [0 .. ScanSetSize - 1 -> Nat]
  /\ Capslock \in DOMAIN ScanSet

VARIABLES
  keyboard,    \* keyboard[p]: struct KeyboardBuffer of process p
  capslock,    \* classic_keyboard.capslock_state is ON
  key,         \* what isr80h_command2_getkey returned last
  overrun,     \* history: processes whose ring was pushed to when full
  focus,       \* process_current()
  running      \* task_current()->process

vars == <<keyboard, capslock, key, overrun, focus, running>>
------------------------------------------------------------------------------
keyboard_get_tail_index(p) == keyboard[p].tail % BufferSize

HeadIndex(p) == keyboard[p].head % BufferSize

\* A full ring is not noticed: the slot is overwritten and the head stays.
keyboard_push(p, c) ==
  [keyboard EXCEPT ![p].buffer[keyboard_get_tail_index(p)] = c,
                   ![p].tail = (@ + 1) % CounterRange]

\* Mutation: the slot keeps its character.
keyboard_pop_keeps(p) ==
  [keyboard EXCEPT ![p].head = (@ + 1) % CounterRange]

\* Removes the character at the head of a ring where there is one.
keyboard_pop(p) ==
  [keyboard EXCEPT ![p].buffer[HeadIndex(p)] = 0,
                   ![p].head = (@ + 1) % CounterRange]

\* The characters classic_keyboard_scancode_to_char may return.  The bound lets
\* the scancode just past the table through: it reads the byte that the linker
\* put there.
classic_keyboard_scancode_to_char(scancode, caps) ==
  LET Case(c) == IF ~caps /\ IsUpper(c) THEN c + 32 ELSE c
  IN IF scancode > ScanSetSize THEN {0}
     ELSE IF scancode = ScanSetSize THEN Chars \cup {0}
     ELSE {Case(ScanSet[scancode])}
------------------------------------------------------------------------------
Init ==
  /\ keyboard = [p \in Procs |-> [buffer |-> [k \in 0 .. BufferSize - 1 |-> 0],
                                  head |-> 0, tail |-> 0]]
  /\ capslock = FALSE
  /\ key = 0
  /\ overrun = {}
  /\ focus \in Procs
  /\ running \in Procs

\* The keyboard interrupt.
classic_keyboard_handle_interrupt(scancode) ==
  /\ scancode < ReleasedBit
  /\ capslock' = IF scancode = Capslock THEN ~capslock ELSE capslock
  /\ \E c \in classic_keyboard_scancode_to_char(scancode, capslock') :
       IF c = 0
         THEN UNCHANGED <<keyboard, overrun>>
         ELSE /\ keyboard' = keyboard_push(focus, c)
              /\ overrun' = IF keyboard[focus].buffer[keyboard_get_tail_index(focus)] # 0
                              THEN overrun \cup {focus} ELSE overrun
  /\ UNCHANGED <<key, focus, running>>

\* The interrupt of a key that is released only acknowledges.
KeyReleased(scancode) ==
  /\ scancode >= ReleasedBit
  /\ UNCHANGED vars

\* Mutation: the key is read from the ring of process_current().
isr80h_command2_getkey_focus ==
  LET c == keyboard[focus].buffer[HeadIndex(focus)]
  IN /\ key' = c
     /\ keyboard' = IF c = 0 THEN keyboard ELSE keyboard_pop(focus)
     /\ UNCHANGED <<capslock, overrun, focus, running>>

\* The system call: 0 when the ring has no character at its head.
isr80h_command2_getkey ==
  LET c == keyboard[running].buffer[HeadIndex(running)]
  IN /\ key' = c
     /\ keyboard' = IF c = 0 THEN keyboard ELSE keyboard_pop(running)
     /\ UNCHANGED <<capslock, overrun, focus, running>>

\* The scheduler, the loads and the exits change who has the keyboard and who
\* runs.
Schedule ==
  /\ focus' \in Procs
  /\ running' \in Procs
  /\ UNCHANGED <<keyboard, capslock, key, overrun>>

Next ==
  \/ \E s \in Scancodes : classic_keyboard_handle_interrupt(s) \/ KeyReleased(s)
  \/ isr80h_command2_getkey
  \/ Schedule

Spec == Init /\ [][Next]_vars
------------------------------------------------------------------------------
(***************************************************************************)
(* Properties.                                                             *)
(***************************************************************************)

\* The number of characters between head and tail.
Count(p) == (keyboard[p].tail - keyboard[p].head) % CounterRange

\* The ring of a process that was never overrun is full of characters from its
\* head to its tail and empty elsewhere, also after the counters wrapped.
RingIntact ==
  \A p \in Procs \ overrun :
    /\ Count(p) <= BufferSize
    /\ \A k \in 0 .. BufferSize - 1 :
         (keyboard[p].buffer[(keyboard[p].head + k) % BufferSize] # 0) <=> (k < Count(p))

Pending(p) ==
  [k \in 1 .. Count(p) |->
     keyboard[p].buffer[(keyboard[p].head + k - 1) % BufferSize]]

Queue == INSTANCE KeyQueue WITH
  Capacity <- BufferSize,
  pending <- [p \in Procs |-> IF p \in overrun THEN <<>> ELSE Pending(p)]

\* Each process reads the characters typed for it in order, none twice, until
\* its ring is overrun, however the scheduler moves the keyboard and the
\* processor about.
RefinesKeyQueue == Queue!Spec
==============================================================================
