------------------------------- MODULE Context -------------------------------
(***************************************************************************)
(* The way from user mode into the kernel and back: the gates and handlers *)
(* of the interrupt table (src/idt/idt.asm, idt.c), the dispatch of system *)
(* calls, and the registers that are saved and restored when the processor *)
(* goes from task to task (src/task/task.c, task.asm).                     *)
(*                                                                         *)
(* A value in a register is known by the task that computed it and the     *)
(* register it was computed for, so that a register that is lost, mixed up *)
(* or shown to another task is seen.  Interrupt gates keep interrupts off, *)
(* so a handler is one step.  Which task follows the current one, and what *)
(* becomes of a process, are the subject of module Tasks.                  *)
(***************************************************************************)
EXTENDS Integers

CONSTANTS
  Tasks,             \* the tasks there may be
  Kernel,            \* the owner of values that are no task's
  TotalInterrupts,   \* BIMBLEOS_TOTAL_INTERRUPTS
  Exceptions,        \* the interrupts below this are exceptions; it is the clock
  ISR_KEYBOARD,      \* ISR_KEYBOARD_INTERRUPT
  ISR80H,            \* the interrupt of system calls
  MaxCommands        \* BIMBLEOS_MAX_ISR80H_COMMANDS

ASSUME ContextAssumption ==
  /\ Kernel \notin Tasks
  /\ \E s, t \in Tasks : s # t
  /\ {TotalInterrupts, Exceptions, ISR_KEYBOARD, ISR80H, MaxCommands} \subseteq Nat
  /\ 0 < Exceptions /\ Exceptions < ISR_KEYBOARD
  /\ ISR_KEYBOARD < ISR80H /\ ISR80H < TotalInterrupts
  /\ MaxCommands > 9

General == {"edi", "esi", "ebp", "ebx", "edx", "ecx", "eax"}
Pushed == {"ip", "cs", "flags", "esp", "ss"}
Names == General \cup Pushed

Value(owner, name, v) == [of |-> owner, reg |-> name, v |-> v]
Values == [of : Tasks \cup {Kernel}, reg : Names, v : {0, 1}]

VARIABLES
  cpu,         \* the registers of the processor, in user mode
  current,     \* current_task
  live,        \* the tasks of the task list
  registers,   \* registers[t]: struct Registers of task t
  page,        \* the task whose page directory is loaded
  mode,        \* "user", "panic", or "ring0": user code runs with the kernel's rights
  argument,    \* the stack word that a system call took its argument from
  left,        \* history: the registers a task had when it last left user mode
  resumed      \* history: the current task has not computed since it was resumed

vars == <<cpu, current, live, registers, page, mode, argument, left, resumed>>
------------------------------------------------------------------------------
(***************************************************************************)
(* The tables that the kernel fills before the first task runs.            *)
(***************************************************************************)

\* idt_init: gate 0 and the gate of system calls replace the common ones.
Gate(n) ==
  IF n = 0 THEN "divide_by_zero" ELSE IF n = ISR80H THEN "isr80h_wrapper" ELSE "interrupt"

\* interrupt_callbacks.
Callback(n) ==
  IF n < Exceptions THEN "idt_handle_exception"
  ELSE IF n = Exceptions THEN "idt_clock"
  ELSE IF n = ISR_KEYBOARD THEN "classic_keyboard_handle_interrupt"
  ELSE "none"

\* isr80h_register_commands.
Commands == 0 .. 9
ExitCommand == 9

\* The commands that read their arguments from the stack of the caller.
WithArgument == Commands \ {2, ExitCommand}
------------------------------------------------------------------------------
\* Mutation: two registers are exchanged.
task_save_state_swapped(frame) ==
  [r \in Names |-> IF r = "ebx" THEN frame["ecx"] ELSE IF r = "ecx" THEN frame["ebx"] ELSE frame[r]]

\* struct Registers from an interrupt frame.
task_save_state(frame) == [r \in Names |-> frame[r]]

\* The frame as the handlers see it when the processor has pushed an error code
\* that struct InterruptFrame does not have.
Shifted(frame) ==
  [frame EXCEPT !["ip"] = Value(Kernel, "ip", 1), !["cs"] = frame["ip"],
                !["flags"] = frame["cs"], !["esp"] = frame["flags"], !["ss"] = frame["esp"]]

\* Mutation: ebx is restored first, and the others through it.
task_return_early(regs) ==
  [r \in Names |-> IF r \in General \ {"ebx"} \/ r = "flags" THEN Value(Kernel, r, 0) ELSE regs[r]]

\* The registers a task resumes with.  The flags are the kernel's, with
\* interrupts on; ebp is restored, and then replaced by the kernel's when
\* restore_general_purpose_registers leaves its frame.
task_return(regs) ==
  [r \in Names |-> IF r \in {"ebp", "flags"} THEN Value(Kernel, r, 0) ELSE regs[r]]

\* task_init: the entry point, the user stack and segments, and zeros.
task_init(t) == [r \in Names |-> Value(t, r, 0)]

\* Mutation: the page directory of the previous task stays loaded.
task_switch_page(t) == current' = t /\ page' = current

task_switch(t) == current' = t /\ page' = t

\* task_switch and task_return to a task, with the registers saved so far.
Resume(t, regs) ==
  /\ task_switch(t)
  /\ cpu' = task_return(regs[t])
  /\ mode' = "user"
  /\ resumed' = TRUE

\* The return from a handler to the task it interrupted: task_page, popad, iret.
Return(frame) ==
  /\ task_switch(current)
  /\ cpu' = frame
  /\ mode' = "user"
  /\ resumed' = TRUE

\* Mutation: the next task is looked up before the current one is removed.
Remaining_before == live

\* The tasks left when the process of the current task is terminated.
Remaining == live \ {current}

\* process_terminate of the current process, and task_next.
Terminate(regs) ==
  /\ live' = live \ {current}
  /\ IF live' = {}
       THEN mode' = "panic" /\ UNCHANGED <<cpu, current, page, resumed>>
       ELSE \E t \in Remaining : Resume(t, regs)

\* The tasks that task_get_next may give: the current one only when it is alone.
Following == IF live = {current} THEN live ELSE live \ {current}

\* task_current_save_state.
Saved(frame) == [registers EXCEPT ![current] = task_save_state(frame)]

Left == [left EXCEPT ![current] = cpu]
------------------------------------------------------------------------------
\* Two tasks are there when kernel_main enters user mode with the first of them.
Init ==
  \E first, second \in Tasks :
    /\ first # second
    /\ live = {first, second}
    /\ current = first
    /\ page = first
    /\ registers = [t \in Tasks |-> task_init(t)]
    /\ cpu = task_return(task_init(first))
    /\ mode = "user"
    /\ argument = [page |-> first, esp |-> Value(Kernel, "esp", 0)]
    /\ left = registers
    /\ resumed = TRUE

\* The running task computes: every register it can change has a new value.
Compute(v) ==
  /\ mode = "user"
  /\ cpu' = [r \in Names |-> IF r \in {"cs", "ss"} THEN cpu[r] ELSE Value(current, r, v)]
  /\ resumed' = FALSE
  /\ UNCHANGED <<current, live, registers, page, mode, argument, left>>

\* interrupt_handler without a callback: nothing is saved.
Unhandled(n) ==
  /\ mode = "user"
  /\ Gate(n) = "interrupt" /\ Callback(n) = "none"
  /\ left' = Left
  /\ Return(cpu)
  /\ UNCHANGED <<live, registers, argument>>

KeyboardInterrupt(n) ==
  /\ mode = "user"
  /\ Gate(n) = "interrupt" /\ Callback(n) = "classic_keyboard_handle_interrupt"
  /\ left' = Left
  /\ registers' = Saved(cpu)
  /\ Return(cpu)
  /\ UNCHANGED <<live, argument>>

idt_clock(n) ==
  /\ mode = "user"
  /\ Gate(n) = "interrupt" /\ Callback(n) = "idt_clock"
  /\ left' = Left
  /\ registers' = Saved(cpu)
  /\ \E t \in Following : Resume(t, registers')
  /\ UNCHANGED <<live, argument>>

\* An exception, with or without an error code in the frame.
idt_handle_exception(n) ==
  /\ mode = "user"
  /\ Gate(n) = "interrupt" /\ Callback(n) = "idt_handle_exception"
  /\ left' = Left
  /\ \E frame \in {cpu, Shifted(cpu)} : registers' = Saved(frame)
  /\ Terminate(registers')
  /\ UNCHANGED argument

\* Gate 0 leads to a C function that returns with ret: the program goes on with
\* the code segment of the kernel.
divide_by_zero(n) ==
  /\ mode = "user"
  /\ Gate(n) = "divide_by_zero"
  /\ left' = Left
  /\ mode' = "ring0"
  /\ UNCHANGED <<cpu, current, live, registers, page, argument, resumed>>

\* Mutation: the directory of the task is not loaded.
task_get_stack_item_kernel(regs) == [page |-> Kernel, esp |-> regs[current]["esp"]]

\* The stack word at the saved stack pointer, with the directory of the task
\* loaded.
task_get_stack_item(regs) == [page |-> current, esp |-> regs[current]["esp"]]

\* The results a command may give: one out of bounds, or that is not registered,
\* gives 0.
isr80h_handle_command(command) ==
  IF command < 0 \/ command >= MaxCommands \/ command \notin Commands
    THEN {Value(Kernel, "eax", 0)}
    ELSE {Value(Kernel, "eax", 0), Value(Kernel, "eax", 1)}

\* isr80h_wrapper: the frame it goes back with, all of the caller's registers but
\* eax.
isr80h_wrapper(result) == [cpu EXCEPT !["eax"] = result]

\* A system call that returns to its caller; a load that failed is one.
isr80h_handler(n, command) ==
  /\ mode = "user"
  /\ Gate(n) = "isr80h_wrapper" /\ command # ExitCommand
  /\ left' = Left
  /\ registers' = Saved(cpu)
  /\ argument' = IF command \in WithArgument THEN task_get_stack_item(registers') ELSE argument
  /\ \E result \in isr80h_handle_command(command) : Return(isr80h_wrapper(result))
  /\ UNCHANGED live

\* Command 6 or 7 loads task t: it runs at once, or, when its arguments could
\* not be handed over, its caller goes on.
Load(n, t) ==
  /\ mode = "user"
  /\ Gate(n) = "isr80h_wrapper"
  /\ t \notin live
  /\ live' = live \cup {t}
  /\ left' = [Left EXCEPT ![t] = task_init(t)]
  /\ registers' = [Saved(cpu) EXCEPT ![t] = task_init(t)]
  /\ argument' = task_get_stack_item(registers')
  /\ \/ Resume(t, registers')
     \/ Return(isr80h_wrapper(Value(Kernel, "eax", 1)))

isr80h_command9_exit(n) ==
  /\ mode = "user"
  /\ Gate(n) = "isr80h_wrapper"
  /\ left' = Left
  /\ registers' = Saved(cpu)
  /\ Terminate(registers')
  /\ UNCHANGED argument

Interrupt(n) ==
  \/ Unhandled(n)
  \/ KeyboardInterrupt(n)
  \/ idt_clock(n)
  \/ idt_handle_exception(n)
  \/ divide_by_zero(n)
  \/ \E command \in -1 .. MaxCommands : isr80h_handler(n, command)
  \/ \E t \in Tasks : Load(n, t)
  \/ isr80h_command9_exit(n)

Next ==
  \/ \E v \in {0, 1} : Compute(v)
  \/ \E n \in 0 .. TotalInterrupts - 1 : Interrupt(n)

Spec == Init /\ [][Next]_vars
------------------------------------------------------------------------------
(***************************************************************************)
(* Properties.                                                             *)
(***************************************************************************)

Frames == [Names -> Values]

TypeOK ==
  /\ cpu \in Frames
  /\ live \subseteq Tasks
  /\ current \in Tasks /\ (mode = "user" => current \in live)
  /\ registers \in [Tasks -> Frames]
  /\ page \in Tasks
  /\ mode \in {"user", "panic", "ring0"}
  /\ argument \in [page : Tasks \cup {Kernel}, esp : Values]
  /\ left \in [Tasks -> Frames]
  /\ resumed \in BOOLEAN

\* What the kernel keeps for a task that waits is what the task had when it left
\* user mode, whatever ran, ended or was loaded since, and whatever frames
\* exceptions pushed.
SavedIntact ==
  mode = "user" => \A t \in live \ {current} : registers[t] = left[t]

\* What the kernel may replace: ebp and the flags at a switch, eax by a result.
Replaced == {"ebp", "flags", "eax"}

\* A task goes on where it was with the values it had, whatever brought it into
\* the kernel and whatever ran in between: all but ebp and the flags, which a
\* switch replaces by the kernel's, and the result of a system call.
ResumedIntact ==
  (mode = "user" /\ resumed) =>
    \A r \in Names :
      \/ cpu[r] = left[current][r]
      \/ r \in Replaced /\ cpu[r] \in {Value(Kernel, r, 0), Value(Kernel, r, 1)}

\* Every register holds a value computed for it, by t, or put there by the kernel.
Owned(frame, t) ==
  \A r \in Names :
    /\ frame[r].reg = r
    /\ frame[r].of = t \/ (frame[r].of = Kernel /\ r \in Replaced)

\* In user mode the directory and the registers are those of the current task: no
\* register holds a value of another task, or of another register, and its
\* instruction pointer, stack pointer and segments are its own.
RunsAsItself == mode = "user" => page = current /\ Owned(cpu, current)

\* A system call takes its arguments from the stack of its caller, where the
\* caller's stack pointer was when it made the call, seen through the caller's
\* directory.
ArgumentsOfCaller ==
  [][argument' # argument => argument' = [page |-> current, esp |-> cpu["esp"]]]_vars

\* struct Task says of its registers: "The registers of the task when the task is
\* not running".  A task that runs again has the base pointer it had.
BasePointerKept ==
  (mode = "user" /\ resumed /\ left[current] # task_init(current)) =>
    cpu["ebp"] = left[current]["ebp"]
==============================================================================
