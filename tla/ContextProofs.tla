--------------------------- MODULE ContextProofs ---------------------------
(***************************************************************************)
(* Proofs about saved and restored registers, for any number of tasks and  *)
(* any table of interrupts.                                                *)
(*                                                                         *)
(* The invariant joins what holds of the running task to what holds of the *)
(* waiting ones: a task that is switched to brings along what was kept for *)
(* it, so its frame has to have been its own all the time it waited.       *)
(***************************************************************************)
EXTENDS Context, TLAPS

\* The frames that tasks left user mode with are their own.
LeftOwned == \A t \in live : Owned(left[t], t)

ContextInv == TypeOK /\ SavedIntact /\ ResumedIntact /\ RunsAsItself /\ LeftOwned

\* The registers of the processor are in the set of names.
LEMMA NamesFacts ==
  /\ \A r \in Replaced : r \in Names
  /\ \A r \in {"ip", "cs", "flags", "esp", "ss", "eax"} : r \in Names
  /\ "esp" \notin Replaced
BY DEF Names, General, Pushed, Replaced

\* The frames that the handlers build are frames: saving, shifting, resuming and
\* starting a task keep the type.
LEMMA FrameTypes ==
  ASSUME NEW f \in Frames, NEW t \in Tasks
  PROVE  /\ task_save_state(f) = f
         /\ Shifted(f) \in Frames
         /\ task_return(f) \in Frames
         /\ task_init(t) \in Frames
         /\ \A v \in {0, 1} : [f EXCEPT !["eax"] = Value(Kernel, "eax", v)] \in Frames
<1>1. task_save_state(f) = f
  BY DEF task_save_state, Frames
<1>2. \A o \in Tasks \cup {Kernel}, r \in Names, v \in {0, 1} : Value(o, r, v) \in Values
  BY DEF Value, Values
<1>3. Shifted(f) \in Frames
  <2>1. Value(Kernel, "ip", 1) \in Values
    BY <1>2, NamesFacts
  <2>2. /\ f["ip"] \in Values /\ f["cs"] \in Values
        /\ f["flags"] \in Values /\ f["esp"] \in Values
    BY NamesFacts DEF Frames
  <2> QED BY <2>1, <2>2 DEF Shifted, Frames
<1>4. task_return(f) \in Frames
  BY <1>2 DEF task_return, Frames
<1>5. task_init(t) \in Frames
  BY <1>2 DEF task_init, Frames
<1>6. \A v \in {0, 1} : [f EXCEPT !["eax"] = Value(Kernel, "eax", v)] \in Frames
  BY <1>2, NamesFacts DEF Frames
<1> QED BY <1>1, <1>3, <1>4, <1>5, <1>6

\* What task_return gives a task of its own frame is its own, and differs from
\* the frame only where the kernel replaces values.
LEMMA ReturnOwned ==
  ASSUME NEW t \in Tasks, NEW f \in Frames, Owned(f, t)
  PROVE  /\ Owned(task_return(f), t)
         /\ \A r \in Names : \/ task_return(f)[r] = f[r]
                             \/ r \in Replaced /\ task_return(f)[r] = Value(Kernel, r, 0)
BY DEF Owned, task_return, Replaced, Value

\* A task starts with registers of its own.
LEMMA InitOwned == ASSUME NEW t \in Tasks PROVE Owned(task_init(t), t)
BY DEF Owned, task_init, Value

\* What a step leaves behind in the tables: types, and frames that are the
\* tasks' own.
Kept ==
  /\ live' \subseteq Tasks
  /\ registers' \in [Tasks -> Frames]
  /\ left' \in [Tasks -> Frames]
  /\ argument' \in [page : Tasks \cup {Kernel}, esp : Values]
  /\ \A s \in live' : Owned(left'[s], s)

\* A switch to a task keeps the invariant when everything is saved.
LEMMA ResumeStep ==
  ASSUME ContextInv, Kept, NEW t \in live',
         \A s \in live' : registers'[s] = left'[s],
         Resume(t, registers')
  PROVE  ContextInv'
<1>1. /\ current' = t /\ page' = t /\ mode' = "user" /\ resumed' = TRUE
      /\ cpu' = task_return(left'[t])
  BY DEF Resume, task_switch
<1>2. t \in Tasks /\ left'[t] \in Frames /\ Owned(left'[t], t)
  BY DEF Kept
<1>3. cpu' \in Frames
  BY <1>1, <1>2, FrameTypes
<1>4. TypeOK'
  BY <1>1, <1>2, <1>3 DEF TypeOK, Kept
<1>5. SavedIntact'
  BY <1>1 DEF SavedIntact
<1>6. ResumedIntact'
  <2>1. \A r \in Names : \/ cpu'[r] = left'[t][r]
                         \/ r \in Replaced /\ cpu'[r] = Value(Kernel, r, 0)
    BY <1>1, <1>2, ReturnOwned
  <2> QED BY <1>1, <2>1 DEF ResumedIntact
<1>7. RunsAsItself'
  <2>1. Owned(task_return(left'[t]), t)
    BY <1>2, ReturnOwned
  <2> QED BY <1>1, <2>1 DEF RunsAsItself, Owned
<1>8. LeftOwned'
  BY DEF Kept, LeftOwned, Owned
<1> QED BY <1>4, <1>5, <1>6, <1>7, <1>8 DEF ContextInv

\* A return to the interrupted task with frame g keeps the invariant.
LEMMA ReturnStep ==
  ASSUME ContextInv, Kept, mode = "user", current \in live',
         \A s \in live' \ {current} : registers'[s] = left'[s],
         left'[current] = cpu,
         NEW STATE g, g \in Frames, Owned(g, current),
         \A r \in Names : \/ g[r] = cpu[r]
                          \/ r \in Replaced /\ g[r] \in {Value(Kernel, r, 0), Value(Kernel, r, 1)},
         Return(g)
  PROVE  ContextInv'
<1>1. /\ current' = current /\ page' = current /\ mode' = "user" /\ resumed' = TRUE
      /\ cpu' = g
  BY DEF Return, task_switch
<1>2. TypeOK'
  BY <1>1 DEF TypeOK, Kept, ContextInv
<1>3. SavedIntact'
  BY <1>1 DEF SavedIntact
<1>4. ResumedIntact'
  BY <1>1 DEF ResumedIntact
<1>5. RunsAsItself'
  BY <1>1 DEF RunsAsItself, Owned
<1>6. LeftOwned'
  BY DEF Kept, LeftOwned, Owned
<1> QED BY <1>2, <1>3, <1>4, <1>5, <1>6 DEF ContextInv

\* What the invariant says of the running task.
LEMMA Running ==
  ASSUME ContextInv, mode = "user"
  PROVE  /\ current \in live /\ current \in Tasks /\ live \subseteq Tasks
         /\ cpu \in Frames /\ Owned(cpu, current)
         /\ registers \in [Tasks -> Frames] /\ left \in [Tasks -> Frames]
         /\ \A s \in live \ {current} : registers[s] = left[s]
         /\ \A s \in live : Owned(left[s], s)
BY DEF ContextInv, TypeOK, RunsAsItself, SavedIntact, LeftOwned

\* Saving the registers of the running task, the ones it left with.
LEMMA SavedStep ==
  ASSUME ContextInv, mode = "user"
  PROVE  /\ Left \in [Tasks -> Frames]
         /\ Saved(cpu) \in [Tasks -> Frames]
         /\ Saved(Shifted(cpu)) \in [Tasks -> Frames]
         /\ Left[current] = cpu
         /\ \A s \in live : Saved(cpu)[s] = Left[s]
         /\ \A s \in live \ {current} : Saved(Shifted(cpu))[s] = Left[s]
         /\ \A s \in live : Owned(Left[s], s)
<1>1. task_save_state(cpu) = cpu /\ Shifted(cpu) \in Frames
  BY Running, FrameTypes
<1>2. task_save_state(Shifted(cpu)) \in Frames
  BY <1>1, Running, FrameTypes
<1>3. Left[current] = cpu /\ \A s \in Tasks \ {current} : Left[s] = left[s]
  BY Running DEF Left
<1>4. \A s \in live : Owned(Left[s], s)
  <2>1. Owned(Left[current], current)
    BY <1>3, Running
  <2>2. \A s \in live \ {current} : Owned(Left[s], s)
    BY <1>3, Running
  <2> QED BY <2>1, <2>2
<1>5. Left \in [Tasks -> Frames] /\ Saved(cpu) \in [Tasks -> Frames]
  BY <1>1, Running DEF Left, Saved
<1>6. Saved(Shifted(cpu)) \in [Tasks -> Frames]
  BY <1>2, Running DEF Saved
<1>7. \A s \in live : Saved(cpu)[s] = Left[s]
  BY <1>1, Running DEF Left, Saved
<1>8. \A s \in live \ {current} : Saved(Shifted(cpu))[s] = Left[s]
  BY Running DEF Left, Saved
<1> QED BY <1>3, <1>4, <1>5, <1>6, <1>7, <1>8

\* The end of the running task keeps the invariant, whatever frame was saved for
\* it: no task that is left has it.
LEMMA TerminateStep ==
  ASSUME ContextInv, mode = "user", left' = Left,
         registers' \in {Saved(cpu), Saved(Shifted(cpu))},
         Terminate(registers'), UNCHANGED argument
  PROVE  ContextInv'
<1>1. live' = live \ {current}
  BY DEF Terminate
<1>2. Kept
  BY <1>1, SavedStep, Running DEF Kept, ContextInv, TypeOK
<1>3. \A s \in live' : registers'[s] = left'[s]
  BY <1>1, SavedStep
<1>4. CASE live' = {}
  <2>1. mode' = "panic" /\ UNCHANGED <<cpu, current, page, resumed>>
    BY <1>4 DEF Terminate
  <2>2. TypeOK'
    BY <2>1, <1>2, Running DEF TypeOK, Kept, ContextInv
  <2> QED BY <2>1, <2>2, <1>4 DEF ContextInv, SavedIntact, ResumedIntact, RunsAsItself, LeftOwned
<1>5. CASE live' # {}
  <2>1. PICK t \in Remaining : Resume(t, registers')
    BY <1>5 DEF Terminate
  <2>2. t \in live'
    BY <1>1 DEF Remaining
  <2> QED BY <2>1, <2>2, <1>2, <1>3, ResumeStep
<1> QED BY <1>4, <1>5

\* The argument of a system call is a word of a stack.
LEMMA ArgumentType ==
  ASSUME ContextInv, mode = "user", NEW STATE regs, regs \in [Tasks -> Frames]
  PROVE  task_get_stack_item(regs) \in [page : Tasks \cup {Kernel}, esp : Values]
<1>1. regs[current]["esp"] \in Values
  BY Running, NamesFacts DEF Frames
<1> QED BY <1>1, Running DEF task_get_stack_item

\* A return to the caller with a result keeps the invariant.
LEMMA ResultStep ==
  ASSUME ContextInv, Kept, mode = "user", current \in live',
         \A s \in live' \ {current} : registers'[s] = left'[s],
         left'[current] = cpu,
         NEW v \in {0, 1}, Return(isr80h_wrapper(Value(Kernel, "eax", v)))
  PROVE  ContextInv'
<1> DEFINE g == [cpu EXCEPT !["eax"] = Value(Kernel, "eax", v)]
<1>1. g \in Frames
  BY Running, FrameTypes
<1>2. /\ Owned(g, current)
      /\ \A r \in Names : g[r] = cpu[r] \/ (r \in Replaced /\ g[r] = Value(Kernel, r, v))
  <2>1. cpu \in Frames /\ current \in Tasks /\ Owned(cpu, current)
    BY Running
  <2> QED BY <2>1, NamesFacts DEF Owned, Frames, Replaced, Value
<1>3. Return(g)
  BY DEF isr80h_wrapper
<1> HIDE DEF g
<1>4. \A r \in Names : \/ g[r] = cpu[r]
                       \/ r \in Replaced /\ g[r] \in {Value(Kernel, r, 0), Value(Kernel, r, 1)}
  BY <1>2
<1> QED BY <1>1, <1>2, <1>3, <1>4, ReturnStep

\* The first task starts with registers of its own.
LEMMA InitInv == ASSUME Init PROVE ContextInv
<1>1. PICK first \in Tasks, second \in Tasks :
        /\ live = {first, second} /\ current = first /\ page = first
        /\ registers = [t \in Tasks |-> task_init(t)]
        /\ cpu = task_return(task_init(first))
        /\ mode = "user"
        /\ argument = [page |-> first, esp |-> Value(Kernel, "esp", 0)]
        /\ left = registers
        /\ resumed = TRUE
  BY DEF Init
<1>2. \A t \in Tasks : left[t] = task_init(t) /\ left[t] \in Frames /\ Owned(left[t], t)
  <2> SUFFICES ASSUME NEW t \in Tasks
               PROVE  left[t] = task_init(t) /\ left[t] \in Frames /\ Owned(left[t], t)
    OBVIOUS
  <2>1. left[t] = task_init(t)
    BY <1>1
  <2>2. task_init(t) \in Frames
    BY DEF task_init, Frames, Values, Value
  <2> QED BY <2>1, <2>2, InitOwned
<1>3. cpu \in Frames /\ Owned(cpu, first)
      /\ \A r \in Names : \/ cpu[r] = left[first][r]
                          \/ r \in Replaced /\ cpu[r] = Value(Kernel, r, 0)
  BY <1>1, <1>2, ReturnOwned, FrameTypes
<1>4. TypeOK
  <2>1. registers \in [Tasks -> Frames]
    BY <1>1, <1>2
  <2>2. argument \in [page : Tasks \cup {Kernel}, esp : Values]
    BY <1>1, NamesFacts DEF Value, Values
  <2> QED BY <1>1, <1>3, <2>1, <2>2 DEF TypeOK
<1>5. SavedIntact /\ LeftOwned
  BY <1>1, <1>2 DEF SavedIntact, LeftOwned
<1>6. ResumedIntact /\ RunsAsItself
  BY <1>1, <1>3 DEF ResumedIntact, RunsAsItself
<1> QED BY <1>4, <1>5, <1>6 DEF ContextInv

\* Every step of a program or of a handler keeps the invariant.
LEMMA StepInv == ASSUME ContextInv, [Next]_vars PROVE ContextInv'
<1>1. CASE UNCHANGED vars
  BY <1>1 DEF vars, ContextInv, TypeOK, SavedIntact, ResumedIntact, RunsAsItself, LeftOwned, Owned
<1>2. ASSUME NEW v \in {0, 1}, Compute(v) PROVE ContextInv'
  <2>1. /\ mode = "user" /\ mode' = "user" /\ resumed' = FALSE
        /\ UNCHANGED <<current, live, registers, page, argument, left>>
        /\ cpu' = [r \in Names |-> IF r \in {"cs", "ss"} THEN cpu[r] ELSE Value(current, r, v)]
    BY <1>2 DEF Compute
  <2>2. cpu' \in Frames
    BY <2>1, Running DEF Frames, Value, Values
  <2>3. Owned(cpu, current)
    BY <2>1, Running
  <2>4. \A r \in Names : /\ cpu'[r].reg = r
                         /\ cpu'[r].of = current \/ (cpu'[r].of = Kernel /\ r \in Replaced)
    BY <2>1, <2>3 DEF Owned, Value
  <2>5. TypeOK'
    BY <2>1, <2>2 DEF ContextInv, TypeOK
  <2>6. RunsAsItself'
    BY <2>1, <2>4 DEF ContextInv, RunsAsItself, Owned
  <2> QED BY <2>1, <2>5, <2>6 DEF ContextInv, SavedIntact, ResumedIntact, LeftOwned, Owned
<1>3. ASSUME NEW n \in 0 .. TotalInterrupts - 1, Interrupt(n) PROVE ContextInv'
  <2>0. mode = "user"
    BY <1>3 DEF Interrupt, Unhandled, KeyboardInterrupt, idt_clock, idt_handle_exception,
                divide_by_zero, isr80h_handler, Load, isr80h_command9_exit
  <2>1. CASE Unhandled(n)
    <3>1. left' = Left /\ Return(cpu) /\ UNCHANGED <<live, registers, argument>>
      BY <2>1 DEF Unhandled
    <3>2. \A s \in live' \ {current} : registers'[s] = left'[s]
      BY <3>1, <2>0, Running DEF Left
    <3>3. Kept
      BY <3>1, <2>0, SavedStep, Running DEF Kept, ContextInv, TypeOK
    <3> QED BY <3>1, <3>2, <3>3, <2>0, SavedStep, Running, ReturnStep
  <2>2. CASE KeyboardInterrupt(n)
    <3>1. left' = Left /\ registers' = Saved(cpu) /\ Return(cpu) /\ UNCHANGED <<live, argument>>
      BY <2>2 DEF KeyboardInterrupt
    <3>2. Kept
      BY <3>1, <2>0, SavedStep, Running DEF Kept, ContextInv, TypeOK
    <3> QED BY <3>1, <3>2, <2>0, SavedStep, Running, ReturnStep
  <2>3. CASE idt_clock(n)
    <3>1. /\ left' = Left /\ registers' = Saved(cpu) /\ UNCHANGED <<live, argument>>
          /\ \E t \in Following : Resume(t, registers')
      BY <2>3 DEF idt_clock
    <3>2. Kept
      BY <3>1, <2>0, SavedStep, Running DEF Kept, ContextInv, TypeOK
    <3>3. \A s \in live' : registers'[s] = left'[s]
      BY <3>1, <2>0, SavedStep
    <3>4. PICK t \in live' : Resume(t, registers')
      BY <3>1 DEF Following
    <3> QED BY <3>2, <3>3, <3>4, ResumeStep
  <2>4. CASE idt_handle_exception(n)
    <3>1. /\ left' = Left /\ Terminate(registers') /\ UNCHANGED argument
          /\ registers' \in {Saved(cpu), Saved(Shifted(cpu))}
      BY <2>4 DEF idt_handle_exception
    <3> QED BY <3>1, <2>0, TerminateStep
  <2>5. CASE divide_by_zero(n)
    <3>1. /\ left' = Left /\ mode' = "ring0"
          /\ UNCHANGED <<cpu, current, live, registers, page, argument, resumed>>
      BY <2>5 DEF divide_by_zero
    <3>2. TypeOK'
      BY <3>1, <2>0, SavedStep DEF TypeOK, ContextInv
    <3>3. LeftOwned'
      BY <3>1, <2>0, SavedStep DEF LeftOwned, Owned
    <3> QED BY <3>1, <3>2, <3>3 DEF ContextInv, SavedIntact, ResumedIntact, RunsAsItself
  <2>6. ASSUME NEW command \in -1 .. MaxCommands, isr80h_handler(n, command) PROVE ContextInv'
    <3>1. /\ left' = Left /\ registers' = Saved(cpu) /\ UNCHANGED live
          /\ argument' \in {task_get_stack_item(registers'), argument}
      BY <2>6 DEF isr80h_handler
    <3>2. PICK v \in {0, 1} : Return(isr80h_wrapper(Value(Kernel, "eax", v)))
      BY <2>6 DEF isr80h_handler, isr80h_handle_command
    <3>3. task_get_stack_item(Saved(cpu)) \in [page : Tasks \cup {Kernel}, esp : Values]
      BY <2>0, SavedStep, ArgumentType
    <3>4. argument' \in [page : Tasks \cup {Kernel}, esp : Values]
      BY <3>1, <3>3 DEF ContextInv, TypeOK, task_get_stack_item
    <3>5. Kept
      BY <3>1, <3>4, <2>0, SavedStep, Running DEF Kept
    <3> QED BY <3>1, <3>2, <3>5, <2>0, SavedStep, Running, ResultStep
  <2>7. ASSUME NEW t \in Tasks, Load(n, t) PROVE ContextInv'
    <3>1. /\ t \notin live /\ live' = live \cup {t}
          /\ left' = [Left EXCEPT ![t] = task_init(t)]
          /\ registers' = [Saved(cpu) EXCEPT ![t] = task_init(t)]
          /\ argument' = task_get_stack_item(registers')
      BY <2>7 DEF Load
    <3>2. task_init(t) \in Frames /\ Owned(task_init(t), t)
      BY <2>0, Running, FrameTypes, InitOwned
    <3>3. /\ registers' \in [Tasks -> Frames] /\ left' \in [Tasks -> Frames]
          /\ left'[t] = task_init(t) /\ registers'[t] = task_init(t)
          /\ \A s \in live : left'[s] = Left[s] /\ registers'[s] = Saved(cpu)[s]
      BY <3>1, <3>2, <2>0, SavedStep, Running
    <3>4. argument' \in [page : Tasks \cup {Kernel}, esp : Values]
      <4>1. registers'[current]["esp"] \in Values
        BY <3>3, <2>0, Running, NamesFacts DEF Frames
      <4> QED BY <4>1, <3>1, <2>0, Running DEF task_get_stack_item
    <3>5. \A s \in live' : Owned(left'[s], s) /\ registers'[s] = left'[s]
      <4>1. Owned(left'[t], t) /\ registers'[t] = left'[t]
        BY <3>2, <3>3
      <4>2. \A s \in live : Owned(left'[s], s) /\ registers'[s] = left'[s]
        BY <3>3, <2>0, SavedStep
      <4> QED BY <4>1, <4>2, <3>1
    <3>6. Kept
      BY <3>1, <3>3, <3>4, <3>5, <2>0, Running DEF Kept
    <3>7. CASE Resume(t, registers')
      BY <3>7, <3>1, <3>5, <3>6, ResumeStep
    <3>8. CASE Return(isr80h_wrapper(Value(Kernel, "eax", 1)))
      <4>1. current \in live' /\ left'[current] = cpu
        BY <3>1, <3>3, <2>0, SavedStep, Running
      <4> QED BY <4>1, <3>5, <3>6, <3>8, <2>0, ResultStep
    <3> QED BY <2>7, <3>7, <3>8 DEF Load
  <2>8. CASE isr80h_command9_exit(n)
    <3>1. /\ left' = Left /\ Terminate(registers') /\ UNCHANGED argument
          /\ registers' \in {Saved(cpu), Saved(Shifted(cpu))}
      BY <2>8 DEF isr80h_command9_exit
    <3> QED BY <3>1, <2>0, TerminateStep
  <2> QED BY <1>3, <2>1, <2>2, <2>3, <2>4, <2>5, <2>6, <2>7, <2>8 DEF Interrupt
<1> QED BY <1>1, <1>2, <1>3 DEF Next

\* The invariant holds in every state, whatever interrupts come in whatever order.
THEOREM ContextInvariant == Spec => []ContextInv
<1>1. Init => ContextInv
  BY InitInv
<1>2. ContextInv /\ [Next]_vars => ContextInv'
  BY StepInv
<1> QED BY <1>1, <1>2, PTL DEF Spec

\* The variables of the context keep their types, and in user mode the current
\* task is one of the task list.
THEOREM ContextTypeOK == Spec => []TypeOK
<1>1. ContextInv => TypeOK
  BY DEF ContextInv
<1> QED BY <1>1, ContextInvariant, PTL

\* What is kept for a waiting task is what it left user mode with.
THEOREM WaitingTasksKeepRegisters == Spec => []SavedIntact
<1>1. ContextInv => SavedIntact
  BY DEF ContextInv
<1> QED BY <1>1, ContextInvariant, PTL

\* A task goes on with the registers it had, but for those the kernel replaces.
THEOREM TasksResumeIntact == Spec => []ResumedIntact
<1>1. ContextInv => ResumedIntact
  BY DEF ContextInv
<1> QED BY <1>1, ContextInvariant, PTL

\* No task runs with the directory or with a register value of another.
THEOREM TasksRunAsThemselves == Spec => []RunsAsItself
<1>1. ContextInv => RunsAsItself
  BY DEF ContextInv
<1> QED BY <1>1, ContextInvariant, PTL

\* System calls find their arguments on the stack of their caller.
THEOREM CallsReadTheirCaller == Spec => ArgumentsOfCaller
<1>1. ContextInv /\ [Next]_vars =>
        [argument' # argument => argument' = [page |-> current, esp |-> cpu["esp"]]]_vars
  <2> SUFFICES ASSUME ContextInv, Next, argument' # argument
               PROVE  argument' = [page |-> current, esp |-> cpu["esp"]]
    BY DEF vars
  <2>1. PICK n \in 0 .. TotalInterrupts - 1 :
          \/ \E command \in -1 .. MaxCommands : isr80h_handler(n, command)
          \/ \E t \in Tasks : Load(n, t)
    BY DEF Next, Compute, Interrupt, Unhandled, KeyboardInterrupt, idt_clock,
           idt_handle_exception, divide_by_zero, isr80h_command9_exit
  <2>2. /\ mode = "user"
        /\ argument' = task_get_stack_item(registers')
        /\ \/ registers' = Saved(cpu)
           \/ \E t \in Tasks \ live : registers' = [Saved(cpu) EXCEPT ![t] = task_init(t)]
    BY <2>1 DEF isr80h_handler, Load
  <2>3. current \in live /\ current \in Tasks /\ Saved(cpu) \in [Tasks -> Frames]
    BY <2>2, Running, SavedStep
  <2>4. registers'[current] = Saved(cpu)[current]
    BY <2>2, <2>3
  <2>5. Saved(cpu)[current] = cpu
    BY <2>2, <2>3, SavedStep
  <2> QED BY <2>2, <2>4, <2>5 DEF task_get_stack_item
<1> QED BY <1>1, ContextInvariant, PTL DEF Spec, ArgumentsOfCaller
============================================================================
