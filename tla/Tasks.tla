------------------------------- MODULE Tasks -------------------------------
(***************************************************************************)
(* Tasks and processes (src/task/task.c, process.c) under the handlers     *)
(* that drive them: the clock interrupt and the exceptions (src/idt/idt.c) *)
(* and the system calls that load and exit processes (isr80h/process.c).   *)
(*                                                                         *)
(* Every gate of the interrupt table is an interrupt gate, so a handler    *)
(* runs to its return to user mode without interruption and is one action. *)
(*                                                                         *)
(* struct Task objects live on the heap: an address is reused after kfree, *)
(* and which free address kzalloc returns is left open.  struct Process    *)
(* objects are never freed by the code, so each has an address of its own; *)
(* they are numbered in the order of their allocation.                     *)
(***************************************************************************)
EXTENDS Integers, FiniteSets, FiniteSetsExt

CONSTANTS
  TaskAddrs,     \* heap addresses where a struct Task may lie
  Null,          \* the null pointer to a task
  MaxProcesses,  \* BIMBLEOS_MAX_PROCESSES
  MaxLoads       \* bound: struct Process objects ever allocated

ASSUME TasksAssumption ==
  /\ Null \notin TaskAddrs
  /\ IsFiniteSet(TaskAddrs)
  /\ \E a, b \in TaskAddrs : a # b
  /\ MaxProcesses \in Nat \ {0, 1}
  /\ MaxLoads \in Nat \ {0, 1}

VARIABLES
  list,             \* the task list: at[a] is the struct Task at address a (its
                    \* bytes stay when it is freed); task_head, task_tail and
                    \* current_task are head, tail and current
  allocated,        \* the addresses of tasks that are allocated
  process,          \* the fields id and task of the struct Process objects
  nproc,            \* objects 1 .. nproc have been allocated
  processes,        \* the process table: an object per slot, 0 for none
  current_process,
  mode,             \* "user": a task runs in user mode.  "panic": in panic().
                    \* "stale": went on to run a task that is freed.
                    \* "null": went on with a null task.
  dangled           \* history: the kernel has used a prev link to a task that
                    \* is not the previous one

vars == <<list, allocated, process, nproc, processes, current_process, mode, dangled>>

NoProcess == 0
Objects == 1 .. MaxLoads
Slots == 0 .. MaxProcesses - 1
Addresses == TaskAddrs \cup {Null}

Running == list.at[list.current].process
------------------------------------------------------------------------------
(***************************************************************************)
(* The helpers of task.c, on a list l.                                     *)
(***************************************************************************)

\* Mutation: the last task is not followed by the first.
task_get_next_no_wrap(l) ==
  IF l.at[l.current].next = Null THEN l.current ELSE l.at[l.current].next

task_get_next(l) ==
  IF l.at[l.current].next = Null THEN l.head ELSE l.at[l.current].next

\* task_new: kzalloc, task_init and the insertion at the tail.
task_new(l, a, p) ==
  LET fresh == [l EXCEPT !.at[a] = [process |-> p, next |-> Null, prev |-> Null]]
  IN IF l.head = Null
       THEN [fresh EXCEPT !.head = a, !.tail = a, !.current = a]
       ELSE [[fresh EXCEPT !.at[l.tail].next = a]
                    EXCEPT !.at[a].prev = l.tail, !.tail = a]

\* Mutation: the previous task keeps its link to t.
UnlinkFromPrev_missing(l, t) == l

\* The link of the next task to t is left as it is.
UnlinkFromPrev(l, t) ==
  IF l.at[t].prev = Null THEN l
  ELSE [l EXCEPT !.at[l.at[t].prev].next = l.at[t].next]

\* Mutation: the tail is not moved.
task_list_remove_keeps_tail(l, t) ==
  LET unlinked == UnlinkFromPrev(l, t)
      ends == [unlinked EXCEPT !.head = IF t = @ THEN unlinked.at[t].next ELSE @]
  IN [ends EXCEPT !.current = IF t = @ THEN task_get_next(ends) ELSE @]

task_list_remove(l, t) ==
  LET unlinked == UnlinkFromPrev(l, t)
      ends == [unlinked EXCEPT
                 !.head = IF t = @ THEN unlinked.at[t].next ELSE @,
                 !.tail = IF t = @ THEN unlinked.at[t].prev ELSE @]
  IN [ends EXCEPT !.current = IF t = @ THEN task_get_next(ends) ELSE @]

\* task_next with list l and the tasks in live allocated: the new mode and the
\* new list.  It reads the current task, and then switches to the next one.
task_next(l, live) ==
  IF l.current = Null THEN [mode |-> "null", list |-> l]
  ELSE IF l.current \notin live THEN [mode |-> "stale", list |-> l]
  ELSE LET n == task_get_next(l)
       IN IF n = Null THEN [mode |-> "panic", list |-> l]
          ELSE [mode |-> IF n \in live THEN "user" ELSE "stale",
                list |-> [l EXCEPT !.current = n]]

\* task_page, on the way back to user mode, switches to the current task again:
\* the new mode.
task_page(l, live) ==
  IF l.current \in live THEN "user" ELSE IF l.current = Null THEN "null" ELSE "stale"

\* The link of t to the previous task does not lead to the previous task.
StalePrev(t) ==
  LET q == list.at[t].prev
  IN q # Null /\ (q \notin allocated \/ list.at[q].next # t)
------------------------------------------------------------------------------
(***************************************************************************)
(* The helpers of process.c.                                               *)
(***************************************************************************)

FreeSlots == {s \in Slots : processes[s] = NoProcess}

process_get_free_slot == Min(FreeSlots)

\* Mutation: the first slot is taken without a look at whether it is occupied.
process_switch_to_any_first(table) == table[0]

\* Mutation: the slot of the exiting process is not cleared yet.
process_switch_to_any_early(table) ==
  processes[Min({s \in Slots : processes[s] # NoProcess})]

\* process_switch_to_any: the process in the lowest occupied slot.
process_switch_to_any(table) ==
  table[Min({s \in Slots : table[s] # NoProcess})]

IsEmpty(table) == \A s \in Slots : table[s] = NoProcess
------------------------------------------------------------------------------
(***************************************************************************)
(* The state when kernel_main enters user mode: two processes are loaded,  *)
(* the second was switched to, the first task runs.                        *)
(***************************************************************************)
EmptyList ==
  [at |-> [a \in TaskAddrs |-> [process |-> NoProcess, next |-> Null, prev |-> Null]],
   head |-> Null, tail |-> Null, current |-> Null]

Init ==
  \E a, b \in TaskAddrs :
    /\ a # b
    /\ list = task_new(task_new(EmptyList, a, 1), b, 2)
    /\ allocated = {a, b}
    /\ process = [p \in Objects |-> CASE p = 1 -> [id |-> 0, task |-> a]
                                      [] p = 2 -> [id |-> 1, task |-> b]
                                      [] OTHER -> [id |-> 0, task |-> Null]]
    /\ nproc = 2
    /\ processes = [s \in Slots |-> IF s \in {0, 1} THEN s + 1 ELSE NoProcess]
    /\ current_process = 2
    /\ mode = "user"
    /\ dangled = FALSE

\* The clock interrupt.
idt_clock ==
  /\ mode = "user"
  /\ LET r == task_next(list, allocated)
     IN list' = r.list /\ mode' = r.mode
  /\ UNCHANGED <<allocated, process, nproc, processes, current_process, dangled>>

\* process_load_switch succeeds: the new task lies at a.
process_load_switch(a) ==
  LET p == nproc + 1
      slot == process_get_free_slot
  IN /\ mode = "user"
     /\ FreeSlots # {}
     /\ nproc < MaxLoads
     /\ a \notin allocated
     /\ allocated' = allocated \cup {a}
     /\ nproc' = p
     /\ process' = [process EXCEPT ![p] = [id |-> slot, task |-> a]]
     /\ processes' = [processes EXCEPT ![slot] = p]
     /\ current_process' = p
     /\ UNCHANGED dangled

\* isr80h_command6_process_load_start, and command7 when the arguments were
\* handed over: the new task runs at once.
LoadStart(a) ==
  /\ process_load_switch(a)
  /\ list' = [task_new(list, a, nproc + 1) EXCEPT !.current = a]
  /\ UNCHANGED mode

\* isr80h_command7_invoke_system_command when process_inject_arguments fails:
\* the process stays loaded and current, the caller goes on.
LoadWithoutArguments(a) ==
  /\ process_load_switch(a)
  /\ list' = task_new(list, a, nproc + 1)
  /\ mode' = task_page(list', allocated')

\* process_load fails before it has a task.  If it came as far as allocating a
\* struct Process, nothing frees it.
LoadFails ==
  /\ mode = "user"
  /\ nproc' \in {nproc} \cup (IF FreeSlots # {} /\ nproc < MaxLoads THEN {nproc + 1} ELSE {})
  /\ UNCHANGED <<list, allocated, process, processes, current_process, mode, dangled>>

\* Mutation: the new task is not freed.
MapFails_leaks(a) ==
  /\ mode = "user"
  /\ FreeSlots # {}
  /\ nproc < MaxLoads
  /\ a \notin allocated
  /\ allocated' = allocated \cup {a}
  /\ nproc' = nproc + 1
  /\ process' = [process EXCEPT ![nproc + 1] = [id |-> process_get_free_slot, task |-> a]]
  /\ list' = task_new(list, a, nproc + 1)
  /\ UNCHANGED <<processes, current_process, mode, dangled>>

\* process_map_memory fails: the new task is freed again.
MapFails(a) ==
  /\ mode = "user"
  /\ FreeSlots # {}
  /\ nproc < MaxLoads
  /\ a \notin allocated
  /\ nproc' = nproc + 1
  /\ process' = [process EXCEPT ![nproc + 1] = [id |-> process_get_free_slot, task |-> a]]
  /\ list' = task_list_remove(task_new(list, a, nproc + 1), a)
  /\ mode' = task_page(list', allocated)
  /\ UNCHANGED <<allocated, processes, current_process, dangled>>

\* kzalloc has no memory for the task: task_new calls task_free(0).
TaskOutOfMemory ==
  /\ mode = "user"
  /\ FreeSlots # {}
  /\ nproc < MaxLoads
  /\ nproc' = nproc + 1
  /\ mode' = "null"
  /\ UNCHANGED <<list, allocated, process, processes, current_process, dangled>>

\* isr80h_command9_exit and idt_handle_exception: process_terminate of the
\* process of the current task (task_free, process_unlink), then task_next.
Exit ==
  /\ mode = "user"
  /\ LET p == Running
         t == process[p].task
         removed == task_list_remove(list, t)
         table == [processes EXCEPT ![process[p].id] = NoProcess]
         r == task_next(removed, allocated \ {t})
     IN /\ allocated' = allocated \ {t}
        /\ processes' = table
        /\ dangled' = (dangled \/ StalePrev(t))
        /\ IF current_process = p /\ IsEmpty(table)
             THEN /\ mode' = "panic"
                  /\ list' = removed
                  /\ UNCHANGED current_process
             ELSE /\ mode' = r.mode
                  /\ list' = r.list
                  /\ current_process' = IF current_process = p
                                          THEN process_switch_to_any(table)
                                          ELSE current_process
  /\ UNCHANGED <<process, nproc>>

Next ==
  \/ idt_clock
  \/ \E a \in TaskAddrs : LoadStart(a) \/ LoadWithoutArguments(a) \/ MapFails(a)
  \/ LoadFails
  \/ TaskOutOfMemory
  \/ Exit

Spec == Init /\ [][Next]_vars

\* The timer goes on interrupting user mode: task_return sets the interrupt
\* flag.
Fairness == WF_vars(idt_clock)

FairSpec == Spec /\ Fairness
------------------------------------------------------------------------------
(***************************************************************************)
(* Properties.                                                             *)
(***************************************************************************)

TaskFields == [process : Objects \cup {NoProcess}, next : Addresses, prev : Addresses]

TaskLists == [at : [TaskAddrs -> TaskFields],
              head : Addresses, tail : Addresses, current : Addresses]

TypeOK ==
  /\ list \in TaskLists
  /\ allocated \subseteq TaskAddrs
  /\ process \in [Objects -> [id : Slots, task : Addresses]]
  /\ nproc \in 0 .. MaxLoads
  /\ processes \in [Slots -> Objects \cup {NoProcess}]
  /\ current_process \in Objects
  /\ mode \in {"user", "panic", "stale", "null"}
  /\ dangled \in BOOLEAN

Loaded == {processes[s] : s \in Slots} \ {NoProcess}

\* The process table and the allocated tasks stay in step over any sequence of
\* loads, failed loads and exits: the process of an occupied slot knows its
\* slot, its task is allocated and leads back to it, and no task is allocated
\* that is not the task of a process in the table.
TasksOfTable ==
  /\ \A s \in Slots :
       LET p == processes[s]
       IN p # NoProcess =>
            /\ p <= nproc
            /\ process[p].id = s
            /\ process[p].task \in allocated
            /\ list.at[process[p].task].process = p
  /\ \A a \in allocated :
       /\ list.at[a].process \in Loaded
       /\ process[list.at[a].process].task = a

\* The process that the keyboard writes to is in the process table as long as
\* the system runs, although processes exit that are not the current one.
FocusLoaded == mode # "panic" => current_process \in Loaded

\* The k-th task of the list, following next from the head.
Chain ==
  LET nth[k \in 1 .. Cardinality(TaskAddrs)] ==
        IF k = 1 THEN list.head
        ELSE IF nth[k - 1] = Null THEN Null ELSE list.at[nth[k - 1]].next
  IN nth

\* Following next from the head visits every allocated task once, ends at the
\* tail and never meets a freed task, whatever was loaded and whatever has
\* exited, provided that no task has exited after its predecessor did.
ListIntact ==
  ~dangled =>
    LET n == Cardinality(allocated)
    IN /\ {Chain[k] : k \in 1 .. n} = allocated
       /\ n > 0 => /\ list.at[Chain[n]].next = Null
                   /\ list.tail = Chain[n]
                   /\ list.current \in allocated
       /\ n = 0 => mode = "panic"
       /\ mode # "stale"

\* Every loaded process gets the processor again and again, as long as the list
\* is intact and processes are not loaded and ended forever.
EveryProcessRuns ==
  \A p \in Objects :
    p \in Loaded ~> \/ p \notin Loaded
                    \/ mode # "user"
                    \/ dangled
                    \/ Running = p

\* task.h says of prev: "Previous task in the linked list".
PrevIsPrevious ==
  mode = "user" => \A a \in allocated : ~StalePrev(a)

\* The processes in the order of the list.
Ready ==
  [k \in 1 .. Cardinality(allocated) |->
     IF Chain[k] = Null THEN NoProcess ELSE list.at[Chain[k]].process]

Up == mode = "user" /\ ~dangled

Turns == INSTANCE RoundRobin WITH
  Procs <- Objects,
  queue <- IF Up THEN Ready ELSE <<>>,
  running <- IF Up THEN Running ELSE NoProcess,
  focus <- IF Up THEN current_process ELSE NoProcess,
  orphans <- IF Up THEN {list.at[a].process : a \in {b \in allocated : StalePrev(b)}}
                   ELSE {},
  status <- IF Up THEN "up"
            ELSE IF mode = "panic" /\ ~dangled THEN "panic" ELSE "broken"

\* The processes take turns as the abstract scheduler says, and the list breaks
\* only where it says it may.
RefinesRoundRobin == Turns!Spec
==============================================================================
