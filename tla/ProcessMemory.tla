--------------------------- MODULE ProcessMemory ---------------------------
(***************************************************************************)
(* The memory of processes: the program image, the stack and the           *)
(* allocations of a process (src/task/process.c), the page directory of    *)
(* its task (src/memory/paging/paging.c), the loader's allocations         *)
(* (src/loader/format/elfloader.c) and the system calls malloc and free    *)
(* (src/isr80h/heap.c).                                                    *)
(*                                                                         *)
(* A heap block and a page are both 4096 bytes, so memory is counted in    *)
(* pages.  User memory lies in the frames 0 .. NFrames - 1 of the heap,    *)
(* which a page directory maps one to one at first; the pages where        *)
(* programs expect their code and their stack have higher numbers here.    *)
(* The heap gives a free run of the requested length or 0, anywhere: what  *)
(* it does with a request of 0 bytes or at the end of its table is module  *)
(* Heap.  Structures of the kernel (struct Process, Elf_file, the          *)
(* task and its page tables) are never mapped for writing and are left     *)
(* out: that is also why what a failed load leaves of them is not seen.    *)
(***************************************************************************)
EXTENDS Integers, FiniteSets

CONSTANTS
  Procs,           \* struct Process objects
  NFrames,         \* pages of the heap that user memory may use
  MaxAllocations,  \* BIMBLEOS_MAX_PROGRAM_ALLOCATIONS
  Sizes,           \* lengths of requests in pages
  ImagePages,      \* pages of a program file
  SegmentPages,    \* pages of its segment in memory, p_memsz
  StackPages       \* BIMBLEOS_USER_PROGRAM_STACK_SIZE in pages

ASSUME MemoryAssumption ==
  /\ NFrames \in Nat \ {0}
  /\ MaxAllocations \in Nat \ {0}
  /\ Sizes \subseteq Nat \ {0}
  /\ ImagePages \in Nat \ {0}
  /\ SegmentPages \in Nat \ {0}
  /\ StackPages \in Nat \ {0}

VARIABLES
  runs,        \* the allocated runs of the heap, [start, len]
  state,       \* state[p]: "unused", "loaded", "failed" or "exited"
  image,       \* image[p]: first frame of the program (elf_memory)
  stack,       \* stack[p]: first frame of the stack
  allocations, \* allocations[p][k]: ptr and size of an allocation
  directory,   \* directory[p]: the page directory of p's task
  wild         \* history: kfree was called with a pointer that is neither null
               \* nor the start of an allocated run

vars == <<runs, state, image, stack, allocations, directory, wild>>

Frames == 0 .. NFrames - 1
PROGRAM_ADDRESS == NFrames                \* BIMBLEOS_PROGRAM_VIRTUAL_ADDRESS
STACK_ADDRESS == NFrames + SegmentPages   \* ..._VIRTUAL_STACK_ADDRESS_END
Pages == 0 .. NFrames + SegmentPages + StackPages - 1
NullPtr == -1                             \* the null pointer
Indexes == 1 .. MaxAllocations
Empty == [ptr |-> NullPtr, size |-> 0]
------------------------------------------------------------------------------
(***************************************************************************)
(* The heap and the page directories.                                      *)
(***************************************************************************)
Run(s, n) == [start |-> s, len |-> n]
FramesOf(r) == r.start .. r.start + r.len - 1

\* s is the start of a free run of n frames in the heap h.
IsFreeRun(h, s, n) ==
  /\ s + n <= NFrames
  /\ \A r \in h : FramesOf(r) \cap (s .. s + n - 1) = {}

\* Where kzalloc may find n frames.
FreeRuns(n) == {s \in Frames : IsFreeRun(runs, s, n)}

kfree(h, ptr) == {r \in h : r.start # ptr}

IsWild(h, ptr) == ptr # NullPtr /\ \A r \in h : r.start # ptr

\* All of memory, mapped to itself, read-only.
paging_new == [v \in Pages |-> [frame |-> v, mode |-> "r"]]

\* Mutation: the last page of the range is left out.
paging_map_to_short(d, virt, phys, phys_end, mode) ==
  [v \in Pages |-> IF v \in virt .. virt + (phys_end - phys) - 2
                     THEN [frame |-> phys + (v - virt), mode |-> mode] ELSE d[v]]

\* The pages from virt on are mapped to the frames from phys to phys_end.
paging_map_to(d, virt, phys, phys_end, mode) ==
  [v \in Pages |-> IF v \in virt .. virt + (phys_end - phys) - 1
                     THEN [frame |-> phys + (v - virt), mode |-> mode] ELSE d[v]]

paging_set(d, virt, entry) == [d EXCEPT ![virt] = entry]
------------------------------------------------------------------------------
(***************************************************************************)
(* The allocation table, on a record m of the memory of one process: the   *)
(* heap, the table, the directory and whether a wild pointer was freed.    *)
(***************************************************************************)
Memory(p) == [runs |-> runs, table |-> allocations[p], dir |-> directory[p], wild |-> wild]

FreeIndexes(table) == {k \in Indexes : table[k].ptr = NullPtr}

process_find_free_allocation_index(table) ==
  CHOOSE k \in FreeIndexes(table) : \A j \in FreeIndexes(table) : k <= j

\* process_malloc when kzalloc returned the run of n frames at ptr.  When the
\* table is full the run is given back.
process_malloc(m, ptr, n) ==
  IF FreeIndexes(m.table) = {} THEN m
  ELSE [m EXCEPT
          !.runs = @ \cup {Run(ptr, n)},
          !.dir = paging_map_to(@, ptr, ptr, ptr + n, "rw"),
          !.table = [@ EXCEPT ![process_find_free_allocation_index(m.table)] =
                       [ptr |-> ptr, size |-> n]]]

process_allocation_unjoin(table, ptr) ==
  [k \in Indexes |-> IF table[k].ptr = ptr THEN Empty ELSE table[k]]

\* Mutation: the table keeps the allocation.
process_free_keeps_entry(m, ptr) ==
  IF \A k \in Indexes : m.table[k].ptr # ptr THEN m
  ELSE LET k == CHOOSE j \in Indexes :
                  /\ m.table[j].ptr = ptr
                  /\ \A l \in Indexes : m.table[l].ptr = ptr => j <= l
       IN [m EXCEPT !.dir = paging_map_to(@, ptr, ptr, ptr + m.table[k].size, "none"),
                    !.runs = kfree(@, ptr),
                    !.wild = @ \/ IsWild(m.runs, ptr)]

\* A pointer that is not in the table is ignored.  The null pointer is found in
\* an empty slot: nothing is mapped, and kfree ignores it.
process_free(m, ptr) ==
  IF \A k \in Indexes : m.table[k].ptr # ptr THEN m
  ELSE LET k == CHOOSE j \in Indexes :
                  /\ m.table[j].ptr = ptr
                  /\ \A l \in Indexes : m.table[l].ptr = ptr => j <= l
       IN [m EXCEPT !.dir = paging_map_to(@, ptr, ptr, ptr + m.table[k].size, "none"),
                    !.table = process_allocation_unjoin(@, ptr),
                    !.runs = kfree(@, ptr),
                    !.wild = @ \/ IsWild(m.runs, ptr)]

\* Mutation: kfree as well as process_free for every slot.
process_terminate_allocations_twice(m) ==
  LET upto[k \in 0 .. MaxAllocations] ==
        IF k = 0 THEN m
        ELSE LET freed == process_free(upto[k - 1], upto[k - 1].table[k].ptr)
             IN [freed EXCEPT !.runs = kfree(@, m.table[k].ptr),
                              !.wild = @ \/ IsWild(freed.runs, m.table[k].ptr)]
  IN upto[MaxAllocations]

\* process_free of slot after slot.
process_terminate_allocations(m) ==
  LET upto[k \in 0 .. MaxAllocations] ==
        IF k = 0 THEN m
        ELSE process_free(upto[k - 1], upto[k - 1].table[k].ptr)
  IN upto[MaxAllocations]

\* The new values of the variables when the memory of p becomes m.
Becomes(p, m) ==
  /\ runs' = m.runs
  /\ allocations' = [allocations EXCEPT ![p] = m.table]
  /\ directory' = [directory EXCEPT ![p] = m.dir]
  /\ wild' = m.wild
------------------------------------------------------------------------------
Init ==
  /\ runs = {}
  /\ state = [p \in Procs |-> "unused"]
  /\ image = [p \in Procs |-> NullPtr]
  /\ stack = [p \in Procs |-> NullPtr]
  /\ allocations = [p \in Procs |-> [k \in Indexes |-> Empty]]
  /\ directory = [p \in Procs |-> paging_new]
  /\ wild = FALSE

\* The memory of a process just loaded, the image at i and the stack at s; the
\* program's segment is mapped for writing if its header says so.
Loaded(p, i, s, mode) ==
  [Memory(p) EXCEPT
     !.runs = @ \cup {Run(i, ImagePages), Run(s, StackPages)},
     !.dir = paging_map_to(
               paging_map_to(paging_new, PROGRAM_ADDRESS, i, i + SegmentPages, mode),
               STACK_ADDRESS, s, s + StackPages, "rw")]

\* process_load up to its last step, where the memory of the process is m.
process_load(p, i, s, m) ==
  /\ state[p] = "unused"
  /\ IsFreeRun(runs, i, ImagePages)
  /\ IsFreeRun(runs \cup {Run(i, ImagePages)}, s, StackPages)
  /\ state' = [state EXCEPT ![p] = "loaded"]
  /\ image' = [image EXCEPT ![p] = i]
  /\ stack' = [stack EXCEPT ![p] = s]
  /\ Becomes(p, m)

\* process_inject_arguments for one argument, on the memory m: a run for argv and
\* one for the string, each a page.  A null pointer is a kzalloc that found no
\* memory; argv is not given back when there is none for the string.
process_inject_arguments(m, argv, str) ==
  LET first == process_malloc(m, argv, 1)
  IN IF argv = NullPtr THEN m
     ELSE IF str = NullPtr \/ FreeIndexes(m.table) = {} THEN first
     ELSE process_malloc(first, str, 1)

\* The system call that starts a program without arguments.
isr80h_command6_process_load_start(p, i, s, mode) ==
  process_load(p, i, s, Loaded(p, i, s, mode))

\* The system call that starts a program with arguments.  When they cannot be
\* injected the process stays loaded all the same.
isr80h_command7_invoke_system_command(p, i, s, mode, argv, str) ==
  LET taken == runs \cup {Run(i, ImagePages), Run(s, StackPages)}
  IN /\ argv # NullPtr => IsFreeRun(taken, argv, 1)
     /\ str # NullPtr => IsFreeRun(taken, str, 1) /\ argv \notin {NullPtr, str}
     /\ process_load(p, i, s, process_inject_arguments(Loaded(p, i, s, mode), argv, str))

\* The file cannot be opened, or elf_load has no descriptor for it.
LoadFailsAtOpen(p) ==
  /\ state[p] = "unused"
  /\ state' = [state EXCEPT ![p] = "failed"]
  /\ UNCHANGED <<runs, image, stack, allocations, directory, wild>>

\* The file cannot be read, or there is no memory for the stack.
LoadFailsAfterImage(p, i) ==
  /\ state[p] = "unused"
  /\ IsFreeRun(runs, i, ImagePages)
  /\ state' = [state EXCEPT ![p] = "failed"]
  /\ runs' = runs \cup {Run(i, ImagePages)}
  /\ image' = [image EXCEPT ![p] = i]
  /\ UNCHANGED <<stack, allocations, directory, wild>>

\* The program cannot be mapped: only the task is freed.
LoadFailsAtMap(p, i, s) ==
  /\ state[p] = "unused"
  /\ IsFreeRun(runs, i, ImagePages)
  /\ IsFreeRun(runs \cup {Run(i, ImagePages)}, s, StackPages)
  /\ state' = [state EXCEPT ![p] = "failed"]
  /\ runs' = runs \cup {Run(i, ImagePages), Run(s, StackPages)}
  /\ image' = [image EXCEPT ![p] = i]
  /\ stack' = [stack EXCEPT ![p] = s]
  /\ UNCHANGED <<allocations, directory, wild>>

\* The system call malloc, when kzalloc returned the run at ptr.
isr80h_command4_malloc(p, ptr, n) ==
  /\ state[p] = "loaded"
  /\ IsFreeRun(runs, ptr, n)
  /\ Becomes(p, process_malloc(Memory(p), ptr, n))
  /\ UNCHANGED <<state, image, stack>>

\* The system call free, with any pointer the program makes up.
isr80h_command5_free(p, ptr) ==
  /\ state[p] = "loaded"
  /\ Becomes(p, process_free(Memory(p), ptr))
  /\ UNCHANGED <<state, image, stack>>

\* Mutation: the entry of the bounce page is not restored.
copy_string_from_task_unrestored(p, tmp) ==
  /\ state[p] = "loaded"
  /\ IsFreeRun(runs, tmp, 1)
  /\ directory' = [directory EXCEPT ![p] = paging_map_to(@, tmp, tmp, tmp + 1, "rw")]
  /\ UNCHANGED <<runs, state, image, stack, allocations, wild>>

\* copy_string_from_task, for print and for the name of a program: a page tmp of
\* the heap is mapped into the task for the copy, and its entry is put back.
copy_string_from_task(p, tmp) ==
  LET old_entry == directory[p][tmp]
      mapped == paging_map_to(directory[p], tmp, tmp, tmp + 1, "rw")
  IN /\ state[p] = "loaded"
     /\ IsFreeRun(runs, tmp, 1)
     /\ directory' = [directory EXCEPT ![p] = paging_set(mapped, tmp, old_entry)]
     /\ UNCHANGED <<runs, state, image, stack, allocations, wild>>

\* process_terminate: allocations, image and Elf_file, stack, page tables and
\* task are freed; the struct Process is not.
process_terminate(p) ==
  LET m == process_terminate_allocations(Memory(p))
      withoutImage == kfree(m.runs, image[p])
  IN /\ state[p] = "loaded"
     /\ state' = [state EXCEPT ![p] = "exited"]
     /\ runs' = kfree(withoutImage, stack[p])
     /\ wild' = (m.wild \/ IsWild(m.runs, image[p]) \/ IsWild(withoutImage, stack[p]))
     /\ allocations' = [allocations EXCEPT ![p] = m.table]
     /\ directory' = [directory EXCEPT ![p] = paging_new]
     /\ UNCHANGED <<image, stack>>

\* The loads of p, wherever kzalloc finds room.
Load(p) ==
  \/ LoadFailsAtOpen(p)
  \/ \E i \in FreeRuns(ImagePages) :
       \/ LoadFailsAfterImage(p, i)
       \/ \E s \in FreeRuns(StackPages) :
            \/ LoadFailsAtMap(p, i, s)
            \/ \E mode \in {"r", "rw"} : isr80h_command6_process_load_start(p, i, s, mode)
            \/ \E mode \in {"r", "rw"}, argv, str \in FreeRuns(1) \cup {NullPtr} :
                 isr80h_command7_invoke_system_command(p, i, s, mode, argv, str)

Next ==
  \E p \in Procs :
    \/ state[p] = "unused" /\ Load(p)
    \/ \E n \in Sizes : \E ptr \in FreeRuns(n) : isr80h_command4_malloc(p, ptr, n)
    \/ \E ptr \in Frames \cup {NullPtr} : isr80h_command5_free(p, ptr)
    \/ \E tmp \in FreeRuns(1) : copy_string_from_task(p, tmp)
    \/ process_terminate(p)

Spec == Init /\ [][Next]_vars
------------------------------------------------------------------------------
(***************************************************************************)
(* Properties.                                                             *)
(***************************************************************************)

\* The allocations that the table of p records.
Recorded(p) == {Run(allocations[p][k].ptr, allocations[p][k].size) :
                  k \in {j \in Indexes : allocations[p][j].ptr # NullPtr}}

\* The runs that belong to p.
RunsOf(p) ==
  Recorded(p)
    \cup (IF state[p] \in {"loaded", "failed"} /\ image[p] # NullPtr
            THEN {Run(image[p], ImagePages)} ELSE {})
    \cup (IF state[p] \in {"loaded", "failed"} /\ stack[p] # NullPtr
            THEN {Run(stack[p], StackPages)} ELSE {})

\* Every allocated run of user memory belongs to one process, in one role, and
\* every run a process has is allocated: nothing is lost, nothing is shared, and
\* what has exited has nothing (what a failed load leaves allocated stays its own),
\* over any sequence of loads, allocations, frees of arbitrary pointers and exits.
RunsAccounted ==
  /\ runs = UNION {RunsOf(p) : p \in Procs}
  /\ \A p, q \in Procs : p # q => RunsOf(p) \cap RunsOf(q) = {}
  /\ \A p \in Procs, j, k \in Indexes :
       j # k /\ allocations[p][j].ptr # NullPtr => allocations[p][j].ptr # allocations[p][k].ptr

\* A task can write only to frames that belong to its process: what malloc maps
\* is what free unmaps, and the bounce page of a copy is not left behind.  It
\* needs SegmentPages <= ImagePages: process_map_elf maps p_memsz bytes of a
\* block that elf_load allocated for the bytes of the file.
WriteIsolation ==
  \A p \in Procs, v \in Pages :
    state[p] = "loaded" /\ directory[p][v].mode = "rw" =>
      \E r \in RunsOf(p) : directory[p][v].frame \in FramesOf(r)

\* A process can use all of what malloc gave it.
AllocationsMapped ==
  \A p \in Procs :
    state[p] = "loaded" =>
      \A r \in Recorded(p) : \A f \in FramesOf(r) :
        directory[p][f] = [frame |-> f, mode |-> "rw"]

\* kfree is only ever called with the start of an allocated run or with 0: no
\* pointer is freed twice and none that a program makes up is freed at all.
NoWildFree == ~wild
==============================================================================
