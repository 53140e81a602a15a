# A verification project for BimbleOS

BimbleOS is a small 32-bit x86 kernel: a block heap, paging, a linked list of
tasks that the clock interrupt steps through, a process table, system calls
through `int 0x80`, a PS/2 keyboard driver, and a FAT16 reader. This directory
holds TLA+ modules that model its parts, TLC configurations that check them on
small instances, and TLAPS proofs of the central properties for every size.

Paths below are relative to `src/src/`.

## 1. The system

| Component | State | Operations | Interacts with |
|---|---|---|---|
| Kernel heap (`memory/heap`) | one table byte per 4096-byte block | `kmalloc`, `kzalloc`, `kfree` | everything that allocates |
| Tasks (`task/task.c`, `task.asm`) | doubly linked list, `task_head`, `task_tail`, `current_task`, saved registers | `task_new`, `task_free`, `task_next`, `task_switch` | clock, processes, paging |
| Processes (`task/process.c`) | table of 12 slots, `current_process`, per process: task, allocations, program, stack, keyboard ring, arguments | `process_load_switch`, `process_terminate`, `process_malloc`, `process_free`, `process_inject_arguments` | heap, paging, tasks, loader, keyboard |
| Interrupts (`idt`) | handler tables | clock, exceptions, keyboard, `int 0x80` | tasks, keyboard, system calls |
| System calls (`isr80h`) | command table | sum, print, getkey, putchar, malloc, free, load, run command, arguments, exit | all of the above |
| Keyboard (`keyboard`) | a ring per process, caps lock | `keyboard_push`, `keyboard_pop`, the scancode interrupt | `current_process`, `current_task` |
| Paging (`memory/paging`) | page directories | `paging_new`, `paging_map_to`, `paging_free` | tasks, processes |
| Files (`fs`) | file systems, 512 descriptors, FAT16 state per disk | `fopen`, `fread`, `fseek`, `fstat`, `fclose` | disk stream, heap |
| Disk stream (`disk`) | position | `diskstreamer_seek`, `diskstreamer_read` | disk |
| ELF loader (`loader/format`) | loaded image | `elf_load`, `elf_close` | files, heap |
| Terminal (`kernel.c`) | row, column, video memory | `terminal_writechar`, `print` | system calls |
| User library and shell (`programs`) | the line, `strtok`'s pointer | `bimbleos_terminal_realine`, `bimbleos_parse_command` | system calls |

**Concurrency.** There is one processor, and every gate of the interrupt table
is an interrupt gate (`idt_set`: type 0xEE), so the kernel is never interrupted:
a handler or system call runs to its `iret` and is one atomic action.
`task_return` sets the interrupt flag, so in user mode the clock and the
keyboard interrupt at any instruction. The hard behaviours are therefore
*sequences*: in which order processes are loaded and exit, at which stage a load
fails, how the heap is fragmented, where the keyboard and the processor are when
a key arrives, what another program writes between two characters of the shell.

**What makes each part right.** The heap: no block given out twice, nothing
lost, first fit, every call returns. The task list: it holds exactly the
allocated tasks, in load order, and never a freed one; every task gets the
processor. The process table: in step with the tasks; the keyboard belongs to a
process that exists. The keyboard: order, no loss, no duplication, no misdirected
read. Interrupts: a task resumes with what it had, and never sees what another
task computed. Files: a descriptor delivers the bytes of its file, whatever was
read through others, and gives back what it took. The loader: a segment is found
at its address and nothing else is mapped. The shell: the screen shows the line
that runs. These and what can break them are the `hazards` of `PROJECT.json`.

## 2. Modules

| Module | Models | Extends / instantiates |
|---|---|---|
| `Allocator` | what the heap promises: runs of blocks with one owner | |
| `Heap` | `heap.c`, `kheap.c`, one action per iteration of the scan | refines `Allocator` |
| `HeapProofs` | theorems about `Heap` | `Heap`, `TLAPS` |
| `RoundRobin` | what the scheduler promises: tasks in load order, each in its turn | |
| `Tasks` | `task.c`, `process.c`, the clock, the exceptions, load and exit | refines `RoundRobin` |
| `TasksProofs` | theorems about `Tasks` and `Console` | `Console`, `TLAPS`; instantiates `KeyboardProofs` |
| `KeyQueue` | what the keyboard promises: a queue per process | |
| `Keyboard` | `keyboard.c`, `classic.c`, the read of a key | refines `KeyQueue` |
| `KeyboardProofs` | theorems about `Keyboard` | `Keyboard`, `TLAPS` |
| `Console` | tasks and keyboard together | `Tasks`, `Keyboard`; refines `Keyboard` |
| `ProcessMemory` | image, stack, allocations and page directory of processes | |
| `ProcessMemoryProofs` | theorems about `ProcessMemory` | `ProcessMemory`, `TLAPS` |
| `DiskStream` | `disk.c`, `streamer.c` as functions of a position | |
| `Fat16` | `fat16.c` as functions of a volume | `DiskStream` |
| `Files` | `pparser.c`, `file.c` as functions of the descriptor table | `Fat16` |
| `Loading` | the file calls and the loads of programs as a state machine; `elfloader.c`, `process_load_data`, `process_map_elf` | `Files` |
| `Recursion` | definitions by recursion, which the proofs unfold | `TLAPS` |
| `LoadingProofs` | theorems about `Loading` and the layers below it | `Loading`, `TLAPS`; instantiates `Recursion` |
| `Terminal` | the terminal of `kernel.c` as functions | |
| `Shell` | the shell, its line editor and its command parser, on a terminal others write to | `Terminal` |
| `ShellProofs` | theorems about `Shell` and `Terminal` | `Shell`, `TLAPS`; instantiates `Recursion` |
| `Context` | gates, handlers, dispatch of system calls, saved registers, the switch from task to task | |
| `ContextProofs` | theorems about `Context` | `Context`, `TLAPS` |
| `MCHeap`, `MCTasks`, `MCKeyboard`, `MCConsole`, `MCProcessMemory`, `MCLoading`, `MCShell`, `MCContext` | finite instances for TLC | |

Definitions keep the names of the functions they model; `PROJECT.json` gives the
lines of each. A definition named `f_something` with the comment "Mutation" is
the form that `f` would have with a plausible bug. No specification uses it: it
is there to show that a property can fail, and each property has one.

### Heap

`entries` is the block table, a set of flags per block; `i`, `blockCount` and
`blockStart` are the locals of `heap_get_start_block`, and `held` what each
client was given. A loop iteration is an action (`ScanTaken`, `ScanFree`), so the
loop invariant can be stated and proved. Sizes and the index of
`heap_mark_blocks_free` are unsigned and wrap at `SizeRange`: this is why
`kfree(0)` does no harm. `spill` records the writes of `heap_mark_blocks_taken`
that miss the table.

`Allocator` is deliberately weak in one point, the short tail (finding 1), so
that the refinement states what the code does and the finding is the difference
between that and what its callers expect.

### Tasks

`list.at[a]` is the memory of the `struct Task` at address `a`. It keeps its
contents when the task is freed, and the address may be used again, so a dangling
link is followed as the processor would follow it. A handler is one action, from
its entry to the return to user mode: `Exit` is `process_terminate` with
everything it calls, and then `task_next`. `mode` says how the handler ended:
back in user mode, in `panic`, or by going on with a freed (`"stale"`) or a null
(`"null"`) task, where the model stops because the code's behaviour is undefined.
`dangled` is a history variable: it becomes true when `task_list_remove` follows
a `prev` link that does not lead to the previous task. `ListIntact` and the
refinement promise nothing after that (finding 2 is that it happens).

Init is the state at the end of `kernel_main`: the two processes it loads, and
the first task running.

### Keyboard and Console

`keyboard[p]` is the ring of process `p` with counters that only grow and wrap at
`CounterRange`. `classic_keyboard_handle_interrupt` reads a scancode, drops key
releases, toggles caps lock, translates and pushes to the ring of
`process_current()`; `isr80h_command2_getkey` pops from the ring of
`task_current()->process`. Alone, `Keyboard` lets the scheduler move both freely
(`Schedule`, external); `Console` replaces this by the real scheduler and shows
that the composition implements `Keyboard`, so what was shown of the ring under
an arbitrary scheduler holds under this one. The scan table is data: the models
use a few keys of each class, and the scancode one past the table, which the
comparison `scancode > size` lets through.

### ProcessMemory

Memory is counted in pages, which are as long as heap blocks. `runs` are the
allocated runs that hold user memory, `allocations[p]` the table of `process_malloc`,
`directory[p]` the page directory as a map from pages to a frame and a mode
(`"rw"`, `"r"`, or `"none"` for the flags 0 that `process_free` leaves). The heap
may give any free run: this includes what `heap.c` does around kernel structures
the model leaves out. A load fails at three points, which differ in what is
allocated by then. `wild` records a `kfree` of a pointer that is not allocated.

### DiskStream, Fat16, Files and Loading

The four modules are the layers of a load, from sectors to mapped pages. The
lower three are functions, as the code is: no call of theirs is interrupted, so a
call is one step, and a load, which makes several, composes them. `Loading` holds
the state between calls (`fs`: the descriptor table and the position of the shared
stream; `disk`: what `fs_resolve` found) and an action per call.

A byte is represented by its *place* on the disk. What a read answers is thus the
sequence of places it delivered, and `ReadsTheFile` compares it with the places
that the definition of FAT16 gives (`FileByte`), a reference that shares nothing
with the code but the header. A volume is a function from places to the directory
item, the FAT word or the program that starts there; what the code takes for a
FAT entry where there is none is the word `fill`, which differs between volumes. A
sector that the drive does not have makes `disk_read_sector` wait for ever
(`hung`); so does a position that left the disk by overflow. `grown` counts the
heap blocks that a call takes or gives back, which is what `HeapBalanced` is
about, and `stray` that it touched memory nobody gave it.

`mem` is whether the allocation of the file's descriptor or item succeeds, and
`again` whether the second `fopen` of a flat binary does. The allocations that the
code does not test (path parts, the copy of a directory item) are taken to
succeed. The high word of a cluster number is 0, as FAT16 has it. A path is the
sequence of its tokens, so names are compared as wholes; the padding and the dot
of names in 8.3 form are part of the name.

Properties quantify over every call that could be made next in each reachable
state, so a call need not change the state to be examined.

### Terminal and Shell

`terminal` is row, column and the cells of the screen; what is written outside
the screen is not kept, but the cursor moves as the code moves it, also to the
column -1 that a backspace over the end of a row leaves. Colours are left out.

Every system call of the shell is a step: each character of an echo or of a
`printf` (`isr80h_command3_putchar`), and each read of a key. Between any two,
another program may print and keys may be typed, up to the capacity of the ring
(after which `Keyboard` says what happens). `line` is the buffer before index `i`;
`bimbleos_terminal_realine` is a turn of its loop. `strtok` is modelled with its
static pointer `sp`, an offset into `scommand`, because it survives a command
that ran out of memory; what it finds behind the end of a later, shorter line is
`Garbage`. The cut of an argument at 512 bytes is left out.

### Context

A register value is known by who computed it and for which register (`Value`), so
that a value that is lost, mixed up or shown to another task is seen. `cpu` are
the registers in user mode, `registers[t]` what `struct Task` keeps, `page` the
directory that is loaded, and `left[t]`, a history variable, what the task had
when it left user mode. Gates, callbacks and commands are the tables that
`idt_init` and `isr80h_register_commands` fill; which interrupt comes next is
arbitrary, and an exception may push an error code that shifts the frame.
`task_return` restores as `task.asm` does: with the base pointer of the kernel,
and with the interrupt flag set. Which task follows is the subject of `Tasks`; here
it is any of the list. A division by zero ends in mode `"ring0"`, where the
program goes on with the rights of the kernel, and the model stops.

## 3. Runs

| Run | Result | What it shows |
|---|---|---|
| `heap` | holds | `NoOverlap`, `TableMatchesHeld`, `FirstFit` and the loop invariant `ScanInv`, over every order of allocations and releases; `Heap` implements `Allocator`; every `kmalloc` returns |
| `heap_tail` | **violated** | finding 1: a too short tail is given out |
| `tasks` | holds | table, tasks and keyboard focus stay in step; the list is intact until a dangling link is used, and up to there `Tasks` implements `RoundRobin`; each loaded process runs again and again |
| `tasks_prev` | **violated** | finding 2: a `prev` link to a freed task |
| `keyboard` | holds | each ring with wrapping counters is a queue until it is overrun, with processor and keyboard focus moving independently |
| `console` | holds | tasks and keyboard together implement `Keyboard` |
| `memory` | holds | owners of memory, isolation of writes, mapping of allocations, no wild `kfree` |
| `files` | holds | each call opens the right item (`OpensTheItem`), reads the right bytes within the first cluster (`ReadsTheFile`, `LoadsTheFile`), leaves other descriptors alone (`DescriptorsStable`) and gives back its memory and its descriptor (`HeapBalanced`, `LoadsCloseFiles`), with the exceptions the properties name; a loaded program is mapped where its headers say and nowhere else (`ImageMapped`, `OwnPages`) |
| `fat_chain` | **violated** | finding 3: a read in the second cluster delivers bytes of another |
| `shell` | holds | the screen shows the line (`EchoMatchesLine`), a backspace undoes (`BackspaceUndoes`), the line runs word by word (`RunsTheLine`), every key is read (`KeysRead`) |
| `context` | holds | what is kept for a waiting task is what it left with (`SavedIntact`), it resumes with it (`ResumedIntact`), nobody runs with another's registers or directory (`RunsAsItself`), calls read the stack of their caller (`ArgumentsOfCaller`) |
| `context_base` | **violated** | finding 4: after a switch the base pointer is the kernel's |

**Bounds.** Heap: five blocks of four bytes and requests of 1, 1, 2 and 3 blocks
by three clients give every fragmentation with two holes, an exact fit, a rounded
size, a full heap and a tail that is too short. Tasks: four addresses and up to
five loads let an address be used again by another task while links to the first
remain; four processes are enough for a middle, a first and a last task to exit
in each order. Keyboard: rings of two and counters that wrap after four show
wrap-around of the index, of the counter, a full ring and an overrun; the
buffer size divides the range, as 1024 divides 2^32. Console: three loads and a
ring of one. Memory: five frames, two processes with an image and a stack of one
page each and two allocations of one or two pages: a frame passes from one
process to the other in every role, the table fills, and memory runs out.
Files: sectors of four bytes, two to a cluster, items of two, and volumes with a
directory, a file of two clusters that are not neighbours, an unused item, a full
root directory that is counted on into file data, and one that is not FAT16; reads
end inside, at and behind the end of a sector; three descriptors fill up, and the
third is the one nothing can close. Programs: two segments in either order, one
that does not start at a page, and a `.bss` behind the end of the file. Shell: a
screen of three rows of three cells, a line of four bytes and five keys, so that
lines wrap, backspaces cross rows, the line fills and allocations run out.
Context: two tasks, two values for each register and one interrupt of each kind.

**Deadlock** is checked in the heap, keyboard and shell runs. The others turn it off
because the system really stops: the kernel panics when the last process exits,
and the models stop where behaviour is undefined, or where the kernel waits for
the drive for ever.

**Fairness.** `KmallocReturns` assumes weak fairness of the steps of a running
`kmalloc`: the kernel is not preempted. `EveryProcessRuns` assumes weak fairness
of `idt_clock`: `task_return` sets the interrupt flag in the frame it returns
through, so user code is interrupted by every tick. It concludes for runs with
finitely many loads (`MaxLoads`): with loads and exits forever, an exit skips its
successor (`task_list_remove` moves `current_task` on, and then `task_next` does
again), and a task can be passed over each time. `KeysRead` assumes weak fairness
of the shell's steps: the scheduler comes back to each loaded process, which is
what `EveryProcessRuns` says, and a system call ends.

## 4. Findings

1. `heap.c:182`: the scan returns a free tail that is shorter than the request.
2. `task.c:33`: `task_list_remove` does not set `next->prev`.
3. `fat16.c:290`: the place of a FAT entry is computed by a product instead of a
   sum, so a file is delivered right only in its first cluster.
4. `task.asm:69`: the saved `ebp` is overwritten on the way back to user mode.

Other behaviour worth knowing, which the models have and the properties exclude
by name:

- A request of 0 bytes is given a block that stays free (`heap.c:226`);
  `HeapNoOverlap` is stated for requests of at least one block.
- `current_process`, "The current process that is running" (`process.c:13`), is the
  one loaded last, or the lowest slot after an exit; neither the clock nor
  `task_switch` changes it. `Tasks` keeps it apart from the running task.
- A full ring is overwritten and its head stays (`keyboard.c:83`); `RingIntact` and
  the refinement speak of rings that were never overrun.
- A failed load frees nothing but the task (`process.c:276`).
- The descriptor with the largest number can be neither read nor closed
  (`file.c:103`); a parsed path is never released (`file.c:179`); unused items shift the
  last items of a directory out of the search (`fat16.c:503`); a missing directory
  below the root is read as an item at address 0 (`fat16.c:530`).
- A backspace on an empty line becomes a byte of the line (`bimbleos.c:38`).

## 5. Proofs

TLAPS proves these for every value of the constants that satisfies the
assumptions named in the modules. Each assumption is evaluated by TLC in a run.
`HeapAssumption`, `TasksAssumption`, `KeyboardAssumption`, `MemoryAssumption`,
`DiskStreamAssumption`, `TerminalAssumption` and `ContextAssumption` say that sizes
are positive, null is no address and a ring's size divides the range of its
counters (1024 and 2^32); `ShellAssumption`, that a blank is a letter and that the
three control keys are not; `FilesAssumption`, `VolumesAssumption` and
`HeadersAssumption`, that paths are sequences of names, that what lies on a volume
are directory items and words (`DirectoryItem` has the fields the code uses), and
that the fields of program headers are not negative (`p_offset` is the one that is
signed, and the code does not test it: a linker writes no negative one); `Fat16Assumption`, that the
clusters 0 and 1 would still lie on the disk: a deleted or foreign item may have
them, and with the numbers of `boot.asm` (128 sectors per cluster, 200 reserved, two
FATs of 256) they do.

`HeapProofs`:
- `HeapTypeCorrect`: `TypeOK` is inductive.
- `HeapNoOverlap`, `HeapTableMatchesHeld`, `HeapScanInv`, `HeapFirstFit`, for requests of at
  least one block (`PositiveRequests`; section 4 says why it is needed). None of
  them is inductive: the new allocation does not overlap because the scan found
  free blocks, and blocks that are free are held by nobody because the table
  matches. The inductive invariant `HeapInv` is their conjunction with `ScanInv`,
  which says that no run that is long enough starts before the scan's current run,
  and that `blockStart` and `blockCount` describe the free run that ends at `i`;
  and `HeldPositive`, that no allocation is empty. `ReleasesWhatIsHeld` shows that
  the `HAS_NEXT` chain from the first block is exactly the allocation, which is
  what a release needs.
- `HeapRefinesAllocator`: initial states and steps of `Heap` are those of
  `Allocator`, by the same invariant and `LengthInv` (the requested number of
  blocks is one of the lengths).

`TasksProofs`:
- `TasksTypeCorrect`, `TableInStep`, `FocusAlwaysLoaded`, from `TasksInv`. Its
  extra conjunct, `CurrentAllocated`, is that a task in user mode is allocated:
  an exit frees the task of the process that runs, and without it the table could
  lose a process whose task stays. The proof does not assume that the list is
  intact, so these three hold also after finding 2 has struck.
- `ListStaysIntact`, from `ListInv`: until a dangling link is followed, the allocated
  tasks are ordered (`Ordered`): `next` leads from each to the one after it, and
  `prev` leads from each to the one before it, or to an address that is free or was
  taken again by a *later* task. The last alternative is what finding 2 leaves
  behind and why the list does not break at once. `OrderNew` and `OrderRemove`
  are the two list operations on such an order.
- `ImplementsRoundRobin`: `Ready`, the queue of the refinement mapping, is that
  order, and each handler is the step of `RoundRobin` of its name or a stutter.
- `ConsoleImplementsKeyboard`: every step of the composition is a step of
  `Keyboard` or leaves it alone; it needs `TasksInv`, so that there is always a
  process with the keyboard and a process that runs. `ConsoleImplementsQueues`
  applies the theorem about `Keyboard` to it.

`KeyboardProofs`:
- `RingsIntact`, from `KeyboardInv`: `RingIntact` with types. `PushRing` and `PopRing`
  say what a push and a pop do to the slots from head to tail when the counters
  wrap, which is where the divisibility in `KeyboardAssumption` is used.
- `ImplementsKeyQueue`: a push appends to the sequence of waiting characters, a pop
  takes its head (`WaitingPush`, `WaitingPop`).

`ProcessMemoryProofs`:
- `EveryRunAccounted`, `AllocationsStayMapped`, `NeverWild`, and `WritesIsolated`,
  from `MemoryInv`. `Accounted` relates the allocated runs to what each process
  holds: runs do not overlap, and each is held once. `Mapped` says more about the
  directory than the properties: frames are mapped to themselves, and the writable
  ones are exactly the recorded allocations. `High` says where the writable pages
  above the heap lead. Without `Accounted` a `free` could unmap pages of a second
  allocation; without `Mapped` a `free` could leave a page writable that the heap
  gives to another process. `WritesIsolated` has the hypothesis
  `SegmentPages <= ImagePages`, a program whose segment is no longer than its file:
  `process_map_elf` maps `p_memsz` bytes of a block that was allocated for the file.

`ShellProofs`:
- `ShellTypeCorrect`, `EchoAlwaysMatches` and `BackspaceAlwaysUndoes`, from
  `ShellInv`. `EchoMatchesLine` is only about the moments when the echo is complete;
  `Echoing` says in between that the screen and the characters still to be written
  make up the line. It works on the place of the cursor in the screen read as one
  line (`Cursor`), where a backspace is the inverse of a character also when the
  column is negative.
- `LinesRun`: the loops of the parser are unfolded; `strtok` moves from the boundary
  of one word to that of the next (`Boundary`, `EndsBefore`, `NextWord`), and the
  arguments parsed so far are the words that end before it (`ParseWords`).

`LoadingProofs`:
- `DescriptorsKept` and `LoadsAlwaysClose` need of a state only that there is a table
  (`Table`), so they hold whatever the disk holds: every call is an answer that
  changes at most one slot, and each way out of a load closes the one it opened.
- `LoadingTypeCorrect`, from `LoadingInv`: the volume is formatted, the descriptors
  are of items that can be read, and the root directory was read before anything is
  opened. The proof follows every call down to the sectors.
- `ReadsAreOfTheFile`, by the layers of the code: what `diskstreamer_read` delivers
  are the places from its position on, however many sectors it crosses
  (`StreamReads`); the same for `fat16_read_internal` from an offset in the first
  cluster (`InternalReads`), for the elements of `fat16_read`, and so for `fread`
  (`FileReads`), whoever moved the shared stream before. Hypothesis `FilesOnDisk`: the
  first cluster of every item lies on the disk.
- `MapsOwnPages` and `SegmentsInPlace`: `process_map_elf` is a sequence of maps, one
  for each header; a page that a header maps is below the end of its memory
  (`MapsBelow`) and stays mapped unless a later header maps it (`MapsKept`), and the
  rounding of addresses keeps the offset in the page (`ByteMapped`). Hypothesis of the
  second, `SegmentsApart`: what a linker does, see its definition.
- `OpensWhatIsNamed` goes through `fopen` from the path to the slot it fills.
  *Reading a directory*: the count of the items up to the end mark decides how many
  items are kept, and what is kept lists the directory (`Counted`, `Lists`), so a
  match of a name is an item of the directory at its place (`MatchIsEntry`), and an
  item is found if no unused one shifts it out (`EntryIsMatch`, `Finds`). *The path*:
  the parser's recursion yields the names between the slashes (`PartsAreNames`). *The
  walk*: after `k` parts the search is at what the first `k` names lead to, which
  is one item at most (`LeadsToOne`, from `NamesApart`), or it broke off, with no item
  (`Way`, `Off`), by induction on `k` (`WayStarts`, `WayGoesOn`, `WayOf`).
  `FopenedOf` combines them: `fopen` gives a descriptor of the item
  (`Gives`) or none (`Denies`), and says in which cases.
- `BalancesHeap`: `Held` is a sum over the open slots; a slot that is filled
  or closed changes one summand, which is proved of the fold that sums (`Summing`). The
  directory of a search is held by the item it leads to, since names differ in a
  directory: the sum over the items that match has one term.
- `LoadsByteForByte`: a load is its open and a fixed sequence of calls (`ElfLoadIs`,
  `BinaryLoadIs`), the open gives the item named, at its beginning, and its read
  is one element of the size that `fstat` told (`FreadDelivers`).
- `StrayOnlyOnTheWay`: the two places where memory that nobody gave is touched are the
  walk's item at address 0 and the error path of `process_load_binary`. The second is
  reached only if the second `fopen` of the file fails or its `fstat` does. It does not:
  the shared stream has moved and the descriptors have been through a load, but a
  directory reads alike from anywhere (`EntryAlike`), and the slots are as before.

The last four have the hypotheses `FilesOnDisk`; `DirectoriesEnd`, a directory below
the root has its end mark in its cluster (without one the count of items runs
on along the disk, and the read of them follows the FAT); `NamesApart`, no
two items of a directory have one name; and `PathsSplit`, paths of at
most `MaxPath` tokens whose names are separated by one slash. Who
fills the volume sees to the first three; `fat16.c` checks none of them. TLC evaluates the
hypotheses of all these theorems on the instance of `MCLoading`.

`ContextProofs`:
- `ContextTypeOK`, `WaitingTasksKeepRegisters`, `TasksResumeIntact`,
  `TasksRunAsThemselves` and `CallsReadTheirCaller`, for any number of tasks and
  any interrupt table. The inductive invariant `ContextInv` adds `LeftOwned` to the
  four checked invariants: what a waiting task left with is its own. Without it a
  switch could resume a task with registers that were kept exactly and were never
  its own, and `RunsAsItself` would not survive the step. `Kept`, a lemma's
  hypothesis, is what every handler establishes before it resumes or returns, so
  each of the eight kinds of interrupt is proved by the same two lemmas
  (`ResumeStep`, `ReturnStep`).

**Loops.** The loops of the code are recursive functions of the model. The definition
of such a function says nothing to the prover until a function is known to satisfy
its equation. `Recursion` proves that one does (`RecursionDefines`) when every call
is for a smaller argument, and that a nonempty set of numbers has a least element
(`LeastNumber`). Proofs by induction are then by a least counterexample: the
library's induction theorems take an operator as a parameter and cannot be used.
`LoadingProofs` and `ShellProofs` instantiate it once for each loop, with the body of
the loop and a number that it counts down.

**Only model-checked.** Liveness (`KmallocReturns`, `EveryProcessRuns`, `KeysRead`),
which this prover does not do, and the fairness and `ENABLED` it rests on. The
findings are counterexamples and stay with TLC. Every invariant that a passing run checks is
also a theorem.

## 6. What is not modelled

- What happens after undefined behaviour: a null or freed task in use, writes
  past the block table, an `elf_memory` of 0, a flat binary once it is loaded
  (`process_load_binary` leaves `filetype` at ELF, so the pointer to the program is
  used as an `Elf_file`), code that runs after a division by zero.
- A boot that fails (`kernel.c:208` to `231`): the result of the first load is
  overwritten by the second, and what follows works on address 0.
- Port I/O, the boot sector, GDT and TSS: straight-line code that runs once.
- The string and memory functions of kernel and library, `itoa` and `printf` of
  numbers: loops without state; what the callers use of them is in the callers.
- Page tables as heap blocks, and `paging_free`.

## 7. Plan

Done: heap, tasks, keyboard, console, process memory, files and loading, terminal
and shell, interrupts and registers; proofs about each of them. Left, in this order:

1. `Context` composed with `Tasks`, so that the task that follows is the list's.
2. `itoa`, the kernel's string functions and the encoding of descriptors as
   operators against reference definitions.
3. `OpensWhatIsNamed` for paths with repeated slashes and directories with items of
   one name: a reference that says which of them the code finds.

To run a check: `tlc -config MCHeap.cfg MCHeap`; to check proofs: `tlapm
HeapProofs.tla`.
