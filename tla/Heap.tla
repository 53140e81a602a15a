-------------------------------- MODULE Heap --------------------------------
(***************************************************************************)
(* The kernel heap (src/memory/heap/heap.c, kheap.c): a first-fit block    *)
(* allocator whose only state is a table with one byte per 4096-byte       *)
(* block.  A table byte is modelled as the set of its flags, so |= is      *)
(* \cup and a byte of 0x00 is {}.                                          *)
(*                                                                         *)
(* The scan of heap_get_start_block is modelled iteration by iteration:    *)
(* its loop invariant is what makes the allocator right.  Nothing else     *)
(* runs between the iterations, because the kernel runs with interrupts    *)
(* off (every gate is an interrupt gate).                                  *)
(*                                                                         *)
(* Addresses are counted in blocks: the heap starts at Saddr, and the      *)
(* pointer to block b is Saddr + b.  0 is the null pointer.                *)
(***************************************************************************)
EXTENDS Integers

CONSTANTS
  TotalEntries,  \* heap_table.total_entries
  BlockSize,     \* BIMBLEOS_HEAP_BLOCK_SIZE
  SizeRange,     \* size_t and uint32_t count modulo this (2^32 on i686)
  Saddr,         \* heap->saddr, in blocks
  Requests,      \* the sizes in bytes that clients ask for
  Clients        \* kernel code that holds the result of one kmalloc

ASSUME HeapAssumption ==
  /\ TotalEntries \in Nat \ {0}
  /\ BlockSize \in Nat \ {0}
  /\ SizeRange \in Nat \ {0}
  /\ SizeRange % BlockSize = 0
  /\ Saddr \in Nat \ {0}
  /\ Requests \subseteq 0 .. SizeRange - 1
  \* The table, and the block number computed for the null pointer, are
  \* far apart in the range of size_t.
  /\ TotalEntries + Saddr <= SizeRange
  \* A block number plus a request in blocks does not wrap around.
  /\ TotalEntries + (SizeRange \div BlockSize) <= SizeRange

VARIABLES
  entries,       \* the heap table: entries[b] is the flag set of block b
  spill,         \* table indexes outside the table that have been written
  pc,            \* "idle", or where the running kmalloc is
  caller,        \* the client whose kmalloc is running
  total_blocks,  \* parameter of heap_malloc_blocks
  i,             \* heap_get_start_block: the block looked at
  blockCount,    \* heap_get_start_block: length of the current free run
  blockStart,    \* heap_get_start_block: its first block, or -1
  held           \* held[c]: what c got from kmalloc and has not freed

scan == <<caller, total_blocks, i, blockCount, blockStart>>
vars == <<entries, spill, pc, scan, held>>

TAKEN    == "TAKEN"      \* HEAP_BLOCK_TABLE_ENTRY_TAKEN
HAS_NEXT == "HAS_NEXT"   \* HEAP_BLOCK_HAS_NEXT
IS_FIRST == "IS_FIRST"   \* HEAP_BLOCK_IS_FIRST
FREE     == {}           \* HEAP_BLOCK_TABLE_ENTRY_FREE
Flags    == {TAKEN, HAS_NEXT, IS_FIRST}

HeapBlocks == 0 .. TotalEntries - 1

\* A client holds nothing, or a block number and the number of blocks it
\* asked for.
Nothing == [block |-> -1, blocks |-> 0]
Allocations == [block : HeapBlocks, blocks : Nat]
------------------------------------------------------------------------------
(***************************************************************************)
(* The helpers of heap.c.                                                  *)
(***************************************************************************)

\* entry & 0x0f: only the TAKEN bit is in the low nibble.
IsFree(entry) == TAKEN \notin entry

heap_align_value_to_upper(size) ==
  IF size % BlockSize = 0
    THEN size
    ELSE (size - (size % BlockSize) + BlockSize) % SizeRange

\* heap_malloc: the number of blocks for a request of size bytes.
BlocksFor(size) == heap_align_value_to_upper(size) \div BlockSize

heap_block_to_address(b) == Saddr + b

heap_address_to_block(address) == address - Saddr

\* Mutation: the end of the run is the block after it.
EndBlock_past(start, n) == (start + n) % SizeRange

\* end_block is a size_t: for start = 0 and n = 0 it is the largest one.
EndBlock(start, n) == (start + n - 1) % SizeRange

\* Mutation: the last block of the run is not marked.
heap_mark_blocks_taken_short(table, start, n) ==
  [b \in HeapBlocks |->
     (IF b = start THEN {IS_FIRST} ELSE table[b])
       \cup (IF start <= b /\ b < EndBlock(start, n) THEN {TAKEN, HAS_NEXT} ELSE {})]

\* entries[start] is assigned, the others are or-ed.
heap_mark_blocks_taken(table, start, n) ==
  [b \in HeapBlocks |->
     (IF b = start THEN {IS_FIRST} ELSE table[b])
       \cup (IF start <= b /\ b < EndBlock(start, n) THEN {TAKEN, HAS_NEXT} ELSE {})
       \cup (IF b = EndBlock(start, n) THEN {TAKEN} ELSE {})]

\* The same loop's writes that miss the table.
WritesPastTable(start, n) == TotalEntries .. EndBlock(start, n)

\* The blocks the loop of heap_mark_blocks_free visits: it goes on from a
\* block to the following one while HAS_NEXT is set and the table lasts.
\* The starting block is converted to size_t first.
ReleasedFrom(table, starting_block) ==
  {b \in HeapBlocks :
     /\ starting_block % SizeRange <= b
     /\ \A j \in starting_block % SizeRange .. b - 1 : HAS_NEXT \in table[j]}

\* Mutation: only the first block is released.
heap_mark_blocks_free_first(table, starting_block) ==
  [b \in HeapBlocks |-> IF b = starting_block % SizeRange THEN FREE ELSE table[b]]

heap_mark_blocks_free(table, starting_block) ==
  [b \in HeapBlocks |->
     IF b \in ReleasedFrom(table, starting_block) THEN FREE ELSE table[b]]
------------------------------------------------------------------------------
(***************************************************************************)
(* heap_create leaves every entry free; no kmalloc is running.             *)
(***************************************************************************)
Init ==
  /\ entries = [b \in HeapBlocks |-> FREE]
  /\ spill = {}
  /\ pc = "idle"
  /\ caller \in Clients
  /\ total_blocks = 0
  /\ i = 0
  /\ blockCount = 0
  /\ blockStart = -1
  /\ held = [c \in Clients |-> Nothing]

\* kmalloc and kzalloc, as far as the start of the scan.
kmalloc(c, size) ==
  /\ pc = "idle"
  /\ held[c] = Nothing
  /\ pc' = "scan"
  /\ caller' = c
  /\ total_blocks' = BlocksFor(size)
  /\ i' = 0
  /\ blockCount' = 0
  /\ blockStart' = -1
  /\ UNCHANGED <<entries, spill, held>>

\* Mutation: the run still starts before the taken block.
ScanTaken_keeps_start ==
  /\ pc = "scan"
  /\ i < TotalEntries
  /\ ~IsFree(entries[i])
  /\ blockCount' = 0
  /\ i' = i + 1
  /\ UNCHANGED <<entries, spill, pc, caller, total_blocks, blockStart, held>>

\* Mutation: continue skips the increment.
ScanTaken_stays ==
  /\ pc = "scan"
  /\ i < TotalEntries
  /\ ~IsFree(entries[i])
  /\ blockCount' = 0
  /\ blockStart' = -1
  /\ UNCHANGED <<entries, spill, pc, caller, total_blocks, i, held>>

\* An iteration of heap_get_start_block at a block that is taken.
ScanTaken ==
  /\ pc = "scan"
  /\ i < TotalEntries
  /\ ~IsFree(entries[i])
  /\ blockCount' = 0
  /\ blockStart' = -1
  /\ i' = i + 1
  /\ UNCHANGED <<entries, spill, pc, caller, total_blocks, held>>

\* Mutation: the run starts after the free block that was found.
ScanFree_starts_late ==
  /\ pc = "scan"
  /\ i < TotalEntries
  /\ IsFree(entries[i])
  /\ blockStart' = IF blockStart = -1 THEN i + 1 ELSE blockStart
  /\ blockCount' = blockCount + 1
  /\ IF blockCount + 1 = total_blocks
       THEN pc' = "scanned" /\ i' = i
       ELSE pc' = "scan" /\ i' = i + 1
  /\ UNCHANGED <<entries, spill, caller, total_blocks, held>>

\* Mutation: the scan breaks off one block early.
ScanFree_breaks_early ==
  /\ pc = "scan"
  /\ i < TotalEntries
  /\ IsFree(entries[i])
  /\ blockStart' = IF blockStart = -1 THEN i ELSE blockStart
  /\ blockCount' = blockCount + 1
  /\ IF blockCount + 2 >= total_blocks
       THEN pc' = "scanned" /\ i' = i
       ELSE pc' = "scan" /\ i' = i + 1
  /\ UNCHANGED <<entries, spill, caller, total_blocks, held>>

\* An iteration at a free block: the run grows, and the scan breaks off
\* when it is as long as the request.
ScanFree ==
  /\ pc = "scan"
  /\ i < TotalEntries
  /\ IsFree(entries[i])
  /\ blockStart' = IF blockStart = -1 THEN i ELSE blockStart
  /\ blockCount' = blockCount + 1
  /\ IF blockCount + 1 = total_blocks
       THEN pc' = "scanned" /\ i' = i
       ELSE pc' = "scan" /\ i' = i + 1
  /\ UNCHANGED <<entries, spill, caller, total_blocks, held>>

\* The loop condition fails.
ScanEnd ==
  /\ pc = "scan"
  /\ i = TotalEntries
  /\ pc' = "scanned"
  /\ UNCHANGED <<entries, spill, scan, held>>

\* heap_get_start_block returned -ENOMEM: kmalloc returns 0.
MallocFails ==
  /\ pc = "scanned"
  /\ blockStart = -1
  /\ pc' = "idle"
  /\ UNCHANGED <<entries, spill, scan, held>>

\* Otherwise the blocks are marked and their address is returned.
MallocReturns ==
  /\ pc = "scanned"
  /\ blockStart # -1
  /\ pc' = "idle"
  /\ entries' = heap_mark_blocks_taken(entries, blockStart, total_blocks)
  /\ spill' = spill \cup WritesPastTable(blockStart, total_blocks)
  /\ held' = [held EXCEPT ![caller] =
                [block |-> blockStart, blocks |-> total_blocks]]
  /\ UNCHANGED scan

\* kfree of the address that kmalloc returned.
kfree(c) ==
  /\ pc = "idle"
  /\ held[c] # Nothing
  /\ LET ptr == heap_block_to_address(held[c].block)
     IN entries' = heap_mark_blocks_free(entries, heap_address_to_block(ptr))
  /\ held' = [held EXCEPT ![c] = Nothing]
  /\ UNCHANGED <<spill, pc, scan>>

\* kfree(0), which process_terminate_allocations calls for every empty slot
\* of a process's allocation table.
kfree_null ==
  /\ pc = "idle"
  /\ entries' = heap_mark_blocks_free(entries, heap_address_to_block(0))
  /\ UNCHANGED <<spill, pc, scan, held>>

Next ==
  \/ \E c \in Clients, size \in Requests : kmalloc(c, size)
  \/ ScanTaken \/ ScanFree \/ ScanEnd
  \/ MallocFails \/ MallocReturns
  \/ \E c \in Clients : kfree(c)
  \/ kfree_null

\* A running kmalloc is never preempted: it goes on until it returns.
Fairness == WF_vars(ScanTaken \/ ScanFree \/ ScanEnd \/ MallocFails \/ MallocReturns)

Spec == Init /\ [][Next]_vars

FairSpec == Spec /\ Fairness
------------------------------------------------------------------------------
(***************************************************************************)
(* Properties.                                                             *)
(***************************************************************************)

TypeOK ==
  /\ entries \in [HeapBlocks -> SUBSET Flags]
  /\ spill \subseteq Nat
  /\ pc \in {"idle", "scan", "scanned"}
  /\ caller \in Clients
  /\ total_blocks \in Nat
  /\ i \in 0 .. TotalEntries
  /\ blockCount \in Nat
  /\ blockStart \in HeapBlocks \cup {-1}
  /\ held \in [Clients -> Allocations \cup {Nothing}]

\* The blocks that client c was promised (none for Nothing).
BlocksOf(c) == held[c].block .. held[c].block + held[c].blocks - 1

\* Every request is for at least one block.
PositiveRequests == \A size \in Requests : BlocksFor(size) > 0

\* No two clients of kmalloc are ever given the same block: what heap_malloc
\* marks in the table is what the next scan skips and what heap_free of the
\* returned address, and of no other, releases.
NoOverlap ==
  \A c, d \in Clients : c # d => BlocksOf(c) \cap BlocksOf(d) = {}

\* The flags heap_mark_blocks_taken leaves on block b of client c.
FlagsFor(c, b) ==
  {TAKEN} \cup (IF b = held[c].block THEN {IS_FIRST} ELSE {})
          \cup (IF b < held[c].block + held[c].blocks - 1 THEN {HAS_NEXT} ELSE {})

\* The table is exactly the record of what clients hold: the blocks of an
\* allocation form one HAS_NEXT chain that starts at its IS_FIRST block, and a
\* block nobody holds is free (nothing leaks through malloc / free cycles).
TableMatchesHeld ==
  \A b \in HeapBlocks :
    /\ \A c \in Clients : b \in BlocksOf(c) => entries[b] = FlagsFor(c, b)
    /\ (\A c \in Clients : b \notin BlocksOf(c)) => entries[b] = FREE

\* n free blocks of the heap start at s.
Fits(s, n) ==
  /\ s + n <= TotalEntries
  /\ \A b \in s .. s + n - 1 : IsFree(entries[b])

\* heap_get_start_block finds the lowest run that is long enough whenever
\* there is one, whatever fragmentation preceded it.
FirstFit ==
  pc = "scanned" /\ (\E s \in HeapBlocks : Fits(s, total_blocks)) =>
    /\ blockStart # -1
    /\ Fits(blockStart, total_blocks)
    /\ \A s \in 0 .. blockStart - 1 : ~Fits(s, total_blocks)

\* e is the end of the run of free blocks counted by blockCount; the block
\* before the run, if any, is taken.
FreeRunEndsAt(e) ==
  /\ blockCount <= e
  /\ blockStart = IF blockCount = 0 THEN -1 ELSE e - blockCount
  /\ \A b \in e - blockCount .. e - 1 : IsFree(entries[b])
  /\ e > blockCount => ~IsFree(entries[e - blockCount - 1])

\* The loop invariant of heap_get_start_block: the counters describe the free
\* run that ends where the scan is, it is still too short, and no run that is
\* long enough lies before it.  The scan leaves with a run of the right length,
\* or at the end of the table.
ScanInv ==
  pc # "idle" =>
    /\ held[caller] = Nothing
    /\ total_blocks \in 1 .. SizeRange \div BlockSize
    /\ \A s \in HeapBlocks : s + total_blocks <= i => ~Fits(s, total_blocks)
    /\ \/ pc = "scan" /\ blockCount < total_blocks /\ FreeRunEndsAt(i)
       \/ pc = "scanned" /\ i < TotalEntries /\ blockCount = total_blocks
            /\ FreeRunEndsAt(i + 1)
       \/ pc = "scanned" /\ i = TotalEntries /\ blockCount < total_blocks
            /\ FreeRunEndsAt(i)

\* What a caller may rely on: the blocks it is given are blocks of the heap.
\* heap_get_start_block does not keep this when the last free run of the heap is
\* shorter than the request.
InsideHeap == \A c \in Clients : BlocksOf(c) \subseteq HeapBlocks

\* Every kmalloc returns: the scan of the table comes to an end.
KmallocReturns == pc = "scan" ~> pc = "idle"

\* What a client owns is what kfree of its pointer would release.
Owned == [c \in Clients |-> IF held[c] = Nothing THEN {}
                            ELSE ReleasedFrom(entries, held[c].block)]

\* The numbers of blocks that clients ask for.
RequestLengths == {BlocksFor(size) : size \in Requests}

\* The table implements the abstract allocator.
Impl == INSTANCE Allocator WITH
  Lengths <- RequestLengths \ {0},
  owned <- Owned

\* Each step of the scan and of the marking is a step of the abstract allocator
\* or invisible to it.
RefinesAllocator == Impl!Spec
==============================================================================
