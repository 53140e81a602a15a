----------------------------- MODULE HeapProofs -----------------------------
(***************************************************************************)
(* Proofs about the kernel heap, for a table of any size, any block size   *)
(* and any set of clients and requests.                                    *)
(***************************************************************************)
EXTENDS Heap, TLAPS

\* The number of blocks computed for a request is a natural number that is
\* small enough not to wrap around when it is added to a block number.
LEMMA BlocksForType ==
  ASSUME NEW size \in Requests
  PROVE  BlocksFor(size) \in 0 .. SizeRange \div BlockSize
<1> DEFINE a == heap_align_value_to_upper(size)
<1>1. size \in 0 .. SizeRange - 1
  BY HeapAssumption
<1>2. a \in 0 .. SizeRange - 1
  <2>1. CASE size % BlockSize = 0
    BY <1>1, <2>1 DEF heap_align_value_to_upper
  <2>2. CASE size % BlockSize # 0
    <3>1. size - (size % BlockSize) + BlockSize \in Int
      BY <1>1, HeapAssumption
    <3>2. QED
      BY <2>2, <3>1, HeapAssumption DEF heap_align_value_to_upper
  <2>3. QED
    BY <2>1, <2>2
<1> HIDE DEF a
<1>3. a \div BlockSize \in 0 .. SizeRange \div BlockSize
  BY <1>2, HeapAssumption
<1>4. QED
  BY <1>3 DEF BlocksFor, a

\* Type correctness of the heap: in particular the scan never leaves the table
\* and never returns a block number outside it.
THEOREM HeapTypeCorrect == Spec => []TypeOK
<1>1. Init => TypeOK
  BY HeapAssumption DEF Init, TypeOK, HeapBlocks, Flags, FREE
<1>2. TypeOK /\ [Next]_vars => TypeOK'
  <2> SUFFICES ASSUME TypeOK, [Next]_vars
               PROVE  TypeOK'
    OBVIOUS
  <2> USE HeapAssumption DEF TypeOK
  <2>1. ASSUME NEW c \in Clients, NEW size \in Requests, kmalloc(c, size)
        PROVE  TypeOK'
    <3>1. BlocksFor(size) \in Nat
      BY BlocksForType
    <3>2. QED
      BY <2>1, <3>1 DEF kmalloc
  <2>2. CASE ScanTaken
    BY <2>2 DEF ScanTaken
  <2>3. CASE ScanFree
    BY <2>3 DEF ScanFree, HeapBlocks
  <2>4. CASE ScanEnd
    BY <2>4 DEF ScanEnd, scan
  <2>5. CASE MallocFails
    BY <2>5 DEF MallocFails, scan
  <2>6. CASE MallocReturns
    <3>1. entries' \in [HeapBlocks -> SUBSET Flags]
      BY <2>6 DEF MallocReturns, heap_mark_blocks_taken, Flags
    <3>2. spill' \subseteq Nat
      <4>1. WritesPastTable(blockStart, total_blocks) \subseteq Nat
        BY DEF WritesPastTable
      <4>2. QED
        BY <2>6, <4>1 DEF MallocReturns
    <3>3. held' \in [Clients -> Allocations \cup {Nothing}]
      BY <2>6 DEF MallocReturns, Allocations
    <3>4. QED
      BY <2>6, <3>1, <3>2, <3>3 DEF MallocReturns, scan
  <2>7. ASSUME NEW c \in Clients, kfree(c)
        PROVE  TypeOK'
    <3>1. entries' \in [HeapBlocks -> SUBSET Flags]
      BY <2>7 DEF kfree, heap_mark_blocks_free, FREE
    <3>2. QED
      BY <2>7, <3>1 DEF kfree, scan
  <2>8. CASE kfree_null
    <3>1. entries' \in [HeapBlocks -> SUBSET Flags]
      BY <2>8 DEF kfree_null, heap_mark_blocks_free, FREE
    <3>2. QED
      BY <2>8, <3>1 DEF kfree_null, scan
  <2>9. CASE UNCHANGED vars
    BY <2>9 DEF vars, scan
  <2>10. QED
    BY <2>1, <2>2, <2>3, <2>4, <2>5, <2>6, <2>7, <2>8, <2>9 DEF Next
<1>3. QED
  BY <1>1, <1>2, PTL DEF Spec
------------------------------------------------------------------------------
(***************************************************************************)
(* Disjointness.  NoOverlap is not inductive: that a scan returns blocks   *)
(* nobody holds needs the table to record exactly what is held, and the    *)
(* counters of the scan to describe the table.                             *)
(***************************************************************************)

HeldPositive == \A c \in Clients : held[c] # Nothing => held[c].blocks > 0

HeapInv ==
  /\ TypeOK
  /\ HeldPositive
  /\ TableMatchesHeld
  /\ NoOverlap
  /\ ScanInv

\* A number below the modulus is its own remainder.
LEMMA SmallMod ==
  ASSUME NEW m \in Nat \ {0}, NEW x \in 0 .. m - 1
  PROVE  x % m = x
OBVIOUS

\* The remainder of a small negative number, as a conversion to size_t.
LEMMA NegativeMod ==
  ASSUME NEW m \in Nat \ {0}, NEW a \in 1 .. m - 1
  PROVE  (-a) % m = m - a
OBVIOUS

\* kfree of the null pointer releases nothing: the block number computed for it
\* is negative, and as a size_t it is past the end of the table.
LEMMA NullReleasesNothing ==
  ReleasedFrom(entries, heap_address_to_block(0)) = {}
<1>1. Saddr \in 1 .. SizeRange - 1 /\ SizeRange \in Nat \ {0}
  BY HeapAssumption
<1>2. (-Saddr) % SizeRange = SizeRange - Saddr
  BY <1>1, NegativeMod
<1>3. QED
  BY <1>2, HeapAssumption DEF ReleasedFrom, heap_address_to_block, HeapBlocks

\* kfree of a held pointer releases the blocks its client holds and no other.
LEMMA ReleasesWhatIsHeld ==
  ASSUME TypeOK, HeldPositive, TableMatchesHeld,
         NEW c \in Clients, held[c] # Nothing
  PROVE  ReleasedFrom(entries, held[c].block) = BlocksOf(c) \cap HeapBlocks
<1> DEFINE s == held[c].block
           n == held[c].blocks
<1>1. /\ s \in HeapBlocks
      /\ n \in Nat
      /\ n > 0
  BY DEF TypeOK, Allocations, HeldPositive
<1>2. s % SizeRange = s
  BY <1>1, SmallMod, HeapAssumption DEF HeapBlocks
<1>3. ASSUME NEW b \in BlocksOf(c) \cap HeapBlocks
      PROVE  b \in ReleasedFrom(entries, s)
  <2>1. s <= b /\ b <= s + n - 1 /\ b \in HeapBlocks
    BY <1>1 DEF BlocksOf, HeapBlocks
  <2>2. ASSUME NEW j \in s .. b - 1
        PROVE  HAS_NEXT \in entries[j]
    <3>1. j \in HeapBlocks /\ j \in BlocksOf(c) /\ j < s + n - 1
      BY <1>1, <2>1, HeapAssumption DEF HeapBlocks, BlocksOf
    <3>2. QED
      BY <3>1 DEF TableMatchesHeld, FlagsFor
  <2>3. QED
    BY <1>2, <2>1, <2>2 DEF ReleasedFrom
<1>4. ASSUME NEW b \in ReleasedFrom(entries, s)
      PROVE  b \in BlocksOf(c) \cap HeapBlocks
  <2>1. b \in HeapBlocks /\ s <= b /\ \A j \in s .. b - 1 : HAS_NEXT \in entries[j]
    BY <1>2 DEF ReleasedFrom
  <2>2. CASE b > s + n - 1
    <3> DEFINE e == s + n - 1
    <3>1. e \in HeapBlocks /\ e \in BlocksOf(c) /\ e \in s .. b - 1
      BY <1>1, <2>1, <2>2, HeapAssumption DEF HeapBlocks, BlocksOf
    <3>2. entries[e] = FlagsFor(c, e)
      BY <3>1 DEF TableMatchesHeld
    <3>3. HAS_NEXT \notin FlagsFor(c, e)
      BY <1>1 DEF FlagsFor, HAS_NEXT, TAKEN, IS_FIRST, HeapBlocks
    <3>4. QED
      BY <2>1, <3>1, <3>2, <3>3
  <2>3. CASE b <= s + n - 1
    BY <1>1, <2>1, <2>3 DEF BlocksOf, HeapBlocks
  <2>4. QED
    BY <1>1, <2>1, <2>2, <2>3 DEF HeapBlocks
<1>5. QED
  BY <1>3, <1>4

\* A client that holds nothing covers no block.
LEMMA NothingCoversNothing ==
  ASSUME NEW c \in Clients, held[c] = Nothing
  PROVE  BlocksOf(c) = {}
BY DEF BlocksOf, Nothing

\* A block whose entry is free is covered by no client, and its byte is 0x00.
LEMMA FreeIsUncovered ==
  ASSUME TableMatchesHeld, NEW b \in HeapBlocks, IsFree(entries[b])
  PROVE  /\ \A c \in Clients : b \notin BlocksOf(c)
         /\ entries[b] = FREE
<1>1. \A c \in Clients : TAKEN \in FlagsFor(c, b)
  BY DEF FlagsFor
<1>2. QED
  BY <1>1 DEF TableMatchesHeld, IsFree

\* The last block marked, as heap_mark_blocks_taken computes it, does not wrap.
LEMMA EndBlockIsLast ==
  ASSUME NEW s \in HeapBlocks, NEW n \in 1 .. SizeRange \div BlockSize
  PROVE  EndBlock(s, n) = s + n - 1
<1>1. SizeRange \div BlockSize \in Nat
  BY HeapAssumption
<1>2. s + n - 1 \in 0 .. SizeRange - 1 /\ SizeRange \in Nat \ {0}
  BY <1>1, HeapAssumption DEF HeapBlocks
<1>3. QED
  BY <1>2, SmallMod DEF EndBlock

\* The part of the run chosen by the scan that lies inside the heap is free.
LEMMA ChosenRunIsFree ==
  ASSUME TypeOK, ScanInv, pc = "scanned", blockStart # -1,
         NEW b \in HeapBlocks, b >= blockStart, b <= blockStart + total_blocks - 1
  PROVE  IsFree(entries[b])
BY HeapAssumption DEF ScanInv, TypeOK, FreeRunEndsAt, HeapBlocks

\* Every step of the scan keeps its loop invariant.
LEMMA ScanStep ==
  ASSUME TypeOK, ScanInv, ScanTaken \/ ScanFree \/ ScanEnd
  PROVE  ScanInv'
<1> USE HeapAssumption
<1>1. /\ pc = "scan"
      /\ held[caller] = Nothing
      /\ SizeRange \div BlockSize \in Nat
      /\ total_blocks \in 1 .. SizeRange \div BlockSize
      /\ \A s \in HeapBlocks : s + total_blocks <= i => ~Fits(s, total_blocks)
      /\ blockCount < total_blocks
      /\ FreeRunEndsAt(i)
      /\ UNCHANGED <<entries, caller, total_blocks, held>>
  BY DEF ScanInv, ScanTaken, ScanFree, ScanEnd, scan
<1>2. CASE ScanTaken
  <2>1. pc' = "scan" /\ i' = i + 1 /\ blockCount' = 0 /\ blockStart' = -1
    BY <1>1, <1>2 DEF ScanTaken
  <2>2. FreeRunEndsAt(i)'
    BY <1>1, <1>2, <2>1 DEF FreeRunEndsAt, ScanTaken, TypeOK
  <2>3. ASSUME NEW s \in HeapBlocks, s + total_blocks <= i + 1
        PROVE  ~Fits(s, total_blocks)
    <3>1. CASE s + total_blocks <= i
      BY <1>1, <3>1
    <3>2. CASE s + total_blocks = i + 1
      <4>1. i \in s .. s + total_blocks - 1
        BY <1>1, <3>2 DEF HeapBlocks, TypeOK
      <4>2. QED
        BY <1>2, <4>1 DEF Fits, ScanTaken
    <3>3. QED
      BY <1>1, <2>3, <3>1, <3>2 DEF TypeOK, HeapBlocks
  <2>4. QED
    BY <1>1, <2>1, <2>2, <2>3 DEF ScanInv, Fits
<1>3. CASE ScanFree
  <2>1. /\ i < TotalEntries
        /\ IsFree(entries[i])
        /\ blockCount' = blockCount + 1
        /\ blockStart' = i + 1 - blockCount'
        /\ i \in Nat /\ blockCount \in Nat
    BY <1>1, <1>3 DEF ScanFree, TypeOK, FreeRunEndsAt
  <2>2. /\ blockCount' <= i + 1
        /\ \A b \in i + 1 - blockCount' .. i : IsFree(entries[b])
        /\ i + 1 > blockCount' => ~IsFree(entries[i + 1 - blockCount' - 1])
    BY <1>1, <2>1 DEF FreeRunEndsAt
  <2>3. CASE blockCount + 1 = total_blocks
    <3>1. pc' = "scanned" /\ i' = i
      BY <1>3, <2>3 DEF ScanFree
    <3>2. FreeRunEndsAt(i + 1)'
      BY <1>1, <2>1, <2>2, <3>1 DEF FreeRunEndsAt
    <3>3. QED
      BY <1>1, <2>1, <2>3, <3>1, <3>2 DEF ScanInv, Fits
  <2>4. CASE blockCount + 1 # total_blocks
    <3>1. pc' = "scan" /\ i' = i + 1
      BY <1>3, <2>4 DEF ScanFree
    <3>2. FreeRunEndsAt(i)'
      BY <1>1, <2>1, <2>2, <3>1 DEF FreeRunEndsAt
    <3>3. ASSUME NEW s \in HeapBlocks, s + total_blocks <= i + 1
          PROVE  ~Fits(s, total_blocks)
      <4>1. CASE s + total_blocks <= i
        BY <1>1, <4>1
      <4>2. CASE s + total_blocks = i + 1
        \* The block before the run lies between s and the run.
        <5>1. /\ i + 1 > blockCount'
              /\ i + 1 - blockCount' - 1 \in s .. s + total_blocks - 1
          BY <1>1, <2>1, <2>4, <4>2 DEF HeapBlocks
        <5>2. QED
          BY <2>2, <5>1 DEF Fits
      <4>3. QED
        BY <1>1, <2>1, <3>3, <4>1, <4>2 DEF HeapBlocks
    <3>4. QED
      BY <1>1, <2>1, <2>4, <3>1, <3>2, <3>3 DEF ScanInv, Fits
  <2>5. QED
    BY <2>3, <2>4
<1>4. CASE ScanEnd
  BY <1>1, <1>4 DEF ScanInv, ScanEnd, scan, FreeRunEndsAt, Fits
<1>5. QED
  BY <1>2, <1>3, <1>4
------------------------------------------------------------------------------
\* Marking the chosen run keeps the table the record of what is held, and gives
\* the caller blocks that no other client holds.
LEMMA MallocReturnsStep ==
  ASSUME HeapInv, MallocReturns
  PROVE  HeldPositive' /\ TableMatchesHeld' /\ NoOverlap'
<1>0. PICK k \in Clients : k = caller
  BY DEF HeapInv, TypeOK
<1> DEFINE s == blockStart
           n == total_blocks
           run == s .. s + n - 1
<1>1. /\ TypeOK /\ HeldPositive /\ TableMatchesHeld /\ NoOverlap /\ ScanInv
      /\ pc = "scanned" /\ s # -1
      /\ s \in HeapBlocks
      /\ n \in 1 .. SizeRange \div BlockSize
      /\ n \in Nat /\ n > 0
      /\ TotalEntries \in Nat
      /\ held \in [Clients -> Allocations \cup {Nothing}]
      /\ k = caller /\ k \in Clients /\ held[k] = Nothing
  BY <1>0, HeapAssumption DEF HeapInv, MallocReturns, ScanInv, TypeOK
<1>2. held' = [held EXCEPT ![k] = [block |-> s, blocks |-> n]]
  BY <1>1 DEF MallocReturns
<1>3. BlocksOf(k)' = run
  BY <1>1, <1>2 DEF BlocksOf
<1>4. ASSUME NEW d \in Clients, d # k
      PROVE  held'[d] = held[d] /\ BlocksOf(d)' = BlocksOf(d)
  BY <1>1, <1>2, <1>4 DEF BlocksOf
<1>5. ASSUME NEW b \in HeapBlocks, b \in run
      PROVE  entries[b] = FREE /\ \A d \in Clients : b \notin BlocksOf(d)
  <2>1. b >= s /\ b <= s + n - 1
    BY <1>1, <1>5 DEF HeapBlocks
  <2>2. IsFree(entries[b])
    BY <1>1, <2>1, ChosenRunIsFree
  <2>3. QED
    BY <1>1, <2>2, FreeIsUncovered
\* An overlap past the end of the heap would be one at its last block too.
<1>6. ASSUME NEW d \in Clients, d # k
      PROVE  run \cap BlocksOf(d) = {}
  <2> SUFFICES ASSUME NEW x \in run, x \in BlocksOf(d)
               PROVE  FALSE
    OBVIOUS
  <2>1. held[d] # Nothing
    BY NothingCoversNothing
  <2>2. held[d].block \in HeapBlocks /\ held[d].blocks \in Nat
    BY <1>1, <2>1 DEF Allocations
  <2>3. CASE x \in HeapBlocks
    BY <1>5, <2>3
  <2>4. CASE x \notin HeapBlocks
    <3> DEFINE last == TotalEntries - 1
    <3>1. last \in HeapBlocks /\ last \in run /\ last \in BlocksOf(d)
      BY <1>1, <2>2, <2>4, HeapAssumption DEF HeapBlocks, BlocksOf
    <3>2. QED
      BY <1>5, <3>1
  <2>5. QED
    BY <2>3, <2>4
<1>7. HeldPositive'
  <2>1. ASSUME NEW d \in Clients, held'[d] # Nothing
        PROVE  held'[d].blocks > 0
    <3>1. CASE d = k
      BY <1>1, <1>2, <3>1
    <3>2. CASE d # k
      BY <1>1, <1>4, <2>1, <3>2 DEF HeldPositive
    <3>3. QED
      BY <3>1, <3>2
  <2>2. QED
    BY <2>1 DEF HeldPositive
<1>8. NoOverlap'
  <2>1. ASSUME NEW c \in Clients, NEW d \in Clients, c # d
        PROVE  BlocksOf(c)' \cap BlocksOf(d)' = {}
    <3>1. CASE c = k
      BY <1>3, <1>4, <1>6, <2>1, <3>1
    <3>2. CASE d = k
      BY <1>3, <1>4, <1>6, <2>1, <3>2
    <3>3. CASE c # k /\ d # k
      BY <1>1, <1>4, <2>1, <3>3 DEF NoOverlap
    <3>4. QED
      BY <3>1, <3>2, <3>3
  <2>2. QED
    BY <2>1 DEF NoOverlap
<1>9. TableMatchesHeld'
  <2>1. EndBlock(s, n) = s + n - 1
    BY <1>1, EndBlockIsLast
  <2>2. ASSUME NEW b \in HeapBlocks, b \in run
        PROVE  entries'[b] = FlagsFor(k, b)'
    <3>1. entries[b] = {}
      BY <1>5, <2>2 DEF FREE
    <3>2. FlagsFor(k, b)' =
            {TAKEN} \cup (IF b = s THEN {IS_FIRST} ELSE {})
                    \cup (IF b < s + n - 1 THEN {HAS_NEXT} ELSE {})
      BY <1>1, <1>2 DEF FlagsFor
    <3>3. entries'[b] = (IF b = s THEN {IS_FIRST} ELSE {})
                     \cup (IF b < s + n - 1 THEN {TAKEN, HAS_NEXT} ELSE {})
                     \cup (IF b = s + n - 1 THEN {TAKEN} ELSE {})
      <4>1. s <= b
        BY <1>1, <2>2 DEF HeapBlocks
      <4>2. QED
        BY <2>1, <3>1, <4>1 DEF MallocReturns, heap_mark_blocks_taken
    <3>4. b < s + n - 1 \/ b = s + n - 1
      BY <1>1, <2>2 DEF HeapBlocks
    <3>5. ~(b < s + n - 1 /\ b = s + n - 1)
      BY <1>1 DEF HeapBlocks
    <3>6. QED
      BY <3>2, <3>3, <3>4, <3>5
  <2>3. ASSUME NEW b \in HeapBlocks, b \notin run
        PROVE  entries'[b] = entries[b]
    <3>1. b # s /\ b # s + n - 1 /\ ~(s <= b /\ b < s + n - 1)
      BY <1>1, <2>3 DEF HeapBlocks
    <3>2. QED
      BY <2>1, <3>1 DEF MallocReturns, heap_mark_blocks_taken
  <2>4. ASSUME NEW b \in HeapBlocks, NEW c \in Clients, b \in BlocksOf(c)'
        PROVE  entries'[b] = FlagsFor(c, b)'
    <3>1. CASE c = k
      BY <1>3, <2>2, <2>4, <3>1
    <3>2. CASE c # k
      <4>1. b \in BlocksOf(c) /\ b \notin run
        BY <1>4, <1>6, <2>4, <3>2
      <4>2. entries'[b] = entries[b] /\ FlagsFor(c, b)' = FlagsFor(c, b)
        BY <1>4, <2>3, <3>2, <4>1 DEF FlagsFor
      <4>3. QED
        BY <1>1, <4>1, <4>2 DEF TableMatchesHeld
    <3>3. QED
      BY <3>1, <3>2
  <2>5. ASSUME NEW b \in HeapBlocks, \A c \in Clients : b \notin BlocksOf(c)'
        PROVE  entries'[b] = FREE
    <3>1. b \notin run
      BY <1>1, <1>3, <2>5
    <3>2. \A c \in Clients : b \notin BlocksOf(c)
      BY <1>1, <1>4, <2>5, NothingCoversNothing
    <3>3. QED
      BY <1>1, <2>3, <3>1, <3>2 DEF TableMatchesHeld
  <2>6. QED
    BY <2>4, <2>5 DEF TableMatchesHeld
<1>10. QED
  BY <1>7, <1>8, <1>9

\* Freeing a held pointer releases what its client held and nothing else.
LEMMA FreeStep ==
  ASSUME HeapInv, NEW c \in Clients, kfree(c)
  PROVE  HeldPositive' /\ TableMatchesHeld' /\ NoOverlap'
<1>1. /\ TypeOK /\ HeldPositive /\ TableMatchesHeld /\ NoOverlap
      /\ held[c] # Nothing
      /\ held \in [Clients -> Allocations \cup {Nothing}]
      /\ held' = [held EXCEPT ![c] = Nothing]
  BY DEF HeapInv, TypeOK, kfree
<1>2. heap_address_to_block(heap_block_to_address(held[c].block)) = held[c].block
  BY <1>1, HeapAssumption
     DEF heap_address_to_block, heap_block_to_address, Allocations, HeapBlocks
<1>3. \A b \in HeapBlocks :
        entries'[b] = IF b \in BlocksOf(c) THEN FREE ELSE entries[b]
  <2>1. ReleasedFrom(entries, held[c].block) = BlocksOf(c) \cap HeapBlocks
    BY <1>1, ReleasesWhatIsHeld
  <2>2. QED
    BY <1>2, <2>1 DEF kfree, heap_mark_blocks_free
<1>4. BlocksOf(c)' = {}
  BY <1>1 DEF BlocksOf, Nothing
<1>5. ASSUME NEW d \in Clients, d # c
      PROVE  held'[d] = held[d] /\ BlocksOf(d)' = BlocksOf(d)
  BY <1>1, <1>5 DEF BlocksOf
<1>6. HeldPositive'
  BY <1>1, <1>5 DEF HeldPositive
<1>7. NoOverlap'
  BY <1>1, <1>4, <1>5 DEF NoOverlap
<1>8. TableMatchesHeld'
  <2>1. ASSUME NEW b \in HeapBlocks, NEW d \in Clients, b \in BlocksOf(d)'
        PROVE  entries'[b] = FlagsFor(d, b)'
    <3>1. d # c
      BY <1>4, <2>1
    <3>2. b \in BlocksOf(d) /\ FlagsFor(d, b)' = FlagsFor(d, b)
      BY <1>5, <2>1, <3>1 DEF FlagsFor
    <3>3. b \notin BlocksOf(c)
      BY <1>1, <3>1, <3>2 DEF NoOverlap
    <3>4. QED
      BY <1>1, <1>3, <3>2, <3>3 DEF TableMatchesHeld
  <2>2. ASSUME NEW b \in HeapBlocks, \A d \in Clients : b \notin BlocksOf(d)'
        PROVE  entries'[b] = FREE
    <3>1. CASE b \in BlocksOf(c)
      BY <1>3, <3>1
    <3>2. CASE b \notin BlocksOf(c)
      BY <1>1, <1>3, <1>5, <2>2, <3>2 DEF TableMatchesHeld
    <3>3. QED
      BY <3>1, <3>2
  <2>3. QED
    BY <2>1, <2>2 DEF TableMatchesHeld
<1>9. QED
  BY <1>6, <1>7, <1>8

\* A step that leaves the table and the holdings alone keeps what relates them.
LEMMA UntouchedTable ==
  ASSUME HeapInv, UNCHANGED <<entries, held>>
  PROVE  HeldPositive' /\ TableMatchesHeld' /\ NoOverlap'
BY DEF HeapInv, HeldPositive, TableMatchesHeld, NoOverlap, BlocksOf, FlagsFor

\* The inductive invariant, under the assumption that nobody asks for zero bytes.
THEOREM HeapInvariance ==
  ASSUME PositiveRequests
  PROVE  Spec => []HeapInv
<1>1. Init => HeapInv
  <2> SUFFICES ASSUME Init PROVE HeapInv
    OBVIOUS
  <2>1. TypeOK
    BY HeapAssumption DEF Init, TypeOK, HeapBlocks, Flags, FREE
  <2>2. \A c \in Clients : held[c] = Nothing
    BY DEF Init
  <2>3. \A c \in Clients : BlocksOf(c) = {}
    BY <2>2, NothingCoversNothing
  <2>4. HeldPositive /\ NoOverlap
    BY <2>2, <2>3 DEF HeldPositive, NoOverlap
  <2>5. TableMatchesHeld
    BY <2>3 DEF TableMatchesHeld, Init
  <2>6. QED
    BY <2>1, <2>4, <2>5 DEF HeapInv, ScanInv, Init
<1>2. HeapInv /\ TypeOK' /\ [Next]_vars => HeapInv'
  <2> SUFFICES ASSUME HeapInv, TypeOK', [Next]_vars
               PROVE  HeapInv'
    OBVIOUS
  <2>1. ASSUME NEW c \in Clients, NEW size \in Requests, kmalloc(c, size)
        PROVE  HeapInv'
    <3>1. UNCHANGED <<entries, held>>
      BY <2>1 DEF kmalloc
    <3>2. ScanInv'
      <4>1. /\ SizeRange \div BlockSize \in Nat
            /\ BlocksFor(size) \in 1 .. SizeRange \div BlockSize
        BY BlocksForType, PositiveRequests, HeapAssumption DEF PositiveRequests
      <4>2. /\ pc' = "scan" /\ i' = 0 /\ blockCount' = 0 /\ blockStart' = -1
            /\ total_blocks' = BlocksFor(size)
            /\ held'[caller'] = Nothing
        BY <2>1 DEF kmalloc
      <4>3. FreeRunEndsAt(i)'
        BY <4>2 DEF FreeRunEndsAt
      <4>4. \A s \in HeapBlocks : ~(s + total_blocks' <= 0)
        BY <4>1, <4>2 DEF HeapBlocks
      <4>5. QED
        BY <4>1, <4>2, <4>3, <4>4 DEF ScanInv
    <3>3. QED
      BY <3>1, <3>2, UntouchedTable DEF HeapInv
  <2>2. CASE ScanTaken \/ ScanFree \/ ScanEnd
    <3>1. UNCHANGED <<entries, held>>
      BY <2>2 DEF ScanTaken, ScanFree, ScanEnd
    <3>2. QED
      BY <2>2, <3>1, ScanStep, UntouchedTable DEF HeapInv
  <2>3. CASE MallocFails
    <3>1. UNCHANGED <<entries, held>> /\ pc' = "idle"
      BY <2>3 DEF MallocFails
    <3>2. QED
      BY <3>1, UntouchedTable DEF HeapInv, ScanInv
  <2>4. CASE MallocReturns
    <3>1. pc' = "idle"
      BY <2>4 DEF MallocReturns
    <3>2. QED
      BY <2>4, <3>1, MallocReturnsStep DEF HeapInv, ScanInv
  <2>5. ASSUME NEW c \in Clients, kfree(c)
        PROVE  HeapInv'
    <3>1. pc' = "idle"
      BY <2>5 DEF kfree
    <3>2. QED
      BY <2>5, <3>1, FreeStep DEF HeapInv, ScanInv
  <2>6. CASE kfree_null
    <3>1. pc' = "idle" /\ UNCHANGED held
      BY <2>6 DEF kfree_null
    <3>2. entries' = entries
      BY <2>6, NullReleasesNothing
         DEF kfree_null, heap_mark_blocks_free, HeapInv, TypeOK
    <3>3. QED
      BY <3>1, <3>2, UntouchedTable DEF HeapInv, ScanInv
  <2>7. CASE UNCHANGED vars
    <3>1. UNCHANGED <<entries, held>> /\ ScanInv'
      BY <2>7 DEF vars, scan, HeapInv, ScanInv, FreeRunEndsAt, Fits
    <3>2. QED
      BY <3>1, UntouchedTable DEF HeapInv
  <2>8. QED
    BY <2>1, <2>2, <2>3, <2>4, <2>5, <2>6, <2>7 DEF Next
<1>3. QED
  BY <1>1, <1>2, HeapTypeCorrect, PTL DEF Spec

\* No two clients of kmalloc are ever given the same block.
THEOREM HeapNoOverlap ==
  ASSUME PositiveRequests
  PROVE  Spec => []NoOverlap
<1>1. HeapInv => NoOverlap
  BY DEF HeapInv
<1>2. QED
  BY <1>1, HeapInvariance, PTL

\* The table is exactly the record of what the clients hold.
THEOREM HeapTableMatchesHeld ==
  ASSUME PositiveRequests
  PROVE  Spec => []TableMatchesHeld
<1>1. HeapInv => TableMatchesHeld
  BY DEF HeapInv
<1>2. QED
  BY <1>1, HeapInvariance, PTL

\* The scan is right at every iteration, not only when it ends: the run it counts
\* is free and ends where it looks, and it has passed over no run that fits.
THEOREM HeapScanInv ==
  ASSUME PositiveRequests
  PROVE  Spec => []ScanInv
<1>1. HeapInv => ScanInv
  BY DEF HeapInv
<1>2. QED
  BY <1>1, HeapInvariance, PTL

\* The scan finds the lowest run that is long enough, whenever there is one.
THEOREM HeapFirstFit ==
  ASSUME PositiveRequests
  PROVE  Spec => []FirstFit
<1>1. HeapInv => FirstFit
  <2> SUFFICES ASSUME HeapInv, pc = "scanned",
                      NEW r \in HeapBlocks, Fits(r, total_blocks)
               PROVE  /\ blockStart # -1
                      /\ Fits(blockStart, total_blocks)
                      /\ \A s \in 0 .. blockStart - 1 : ~Fits(s, total_blocks)
    BY DEF FirstFit
  <2> USE HeapAssumption
  <2>1. /\ SizeRange \div BlockSize \in Nat
        /\ total_blocks \in Nat /\ total_blocks > 0
        /\ blockCount \in Nat /\ i \in 0 .. TotalEntries
        /\ \A s \in HeapBlocks : s + total_blocks <= i => ~Fits(s, total_blocks)
    BY DEF HeapInv, TypeOK, ScanInv
  \* A run that fits ends inside the heap, so the scan did not get to its end.
  <2>2. i < TotalEntries /\ blockCount = total_blocks /\ FreeRunEndsAt(i + 1)
    <3>1. i # TotalEntries
      BY <2>1 DEF Fits
    <3>2. QED
      BY <2>1, <3>1 DEF HeapInv, ScanInv
  <2>3. blockStart = i + 1 - total_blocks /\ blockStart \in HeapBlocks
    BY <2>1, <2>2 DEF FreeRunEndsAt, HeapBlocks
  <2>4. Fits(blockStart, total_blocks)
    BY <2>1, <2>2, <2>3 DEF Fits, FreeRunEndsAt
  <2>5. ASSUME NEW s \in 0 .. blockStart - 1
        PROVE  ~Fits(s, total_blocks)
    <3>1. s \in HeapBlocks /\ s + total_blocks <= i
      BY <2>1, <2>3 DEF HeapBlocks
    <3>2. QED
      BY <2>1, <3>1
  <2>6. QED
    BY <2>3, <2>4, <2>5 DEF HeapBlocks
<1>2. QED
  BY <1>1, HeapInvariance, PTL
------------------------------------------------------------------------------
(***************************************************************************)
(* The table implements the abstract allocator.                            *)
(***************************************************************************)

\* The scan looks for a run of a length some client asked for.
LengthInv == pc # "idle" => total_blocks \in RequestLengths

\* The requested number of blocks stays one of the lengths.
LEMMA LengthInvariance == Spec => []LengthInv
<1>1. Init => LengthInv
  BY DEF Init, LengthInv
<1>2. LengthInv /\ [Next]_vars => LengthInv'
  BY DEF LengthInv, RequestLengths, Next, vars, scan, kmalloc, ScanTaken,
         ScanFree, ScanEnd, MallocFails, MallocReturns, kfree, kfree_null
<1>3. QED
  BY <1>1, <1>2, PTL DEF Spec

\* Under the invariant a client owns the blocks it was promised, clipped to the
\* heap.
LEMMA OwnedBlocks ==
  HeapInv => Owned = [c \in Clients |-> BlocksOf(c) \cap HeapBlocks]
<1> SUFFICES ASSUME HeapInv
             PROVE  Owned = [c \in Clients |-> BlocksOf(c) \cap HeapBlocks]
  OBVIOUS
<1>1. ASSUME NEW c \in Clients
      PROVE  Owned[c] = BlocksOf(c) \cap HeapBlocks
  BY NothingCoversNothing, ReleasesWhatIsHeld DEF HeapInv, Owned
<1>2. QED
  BY <1>1 DEF Owned

\* The same of the next state.
LEMMA OwnedBlocksNext ==
  HeapInv' => Owned' = [c \in Clients |-> BlocksOf(c)' \cap HeapBlocks]
<1>1. (HeapInv => Owned = [c \in Clients |-> BlocksOf(c) \cap HeapBlocks])'
  BY OwnedBlocks, PTL
<1>2. QED
  BY <1>1

\* The abstract allocator's unowned blocks are the free blocks of the table.
LEMMA UnownedIsFree ==
  ASSUME HeapInv, NEW b \in HeapBlocks
  PROVE  Impl!Unowned(b) <=> IsFree(entries[b])
<1>1. Impl!Unowned(b) <=> \A c \in Clients : b \notin BlocksOf(c)
  BY OwnedBlocks DEF Impl!Unowned
<1>2. (\A c \in Clients : b \notin BlocksOf(c)) => IsFree(entries[b])
  BY DEF HeapInv, TableMatchesHeld, IsFree, FREE
<1>3. QED
  BY <1>1, <1>2, FreeIsUncovered DEF HeapInv

\* The return of a kmalloc is the abstract allocation.
LEMMA MallocReturnsAllocates ==
  ASSUME HeapInv, HeapInv', LengthInv, MallocReturns
  PROVE  \E c \in Clients : Impl!Allocate(c)
<1>0. PICK k \in Clients : k = caller
  BY DEF HeapInv, TypeOK
<1> DEFINE s == blockStart
           n == total_blocks
           run == {b \in HeapBlocks : s <= b /\ b < s + n}
<1>1. /\ TypeOK /\ ScanInv
      /\ pc = "scanned" /\ s # -1
      /\ s \in HeapBlocks
      /\ n \in RequestLengths \ {0}
      /\ n \in Nat
      /\ held[k] = Nothing
      /\ held \in [Clients -> Allocations \cup {Nothing}]
      /\ held' = [held EXCEPT ![k] = [block |-> s, blocks |-> n]]
      /\ TotalEntries \in Nat
  BY <1>0, HeapAssumption DEF HeapInv, LengthInv, MallocReturns, ScanInv, TypeOK
<1>2. Owned[k] = {}
  BY <1>1 DEF Owned
<1>3. \A b \in run : Impl!Unowned(b)
  BY <1>1, ChosenRunIsFree, UnownedIsFree DEF HeapBlocks
<1>4. ASSUME s + n > TotalEntries, NEW r \in HeapBlocks
      PROVE  ~Impl!IsRoom(r, n)
  <2>1. i = TotalEntries
    BY <1>1, <1>4 DEF ScanInv, FreeRunEndsAt, TypeOK, HeapBlocks
  <2>2. SUFFICES ASSUME Impl!IsRoom(r, n) PROVE FALSE
    OBVIOUS
  <2>3. \A b \in r .. r + n - 1 : b \in HeapBlocks /\ Impl!Unowned(b)
    BY <1>1, <2>2 DEF Impl!IsRoom, HeapBlocks
  <2>4. Fits(r, n)
    BY <2>2, <2>3, UnownedIsFree DEF Impl!IsRoom, Fits
  <2>5. r + n <= i
    BY <2>1, <2>2 DEF Impl!IsRoom
  <2>6. QED
    BY <1>1, <2>4, <2>5 DEF ScanInv
<1>5. Owned' = [Owned EXCEPT ![k] = run]
  <2>1. Owned' = [c \in Clients |-> BlocksOf(c)' \cap HeapBlocks]
    BY OwnedBlocksNext
  <2>2. BlocksOf(k)' \cap HeapBlocks = run
    BY <1>1 DEF BlocksOf, HeapBlocks
  <2>3. \A c \in Clients : c # k => BlocksOf(c)' = BlocksOf(c)
    BY <1>1 DEF BlocksOf
  <2>4. QED
    BY <2>1, <2>2, <2>3, OwnedBlocks
<1>6. QED
  BY <1>1, <1>2, <1>3, <1>4, <1>5 DEF Impl!Allocate, Impl!HeapBlocks, HeapBlocks

\* kfree of a held pointer is the abstract release.
LEMMA FreeReleases ==
  ASSUME HeapInv, HeapInv', NEW c \in Clients, kfree(c)
  PROVE  Impl!Release(c)
<1>1. /\ held[c] # Nothing
      /\ held[c].block \in HeapBlocks
      /\ held[c].blocks \in Nat /\ held[c].blocks > 0
      /\ held \in [Clients -> Allocations \cup {Nothing}]
      /\ held' = [held EXCEPT ![c] = Nothing]
  BY DEF kfree, HeapInv, TypeOK, HeldPositive, Allocations
<1>2. Owned[c] # {}
  <2>1. held[c].block \in BlocksOf(c) \cap HeapBlocks
    BY <1>1 DEF BlocksOf, HeapBlocks
  <2>2. QED
    BY <2>1, OwnedBlocks
<1>3. Owned' = [Owned EXCEPT ![c] = {}]
  <2>1. Owned' = [d \in Clients |-> BlocksOf(d)' \cap HeapBlocks]
    BY OwnedBlocksNext
  <2>2. BlocksOf(c)' = {}
    BY <1>1 DEF BlocksOf, Nothing
  <2>3. \A d \in Clients : d # c => BlocksOf(d)' = BlocksOf(d)
    BY <1>1 DEF BlocksOf
  <2>4. QED
    BY <2>1, <2>2, <2>3, OwnedBlocks
<1>4. QED
  BY <1>2, <1>3 DEF Impl!Release

\* The kernel heap implements the abstract allocator: a kmalloc that returns a
\* pointer is an allocation, a kfree is a release, and everything else (the scan,
\* a kmalloc that returns 0, kfree of 0) is invisible.
THEOREM HeapRefinesAllocator ==
  ASSUME PositiveRequests
  PROVE  Spec => RefinesAllocator
<1>1. Init => Impl!Init
  BY DEF Init, Impl!Init, Owned
<1>2. /\ HeapInv /\ HeapInv' /\ LengthInv
      /\ [Next]_vars
      => [Impl!Next]_Owned
  <2> SUFFICES ASSUME HeapInv, HeapInv', LengthInv, [Next]_vars
               PROVE  Impl!Next \/ Owned' = Owned
    OBVIOUS
  <2>1. CASE UNCHANGED <<entries, held>>
    BY <2>1 DEF Owned, ReleasedFrom
  <2>2. CASE MallocReturns
    BY <2>2, MallocReturnsAllocates DEF Impl!Next
  <2>3. ASSUME NEW c \in Clients, kfree(c)
        PROVE  Impl!Next
    BY <2>3, FreeReleases DEF Impl!Next
  <2>4. CASE kfree_null
    <3>1. entries' = entries
      BY <2>4, NullReleasesNothing
         DEF kfree_null, heap_mark_blocks_free, HeapInv, TypeOK
    <3>2. QED
      BY <2>1, <2>4, <3>1 DEF kfree_null
  <2>5. QED
    BY <2>1, <2>2, <2>3, <2>4
       DEF Next, vars, kmalloc, ScanTaken, ScanFree, ScanEnd, MallocFails
<1>3. QED
  BY <1>1, <1>2, HeapInvariance, LengthInvariance, PTL
     DEF Spec, RefinesAllocator, Impl!Spec
==============================================================================
