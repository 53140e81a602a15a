------------------------------ MODULE Allocator ------------------------------
(***************************************************************************)
(* What the kernel heap promises its callers, without the block table and  *)
(* without the scan: a client that asks for n blocks is given a run of     *)
(* blocks nobody owns, and owns it until it frees it.                      *)
(*                                                                         *)
(* The promise is the one heap.c keeps, which is weaker than the one a     *)
(* caller expects in one respect: when no run of n free blocks exists and  *)
(* the last block of the heap is free, the caller is given the free tail   *)
(* of the heap and an address range that goes on past its end (heap.c      *)
(* breaks out of its scan only when the run is long enough, but does not   *)
(* check after the scan that it was).  owned[c] is the part of the         *)
(* client's range that lies inside the heap.                               *)
(***************************************************************************)
EXTENDS Integers

CONSTANTS
  TotalEntries,  \* number of blocks in the heap
  Lengths,       \* the numbers of blocks clients ask for, none of them 0
  Clients        \* who may hold an allocation, one each

VARIABLE owned   \* owned[c]: the blocks of the heap that c owns

HeapBlocks == 0 .. TotalEntries - 1

Unowned(b) == \A c \in Clients : b \notin owned[c]

\* s is the first of n blocks inside the heap that nobody owns.
IsRoom(s, n) ==
  /\ s + n <= TotalEntries
  /\ \A b \in s .. s + n - 1 : Unowned(b)

Init == owned = [c \in Clients |-> {}]

\* The blocks s .. s+n-1, clipped to the heap, go to c.  An allocation that
\* does not fit is handed out only when nothing fits.
Allocate(c) ==
  \E s \in HeapBlocks, n \in Lengths :
    LET run == {b \in HeapBlocks : s <= b /\ b < s + n}
    IN /\ owned[c] = {}
       /\ \A b \in run : Unowned(b)
       /\ s + n > TotalEntries => \A r \in HeapBlocks : ~IsRoom(r, n)
       /\ owned' = [owned EXCEPT ![c] = run]

Release(c) ==
  /\ owned[c] # {}
  /\ owned' = [owned EXCEPT ![c] = {}]

Next == \E c \in Clients : Allocate(c) \/ Release(c)

Spec == Init /\ [][Next]_owned
==============================================================================
