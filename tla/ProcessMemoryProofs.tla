------------------------ MODULE ProcessMemoryProofs ------------------------
(***************************************************************************)
(* Proofs about the memory of processes, for any number of processes,      *)
(* frames and allocations and any sizes.                                   *)
(***************************************************************************)
EXTENDS ProcessMemory, WellFoundedInduction, TLAPS

(***************************************************************************)
(* What a process holds, in one function: the slots of its allocation      *)
(* table, its image (role 0) and its stack (role -1).                      *)
(***************************************************************************)
Roles == -1 .. MaxAllocations

Slots == [ptr : Frames \cup {NullPtr}, size : Nat]

Holdings == [Procs -> [Roles -> Slots]]

Hold(st, i, s, table) ==
  [k \in Roles |->
     IF k >= 1 THEN table[k]
     ELSE IF k = 0 /\ st \in {"loaded", "failed"} /\ i # NullPtr
       THEN [ptr |-> i, size |-> ImagePages]
     ELSE IF k = -1 /\ st \in {"loaded", "failed"} /\ s # NullPtr
       THEN [ptr |-> s, size |-> StackPages]
     ELSE Empty]

\* The runs of the heap: inside it, and not empty.
HeapRuns == {r \in [start : Frames, len : Nat \ {0}] : r.start + r.len <= NFrames}

\* One run lies before or behind the other.
Apart(r, s) == r.start + r.len <= s.start \/ s.start + s.len <= r.start

\* The runs R of the heap are what the holdings H say: they do not overlap, what
\* is held is allocated, what is allocated is held, and nothing is held twice.
Accounted(R, H) ==
  /\ R \subseteq HeapRuns
  /\ \A r, s \in R : r # s => Apart(r, s)
  /\ \A p \in Procs, k \in Roles :
       H[p][k].ptr # NullPtr => Run(H[p][k].ptr, H[p][k].size) \in R
  /\ \A r \in R : \E p \in Procs, k \in Roles :
       H[p][k].ptr = r.start /\ H[p][k].size = r.len
  /\ \A p, q \in Procs, j, k \in Roles :
       H[p][j].ptr # NullPtr /\ H[p][j].ptr = H[q][k].ptr => p = q /\ j = k

\* Two runs that have no frame in common are apart.
LEMMA DisjointApart ==
  ASSUME NEW a \in Nat, NEW m \in Nat \ {0}, NEW b \in Nat, NEW n \in Nat \ {0},
         (a .. a + m - 1) \cap (b .. b + n - 1) = {}
  PROVE  a + m <= b \/ b + n <= a
<1>1. CASE a <= b
  <2>1. b \notin a .. a + m - 1
    BY <1>1
  <2>2. QED
    BY <1>1, <2>1
<1>2. CASE b < a
  <2>1. a \notin b .. b + n - 1
    BY <1>2
  <2>2. QED
    BY <1>2, <2>1
<1>3. QED
  BY <1>1, <1>2

\* kzalloc gives a run that becomes what one process holds in one role.
LEMMA TakeRun ==
  ASSUME NEW R, NEW H \in Holdings, Accounted(R, H),
         NEW p \in Procs, NEW k \in Roles, H[p][k].ptr = NullPtr,
         NEW s \in Frames, NEW n \in Nat \ {0}, IsFreeRun(R, s, n)
  PROVE  LET h == [H[p] EXCEPT ![k] = [ptr |-> s, size |-> n]]
         IN /\ [H EXCEPT ![p] = h] \in Holdings
            /\ Accounted(R \cup {Run(s, n)}, [H EXCEPT ![p] = h])
<1> DEFINE e == [ptr |-> s, size |-> n]
           G == [H EXCEPT ![p] = [H[p] EXCEPT ![k] = e]]
           x == Run(s, n)
<1>1. NFrames \in Nat /\ s \in Nat /\ s # NullPtr
  BY MemoryAssumption DEF Frames, NullPtr
<1>2. e \in Slots /\ e.ptr = s /\ e.size = n
  BY DEF Slots
<1>3. x \in HeapRuns /\ x.start = s /\ x.len = n
  BY DEF HeapRuns, Run, IsFreeRun
<1> HIDE DEF e
<1>4. G \in Holdings
  BY <1>2 DEF Holdings
<1>5. \A q \in Procs, j \in Roles : G[q][j] = IF q = p /\ j = k THEN e ELSE H[q][j]
  BY <1>2 DEF Holdings
<1> HIDE DEF G
<1>6. \A r \in R : Apart(r, x) /\ Apart(x, r) /\ r.start # s /\ r \in HeapRuns
  <2> SUFFICES ASSUME NEW r \in R PROVE Apart(r, x) /\ Apart(x, r) /\ r.start # s /\ r \in HeapRuns
    OBVIOUS
  <2>1. r \in HeapRuns
    BY DEF Accounted
  <2>2. r.start \in Nat /\ r.len \in Nat \ {0}
    BY <1>1, <2>1 DEF HeapRuns, Frames
  <2>3. (r.start .. r.start + r.len - 1) \cap (s .. s + n - 1) = {}
    BY DEF IsFreeRun, FramesOf
  <2>4. r.start + r.len <= s \/ s + n <= r.start
    BY <1>1, <2>2, <2>3, DisjointApart
  <2>5. r.start # s
    BY <1>1, <2>2, <2>4
  <2>6. QED
    BY <1>3, <2>1, <2>4, <2>5 DEF Apart
<1> HIDE DEF x
<1>7. R \cup {x} \subseteq HeapRuns
  BY <1>3 DEF Accounted
<1>8. \A r, t \in R \cup {x} : r # t => Apart(r, t)
  BY <1>6 DEF Accounted
<1>9. \A q \in Procs, j \in Roles :
        G[q][j].ptr # NullPtr => Run(G[q][j].ptr, G[q][j].size) \in R \cup {x}
  BY <1>2, <1>5 DEF Accounted, x
<1>10. \A r \in R \cup {x} : \E q \in Procs, j \in Roles :
         G[q][j].ptr = r.start /\ G[q][j].size = r.len
  <2> SUFFICES ASSUME NEW r \in R \cup {x}
               PROVE  \E q \in Procs, j \in Roles : G[q][j].ptr = r.start /\ G[q][j].size = r.len
    OBVIOUS
  <2>1. CASE r = x
    <3>1. G[p][k].ptr = r.start /\ G[p][k].size = r.len
      BY <1>2, <1>3, <1>5, <2>1
    <3>2. QED
      BY <3>1
  <2>2. CASE r \in R
    <3>1. PICK q \in Procs, j \in Roles : H[q][j].ptr = r.start /\ H[q][j].size = r.len
      BY <2>2 DEF Accounted
    <3>2. r.start # NullPtr
      BY <1>6, <2>2, <1>1 DEF HeapRuns, Frames, NullPtr
    <3>3. G[q][j] = H[q][j]
      BY <1>5, <3>1, <3>2
    <3>4. QED
      BY <3>1, <3>3
  <2>3. QED
    BY <2>1, <2>2
<1>11. \A q \in Procs, j \in Roles : H[q][j].ptr # NullPtr => H[q][j].ptr # s
  <2> SUFFICES ASSUME NEW q \in Procs, NEW j \in Roles, H[q][j].ptr # NullPtr
               PROVE  H[q][j].ptr # s
    OBVIOUS
  <2>1. Run(H[q][j].ptr, H[q][j].size) \in R
    BY DEF Accounted
  <2>2. QED
    BY <1>6, <2>1 DEF Run
<1>12. \A q, t \in Procs, j, l \in Roles :
         G[q][j].ptr # NullPtr /\ G[q][j].ptr = G[t][l].ptr => q = t /\ j = l
  BY <1>1, <1>2, <1>5, <1>11, SMTT(20) DEF Accounted
<1>13. Accounted(R \cup {x}, G)
  BY <1>7, <1>8, <1>9, <1>10, <1>12 DEF Accounted
<1>14. QED
  BY <1>4, <1>13 DEF G, x, e

\* kfree of what a process holds frees the run of it and no other.
LEMMA DropRun ==
  ASSUME NEW R, NEW H \in Holdings, Accounted(R, H),
         NEW p \in Procs, NEW k \in Roles, H[p][k].ptr # NullPtr
  PROVE  LET h == [H[p] EXCEPT ![k] = Empty]
         IN /\ [H EXCEPT ![p] = h] \in Holdings
            /\ Accounted(kfree(R, H[p][k].ptr), [H EXCEPT ![p] = h])
            /\ ~IsWild(R, H[p][k].ptr)
<1> DEFINE G == [H EXCEPT ![p] = [H[p] EXCEPT ![k] = Empty]]
           s == H[p][k].ptr
           F == kfree(R, s)
<1>1. Empty \in Slots /\ Empty.ptr = NullPtr
  BY DEF Empty, Slots
<1>2. G \in Holdings
  BY <1>1 DEF Holdings
<1>3. \A q \in Procs, j \in Roles : G[q][j] = IF q = p /\ j = k THEN Empty ELSE H[q][j]
  BY <1>1 DEF Holdings
<1> HIDE DEF G
<1>4. F = {r \in R : r.start # s}
  BY DEF kfree
<1>5. \A r \in R : r.start \in Nat /\ r.start # NullPtr
  BY MemoryAssumption DEF Accounted, HeapRuns, Frames, NullPtr
<1>6. ~IsWild(R, s)
  <2>1. Run(s, H[p][k].size) \in R
    BY DEF Accounted
  <2>2. QED
    BY <2>1 DEF IsWild, Run
<1>7. \A q \in Procs, j \in Roles : G[q][j].ptr # NullPtr =>
        G[q][j] = H[q][j] /\ H[q][j].ptr # s
  <2> SUFFICES ASSUME NEW q \in Procs, NEW j \in Roles, G[q][j].ptr # NullPtr
               PROVE  G[q][j] = H[q][j] /\ H[q][j].ptr # s
    OBVIOUS
  <2>1. ~(q = p /\ j = k)
    BY <1>1, <1>3
  <2>2. G[q][j] = H[q][j]
    BY <1>3, <2>1
  <2>3. H[q][j].ptr # s
    BY <2>1 DEF Accounted
  <2>4. QED
    BY <2>2, <2>3
<1>8. \A q \in Procs, j \in Roles :
        G[q][j].ptr # NullPtr => Run(G[q][j].ptr, G[q][j].size) \in F
  <2> SUFFICES ASSUME NEW q \in Procs, NEW j \in Roles, G[q][j].ptr # NullPtr
               PROVE  Run(G[q][j].ptr, G[q][j].size) \in F
    OBVIOUS
  <2>1. G[q][j] = H[q][j] /\ H[q][j].ptr # s
    BY <1>7
  <2>2. Run(H[q][j].ptr, H[q][j].size) \in R
    BY <2>1 DEF Accounted
  <2>3. Run(H[q][j].ptr, H[q][j].size).start # s
    BY <2>1 DEF Run
  <2> HIDE DEF s, F
  <2>4. QED
    BY <1>4, <2>1, <2>2, <2>3
<1>9. \A r \in F : \E q \in Procs, j \in Roles :
        G[q][j].ptr = r.start /\ G[q][j].size = r.len
  <2> SUFFICES ASSUME NEW r \in F
               PROVE  \E q \in Procs, j \in Roles : G[q][j].ptr = r.start /\ G[q][j].size = r.len
    OBVIOUS
  <2>1. r \in R /\ r.start # s
    BY <1>4
  <2>2. PICK q \in Procs, j \in Roles : H[q][j].ptr = r.start /\ H[q][j].size = r.len
    BY <2>1 DEF Accounted
  <2>3. ~(q = p /\ j = k)
    BY <2>1, <2>2
  <2>4. G[q][j] = H[q][j]
    BY <1>3, <2>3
  <2>5. QED
    BY <2>2, <2>4
<1>10. \A q, t \in Procs, j, l \in Roles :
         G[q][j].ptr # NullPtr /\ G[q][j].ptr = G[t][l].ptr => q = t /\ j = l
  BY <1>7, SMTT(30) DEF Accounted
<1>11. F \subseteq HeapRuns /\ \A r, t \in F : r # t => Apart(r, t)
  BY <1>4 DEF Accounted
<1>12. Accounted(F, G)
  <2> HIDE DEF F
  <2>1. QED
    BY <1>8, <1>9, <1>10, <1>11 DEF Accounted
<1>13. QED
  BY <1>2, <1>6, <1>12 DEF G
------------------------------------------------------------------------------
(***************************************************************************)
(* The memory of one process, as the helpers of process.c see it.          *)
(***************************************************************************)
Tables == {t \in [Indexes -> Slots] : \A k \in Indexes : t[k].ptr = NullPtr => t[k] = Empty}

Entries == [frame : Int, mode : {"r", "rw", "none"}]

Directories == [Pages -> Entries]

\* Frame f belongs to the allocation e.
Covers(e, f) == e.ptr # NullPtr /\ f \in e.ptr .. e.ptr + e.size - 1

\* Below the program the directory maps memory to itself, and writable where the
\* table has an allocation and nowhere else.
Mapped(d, t) ==
  \A v \in Frames :
    /\ d[v].frame = v
    /\ d[v].mode = "rw" <=> \E k \in Indexes : Covers(t[k], v)

\* What is so of the memory m of p, which has image i and stack s, when the other
\* processes hold what G says.
MemoryOK(m, G, p, st, i, s) ==
  /\ m \in [runs : SUBSET HeapRuns, table : Tables, dir : Directories, wild : {FALSE}]
  /\ Accounted(m.runs, [G EXCEPT ![p] = Hold(st, i, s, m.table)])
  /\ Mapped(m.dir, m.table)

\* The pages of the program and of the stack are as they were.
HighSame(d, e) == \A v \in Pages \ Frames : d[v] = e[v]

\* What a process holds is a slot in each role.
LEMMA HoldType ==
  ASSUME NEW st, NEW i \in Frames \cup {NullPtr}, NEW s \in Frames \cup {NullPtr},
         NEW t \in Tables
  PROVE  Hold(st, i, s, t) \in [Roles -> Slots]
<1>1. \A k \in Roles : k >= 1 => k \in Indexes
  BY MemoryAssumption DEF Roles, Indexes
<1>2. \A k \in Indexes : t[k] \in Slots
  BY DEF Tables
<1>3. /\ Empty \in Slots
      /\ [ptr |-> i, size |-> ImagePages] \in Slots
      /\ [ptr |-> s, size |-> StackPages] \in Slots
  BY MemoryAssumption DEF Slots, Empty
<1>4. QED
  BY <1>1, <1>2, <1>3 DEF Hold

\* An index of the allocation table is a role, and holds the slot of the table.
LEMMA HoldAt ==
  ASSUME NEW st, NEW i, NEW s, NEW t, NEW k \in Indexes
  PROVE  k \in Roles /\ Hold(st, i, s, t)[k] = t[k]
<1>1. k \in Roles /\ k >= 1
  BY MemoryAssumption DEF Roles, Indexes
<1>2. QED
  BY <1>1 DEF Hold

\* A slot of the table is a role of its own.
LEMMA HoldSlot ==
  ASSUME NEW st, NEW i, NEW s, NEW t \in Tables, NEW k \in Indexes, NEW e
  PROVE  /\ k \in Roles /\ Hold(st, i, s, t)[k] = t[k]
         /\ Hold(st, i, s, [t EXCEPT ![k] = e]) = [Hold(st, i, s, t) EXCEPT ![k] = e]
<1>1. k \in Roles /\ k >= 1
  BY MemoryAssumption DEF Roles, Indexes
<1>2. \A j \in Roles : j >= 1 => j \in Indexes
  BY MemoryAssumption DEF Roles, Indexes
<1>3. t \in [Indexes -> Slots]
  BY DEF Tables
<1>4. Hold(st, i, s, t)[k] = t[k]
  BY <1>1 DEF Hold
<1>5. \A j \in Roles : Hold(st, i, s, [t EXCEPT ![k] = e])[j] =
                        [Hold(st, i, s, t) EXCEPT ![k] = e][j]
  BY <1>1, <1>2, <1>3 DEF Hold
<1>6. QED
  <2> DEFINE x == [Hold(st, i, s, t) EXCEPT ![k] = e]
  <2>1. x = [j \in Roles |-> x[j]]
    BY DEF Hold
  <2>2. Hold(st, i, s, [t EXCEPT ![k] = e]) =
          [j \in Roles |-> Hold(st, i, s, [t EXCEPT ![k] = e])[j]]
    BY DEF Hold
  <2>3. QED
    BY <1>1, <1>4, <1>5, <2>1, <2>2

\* A table that is not full has a least free index.
LEMMA LeastIndex ==
  ASSUME NEW T, T \subseteq Nat, T # {}
  PROVE  LET k == CHOOSE j \in T : \A l \in T : j <= l
         IN k \in T /\ \A l \in T : k <= l
<1> DEFINE R == OpToRel(<, Nat)
<1>1. PICK x \in T : \A y \in T : ~(<<y, x>> \in R)
  <2>1. IsWellFoundedOn(R, Nat)
    BY NatLessThanWellFounded
  <2> HIDE DEF R
  <2>2. QED
    BY <2>1, WFMin
<1>2. ASSUME NEW y \in T
      PROVE  ~(y < x)
  <2>1. <<y, x>>[1] = y /\ <<y, x>>[2] = x /\ <<y, x>> \in Nat \X Nat
    OBVIOUS
  <2>2. y < x => <<y, x>> \in R
    BY <2>1, Zenon DEF OpToRel
  <2> HIDE DEF R
  <2>3. QED
    BY <1>1, <2>2
<1> HIDE DEF R
<1>3. \A y \in T : x <= y
  BY <1>2
<1>4. QED
  BY <1>3

\* What the program sees of a range of pages that is mapped to itself.
LEMMA MapRange ==
  ASSUME NEW d \in Directories, NEW a \in Nat, NEW n \in Nat, a + n <= NFrames,
         NEW mode \in {"r", "rw", "none"}
  PROVE  LET e == paging_map_to(d, a, a, a + n, mode)
         IN /\ e \in Directories
            /\ \A v \in Pages : e[v] = IF v \in a .. a + n - 1 THEN [frame |-> v, mode |-> mode]
                                        ELSE d[v]
            /\ HighSame(e, d)
<1> DEFINE e == paging_map_to(d, a, a, a + n, mode)
<1>1. NFrames \in Nat /\ Pages \subseteq Nat
  BY MemoryAssumption DEF Pages
<1>2. a + n - a = n
  OBVIOUS
<1>3. \A v \in Pages : a + (v - a) = v
  BY <1>1
<1>4. e = [v \in Pages |-> IF v \in a .. a + n - 1 THEN [frame |-> a + (v - a), mode |-> mode]
                           ELSE d[v]]
  BY <1>2 DEF paging_map_to
<1> HIDE DEF e
<1>5. \A v \in Pages : e[v] = IF v \in a .. a + n - 1 THEN [frame |-> v, mode |-> mode] ELSE d[v]
  BY <1>3, <1>4
<1>6. e \in Directories
  <2>1. \A v \in Pages : [frame |-> v, mode |-> mode] \in Entries
    BY <1>1 DEF Entries
  <2>2. \A v \in Pages : e[v] \in Entries
    BY <1>5, <2>1 DEF Directories
  <2>3. QED
    BY <1>4, <2>2 DEF Directories
<1>7. \A v \in Pages \ Frames : v \notin a .. a + n - 1
  BY <1>1 DEF Frames
<1>8. HighSame(e, d)
  BY <1>5, <1>7 DEF HighSame
<1>9. QED
  BY <1>5, <1>6, <1>8 DEF e

\* process_malloc hands out a run that was free, maps it and records it, or leaves
\* everything as it is when the table is full.
LEMMA MallocMemory ==
  ASSUME NEW G \in Holdings, NEW p \in Procs, NEW st,
         NEW i \in Frames \cup {NullPtr}, NEW s \in Frames \cup {NullPtr},
         NEW m, MemoryOK(m, G, p, st, i, s),
         NEW a \in Frames, NEW n \in Nat \ {0}, IsFreeRun(m.runs, a, n)
  PROVE  LET r == process_malloc(m, a, n)
         IN /\ MemoryOK(r, G, p, st, i, s)
            /\ HighSame(r.dir, m.dir)
            /\ r.runs \subseteq m.runs \cup {Run(a, n)}
<1> DEFINE r == process_malloc(m, a, n)
           t == m.table
           k == process_find_free_allocation_index(t)
           e == [ptr |-> a, size |-> n]
           u == [t EXCEPT ![k] = e]
           d == paging_map_to(m.dir, a, a, a + n, "rw")
           H == [G EXCEPT ![p] = Hold(st, i, s, t)]
<1>1. CASE FreeIndexes(t) = {}
  BY <1>1 DEF process_malloc, HighSame
<1>2. CASE FreeIndexes(t) # {}
  <2>1. /\ m.runs \subseteq HeapRuns /\ t \in Tables /\ m.dir \in Directories /\ m.wild = FALSE
        /\ Accounted(m.runs, H) /\ Mapped(m.dir, t)
    BY DEF MemoryOK
  <2>2. k \in Indexes /\ t[k].ptr = NullPtr
    <3>1. FreeIndexes(t) \subseteq Nat
      BY DEF FreeIndexes, Indexes
    <3>2. k \in FreeIndexes(t)
      BY <1>2, <3>1, LeastIndex DEF process_find_free_allocation_index
    <3>3. QED
      BY <3>2 DEF FreeIndexes
  <2>3. /\ NFrames \in Nat /\ a \in Nat /\ a # NullPtr /\ a + n <= NFrames
    BY MemoryAssumption DEF Frames, NullPtr, IsFreeRun
  <2>4. e \in Slots /\ e.ptr = a /\ e.size = n
    BY DEF Slots
  <2> HIDE DEF k, e
  <2>5. /\ r.runs = m.runs \cup {Run(a, n)} /\ r.dir = d /\ r.table = u /\ r.wild = FALSE
        /\ r = [runs |-> r.runs, table |-> r.table, dir |-> r.dir, wild |-> r.wild]
    BY <1>2, <2>1 DEF process_malloc, MemoryOK, k, e
  <2> HIDE DEF r
  <2>6. u \in Tables /\ \A j \in Indexes : u[j] = IF j = k THEN e ELSE t[j]
    BY <2>1, <2>2, <2>3, <2>4 DEF Tables
  <2>7. /\ Hold(st, i, s, u) = [Hold(st, i, s, t) EXCEPT ![k] = e]
        /\ k \in Roles /\ Hold(st, i, s, t)[k] = t[k]
    BY <2>1, <2>2, HoldSlot
  <2>8. H \in Holdings /\ H[p] = Hold(st, i, s, t)
    BY <2>1, HoldType DEF Holdings
  <2>9. Accounted(m.runs \cup {Run(a, n)}, [H EXCEPT ![p] = [H[p] EXCEPT ![k] = [ptr |-> a, size |-> n]]])
    <3> HIDE DEF H
    <3>1. H[p][k].ptr = NullPtr
      BY <2>2, <2>7, <2>8
    <3>2. QED
      BY <2>1, <2>7, <2>8, <3>1, TakeRun
  <2>10. [H EXCEPT ![p] = [H[p] EXCEPT ![k] = e]] = [G EXCEPT ![p] = Hold(st, i, s, u)]
    <3> HIDE DEF u
    <3>1. QED
      BY <2>7, <2>8 DEF Holdings
  <2>11. Accounted(r.runs, [G EXCEPT ![p] = Hold(st, i, s, r.table)])
    <3> HIDE DEF u, H
    <3>1. QED
      BY <2>5, <2>9, <2>10 DEF e
  <2>12. /\ d \in Directories
         /\ \A v \in Pages : d[v] = IF v \in a .. a + n - 1 THEN [frame |-> v, mode |-> "rw"]
                                     ELSE m.dir[v]
         /\ HighSame(d, m.dir)
    BY <2>1, <2>3, MapRange
  <2> HIDE DEF d, u, H
  <2>13. Mapped(d, u)
    <3> SUFFICES ASSUME NEW v \in Frames
                 PROVE  d[v].frame = v /\ (d[v].mode = "rw" <=> \E j \in Indexes : Covers(u[j], v))
      BY DEF Mapped
    <3>1. v \in Pages
      BY MemoryAssumption DEF Frames, Pages
    <3>2. m.dir[v].frame = v /\ (m.dir[v].mode = "rw" <=> \E j \in Indexes : Covers(t[j], v))
      BY <2>1 DEF Mapped
    <3>3. Covers(e, v) <=> v \in a .. a + n - 1
      BY <2>3, <2>4 DEF Covers
    <3>4. ~Covers(t[k], v)
      BY <2>2 DEF Covers
    <3>5. (\E j \in Indexes : Covers(u[j], v)) <=>
            Covers(e, v) \/ \E j \in Indexes : Covers(t[j], v)
      BY <2>2, <2>6, <3>4
    <3>6. CASE v \in a .. a + n - 1
      <4>1. d[v] = [frame |-> v, mode |-> "rw"]
        BY <2>12, <3>1, <3>6
      <4>2. d[v].frame = v /\ d[v].mode = "rw"
        BY <4>1
      <4>3. QED
        BY <3>3, <3>5, <3>6, <4>2
    <3>7. CASE v \notin a .. a + n - 1
      BY <2>12, <3>1, <3>2, <3>3, <3>5, <3>7
    <3>8. QED
      BY <3>6, <3>7
  <2>14. m.runs \cup {Run(a, n)} \subseteq HeapRuns
    BY <2>9 DEF Accounted
  <2>15. r \in [runs : SUBSET HeapRuns, table : Tables, dir : Directories, wild : {FALSE}]
    BY <2>5, <2>6, <2>12, <2>14
  <2>16. MemoryOK(r, G, p, st, i, s)
    BY <2>5, <2>11, <2>13, <2>15 DEF MemoryOK
  <2>17. QED
    BY <2>5, <2>12, <2>16 DEF r
<1>3. QED
  BY <1>1, <1>2

\* process_free of any pointer: an allocation of the process is unmapped, freed and
\* forgotten; anything else is left alone.
LEMMA FreeMemory ==
  ASSUME NEW G \in Holdings, NEW p \in Procs, NEW st,
         NEW i \in Frames \cup {NullPtr}, NEW s \in Frames \cup {NullPtr},
         NEW m, MemoryOK(m, G, p, st, i, s),
         NEW a \in Frames \cup {NullPtr}
  PROVE  LET r == process_free(m, a)
         IN /\ MemoryOK(r, G, p, st, i, s)
            /\ HighSame(r.dir, m.dir)
            /\ \A j \in Indexes : r.table[j] = IF m.table[j].ptr = a THEN Empty ELSE m.table[j]
<1> DEFINE r == process_free(m, a)
           t == m.table
           H == [G EXCEPT ![p] = Hold(st, i, s, t)]
<1>1. /\ m.runs \subseteq HeapRuns /\ t \in Tables /\ m.dir \in Directories /\ m.wild = FALSE
      /\ Accounted(m.runs, H) /\ Mapped(m.dir, t)
      /\ m = [runs |-> m.runs, table |-> m.table, dir |-> m.dir, wild |-> m.wild]
  BY DEF MemoryOK
<1>2. CASE \A k \in Indexes : t[k].ptr # a
  BY <1>2 DEF process_free, HighSame
<1>3. ASSUME ~ \A k \in Indexes : t[k].ptr # a
      PROVE  \E k \in Indexes :
               /\ t[k].ptr = a
               /\ r.dir = paging_map_to(m.dir, a, a, a + t[k].size, "none")
               /\ r.table = process_allocation_unjoin(t, a)
               /\ r.runs = kfree(m.runs, a)
               /\ r.wild = IsWild(m.runs, a)
               /\ r = [runs |-> r.runs, table |-> r.table, dir |-> r.dir, wild |-> r.wild]
  <2> DEFINE T == {l \in Indexes : t[l].ptr = a}
             P(j) == t[j].ptr = a /\ \A l \in Indexes : t[l].ptr = a => j <= l
             k == CHOOSE j \in Indexes : P(j)
  <2>1. \E j \in Indexes : P(j)
    <3>1. T \subseteq Nat /\ T # {}
      BY <1>3 DEF Indexes
    <3>2. PICK j \in T : \A l \in T : j <= l
      BY <3>1, LeastIndex
    <3>3. QED
      BY <3>2
  <2>2. k \in Indexes /\ P(k)
    BY <2>1
  <2> HIDE DEF P
  <2>3. r = [m EXCEPT !.dir = paging_map_to(m.dir, a, a, a + t[k].size, "none"),
                      !.table = process_allocation_unjoin(t, a),
                      !.runs = kfree(m.runs, a),
                      !.wild = m.wild \/ IsWild(m.runs, a)]
    BY <1>3 DEF process_free, P
  <2>4. t[k].ptr = a
    BY <2>2 DEF P
  <2> HIDE DEF k, r
  <2>5. (m.wild \/ IsWild(m.runs, a)) = IsWild(m.runs, a)
    BY <1>1, Zenon DEF IsWild
  <2>6. r = [runs |-> kfree(m.runs, a), table |-> process_allocation_unjoin(t, a),
             dir |-> paging_map_to(m.dir, a, a, a + t[k].size, "none"),
             wild |-> IsWild(m.runs, a)]
    BY <1>1, <2>3, <2>5
  <2>7. QED
    BY <2>2, <2>4, <2>6
<1>4. CASE ~ \A k \in Indexes : t[k].ptr # a
  <2>1. PICK k \in Indexes :
               /\ t[k].ptr = a
               /\ r.dir = paging_map_to(m.dir, a, a, a + t[k].size, "none")
               /\ r.table = process_allocation_unjoin(t, a)
               /\ r.runs = kfree(m.runs, a)
               /\ r.wild = IsWild(m.runs, a)
               /\ r = [runs |-> r.runs, table |-> r.table, dir |-> r.dir, wild |-> r.wild]
    BY <1>3, <1>4
  <2> HIDE DEF r
  <2>2. r.table = [j \in Indexes |-> IF t[j].ptr = a THEN Empty ELSE t[j]]
    BY <2>1 DEF process_allocation_unjoin
  <2>3. CASE a = NullPtr
    <3>1. r.table = t
      <4>1. \A j \in Indexes : t[j] = IF t[j].ptr = a THEN Empty ELSE t[j]
        BY <1>1, <2>3 DEF Tables
      <4>2. t \in [Indexes -> Slots]
        BY <1>1 DEF Tables
      <4> HIDE DEF t
      <4>3. QED
        BY <2>2, <4>1, <4>2
    <3>2. r.runs = m.runs
      <4>1. \A x \in m.runs : x.start # a
        BY <1>1, <2>3, MemoryAssumption DEF HeapRuns, Frames, NullPtr
      <4>2. QED
        BY <2>1, <4>1 DEF kfree
    <3>3. r.dir = m.dir
      <4>1. t[k] = Empty
        BY <1>1, <2>1, <2>3 DEF Tables
      <4>2. t[k].size = 0
        BY <4>1 DEF Empty
      <4>3. a + t[k].size = a /\ a - a = 0 /\ a + 0 - 1 < a /\ a \in Int
        BY <2>3, <4>2 DEF NullPtr
      <4>4. \A v \in Pages : v \in Nat
        BY MemoryAssumption DEF Pages
      <4>5. \A v \in Pages : v \notin a .. a + 0 - 1
        BY <4>3, <4>4
      <4>6. m.dir \in [Pages -> Entries]
        BY <1>1 DEF Directories
      <4>7. paging_map_to(m.dir, a, a, a, "none") = m.dir
        BY <4>3, <4>5, <4>6 DEF paging_map_to
      <4>8. QED
        BY <2>1, <4>3, <4>7
    <3>4. r.wild = FALSE
      BY <2>1, <2>3 DEF IsWild
    <3>5. r = m
      BY <1>1, <2>1, <3>1, <3>2, <3>3, <3>4
    <3>6. QED
      BY <2>2, <3>1, <3>5 DEF HighSame, r
  <2>4. CASE a # NullPtr
    <3>1. H \in Holdings /\ H[p] = Hold(st, i, s, t)
      BY <1>1, HoldType DEF Holdings
    <3>2. /\ k \in Roles /\ Hold(st, i, s, t)[k] = t[k]
          /\ Hold(st, i, s, [t EXCEPT ![k] = Empty]) = [Hold(st, i, s, t) EXCEPT ![k] = Empty]
      BY <1>1, HoldSlot
    <3> DEFINE u == [t EXCEPT ![k] = Empty]
    <3>3. H[p][k].ptr = a
      BY <2>1, <3>1, <3>2
    <3>4. \A j \in Indexes : t[j].ptr = a => j = k
      <4> SUFFICES ASSUME NEW j \in Indexes, t[j].ptr = a PROVE j = k
        OBVIOUS
      <4>1. j \in Roles /\ H[p][j] = t[j]
        BY <3>1, HoldAt
      <4> HIDE DEF H, t
      <4>2. QED
        BY <1>1, <2>4, <3>2, <3>3, <4>1 DEF Accounted
    <3>5. r.table = u
      <4>1. t \in [Indexes -> Slots]
        BY <1>1 DEF Tables
      <4> HIDE DEF t
      <4>2. QED
        BY <2>1, <2>2, <3>4, <4>1
    <3>6. /\ Accounted(r.runs, [G EXCEPT ![p] = Hold(st, i, s, r.table)])
          /\ r.wild = FALSE
      <4>1. /\ Accounted(kfree(m.runs, a), [H EXCEPT ![p] = [H[p] EXCEPT ![k] = Empty]])
            /\ ~IsWild(m.runs, a)
        <5> HIDE DEF H
        <5>1. QED
          BY <1>1, <2>4, <3>1, <3>2, <3>3, DropRun
      <4>2. [H EXCEPT ![p] = [H[p] EXCEPT ![k] = Empty]] = [G EXCEPT ![p] = Hold(st, i, s, u)]
        <5> HIDE DEF u
        <5>1. [H[p] EXCEPT ![k] = Empty] = Hold(st, i, s, u)
          BY <3>1, <3>2 DEF u
        <5>2. [H EXCEPT ![p] = Hold(st, i, s, u)] = [G EXCEPT ![p] = Hold(st, i, s, u)]
          BY DEF Holdings
        <5>3. QED
          BY <5>1, <5>2
      <4>3. r.wild = FALSE
        BY <2>1, <4>1, Zenon DEF IsWild
      <4> HIDE DEF H, u
      <4>4. QED
        BY <2>1, <3>5, <4>1, <4>2, <4>3
    <3>7. u \in Tables /\ \A j \in Indexes : u[j] = IF j = k THEN Empty ELSE t[j]
      BY <1>1 DEF Tables, Empty, Slots
    <3> DEFINE n == t[k].size
    <3>8. /\ a \in Nat /\ n \in Nat /\ a + n <= NFrames
      <4>1. Run(a, n) \in HeapRuns
        <5> HIDE DEF H
        <5>1. Run(H[p][k].ptr, H[p][k].size) \in m.runs
          BY <1>1, <2>4, <3>2, <3>3 DEF Accounted
        <5>2. H[p][k] = t[k]
          BY <3>1, <3>2
        <5>3. QED
          BY <1>1, <3>3, <5>1, <5>2
      <4>2. QED
        BY <4>1, MemoryAssumption DEF HeapRuns, Run, Frames
    <3>9. /\ r.dir \in Directories
          /\ \A v \in Pages : r.dir[v] = IF v \in a .. a + n - 1 THEN [frame |-> v, mode |-> "none"]
                                          ELSE m.dir[v]
          /\ HighSame(r.dir, m.dir)
      BY <1>1, <2>1, <3>8, MapRange
    <3>10. ASSUME NEW j \in Indexes, j # k, NEW v \in a .. a + n - 1
           PROVE  ~Covers(t[j], v)
      <4>1. j \in Roles /\ H[p][j] = t[j] /\ H[p][k] = t[k]
        BY <3>1, <3>2, HoldAt
      <4>2. ASSUME t[j].ptr # NullPtr
            PROVE  v \notin t[j].ptr .. t[j].ptr + t[j].size - 1
        <5> DEFINE x == Run(a, n)
                   y == Run(t[j].ptr, t[j].size)
        <5>1. x \in m.runs /\ y \in m.runs
          <6> HIDE DEF H, t
          <6>1. QED
            BY <1>1, <2>1, <2>4, <3>2, <4>1, <4>2 DEF Accounted
        <5>2. x # y
          BY <3>4, <3>10 DEF Run
        <5>3. Apart(x, y)
          BY <1>1, <5>1, <5>2 DEF Accounted
        <5>4. y \in HeapRuns
          BY <1>1, <5>1
        <5>5. t[j].ptr \in Nat /\ t[j].size \in Nat
          BY <5>4, MemoryAssumption DEF HeapRuns, Run, Frames
        <5>6. a + n <= t[j].ptr \/ t[j].ptr + t[j].size <= a
          BY <5>3 DEF Apart, Run
        <5> HIDE DEF n
        <5>7. QED
          BY <3>8, <5>5, <5>6
      <4>3. QED
        BY <4>2 DEF Covers
    <3>11. Mapped(r.dir, u)
      <4> SUFFICES ASSUME NEW v \in Frames
                   PROVE  /\ r.dir[v].frame = v
                          /\ r.dir[v].mode = "rw" <=> \E j \in Indexes : Covers(u[j], v)
        BY DEF Mapped
      <4>1. v \in Pages
        BY MemoryAssumption DEF Frames, Pages
      <4>2. m.dir[v].frame = v /\ (m.dir[v].mode = "rw" <=> \E j \in Indexes : Covers(t[j], v))
        BY <1>1 DEF Mapped
      <4>3. Covers(t[k], v) <=> v \in a .. a + n - 1
        BY <2>1, <2>4 DEF Covers
      <4>4. ~Covers(u[k], v)
        BY <3>7 DEF Covers, Empty
      <4> HIDE DEF u, n, t
      <4>5. CASE v \in a .. a + n - 1
        <5>1. r.dir[v] = [frame |-> v, mode |-> "none"]
          BY <3>9, <4>1, <4>5
        <5>2. r.dir[v].frame = v /\ r.dir[v].mode # "rw"
          BY <5>1
        <5>3. \A j \in Indexes : ~Covers(u[j], v)
          BY <3>7, <3>10, <4>4, <4>5
        <5>4. QED
          BY <5>2, <5>3
      <4>6. CASE v \notin a .. a + n - 1
        <5>1. r.dir[v] = m.dir[v]
          BY <3>9, <4>1, <4>6
        <5>2. \A j \in Indexes : Covers(u[j], v) <=> Covers(t[j], v)
          BY <3>7, <4>3, <4>4, <4>6
        <5>3. QED
          BY <4>2, <5>1, <5>2
      <4>7. QED
        BY <4>5, <4>6
    <3>12. r \in [runs : SUBSET HeapRuns, table : Tables, dir : Directories, wild : {FALSE}]
      <4>1. r.runs \subseteq HeapRuns
        BY <3>6 DEF Accounted
      <4>2. QED
        BY <2>1, <3>5, <3>6, <3>7, <3>9, <4>1
    <3>13. MemoryOK(r, G, p, st, i, s)
      BY <3>5, <3>6, <3>11, <3>12 DEF MemoryOK
    <3>14. QED
      BY <2>2, <3>9, <3>13 DEF r
  <2>5. QED
    BY <2>3, <2>4
<1>5. QED
  BY <1>2, <1>4
------------------------------------------------------------------------------
(***************************************************************************)
(* process_terminate_allocations.  It is a recursive function: that there  *)
(* is one, and what holds of its values, is shown by the least index at    *)
(* which it would fail.                                                    *)
(***************************************************************************)
FreeSlot(x, k) == process_free(x, x.table[k].ptr)

\* A function f with the memory after freeing the first k slots, k <= n.
Frees(f, m, n) == f = [k \in 0 .. n |-> IF k = 0 THEN m ELSE FreeSlot(f[k - 1], k)]

\* There is such a function for every memory and every number of slots.
LEMMA FreesExists ==
  ASSUME NEW m, NEW n \in Nat
  PROVE  \E f : Frees(f, m, n)
<1> DEFINE T == {k \in Nat : ~ \E f : Frees(f, m, k)}
<1>1. T = {}
  <2> SUFFICES ASSUME T # {} PROVE FALSE
    OBVIOUS
  <2>1. PICK k \in T : \A l \in T : k <= l
    BY LeastIndex
  <2>2. k \in Nat /\ ~ \E f : Frees(f, m, k)
    OBVIOUS
  <2>3. CASE k = 0
    <3> DEFINE f == [l \in 0 .. 0 |-> m]
    <3>1. Frees(f, m, k)
      BY <2>3 DEF Frees
    <3>2. QED
      BY <2>2, <3>1
  <2>4. CASE k # 0
    <3>1. k - 1 \in Nat /\ ~(k <= k - 1)
      BY <2>2, <2>4
    <3>2. PICK g : Frees(g, m, k - 1)
      BY <2>1, <3>1
    <3> DEFINE f == [l \in 0 .. k |-> IF l = k THEN FreeSlot(g[k - 1], k) ELSE g[l]]
    <3>3. \A l \in 0 .. k - 1 : g[l] = IF l = 0 THEN m ELSE FreeSlot(g[l - 1], l)
      BY <3>2 DEF Frees
    <3>4. ASSUME NEW l \in 0 .. k
          PROVE  f[l] = IF l = 0 THEN m ELSE FreeSlot(f[l - 1], l)
      <4>1. CASE l = k
        <5>1. l # 0 /\ k - 1 \in 0 .. k /\ k - 1 # k
          BY <2>2, <2>4, <4>1
        <5>2. QED
          BY <4>1, <5>1
      <4>2. CASE l # k /\ l # 0
        <5>1. l \in 0 .. k - 1 /\ l - 1 \in 0 .. k /\ l - 1 # k
          BY <2>2, <4>2
        <5>2. QED
          BY <3>3, <4>2, <5>1
      <4>3. CASE l # k /\ l = 0
        <5>1. l \in 0 .. k - 1
          BY <2>2, <4>3
        <5>2. QED
          BY <3>3, <4>3, <5>1
      <4>4. QED
        BY <4>1, <4>2, <4>3
    <3>5. f = [l \in 0 .. k |-> f[l]]
      OBVIOUS
    <3> HIDE DEF f
    <3>6. Frees(f, m, k)
      BY <3>4, <3>5 DEF Frees
    <3>7. QED
      BY <2>2, <3>6
  <2>5. QED
    BY <2>3, <2>4
<1>2. QED
  BY <1>1

\* Freeing slot after slot leaves a process without allocations, and takes nothing
\* from any other.
LEMMA TerminateMemory ==
  ASSUME NEW G \in Holdings, NEW p \in Procs, NEW st,
         NEW i \in Frames \cup {NullPtr}, NEW s \in Frames \cup {NullPtr},
         NEW m, MemoryOK(m, G, p, st, i, s)
  PROVE  LET r == process_terminate_allocations(m)
         IN /\ MemoryOK(r, G, p, st, i, s)
            /\ \A j \in Indexes : r.table[j].ptr = NullPtr
<1> DEFINE f == CHOOSE g : Frees(g, m, MaxAllocations)
<1>1. MaxAllocations \in Nat /\ MaxAllocations # 0
  BY MemoryAssumption
<1>2. process_terminate_allocations(m) = f[MaxAllocations]
  BY DEF process_terminate_allocations, Frees, FreeSlot
<1>3. Frees(f, m, MaxAllocations)
  BY <1>1, FreesExists
<1> HIDE DEF f
<1>4. \A k \in 0 .. MaxAllocations : f[k] = IF k = 0 THEN m ELSE FreeSlot(f[k - 1], k)
  BY <1>3 DEF Frees
<1> DEFINE Q(k) == /\ MemoryOK(f[k], G, p, st, i, s)
                   /\ \A j \in 1 .. k : f[k].table[j].ptr = NullPtr
           T == {k \in 0 .. MaxAllocations : ~Q(k)}
<1>5. T = {}
  <2> SUFFICES ASSUME T # {} PROVE FALSE
    OBVIOUS
  <2>1. T \subseteq Nat
    BY <1>1
  <2>2. PICK k \in T : \A l \in T : k <= l
    BY <2>1, LeastIndex
  <2>3. k \in 0 .. MaxAllocations /\ ~Q(k)
    OBVIOUS
  <2>4. CASE k = 0
    <3>1. f[k] = m /\ 1 .. k = {}
      BY <1>1, <1>4, <2>3, <2>4
    <3>2. QED
      BY <2>3, <3>1
  <2>5. CASE k # 0
    <3>1. k - 1 \in 0 .. MaxAllocations /\ ~(k <= k - 1) /\ k \in Indexes
      BY <1>1, <2>3, <2>5 DEF Indexes
    <3>2. Q(k - 1)
      BY <2>2, <3>1
    <3> DEFINE x == f[k - 1]
    <3>3. MemoryOK(x, G, p, st, i, s) /\ \A j \in 1 .. k - 1 : x.table[j].ptr = NullPtr
      BY <3>2
    <3>4. f[k] = process_free(x, x.table[k].ptr)
      BY <1>4, <2>3, <2>5 DEF FreeSlot
    <3>5. x.table \in Tables
      BY <3>3 DEF MemoryOK
    <3>6. x.table[k].ptr \in Frames \cup {NullPtr}
      BY <3>1, <3>5 DEF Tables, Slots
    <3> HIDE DEF x
    <3>7. /\ MemoryOK(f[k], G, p, st, i, s)
          /\ \A j \in Indexes : f[k].table[j] = IF x.table[j].ptr = x.table[k].ptr THEN Empty
                                                ELSE x.table[j]
      <4> DEFINE a == x.table[k].ptr
                 y == process_free(x, a)
      <4>1. a \in Frames \cup {NullPtr}
        BY <3>6
      <4> HIDE DEF a, Q, T
      <4>2. /\ MemoryOK(y, G, p, st, i, s)
            /\ \A j \in Indexes : y.table[j] = IF x.table[j].ptr = a THEN Empty ELSE x.table[j]
        BY <3>3, <4>1, FreeMemory
      <4>3. QED
        BY <3>4, <4>2 DEF a
    <3>8. \A j \in 1 .. k : j \in Indexes /\ (j = k \/ j \in 1 .. k - 1)
      BY <1>1, <2>3 DEF Indexes
    <3>9. \A j \in 1 .. k : f[k].table[j].ptr = NullPtr
      <4>1. Empty.ptr = NullPtr
        BY DEF Empty
      <4>2. QED
        BY <3>3, <3>7, <3>8, <4>1
    <3>10. QED
      BY <2>3, <3>7, <3>9
  <2>6. QED
    BY <2>4, <2>5
<1>6. Q(MaxAllocations)
  BY <1>1, <1>5
<1>7. QED
  BY <1>2, <1>6 DEF Indexes
------------------------------------------------------------------------------
(***************************************************************************)
(* The inductive invariant.  The properties about the mappings need more   *)
(* than they say: that the heap is mapped to itself, that its writable     *)
(* pages are exactly the recorded allocations and that program and stack   *)
(* are mapped above it.  All of them need to know that runs do not overlap *)
(* and that each has one owner.                                            *)
(***************************************************************************)
Held == [p \in Procs |-> Hold(state[p], image[p], stack[p], allocations[p])]

MemoryType ==
  /\ state \in [Procs -> {"unused", "loaded", "failed", "exited"}]
  /\ image \in [Procs -> Frames \cup {NullPtr}]
  /\ stack \in [Procs -> Frames \cup {NullPtr}]
  /\ allocations \in [Procs -> Tables]
  /\ directory \in [Procs -> Directories]
  /\ wild = FALSE

\* A process has nothing before it is loaded, and a program and a stack after.
Phases ==
  \A p \in Procs :
    /\ state[p] = "unused" => /\ image[p] = NullPtr /\ stack[p] = NullPtr
                              /\ \A k \in Indexes : allocations[p][k].ptr = NullPtr
    /\ state[p] = "loaded" => image[p] # NullPtr /\ stack[p] # NullPtr

\* The writable pages above the heap are program and stack.
High(d, st, i, s) ==
  \A v \in Pages \ Frames :
    d[v].mode = "rw" =>
      /\ st = "loaded"
      /\ \/ d[v].frame \in i .. i + ImagePages - 1
         \/ d[v].frame \in s .. s + StackPages - 1

MemoryInv ==
  /\ MemoryType
  /\ Accounted(runs, Held)
  /\ \A p \in Procs : Mapped(directory[p], allocations[p])
  /\ Phases
  /\ SegmentPages <= ImagePages =>
       \A p \in Procs : High(directory[p], state[p], image[p], stack[p])

\* The invariant says of each process what the lemmas about its memory need.
LEMMA MemoryOf ==
  ASSUME MemoryInv, NEW p \in Procs
  PROVE  /\ Held \in Holdings
         /\ MemoryOK(Memory(p), Held, p, state[p], image[p], stack[p])
         /\ image[p] \in Frames \cup {NullPtr} /\ stack[p] \in Frames \cup {NullPtr}
         /\ Memory(p).runs = runs /\ Memory(p).table = allocations[p]
         /\ Memory(p).dir = directory[p] /\ Memory(p).wild = FALSE
<1>1. MemoryType
  BY DEF MemoryInv
<1>2. \A q \in Procs : Hold(state[q], image[q], stack[q], allocations[q]) \in [Roles -> Slots]
  BY <1>1, HoldType DEF MemoryType
<1>3. Held \in Holdings
  BY <1>2 DEF Held, Holdings
<1>4. [Held EXCEPT ![p] = Hold(state[p], image[p], stack[p], allocations[p])] = Held
  BY DEF Held
<1>5. runs \subseteq HeapRuns
  BY DEF MemoryInv, Accounted
<1>6. Memory(p) \in [runs : SUBSET HeapRuns, table : Tables, dir : Directories, wild : {FALSE}]
  BY <1>1, <1>5 DEF MemoryType, Memory
<1>7. /\ Memory(p).runs = runs /\ Memory(p).table = allocations[p]
      /\ Memory(p).dir = directory[p] /\ Memory(p).wild = FALSE
  BY <1>1 DEF Memory, MemoryType
<1>8. MemoryOK(Memory(p), Held, p, state[p], image[p], stack[p])
  BY <1>4, <1>6, <1>7 DEF MemoryOK, MemoryInv
<1>9. QED
  BY <1>1, <1>3, <1>7, <1>8 DEF MemoryType

\* A step that gives p the memory m keeps the invariant when m is right for it.
LEMMA MemoryStep ==
  ASSUME MemoryInv, NEW p \in Procs, NEW m,
         NEW st \in {"loaded", "failed", "exited"},
         NEW i \in Frames \cup {NullPtr}, NEW s \in Frames \cup {NullPtr},
         MemoryOK(m, Held, p, st, i, s),
         st = "loaded" => i # NullPtr /\ s # NullPtr,
         SegmentPages <= ImagePages => High(m.dir, st, i, s),
         state' = [state EXCEPT ![p] = st],
         image' = [image EXCEPT ![p] = i],
         stack' = [stack EXCEPT ![p] = s],
         Becomes(p, m)
  PROVE  MemoryInv'
<1>1. MemoryType /\ Phases
  BY DEF MemoryInv
<1>2. /\ runs' = m.runs /\ wild' = m.wild
      /\ allocations' = [allocations EXCEPT ![p] = m.table]
      /\ directory' = [directory EXCEPT ![p] = m.dir]
  BY DEF Becomes
<1>3. m.table \in Tables /\ m.dir \in Directories /\ m.wild = FALSE
  BY DEF MemoryOK
<1>4. MemoryType'
  BY <1>1, <1>2, <1>3 DEF MemoryType
<1>5. Held' = [Held EXCEPT ![p] = Hold(st, i, s, m.table)]
  <2>1. Held' = [q \in Procs |-> Hold(state'[q], image'[q], stack'[q], allocations'[q])]
    BY DEF Held
  <2>2. \A q \in Procs : Hold(state'[q], image'[q], stack'[q], allocations'[q]) =
          IF q = p THEN Hold(st, i, s, m.table)
          ELSE Hold(state[q], image[q], stack[q], allocations[q])
    BY <1>1, <1>2 DEF MemoryType
  <2>3. QED
    BY <2>1, <2>2 DEF Held
<1>6. Accounted(runs, Held)'
  BY <1>2, <1>5 DEF MemoryOK
<1>7. \A q \in Procs : Mapped(directory[q], allocations[q])'
  BY <1>1, <1>2 DEF MemoryInv, MemoryType, MemoryOK
<1>8. Phases'
  BY <1>1, <1>2 DEF Phases, MemoryType
<1>9. SegmentPages <= ImagePages =>
        \A q \in Procs : High(directory[q], state[q], image[q], stack[q])'
  BY <1>1, <1>2 DEF MemoryInv, MemoryType
<1>10. QED
  BY <1>4, <1>6, <1>7, <1>8, <1>9 DEF MemoryInv

\* The image and the stack of a load are new holdings of its process.
LEMMA ImageRun ==
  ASSUME MemoryInv, NEW p \in Procs, state[p] = "unused",
         NEW st \in {"loaded", "failed"},
         NEW i \in Frames, IsFreeRun(runs, i, ImagePages)
  PROVE  LET H == [Held EXCEPT ![p] = Hold(st, i, NullPtr, allocations[p])]
         IN H \in Holdings /\ Accounted(runs \cup {Run(i, ImagePages)}, H)
<1> DEFINE t == allocations[p]
           h == Hold("unused", NullPtr, NullPtr, t)
           g == Hold(st, i, NullPtr, t)
           e == [ptr |-> i, size |-> ImagePages]
<1>1. image[p] = NullPtr /\ stack[p] = NullPtr
  BY DEF MemoryInv, Phases
<1>2. Held \in Holdings /\ Accounted(runs, Held) /\ Held[p] = h
  BY <1>1, MemoryOf DEF MemoryInv, Held
<1>3. 0 \in Roles /\ i # NullPtr
  BY MemoryAssumption DEF Roles, Frames, NullPtr
<1>4. h[0] = Empty /\ Empty.ptr = NullPtr
  BY <1>3 DEF Hold, Empty
<1>5. [h EXCEPT ![0] = e] = g
  <2>1. \A k \in Roles : g[k] = IF k = 0 THEN e ELSE h[k]
    BY <1>3 DEF Hold
  <2>2. g = [k \in Roles |-> g[k]] /\ h = [k \in Roles |-> h[k]]
    BY DEF Hold
  <2> HIDE DEF g, h, e
  <2>3. QED
    BY <1>3, <2>1, <2>2
<1> HIDE DEF g, h
<1>6. ImagePages \in Nat \ {0}
  BY MemoryAssumption
<1>7. Held[p][0].ptr = NullPtr
  BY <1>2, <1>4
<1>8. LET x == [Held[p] EXCEPT ![0] = [ptr |-> i, size |-> ImagePages]]
      IN /\ [Held EXCEPT ![p] = x] \in Holdings
         /\ Accounted(runs \cup {Run(i, ImagePages)}, [Held EXCEPT ![p] = x])
  BY <1>2, <1>3, <1>6, <1>7, TakeRun
<1>9. QED
  BY <1>2, <1>5, <1>8 DEF g

\* A load takes a run for the image and then one for the stack.
LEMMA StackRun ==
  ASSUME MemoryInv, NEW p \in Procs, state[p] = "unused",
         NEW st \in {"loaded", "failed"},
         NEW i \in Frames, IsFreeRun(runs, i, ImagePages),
         NEW s \in Frames, IsFreeRun(runs \cup {Run(i, ImagePages)}, s, StackPages)
  PROVE  Accounted(runs \cup {Run(i, ImagePages), Run(s, StackPages)},
                   [Held EXCEPT ![p] = Hold(st, i, s, allocations[p])])
<1> DEFINE t == allocations[p]
           h == Hold(st, i, NullPtr, t)
           g == Hold(st, i, s, t)
           e == [ptr |-> s, size |-> StackPages]
           H == [Held EXCEPT ![p] = h]
           R == runs \cup {Run(i, ImagePages)}
<1>1. H \in Holdings /\ Accounted(R, H)
  BY ImageRun
<1>2. Held \in Holdings
  BY MemoryOf
<1>3. H[p] = h
  BY <1>2 DEF Holdings
<1>4. -1 \in Roles /\ s # NullPtr
  BY MemoryAssumption DEF Roles, Frames, NullPtr
<1>5. h[-1] = Empty /\ Empty.ptr = NullPtr
  BY <1>4 DEF Hold, Empty
<1>6. [h EXCEPT ![-1] = e] = g
  <2>1. \A k \in Roles : g[k] = IF k = -1 THEN e ELSE h[k]
    BY <1>4 DEF Hold
  <2>2. g = [k \in Roles |-> g[k]] /\ h = [k \in Roles |-> h[k]]
    BY DEF Hold
  <2> HIDE DEF g, h, e
  <2>3. QED
    BY <1>4, <2>1, <2>2
<1> HIDE DEF g, h
<1>7. StackPages \in Nat \ {0}
  BY MemoryAssumption
<1>8. [H EXCEPT ![p] = g] = [Held EXCEPT ![p] = g]
  BY <1>2 DEF Holdings
<1> HIDE DEF H, R
<1>9. H[p][-1].ptr = NullPtr
  BY <1>3, <1>5
<1>10. LET x == [H[p] EXCEPT ![-1] = [ptr |-> s, size |-> StackPages]]
       IN Accounted(R \cup {Run(s, StackPages)}, [H EXCEPT ![p] = x])
  BY <1>1, <1>4, <1>7, <1>9, TakeRun DEF R
<1>11. Accounted(R \cup {Run(s, StackPages)}, [H EXCEPT ![p] = g])
  BY <1>3, <1>6, <1>10
<1>12. R \cup {Run(s, StackPages)} = runs \cup {Run(i, ImagePages), Run(s, StackPages)}
  BY DEF R
<1>13. QED
  BY <1>8, <1>11, <1>12 DEF g

\* A new directory maps all of memory to itself, for reading.
LEMMA NewDirectory ==
  /\ paging_new \in Directories
  /\ \A v \in Pages : paging_new[v].frame = v /\ paging_new[v].mode = "r"
<1>1. \A v \in Pages : v \in Int
  BY MemoryAssumption DEF Pages
<1>2. paging_new \in Directories
  BY <1>1 DEF paging_new, Directories, Entries
<1>3. ASSUME NEW v \in Pages PROVE paging_new[v].frame = v /\ paging_new[v].mode = "r"
  <2>1. paging_new[v] = [frame |-> v, mode |-> "r"]
    BY DEF paging_new
  <2>2. QED
    BY <2>1
<1>4. QED
  BY <1>2, <1>3

\* The directory of a new task: its pages above the heap are program and stack.
LEMMA LoadedDirectory ==
  ASSUME NEW i \in Frames, NEW s \in Frames, NEW mode \in {"r", "rw"}
  PROVE  LET d == paging_map_to(
                    paging_map_to(paging_new, PROGRAM_ADDRESS, i, i + SegmentPages, mode),
                    STACK_ADDRESS, s, s + StackPages, "rw")
         IN /\ d \in Directories
            /\ \A v \in Frames : d[v] = [frame |-> v, mode |-> "r"]
            /\ SegmentPages <= ImagePages => High(d, "loaded", i, s)
<1> DEFINE c == paging_map_to(paging_new, PROGRAM_ADDRESS, i, i + SegmentPages, mode)
           d == paging_map_to(c, STACK_ADDRESS, s, s + StackPages, "rw")
<1>1. /\ NFrames \in Nat /\ SegmentPages \in Nat /\ StackPages \in Nat /\ ImagePages \in Nat
      /\ i \in Nat /\ s \in Nat
      /\ Pages = 0 .. NFrames + SegmentPages + StackPages - 1
      /\ Frames = 0 .. NFrames - 1
      /\ PROGRAM_ADDRESS = NFrames /\ STACK_ADDRESS = NFrames + SegmentPages
  BY MemoryAssumption DEF Frames, Pages, PROGRAM_ADDRESS, STACK_ADDRESS
<1>2. \A v \in Pages : paging_new[v] = [frame |-> v, mode |-> "r"]
  BY DEF paging_new
<1>3. c = [v \in Pages |-> IF v \in PROGRAM_ADDRESS .. PROGRAM_ADDRESS + SegmentPages - 1
                              THEN [frame |-> i + (v - PROGRAM_ADDRESS), mode |-> mode]
                              ELSE paging_new[v]]
  <2>1. i + SegmentPages - i = SegmentPages
    BY <1>1
  <2>2. QED
    BY <1>1, <2>1 DEF paging_map_to
<1>4. d = [v \in Pages |->
             IF v \in STACK_ADDRESS .. STACK_ADDRESS + StackPages - 1
               THEN [frame |-> s + (v - STACK_ADDRESS), mode |-> "rw"] ELSE c[v]]
  <2> HIDE DEF c
  <2>1. s + StackPages - s = StackPages
    BY <1>1
  <2>2. QED
    BY <1>1, <2>1 DEF paging_map_to
<1> HIDE DEF c, d
<1>5. ASSUME NEW v \in Pages, v \in PROGRAM_ADDRESS .. PROGRAM_ADDRESS + SegmentPages - 1
      PROVE  d[v] = [frame |-> i + (v - PROGRAM_ADDRESS), mode |-> mode]
  <2>1. v \notin STACK_ADDRESS .. STACK_ADDRESS + StackPages - 1
    BY <1>1, <1>5
  <2>2. QED
    BY <1>3, <1>4, <1>5, <2>1
<1>6. ASSUME NEW v \in Pages, v \in STACK_ADDRESS .. STACK_ADDRESS + StackPages - 1
      PROVE  d[v] = [frame |-> s + (v - STACK_ADDRESS), mode |-> "rw"]
  BY <1>4, <1>6
<1>7. ASSUME NEW v \in Frames
      PROVE  v \in Pages /\ d[v] = [frame |-> v, mode |-> "r"]
  <2>1. /\ v \in Pages
        /\ v \notin STACK_ADDRESS .. STACK_ADDRESS + StackPages - 1
        /\ v \notin PROGRAM_ADDRESS .. PROGRAM_ADDRESS + SegmentPages - 1
    BY <1>1
  <2>2. QED
    BY <1>2, <1>3, <1>4, <2>1
<1>8. \A v \in Pages : \/ v \in Frames
                      \/ v \in PROGRAM_ADDRESS .. PROGRAM_ADDRESS + SegmentPages - 1
                      \/ v \in STACK_ADDRESS .. STACK_ADDRESS + StackPages - 1
  BY <1>1
<1>9. \A v \in Pages : d[v] \in Entries
  <2> SUFFICES ASSUME NEW v \in Pages PROVE d[v] \in Entries
    OBVIOUS
  <2>1. v \in Int /\ i + (v - PROGRAM_ADDRESS) \in Int /\ s + (v - STACK_ADDRESS) \in Int
    BY <1>1
  <2>2. /\ [frame |-> v, mode |-> "r"] \in Entries
        /\ [frame |-> i + (v - PROGRAM_ADDRESS), mode |-> mode] \in Entries
        /\ [frame |-> s + (v - STACK_ADDRESS), mode |-> "rw"] \in Entries
    BY <2>1 DEF Entries
  <2>3. QED
    BY <1>5, <1>6, <1>7, <1>8, <2>2
<1>10. d \in Directories
  BY <1>4, <1>9 DEF Directories
<1>11. ASSUME SegmentPages <= ImagePages
       PROVE  High(d, "loaded", i, s)
  <2> SUFFICES ASSUME NEW v \in Pages \ Frames
               PROVE  \/ d[v].frame \in i .. i + ImagePages - 1
                      \/ d[v].frame \in s .. s + StackPages - 1
    BY DEF High
  <2>1. CASE v \in PROGRAM_ADDRESS .. PROGRAM_ADDRESS + SegmentPages - 1
    <3>1. d[v].frame = i + (v - PROGRAM_ADDRESS)
      <4>1. d[v] = [frame |-> i + (v - PROGRAM_ADDRESS), mode |-> mode]
        BY <1>5, <2>1
      <4>2. QED
        BY <4>1
    <3>2. i + (v - PROGRAM_ADDRESS) \in i .. i + ImagePages - 1
      BY <1>1, <1>11, <2>1
    <3>3. QED
      BY <3>1, <3>2
  <2>2. CASE v \in STACK_ADDRESS .. STACK_ADDRESS + StackPages - 1
    <3>1. d[v].frame = s + (v - STACK_ADDRESS)
      <4>1. d[v] = [frame |-> s + (v - STACK_ADDRESS), mode |-> "rw"]
        BY <1>6, <2>2
      <4>2. QED
        BY <4>1
    <3>2. s + (v - STACK_ADDRESS) \in s .. s + StackPages - 1
      BY <1>1, <2>2
    <3>3. QED
      BY <3>1, <3>2
  <2>3. QED
    BY <1>8, <2>1, <2>2
<1>12. QED
  BY <1>7, <1>10, <1>11 DEF c, d

\* The memory of a process just loaded is in order.
LEMMA LoadedMemory ==
  ASSUME MemoryInv, NEW p \in Procs, state[p] = "unused",
         NEW i \in Frames, IsFreeRun(runs, i, ImagePages),
         NEW s \in Frames, IsFreeRun(runs \cup {Run(i, ImagePages)}, s, StackPages),
         NEW mode \in {"r", "rw"}
  PROVE  LET m == Loaded(p, i, s, mode)
         IN /\ MemoryOK(m, Held, p, "loaded", i, s)
            /\ SegmentPages <= ImagePages => High(m.dir, "loaded", i, s)
<1> DEFINE m == Loaded(p, i, s, mode)
           R == runs \cup {Run(i, ImagePages), Run(s, StackPages)}
           d == paging_map_to(
                  paging_map_to(paging_new, PROGRAM_ADDRESS, i, i + SegmentPages, mode),
                  STACK_ADDRESS, s, s + StackPages, "rw")
<1>1. Accounted(R, [Held EXCEPT ![p] = Hold("loaded", i, s, allocations[p])])
  BY StackRun
<1>2. /\ d \in Directories
      /\ \A v \in Frames : d[v] = [frame |-> v, mode |-> "r"]
      /\ SegmentPages <= ImagePages => High(d, "loaded", i, s)
  BY LoadedDirectory
<1> HIDE DEF d
<1>3. m = [runs |-> R, table |-> allocations[p], dir |-> d, wild |-> wild]
  <2>1. /\ Memory(p) = [runs |-> runs, table |-> allocations[p], dir |-> directory[p], wild |-> wild]
        /\ Memory(p).runs = runs
    BY DEF Memory
  <2> DEFINE x == Memory(p)
  <2>2. m = [x EXCEPT !.runs = x.runs \cup {Run(i, ImagePages), Run(s, StackPages)}, !.dir = d]
    BY DEF Loaded, d
  <2> HIDE DEF m, x
  <2>3. x = [runs |-> runs, table |-> allocations[p], dir |-> directory[p], wild |-> wild]
        /\ x.runs = runs
    BY <2>1 DEF x
  <2>4. x.runs \cup {Run(i, ImagePages), Run(s, StackPages)} = R
    BY <2>3
  <2> HIDE DEF R
  <2>5. m = [x EXCEPT !.runs = R, !.dir = d]
    BY <2>2, <2>4
  <2>6. QED
    BY <2>3, <2>5
<1>4. m.runs = R /\ m.table = allocations[p] /\ m.dir = d
  BY <1>3
<1>5. allocations[p] \in Tables /\ wild = FALSE
  BY DEF MemoryInv, MemoryType
<1>6. R \subseteq HeapRuns
  BY <1>1 DEF Accounted
<1> HIDE DEF m, R
<1>7. m \in [runs : SUBSET HeapRuns, table : Tables, dir : Directories, wild : {FALSE}]
  <2>1. d \in Directories /\ R \in SUBSET HeapRuns
    BY <1>2, <1>6
  <2>2. m = [runs |-> R, table |-> allocations[p], dir |-> d, wild |-> FALSE]
    BY <1>3, <1>5
  <2>3. QED
    BY <1>5, <2>1, <2>2
<1>8. Mapped(d, allocations[p])
  <2> SUFFICES ASSUME NEW v \in Frames
               PROVE  /\ d[v].frame = v
                      /\ d[v].mode # "rw"
                      /\ \A k \in Indexes : ~Covers(allocations[p][k], v)
    BY DEF Mapped
  <2>1. d[v] = [frame |-> v, mode |-> "r"]
    BY <1>2
  <2>2. d[v].frame = v /\ d[v].mode = "r"
    BY <2>1
  <2>3. \A k \in Indexes : allocations[p][k].ptr = NullPtr
    BY DEF MemoryInv, Phases
  <2>4. QED
    BY <2>2, <2>3 DEF Covers
<1>9. QED
  BY <1>1, <1>2, <1>4, <1>7, <1>8 DEF MemoryOK, m, R

\* Pages above the heap that are as they were are still program and stack.
LEMMA HighKept ==
  ASSUME NEW d, NEW e, HighSame(e, d), NEW st, NEW i, NEW s, High(d, st, i, s)
  PROVE  High(e, st, i, s)
BY DEF HighSame, High

\* The load of a program, with arguments and without.
LEMMA LoadKeeps ==
  ASSUME MemoryInv, NEW p \in Procs, Load(p)
  PROVE  MemoryInv'
<1>1. MemoryType /\ Phases
  BY DEF MemoryInv
<1>2. /\ Held \in Holdings
      /\ Memory(p).runs = runs /\ Memory(p).table = allocations[p]
      /\ Memory(p).dir = directory[p] /\ Memory(p).wild = FALSE
      /\ Memory(p) = [runs |-> runs, table |-> allocations[p], dir |-> directory[p], wild |-> wild]
      /\ MemoryOK(Memory(p), Held, p, state[p], image[p], stack[p])
  BY MemoryOf DEF Memory
<1>3. allocations = [allocations EXCEPT ![p] = allocations[p]]
      /\ directory = [directory EXCEPT ![p] = directory[p]]
      /\ image = [image EXCEPT ![p] = image[p]]
      /\ stack = [stack EXCEPT ![p] = stack[p]]
  BY <1>1 DEF MemoryType
<1>4. state[p] = "unused" =>
        /\ image = [image EXCEPT ![p] = NullPtr] /\ stack = [stack EXCEPT ![p] = NullPtr]
        /\ image[p] = NullPtr /\ stack[p] = NullPtr
        /\ SegmentPages <= ImagePages =>
             \A v \in Pages \ Frames : directory[p][v].mode # "rw"
  <2>1. SegmentPages <= ImagePages => High(directory[p], state[p], image[p], stack[p])
    BY DEF MemoryInv
  <2>2. state[p] = "unused" => image[p] = NullPtr /\ stack[p] = NullPtr
    BY DEF MemoryInv, Phases
  <2>3. QED
    BY <1>3, <2>1, <2>2 DEF High
<1>5. /\ ImagePages \in Nat \ {0} /\ StackPages \in Nat \ {0}
      /\ \A f \in Frames : f # NullPtr
      /\ NullPtr \in Frames \cup {NullPtr}
  BY MemoryAssumption DEF Frames, NullPtr
\* A load that fails changes the runs only.
<1>6. ASSUME state[p] = "unused", state' = [state EXCEPT ![p] = "failed"],
             NEW i \in Frames \cup {NullPtr}, NEW s \in Frames \cup {NullPtr},
             image' = [image EXCEPT ![p] = i], stack' = [stack EXCEPT ![p] = s],
             Accounted(runs', [Held EXCEPT ![p] = Hold("failed", i, s, allocations[p])]),
             UNCHANGED <<allocations, directory, wild>>
      PROVE  MemoryInv'
  <2> DEFINE m == [runs |-> runs', table |-> allocations[p], dir |-> directory[p], wild |-> wild]
  <2>1. Becomes(p, m)
    BY <1>3, <1>6 DEF Becomes
  <2>2. runs' \subseteq HeapRuns
    BY <1>6 DEF Accounted
  <2>3. /\ allocations[p] \in Tables /\ directory[p] \in Directories /\ wild = FALSE
        /\ Mapped(directory[p], allocations[p])
    BY <1>1 DEF MemoryType, MemoryInv
  <2>4. MemoryOK(m, Held, p, "failed", i, s)
    BY <1>6, <2>2, <2>3 DEF MemoryOK
  <2>5. SegmentPages <= ImagePages => High(m.dir, "failed", i, s)
    BY <1>4, <1>6 DEF High
  <2> HIDE DEF m
  <2>6. QED
    BY <1>6, <2>1, <2>4, <2>5, MemoryStep
<1>7. CASE LoadFailsAtOpen(p)
  <2>1. /\ state[p] = "unused" /\ state' = [state EXCEPT ![p] = "failed"]
        /\ UNCHANGED <<runs, image, stack, allocations, directory, wild>>
    BY <1>7 DEF LoadFailsAtOpen
  <2>2. Hold("failed", NullPtr, NullPtr, allocations[p]) =
          Hold(state[p], image[p], stack[p], allocations[p])
    BY <1>4, <2>1 DEF Hold
  <2>3. [Held EXCEPT ![p] = Hold("failed", NullPtr, NullPtr, allocations[p])] = Held
    BY <2>2 DEF Held
  <2>4. Accounted(runs', [Held EXCEPT ![p] = Hold("failed", NullPtr, NullPtr, allocations[p])])
    BY <2>1, <2>3 DEF MemoryInv
  <2>5. /\ image' = [image EXCEPT ![p] = NullPtr] /\ stack' = [stack EXCEPT ![p] = NullPtr]
    BY <1>4, <2>1
  <2>6. QED
    BY <1>5, <1>6, <2>1, <2>4, <2>5
<1>8. ASSUME NEW i \in FreeRuns(ImagePages), LoadFailsAfterImage(p, i)
      PROVE  MemoryInv'
  <2>1. /\ state[p] = "unused" /\ state' = [state EXCEPT ![p] = "failed"]
        /\ IsFreeRun(runs, i, ImagePages) /\ i \in Frames
        /\ runs' = runs \cup {Run(i, ImagePages)}
        /\ image' = [image EXCEPT ![p] = i]
        /\ UNCHANGED <<stack, allocations, directory, wild>>
    BY <1>8 DEF LoadFailsAfterImage, FreeRuns
  <2>2. Accounted(runs', [Held EXCEPT ![p] = Hold("failed", i, NullPtr, allocations[p])])
    BY <2>1, ImageRun
  <2>3. stack' = [stack EXCEPT ![p] = NullPtr]
    BY <1>4, <2>1
  <2>4. QED
    BY <1>5, <1>6, <2>1, <2>2, <2>3
<1>9. ASSUME NEW i \in FreeRuns(ImagePages), NEW s \in FreeRuns(StackPages),
             LoadFailsAtMap(p, i, s)
      PROVE  MemoryInv'
  <2>1. /\ state[p] = "unused" /\ state' = [state EXCEPT ![p] = "failed"]
        /\ IsFreeRun(runs, i, ImagePages) /\ i \in Frames
        /\ IsFreeRun(runs \cup {Run(i, ImagePages)}, s, StackPages) /\ s \in Frames
        /\ runs' = runs \cup {Run(i, ImagePages), Run(s, StackPages)}
        /\ image' = [image EXCEPT ![p] = i] /\ stack' = [stack EXCEPT ![p] = s]
        /\ UNCHANGED <<allocations, directory, wild>>
    BY <1>9 DEF LoadFailsAtMap, FreeRuns
  <2>2. Accounted(runs', [Held EXCEPT ![p] = Hold("failed", i, s, allocations[p])])
    BY <2>1, StackRun
  <2>3. QED
    BY <1>6, <2>1, <2>2
\* A load that succeeds gives p the memory m.
<1>10. ASSUME NEW i \in Frames, NEW s \in Frames, NEW m, process_load(p, i, s, m),
              MemoryOK(m, Held, p, "loaded", i, s),
              SegmentPages <= ImagePages => High(m.dir, "loaded", i, s)
       PROVE  MemoryInv'
  <2>1. /\ state' = [state EXCEPT ![p] = "loaded"] /\ Becomes(p, m)
        /\ image' = [image EXCEPT ![p] = i] /\ stack' = [stack EXCEPT ![p] = s]
    BY <1>10 DEF process_load
  <2>2. i # NullPtr /\ s # NullPtr
    BY <1>5
  <2>3. QED
    BY <1>10, <2>1, <2>2, MemoryStep
<1>11. ASSUME NEW i \in FreeRuns(ImagePages), NEW s \in FreeRuns(StackPages),
              NEW mode \in {"r", "rw"}, isr80h_command6_process_load_start(p, i, s, mode)
       PROVE  MemoryInv'
  <2>1. i \in Frames /\ s \in Frames
    BY DEF FreeRuns
  <2>2. process_load(p, i, s, Loaded(p, i, s, mode))
    BY <1>11 DEF isr80h_command6_process_load_start
  <2>3. /\ state[p] = "unused" /\ IsFreeRun(runs, i, ImagePages)
        /\ IsFreeRun(runs \cup {Run(i, ImagePages)}, s, StackPages)
    BY <2>2 DEF process_load
  <2>4. QED
    BY <1>10, <2>1, <2>2, <2>3, LoadedMemory
<1>12. ASSUME NEW i \in FreeRuns(ImagePages), NEW s \in FreeRuns(StackPages),
              NEW mode \in {"r", "rw"},
              NEW argv \in FreeRuns(1) \cup {NullPtr}, NEW str \in FreeRuns(1) \cup {NullPtr},
              isr80h_command7_invoke_system_command(p, i, s, mode, argv, str)
       PROVE  MemoryInv'
  <2> DEFINE m == Loaded(p, i, s, mode)
             first == process_malloc(m, argv, 1)
             done == process_inject_arguments(m, argv, str)
             R == runs \cup {Run(i, ImagePages), Run(s, StackPages)}
  <2>1. i \in Frames /\ s \in Frames /\ 1 \in Nat \ {0}
    BY DEF FreeRuns
  <2>2. /\ process_load(p, i, s, done)
        /\ argv # NullPtr => IsFreeRun(R, argv, 1) /\ argv \in Frames
        /\ str # NullPtr => IsFreeRun(R, str, 1) /\ argv \notin {NullPtr, str} /\ str \in Frames
    BY <1>12 DEF isr80h_command7_invoke_system_command, FreeRuns
  <2>3. /\ state[p] = "unused" /\ IsFreeRun(runs, i, ImagePages)
        /\ IsFreeRun(runs \cup {Run(i, ImagePages)}, s, StackPages)
    BY <2>2 DEF process_load
  <2>4. /\ MemoryOK(m, Held, p, "loaded", i, s)
        /\ SegmentPages <= ImagePages => High(m.dir, "loaded", i, s)
        /\ m.runs = R
    <3> HIDE DEF first, done
    <3>1. MemoryOK(m, Held, p, "loaded", i, s)
          /\ (SegmentPages <= ImagePages => High(m.dir, "loaded", i, s))
      BY <2>1, <2>3, LoadedMemory
    <3>2. m.runs = R
      BY DEF Loaded, Memory
    <3>3. QED
      BY <3>1, <3>2
  <2> HIDE DEF m, R
  <2>5. ASSUME argv # NullPtr
        PROVE  /\ MemoryOK(first, Held, p, "loaded", i, s)
               /\ HighSame(first.dir, m.dir)
               /\ first.runs \subseteq R \cup {Run(argv, 1)}
    BY <1>2, <2>1, <2>2, <2>4, <2>5, MallocMemory
  <2>6. SegmentPages <= ImagePages /\ argv # NullPtr => High(first.dir, "loaded", i, s)
    BY <2>4, <2>5, HighKept
  <2> HIDE DEF first
  <2>7. CASE done = m
    BY <1>10, <2>1, <2>2, <2>4, <2>7
  <2>8. CASE done = first /\ argv # NullPtr
    <3> HIDE DEF done
    <3>1. QED
      BY <1>10, <2>1, <2>2, <2>5, <2>6, <2>8
  <2>9. CASE done = process_malloc(first, str, 1) /\ argv # NullPtr /\ str # NullPtr
    <3>1. IsFreeRun(first.runs, str, 1)
      <4>1. argv \in Nat /\ str \in Nat /\ argv # str /\ NFrames \in Nat
        BY <2>2, <2>9, MemoryAssumption DEF Frames
      <4>2. FramesOf(Run(argv, 1)) \cap (str .. str + 1 - 1) = {}
        <5>1. FramesOf(Run(argv, 1)) = argv .. argv + 1 - 1
          BY DEF FramesOf, Run
        <5>2. \A x \in argv .. argv + 1 - 1 : x \notin str .. str + 1 - 1
          BY <4>1
        <5>3. QED
          BY <5>1, <5>2
      <4>3. IsFreeRun(R, str, 1)
        BY <2>2, <2>9
      <4>4. QED
        BY <2>5, <2>9, <4>2, <4>3 DEF IsFreeRun
    <3> DEFINE last == process_malloc(first, str, 1)
    <3>2. /\ MemoryOK(last, Held, p, "loaded", i, s)
          /\ HighSame(last.dir, first.dir)
      BY <1>2, <2>1, <2>2, <2>5, <2>9, <3>1, MallocMemory
    <3>3. SegmentPages <= ImagePages => High(last.dir, "loaded", i, s)
      BY <2>6, <2>9, <3>2, HighKept
    <3> HIDE DEF last, done
    <3>4. done = last
      BY <2>9 DEF last
    <3>5. QED
      BY <1>10, <2>1, <2>2, <3>2, <3>3, <3>4
  <2>10. QED
    BY <2>7, <2>8, <2>9 DEF process_inject_arguments, first
<1>13. QED
  BY <1>7, <1>8, <1>9, <1>11, <1>12 DEF Load

\* The system calls malloc and free.
LEMMA MallocKeeps ==
  ASSUME MemoryInv, NEW p \in Procs, NEW n \in Sizes, NEW a \in FreeRuns(n),
         isr80h_command4_malloc(p, a, n)
  PROVE  MemoryInv'
<1> DEFINE m == Memory(p)
           r == process_malloc(m, a, n)
<1>1. /\ state[p] = "loaded" /\ IsFreeRun(runs, a, n) /\ Becomes(p, r)
      /\ UNCHANGED <<state, image, stack>>
  BY DEF isr80h_command4_malloc
<1>2. a \in Frames /\ n \in Nat \ {0}
  BY MemoryAssumption DEF FreeRuns
<1>3. /\ Held \in Holdings
      /\ MemoryOK(m, Held, p, state[p], image[p], stack[p])
      /\ image[p] \in Frames \cup {NullPtr} /\ stack[p] \in Frames \cup {NullPtr}
      /\ m.runs = runs /\ m.dir = directory[p]
  BY MemoryOf
<1> HIDE DEF m
<1>4. MemoryOK(r, Held, p, state[p], image[p], stack[p]) /\ HighSame(r.dir, directory[p])
  <2> DEFINE st == state[p]
             i == image[p]
             s == stack[p]
  <2>1. /\ MemoryOK(m, Held, p, st, i, s) /\ Held \in Holdings
        /\ i \in Frames \cup {NullPtr} /\ s \in Frames \cup {NullPtr} /\ IsFreeRun(m.runs, a, n)
    BY <1>1, <1>3
  <2> HIDE DEF st, i, s
  <2>2. MemoryOK(r, Held, p, st, i, s) /\ HighSame(r.dir, m.dir)
    BY <1>2, <2>1, MallocMemory
  <2>3. QED
    BY <1>3, <2>2 DEF st, i, s
<1>5. SegmentPages <= ImagePages => High(r.dir, state[p], image[p], stack[p])
  BY <1>4, HighKept DEF MemoryInv
<1>6. /\ state' = [state EXCEPT ![p] = state[p]] /\ image' = [image EXCEPT ![p] = image[p]]
      /\ stack' = [stack EXCEPT ![p] = stack[p]]
      /\ state[p] \in {"loaded", "failed", "exited"}
      /\ image[p] # NullPtr /\ stack[p] # NullPtr
  BY <1>1 DEF MemoryInv, MemoryType, Phases
<1> HIDE DEF r
<1>7. QED
  BY <1>1, <1>3, <1>4, <1>5, <1>6, MemoryStep, ZenonT(40)

\* process_free, whatever pointer it is given.
LEMMA FreeKeeps ==
  ASSUME MemoryInv, NEW p \in Procs, NEW a \in Frames \cup {NullPtr},
         isr80h_command5_free(p, a)
  PROVE  MemoryInv'
<1> DEFINE m == Memory(p)
           r == process_free(m, a)
<1>1. /\ state[p] = "loaded" /\ Becomes(p, r)
      /\ UNCHANGED <<state, image, stack>>
  BY DEF isr80h_command5_free
<1>2. /\ Held \in Holdings
      /\ MemoryOK(m, Held, p, state[p], image[p], stack[p])
      /\ image[p] \in Frames \cup {NullPtr} /\ stack[p] \in Frames \cup {NullPtr}
      /\ m.runs = runs /\ m.dir = directory[p]
  BY MemoryOf
<1> HIDE DEF m
<1>3. MemoryOK(r, Held, p, state[p], image[p], stack[p]) /\ HighSame(r.dir, directory[p])
  <2> DEFINE st == state[p]
             i == image[p]
             s == stack[p]
  <2>1. /\ MemoryOK(m, Held, p, st, i, s) /\ Held \in Holdings
        /\ i \in Frames \cup {NullPtr} /\ s \in Frames \cup {NullPtr}
    BY <1>1, <1>2
  <2> HIDE DEF st, i, s
  <2>2. MemoryOK(r, Held, p, st, i, s) /\ HighSame(r.dir, m.dir)
    BY <2>1, FreeMemory
  <2>3. QED
    BY <1>2, <2>2 DEF st, i, s
<1>4. SegmentPages <= ImagePages => High(r.dir, state[p], image[p], stack[p])
  BY <1>3, HighKept DEF MemoryInv
<1>5. /\ state' = [state EXCEPT ![p] = state[p]] /\ image' = [image EXCEPT ![p] = image[p]]
      /\ stack' = [stack EXCEPT ![p] = stack[p]]
      /\ state[p] \in {"loaded", "failed", "exited"}
      /\ image[p] # NullPtr /\ stack[p] # NullPtr
  BY <1>1 DEF MemoryInv, MemoryType, Phases
<1> HIDE DEF r
<1>6. QED
  BY <1>1, <1>2, <1>3, <1>4, <1>5, MemoryStep, ZenonT(40)

\* The bounce page of a copy is put back: the directory is what it was.
LEMMA CopyRestores ==
  ASSUME MemoryInv, NEW p \in Procs, NEW tmp \in FreeRuns(1), copy_string_from_task(p, tmp)
  PROVE  UNCHANGED vars
<1> DEFINE d == directory[p]
           mapped == paging_map_to(d, tmp, tmp, tmp + 1, "rw")
<1>1. d \in Directories /\ directory \in [Procs -> Directories]
  BY DEF MemoryInv, MemoryType
<1>2. /\ NFrames \in Nat /\ tmp \in Nat /\ tmp + 1 <= NFrames /\ tmp \in Pages /\ 1 \in Nat
  BY MemoryAssumption DEF FreeRuns, Frames, Pages, IsFreeRun
<1>3. /\ mapped \in Directories
      /\ \A v \in Pages : mapped[v] = IF v \in tmp .. tmp + 1 - 1 THEN [frame |-> v, mode |-> "rw"]
                                      ELSE d[v]
  <2> DEFINE one == 1
  <2>1. one \in Nat /\ tmp + one <= NFrames
    BY <1>2
  <2> HIDE DEF d, one
  <2>2. LET e == paging_map_to(d, tmp, tmp, tmp + one, "rw")
        IN /\ e \in Directories
           /\ \A v \in Pages : e[v] = IF v \in tmp .. tmp + one - 1
                                       THEN [frame |-> v, mode |-> "rw"] ELSE d[v]
           /\ HighSame(e, d)
    BY <1>1, <1>2, <2>1, MapRange, Zenon
  <2>3. QED
    BY <2>2 DEF one
<1>4. \A v \in Pages : v \in tmp .. tmp + 1 - 1 <=> v = tmp
  BY <1>2, MemoryAssumption DEF Pages
<1>5. directory' = [directory EXCEPT ![p] = [mapped EXCEPT ![tmp] = d[tmp]]]
  BY DEF copy_string_from_task, paging_set
<1> HIDE DEF mapped
<1>6. [mapped EXCEPT ![tmp] = d[tmp]] = d
  <2>1. mapped \in [Pages -> Entries] /\ d \in [Pages -> Entries]
    BY <1>1, <1>3 DEF Directories
  <2> HIDE DEF d
  <2>2. \A v \in Pages : [mapped EXCEPT ![tmp] = d[tmp]][v] = d[v]
    BY <1>2, <1>3, <1>4, <2>1
  <2>3. QED
    BY <2>1, <2>2
<1>7. directory' = directory
  BY <1>1, <1>5, <1>6
<1>8. QED
  BY <1>7 DEF copy_string_from_task, vars

\* An exit gives back the allocations, the image and the stack, each once.
LEMMA TerminateKeeps ==
  ASSUME MemoryInv, NEW p \in Procs, process_terminate(p)
  PROVE  MemoryInv'
<1> DEFINE i == image[p]
           s == stack[p]
           m == process_terminate_allocations(Memory(p))
           t == m.table
           one == kfree(m.runs, i)
           two == kfree(one, s)
<1>1. /\ state[p] = "loaded" /\ state' = [state EXCEPT ![p] = "exited"]
      /\ runs' = two
      /\ wild' = (m.wild \/ IsWild(m.runs, i) \/ IsWild(one, s))
      /\ allocations' = [allocations EXCEPT ![p] = t]
      /\ directory' = [directory EXCEPT ![p] = paging_new]
      /\ UNCHANGED <<image, stack>>
  BY DEF process_terminate
<1>2. /\ i \in Frames /\ s \in Frames /\ i # NullPtr /\ s # NullPtr
      /\ image = [image EXCEPT ![p] = i] /\ stack = [stack EXCEPT ![p] = s]
  BY <1>1 DEF MemoryInv, MemoryType, Phases
<1> HIDE DEF i, s
<1>3. Held \in Holdings /\ MemoryOK(Memory(p), Held, p, "loaded", i, s)
  BY <1>1, MemoryOf DEF i, s
<1>4. /\ MemoryOK(m, Held, p, "loaded", i, s)
      /\ \A j \in Indexes : t[j].ptr = NullPtr
  <2> DEFINE x == Memory(p)
  <2> HIDE DEF x
  <2>1. MemoryOK(x, Held, p, "loaded", i, s)
    BY <1>3 DEF x
  <2>2. LET r == process_terminate_allocations(x)
        IN MemoryOK(r, Held, p, "loaded", i, s) /\ \A j \in Indexes : r.table[j].ptr = NullPtr
    BY <1>2, <1>3, <2>1, TerminateMemory
  <2>3. QED
    BY <2>2 DEF x
<1> HIDE DEF m
<1> DEFINE h == Hold("loaded", i, s, t)
           H == [Held EXCEPT ![p] = h]
           g == [h EXCEPT ![0] = Empty]
           G == [H EXCEPT ![p] = g]
           f == Hold("exited", i, s, t)
<1>5. t \in Tables /\ m.wild = FALSE /\ Accounted(m.runs, H)
  BY <1>4 DEF MemoryOK
<1>6. 0 \in Roles /\ -1 \in Roles /\ 0 # -1 /\ ~(0 >= 1) /\ ~(-1 >= 1)
  BY MemoryAssumption DEF Roles
<1>7. /\ h[0].ptr = i /\ g[-1].ptr = s
      /\ f = [g EXCEPT ![-1] = Empty]
  <2> HIDE DEF t
  <2>1. h[0] = [ptr |-> i, size |-> ImagePages] /\ h[-1] = [ptr |-> s, size |-> StackPages]
    BY <1>2, <1>6 DEF Hold
  <2>2. h = [k \in Roles |-> h[k]] /\ f = [k \in Roles |-> f[k]]
    BY DEF Hold
  <2>3. \A k \in Roles : f[k] = IF k = 0 \/ k = -1 THEN Empty ELSE h[k]
    BY <1>6 DEF Hold
  <2>4. h[0].ptr = i /\ h[-1].ptr = s
    BY <2>1
  <2> HIDE DEF h, f
  <2>5. g[-1] = h[-1]
    BY <1>6, <2>2
  <2>6. f = [g EXCEPT ![-1] = Empty]
    BY <1>6, <2>2, <2>3
  <2>7. QED
    BY <2>4, <2>5, <2>6
<1>8. H \in Holdings /\ H[p] = h
  <2>1. h \in [Roles -> Slots]
    BY <1>2, <1>5, HoldType
  <2> HIDE DEF h
  <2>2. QED
    BY <1>3, <2>1 DEF Holdings
<1> HIDE DEF h, f, H, g
<1>9. /\ G \in Holdings /\ Accounted(one, G) /\ ~IsWild(m.runs, i)
  <2>1. H[p][0].ptr = i
    BY <1>7, <1>8
  <2>2. LET x == [H[p] EXCEPT ![0] = Empty]
        IN /\ [H EXCEPT ![p] = x] \in Holdings
           /\ Accounted(kfree(m.runs, H[p][0].ptr), [H EXCEPT ![p] = x])
           /\ ~IsWild(m.runs, H[p][0].ptr)
    BY <1>2, <1>5, <1>6, <1>8, <2>1, DropRun
  <2>3. QED
    BY <1>8, <2>1, <2>2 DEF g
<1>10. G[p] = g /\ [G EXCEPT ![p] = f] = [Held EXCEPT ![p] = f]
  BY <1>3, <1>8 DEF Holdings, H
<1> HIDE DEF G, one
<1>11. Accounted(two, [Held EXCEPT ![p] = f]) /\ ~IsWild(one, s)
  <2>1. G[p][-1].ptr = s
    BY <1>7, <1>10
  <2>2. LET x == [G[p] EXCEPT ![-1] = Empty]
        IN /\ Accounted(kfree(one, G[p][-1].ptr), [G EXCEPT ![p] = x])
           /\ ~IsWild(one, G[p][-1].ptr)
    BY <1>2, <1>6, <1>9, <2>1, DropRun
  <2>3. QED
    BY <1>7, <1>10, <2>1, <2>2
<1> HIDE DEF two
<1> DEFINE r == [runs |-> two, table |-> t, dir |-> paging_new, wild |-> FALSE]
<1>12. wild' = FALSE
  BY <1>1, <1>5, <1>9, <1>11
<1>13. Becomes(p, r)
  BY <1>1, <1>12 DEF Becomes
<1>14. paging_new \in Directories
  BY NewDirectory
<1>15. \A v \in Pages : paging_new[v].frame = v /\ paging_new[v].mode = "r"
  BY NewDirectory
<1>16. Mapped(paging_new, t)
  <2>1. \A v \in Frames : v \in Pages
    BY MemoryAssumption DEF Frames, Pages
  <2>2. QED
    BY <1>4, <1>15, <2>1 DEF Mapped, Covers
<1>17. High(paging_new, "exited", i, s)
  BY <1>15 DEF High
<1>18. two \in SUBSET HeapRuns
  BY <1>11 DEF Accounted
<1> HIDE DEF t
<1>19. MemoryOK(r, Held, p, "exited", i, s)
  BY <1>5, <1>11, <1>14, <1>16, <1>18 DEF MemoryOK, f
<1>20. SegmentPages <= ImagePages => High(r.dir, "exited", i, s)
  BY <1>17
<1> HIDE DEF r
<1>21. image' = [image EXCEPT ![p] = i] /\ stack' = [stack EXCEPT ![p] = s]
  BY <1>1, <1>2
<1>22. i \in Frames \cup {NullPtr} /\ s \in Frames \cup {NullPtr}
  BY <1>2
<1>23. QED
  BY <1>1, <1>13, <1>19, <1>20, <1>21, <1>22, MemoryStep

\* Before the first load nothing is held and the directories map each page to itself.
LEMMA MemoryInit == Init => MemoryInv
<1> SUFFICES ASSUME Init PROVE MemoryInv
  OBVIOUS
<1>2. paging_new \in Directories
  BY NewDirectory
<1>3. \A v \in Pages : paging_new[v].frame = v /\ paging_new[v].mode = "r"
  BY NewDirectory
<1> DEFINE t == [k \in Indexes |-> Empty]
<1>4. Empty \in Slots /\ Empty.ptr = NullPtr
  BY DEF Empty, Slots
<1>5. t \in Tables /\ \A k \in Indexes : t[k].ptr = NullPtr
  BY <1>4 DEF Tables
<1>6. MemoryType
  BY <1>2, <1>5 DEF Init, MemoryType
<1>7. \A p \in Procs, k \in Roles : Held[p][k] = Empty
  <2>1. \A k \in Roles : k >= 1 => k \in Indexes
    BY MemoryAssumption DEF Roles, Indexes
  <2>2. QED
    BY <2>1 DEF Init, Held, Hold
<1>8. Accounted(runs, Held)
  BY <1>4, <1>7 DEF Accounted, Init
<1>9. \A p \in Procs : Mapped(directory[p], allocations[p])
  <2>1. \A v \in Frames : v \in Pages
    BY MemoryAssumption DEF Frames, Pages
  <2>2. Mapped(paging_new, t)
    BY <1>3, <1>5, <2>1 DEF Mapped, Covers
  <2>3. QED
    BY <2>2 DEF Init
<1>10. Phases
  BY <1>5 DEF Init, Phases
<1>11. \A p \in Procs : High(directory[p], state[p], image[p], stack[p])
  BY <1>3 DEF Init, High
<1>12. QED
  BY <1>6, <1>8, <1>9, <1>10, <1>11 DEF MemoryInv

\* The inductive invariant of the memory of processes.
THEOREM MemoryInvariance == Spec => []MemoryInv
<1>1. MemoryInv /\ [Next]_vars => MemoryInv'
  <2> SUFFICES ASSUME MemoryInv, [Next]_vars PROVE MemoryInv'
    OBVIOUS
  <2>1. CASE UNCHANGED vars
    BY <2>1 DEF vars, MemoryInv, MemoryType, Held, Phases
  <2>2. ASSUME NEW p \in Procs, Load(p) PROVE MemoryInv'
    BY <2>2, LoadKeeps
  <2>3. ASSUME NEW p \in Procs, NEW n \in Sizes, NEW a \in FreeRuns(n),
               isr80h_command4_malloc(p, a, n)
        PROVE  MemoryInv'
    BY <2>3, MallocKeeps
  <2>4. ASSUME NEW p \in Procs, NEW a \in Frames \cup {NullPtr}, isr80h_command5_free(p, a)
        PROVE  MemoryInv'
    BY <2>4, FreeKeeps
  <2>5. ASSUME NEW p \in Procs, NEW tmp \in FreeRuns(1), copy_string_from_task(p, tmp)
        PROVE  MemoryInv'
    BY <2>1, <2>5, CopyRestores
  <2>6. ASSUME NEW p \in Procs, process_terminate(p) PROVE MemoryInv'
    BY <2>6, TerminateKeeps
  <2>7. QED
    BY <2>1, <2>2, <2>3, <2>4, <2>5, <2>6 DEF Next
<1>2. QED
  BY <1>1, MemoryInit, PTL DEF Spec
------------------------------------------------------------------------------
(***************************************************************************)
(* What the invariant says of the properties.                              *)
(***************************************************************************)

\* The runs that belong to a process are the ones it holds.
LEMMA RunsHeld ==
  ASSUME MemoryInv, NEW p \in Procs, NEW r
  PROVE  r \in RunsOf(p) <=>
           \E k \in Roles : Held[p][k].ptr # NullPtr /\ r = Run(Held[p][k].ptr, Held[p][k].size)
<1> DEFINE t == allocations[p]
           h == Held[p]
           i == [ptr |-> image[p], size |-> ImagePages]
           s == [ptr |-> stack[p], size |-> StackPages]
           there == state[p] \in {"loaded", "failed"}
<1>1. h = Hold(state[p], image[p], stack[p], t)
  BY DEF Held
<1>2. /\ MaxAllocations \in Nat /\ Empty.ptr = NullPtr
      /\ i.ptr = image[p] /\ i.size = ImagePages /\ s.ptr = stack[p] /\ s.size = StackPages
      /\ Roles = Indexes \cup {0, -1} /\ 0 # -1
      /\ \A k \in Indexes : k \in Roles /\ k >= 1
  BY MemoryAssumption DEF Roles, Indexes, Empty
<1>3. \A k \in Indexes : h[k] = t[k]
  BY <1>1, <1>2 DEF Hold
<1>4. /\ h[0] = IF there /\ image[p] # NullPtr THEN i ELSE Empty
      /\ h[-1] = IF there /\ stack[p] # NullPtr THEN s ELSE Empty
  BY <1>1, <1>2 DEF Hold
<1>5. r \in Recorded(p) <=> \E k \in Indexes : t[k].ptr # NullPtr /\ r = Run(t[k].ptr, t[k].size)
  BY DEF Recorded
<1>6. r \in RunsOf(p) <=> \/ r \in Recorded(p)
                          \/ there /\ image[p] # NullPtr /\ r = Run(image[p], ImagePages)
                          \/ there /\ stack[p] # NullPtr /\ r = Run(stack[p], StackPages)
  BY DEF RunsOf
<1> HIDE DEF t, h, i, s, there
<1>7. (\E k \in Roles : h[k].ptr # NullPtr /\ r = Run(h[k].ptr, h[k].size)) <=>
        \/ \E k \in Indexes : t[k].ptr # NullPtr /\ r = Run(t[k].ptr, t[k].size)
        \/ h[0].ptr # NullPtr /\ r = Run(h[0].ptr, h[0].size)
        \/ h[-1].ptr # NullPtr /\ r = Run(h[-1].ptr, h[-1].size)
  BY <1>2, <1>3
<1>8. /\ h[0].ptr # NullPtr /\ r = Run(h[0].ptr, h[0].size) <=>
           there /\ image[p] # NullPtr /\ r = Run(image[p], ImagePages)
      /\ h[-1].ptr # NullPtr /\ r = Run(h[-1].ptr, h[-1].size) <=>
           there /\ stack[p] # NullPtr /\ r = Run(stack[p], StackPages)
  BY <1>2, <1>4
<1>9. QED
  BY <1>5, <1>6, <1>7, <1>8 DEF h

\* Over any sequence of loads, allocations, frees of arbitrary pointers and exits,
\* every run of the heap that process.c allocated belongs to one process in one
\* role, and every run a process has is allocated.
THEOREM EveryRunAccounted == Spec => []RunsAccounted
<1>1. MemoryInv => RunsAccounted
  <2> SUFFICES ASSUME MemoryInv PROVE RunsAccounted
    OBVIOUS
  <2>1. Accounted(runs, Held)
    BY DEF MemoryInv
  <2>2. runs \subseteq UNION {RunsOf(p) : p \in Procs}
    <3> SUFFICES ASSUME NEW r \in runs PROVE \E p \in Procs : r \in RunsOf(p)
      OBVIOUS
    <3>1. PICK p \in Procs, k \in Roles : Held[p][k].ptr = r.start /\ Held[p][k].size = r.len
      BY <2>1 DEF Accounted
    <3>2. r \in HeapRuns
      BY <2>1 DEF Accounted
    <3>3. r.start # NullPtr
      BY <3>2, MemoryAssumption DEF HeapRuns, Frames, NullPtr
    <3>4. r = Run(r.start, r.len)
      BY <3>2 DEF HeapRuns, Run
    <3>5. r \in RunsOf(p)
      BY <3>1, <3>3, <3>4, RunsHeld
    <3>6. QED
      BY <3>5
  <2>3. ASSUME NEW p \in Procs, NEW r \in RunsOf(p) PROVE r \in runs
    <3>1. PICK k \in Roles : Held[p][k].ptr # NullPtr /\ r = Run(Held[p][k].ptr, Held[p][k].size)
      BY RunsHeld
    <3>2. QED
      BY <2>1, <3>1 DEF Accounted
  <2>4. runs = UNION {RunsOf(p) : p \in Procs}
    BY <2>2, <2>3
  <2>5. ASSUME NEW p \in Procs, NEW q \in Procs, p # q PROVE RunsOf(p) \cap RunsOf(q) = {}
    <3> SUFFICES ASSUME NEW r, r \in RunsOf(p), r \in RunsOf(q) PROVE FALSE
      OBVIOUS
    <3>1. PICK j \in Roles : Held[p][j].ptr # NullPtr /\ r = Run(Held[p][j].ptr, Held[p][j].size)
      BY RunsHeld
    <3>2. PICK k \in Roles : Held[q][k].ptr # NullPtr /\ r = Run(Held[q][k].ptr, Held[q][k].size)
      BY RunsHeld
    <3>3. Held[p][j].ptr = Held[q][k].ptr
      BY <3>1, <3>2 DEF Run
    <3>4. QED
      BY <2>1, <2>5, <3>1, <3>3 DEF Accounted
  <2>6. ASSUME NEW p \in Procs, NEW j \in Indexes, NEW k \in Indexes, j # k,
               allocations[p][j].ptr # NullPtr
        PROVE  allocations[p][j].ptr # allocations[p][k].ptr
    <3>1. \A l \in Indexes : l \in Roles /\ Held[p][l] = allocations[p][l]
      BY HoldAt DEF Held
    <3>2. QED
      BY <2>1, <2>6, <3>1 DEF Accounted
  <2>7. QED
    BY <2>4, <2>5, <2>6 DEF RunsAccounted
<1>2. QED
  BY <1>1, MemoryInvariance, PTL

\* A program can use all that malloc gave it, whatever is allocated, freed and
\* copied in the meantime: the table and the page directory agree.
THEOREM AllocationsStayMapped == Spec => []AllocationsMapped
<1>1. MemoryInv => AllocationsMapped
  <2> SUFFICES ASSUME MemoryInv, NEW p \in Procs, NEW r \in Recorded(p), NEW f \in FramesOf(r)
               PROVE  directory[p][f] = [frame |-> f, mode |-> "rw"]
    BY DEF AllocationsMapped
  <2>1. PICK k \in Indexes : /\ allocations[p][k].ptr # NullPtr
                             /\ r = Run(allocations[p][k].ptr, allocations[p][k].size)
    BY DEF Recorded
  <2>2. Covers(allocations[p][k], f)
    BY <2>1 DEF Covers, FramesOf, Run
  <2>3. r \in runs
    <3>1. k \in Roles /\ Held[p][k] = allocations[p][k]
      BY HoldAt DEF Held
    <3>2. QED
      BY <2>1, <3>1 DEF MemoryInv, Accounted
  <2>4. r.start \in Nat /\ r.len \in Nat /\ r.start + r.len <= NFrames /\ NFrames \in Nat
    BY <2>3, MemoryAssumption DEF MemoryInv, Accounted, HeapRuns, Frames
  <2>5. f \in Frames
    BY <2>4 DEF FramesOf, Frames
  <2>6. directory[p][f].frame = f /\ directory[p][f].mode = "rw"
    BY <2>2, <2>5 DEF MemoryInv, Mapped
  <2>7. directory[p][f] \in Entries
    <3>1. f \in Pages
      BY <2>5, MemoryAssumption DEF Frames, Pages
    <3>2. QED
      BY <3>1 DEF MemoryInv, MemoryType, Directories
  <2>8. QED
    BY <2>6, <2>7 DEF Entries
<1>2. QED
  BY <1>1, MemoryInvariance, PTL

\* A task can write only to frames that its process holds, provided that the
\* segment of a program is no longer than its file: process_map_elf maps p_memsz
\* bytes of a block that elf_load allocated for the bytes of the file.
THEOREM WritesIsolated ==
  ASSUME SegmentPages <= ImagePages
  PROVE  Spec => []WriteIsolation
<1>1. MemoryInv => WriteIsolation
  <2> SUFFICES ASSUME MemoryInv, NEW p \in Procs, NEW v \in Pages,
                      state[p] = "loaded", directory[p][v].mode = "rw"
               PROVE  \E r \in RunsOf(p) : directory[p][v].frame \in FramesOf(r)
    BY DEF WriteIsolation
  <2>1. ASSUME NEW k \in Roles, Covers(Held[p][k], directory[p][v].frame)
        PROVE  \E r \in RunsOf(p) : directory[p][v].frame \in FramesOf(r)
    <3> DEFINE r == Run(Held[p][k].ptr, Held[p][k].size)
    <3>1. r \in RunsOf(p)
      BY <2>1, RunsHeld DEF Covers
    <3>2. directory[p][v].frame \in FramesOf(r)
      BY <2>1 DEF Covers, FramesOf, Run
    <3>3. QED
      BY <3>1, <3>2
  <2>2. CASE v \in Frames
    <3>1. directory[p][v].frame = v /\ \E k \in Indexes : Covers(allocations[p][k], v)
      BY <2>2 DEF MemoryInv, Mapped
    <3>2. PICK k \in Indexes : Covers(allocations[p][k], v)
      BY <3>1
    <3>3. k \in Roles /\ Held[p][k] = allocations[p][k]
      BY HoldAt DEF Held
    <3>4. QED
      BY <2>1, <3>1, <3>2, <3>3
  <2>3. CASE v \notin Frames
    <3> DEFINE f == directory[p][v].frame
    <3>1. \/ f \in image[p] .. image[p] + ImagePages - 1
          \/ f \in stack[p] .. stack[p] + StackPages - 1
      BY <2>3 DEF MemoryInv, High
    <3>2. image[p] # NullPtr /\ stack[p] # NullPtr
      BY DEF MemoryInv, Phases
    <3>3. /\ 0 \in Roles /\ Held[p][0] = [ptr |-> image[p], size |-> ImagePages]
          /\ -1 \in Roles /\ Held[p][-1] = [ptr |-> stack[p], size |-> StackPages]
      BY <3>2, MemoryAssumption DEF Held, Hold, Roles
    <3>4. /\ Held[p][0].ptr = image[p] /\ Held[p][0].size = ImagePages
          /\ Held[p][-1].ptr = stack[p] /\ Held[p][-1].size = StackPages
      BY <3>3
    <3>5. Covers(Held[p][0], f) \/ Covers(Held[p][-1], f)
      BY <3>1, <3>2, <3>4 DEF Covers
    <3>6. QED
      BY <2>1, <3>3, <3>5
  <2>4. QED
    BY <2>2, <2>3
<1>2. QED
  BY <1>1, MemoryInvariance, PTL

\* kfree is only ever called with the start of an allocated run or with 0: what a
\* process allocated is freed once, whether by free or by its exit, and a pointer
\* that a program makes up is never freed.
THEOREM NeverWild == Spec => []NoWildFree
<1>1. MemoryInv => NoWildFree
  BY DEF MemoryInv, MemoryType, NoWildFree
<1>2. QED
  BY <1>1, MemoryInvariance, PTL
==============================================================================
