---------------------------- MODULE TasksProofs ----------------------------
(***************************************************************************)
(* Proofs about tasks and processes, for any number of task addresses,     *)
(* slots and loads, and about the composition with the keyboard layer.     *)
(***************************************************************************)
EXTENDS Console, Sequences, FiniteSetTheorems, WellFoundedInduction, TLAPS

\* A nonempty set of natural numbers has a least element.
LEMMA Least ==
  ASSUME NEW T, T \subseteq Nat, T # {}
  PROVE  \E k \in T : \A j \in T : k <= j
<1> DEFINE R == OpToRel(<, Nat)
<1>1. PICK x \in T : \A y \in T : ~(<<y, x>> \in R)
  <2>1. IsWellFoundedOn(R, Nat)
    BY NatLessThanWellFounded
  <2> HIDE DEF R
  <2>2. QED
    BY <2>1, WFMin
<1>2. ASSUME NEW y \in T
      PROVE  ~(y < x)
  <2>1. <<y, x>>[1] = y /\ <<y, x>>[2] = x /\ <<y, x>> \in Nat \X Nat
    OBVIOUS
  <2>2. y < x => <<y, x>> \in R
    BY <2>1, Zenon DEF OpToRel
  <2> HIDE DEF R
  <2>3. QED
    BY <1>1, <2>2
<1> HIDE DEF R
<1>3. QED
  BY <1>2

\* Min of a set of numbers that is not empty is one of them.
LEMMA LeastOf ==
  ASSUME NEW T, T \subseteq Nat, T # {}
  PROVE  Min(T) \in T
<1>1. PICK k \in T : \A l \in T : k <= l
  BY Least
<1>2. \A l \in T : k =< l
  BY <1>1
<1>3. QED
  BY <1>2 DEF Min

\* task_new gives the new task its process and no other task another one.
LEMMA TaskNew ==
  ASSUME NEW l \in TaskLists, NEW a \in TaskAddrs, NEW p \in Objects
  PROVE  LET r == task_new(l, a, p)
         IN /\ r \in TaskLists
            /\ r.at[a].process = p
            /\ \A b \in TaskAddrs : b # a => r.at[b].process = l.at[b].process
<1> DEFINE blank == [process |-> p, next |-> Null, prev |-> Null]
           fresh == [l EXCEPT !.at[a] = blank]
<1>1. blank \in TaskFields
  BY DEF TaskFields, Addresses
<1>2. /\ fresh \in TaskLists
      /\ fresh.at[a] = blank
      /\ \A b \in TaskAddrs : b # a => fresh.at[b] = l.at[b]
  BY <1>1 DEF TaskLists
<1> HIDE DEF fresh
<1>3. CASE l.head = Null
  BY <1>2, <1>3, ZenonT(40) DEF task_new, TaskLists, Addresses, fresh
<1>4. CASE l.head # Null
  <2> DEFINE linked == [fresh EXCEPT !.at[l.tail].next = a]
             done == [linked EXCEPT !.at[a].prev = l.tail, !.tail = a]
  <2>1. /\ linked \in TaskLists
        /\ \A b \in TaskAddrs : linked.at[b].process = fresh.at[b].process
    BY <1>2 DEF TaskLists, TaskFields, Addresses
  <2> HIDE DEF linked
  <2>2. /\ done \in TaskLists
        /\ \A b \in TaskAddrs : done.at[b].process = linked.at[b].process
    <3> DEFINE row == [linked.at[a] EXCEPT !.prev = l.tail]
               rows == [linked.at EXCEPT ![a] = row]
    <3>1. l.tail \in Addresses /\ linked.at[a] \in TaskFields
      BY <2>1 DEF TaskLists
    <3>2. row \in TaskFields /\ row.process = linked.at[a].process
      BY <3>1 DEF TaskFields
    <3> HIDE DEF row
    <3>3. /\ rows \in [TaskAddrs -> TaskFields]
          /\ \A b \in TaskAddrs : rows[b].process = linked.at[b].process
      BY <2>1, <3>2 DEF TaskLists
    <3>4. done = [linked EXCEPT !.at = rows, !.tail = a]
      BY <2>1 DEF row, TaskLists
    <3> HIDE DEF rows
    <3>5. QED
      BY <2>1, <3>3, <3>4 DEF TaskLists, Addresses
  <2>3. task_new(l, a, p) = done
    BY <1>4 DEF task_new, linked, fresh
  <2> HIDE DEF done
  <2>4. QED
    BY <1>2, <1>4, <2>1, <2>2, <2>3
<1>5. QED
  BY <1>3, <1>4

\* task_list_remove changes links only.
LEMMA TaskListRemove ==
  ASSUME NEW l \in TaskLists, NEW t \in TaskAddrs
  PROVE  LET r == task_list_remove(l, t)
         IN /\ r \in TaskLists
            /\ \A b \in TaskAddrs : r.at[b].process = l.at[b].process
<1> DEFINE u == UnlinkFromPrev(l, t)
<1>1. /\ u \in TaskLists
      /\ \A b \in TaskAddrs : u.at[b].process = l.at[b].process
  <2>1. CASE l.at[t].prev = Null
    BY <2>1 DEF UnlinkFromPrev
  <2>2. CASE l.at[t].prev # Null
    BY <2>2 DEF UnlinkFromPrev, TaskLists, TaskFields
  <2>3. QED
    BY <2>1, <2>2
<1> HIDE DEF u
<1> DEFINE e == [u EXCEPT !.head = IF t = @ THEN u.at[t].next ELSE @,
                          !.tail = IF t = @ THEN u.at[t].prev ELSE @]
<1>2. e \in TaskLists /\ e.at = u.at
  BY <1>1 DEF TaskLists, TaskFields
<1>3. task_list_remove(l, t) =
        [e EXCEPT !.current = IF t = @ THEN task_get_next(e) ELSE @]
  BY DEF task_list_remove, u
<1> HIDE DEF e
<1>4. t = e.current => task_get_next(e) \in Addresses
  BY <1>2 DEF task_get_next, TaskLists, TaskFields
<1>5. QED
  BY <1>1, <1>2, <1>3, <1>4 DEF TaskLists

\* task_next changes the current task only, and stays in user mode only when the
\* current task is allocated.
LEMMA TaskNext ==
  ASSUME NEW l \in TaskLists, NEW live \in SUBSET TaskAddrs
  PROVE  LET r == task_next(l, live)
         IN /\ r.list \in TaskLists
            /\ r.list.at = l.at
            /\ r.mode \in {"user", "panic", "stale", "null"}
            /\ r.mode = "user" => r.list.current \in live
<1>1. CASE l.current \notin live
  BY <1>1 DEF task_next
<1>2. CASE l.current \in live
  <2>1. l.current # Null /\ l.current \in TaskAddrs
    BY <1>2, TasksAssumption
  <2>2. task_get_next(l) \in Addresses
    BY <2>1 DEF task_get_next, TaskLists, TaskFields
  <2>3. QED
    BY <1>2, <2>1, <2>2 DEF task_next, TaskLists
<1>3. QED
  BY <1>1, <1>2
------------------------------------------------------------------------------
(***************************************************************************)
(* The process table and the tasks.  TasksOfTable needs the current task   *)
(* to be allocated whenever a user task runs, because an exit finds the    *)
(* process through it.                                                     *)
(***************************************************************************)

CurrentAllocated == mode = "user" => list.current \in allocated

TasksInv ==
  /\ TypeOK
  /\ TasksOfTable
  /\ FocusLoaded
  /\ CurrentAllocated

\* Loading a process keeps the table and the tasks in step.
LEMMA LoadStep ==
  ASSUME TasksInv, NEW a \in TaskAddrs, process_load_switch(a),
         list'.at = task_new(list, a, nproc + 1).at
  PROVE  /\ process' \in [Objects -> [id : Slots, task : Addresses]]
         /\ nproc' \in 0 .. MaxLoads
         /\ processes' \in [Slots -> Objects \cup {NoProcess}]
         /\ TasksOfTable'
         /\ current_process' \in Objects /\ FocusLoaded'
<1> DEFINE p == nproc + 1
           slot == process_get_free_slot
<1>1. /\ TypeOK /\ TasksOfTable
      /\ p \in Objects /\ p # NoProcess
      /\ a \notin allocated
      /\ allocated' = allocated \cup {a}
      /\ nproc' = p
      /\ process' = [process EXCEPT ![p] = [id |-> slot, task |-> a]]
      /\ processes' = [processes EXCEPT ![slot] = p]
      /\ current_process' = p
  BY TasksAssumption DEF TasksInv, TypeOK, process_load_switch, Objects, NoProcess
<1>2. slot \in Slots /\ processes[slot] = NoProcess
  <2>1. FreeSlots \subseteq Nat /\ FreeSlots # {}
    BY TasksAssumption DEF process_load_switch, FreeSlots, Slots
  <2>2. QED
    BY <2>1, LeastOf DEF process_get_free_slot, FreeSlots
<1> HIDE DEF p, slot
<1>3. /\ list'.at[a].process = p
      /\ \A b \in TaskAddrs : b # a => list'.at[b].process = list.at[b].process
  BY <1>1, TaskNew DEF TypeOK, p
<1>4. /\ process' \in [Objects -> [id : Slots, task : Addresses]]
      /\ processes' \in [Slots -> Objects \cup {NoProcess}]
      /\ nproc' \in 0 .. MaxLoads
  BY <1>1, <1>2, TasksAssumption DEF TypeOK, Addresses, Objects
<1>5. Loaded' = Loaded \cup {p}
  BY <1>1, <1>2 DEF Loaded, TypeOK
<1>6. p \notin Loaded
  BY <1>1 DEF Loaded, TasksOfTable, p, TypeOK
<1>7. ASSUME NEW s \in Slots, processes'[s] # NoProcess
      PROVE  LET q == processes'[s]
             IN /\ q <= nproc'
                /\ process'[q].id = s
                /\ process'[q].task \in allocated'
                /\ list'.at[process'[q].task].process = q
  <2>1. CASE s = slot
    BY <1>1, <1>2, <1>3, <1>4, <2>1 DEF TypeOK, Objects
  <2>2. CASE s # slot
    <3>1. processes'[s] = processes[s] /\ processes[s] \in Loaded /\ processes[s] \in Objects
      BY <1>1, <1>7, <2>2 DEF Loaded, TypeOK
    <3>2. processes[s] # p /\ process'[processes[s]] = process[processes[s]]
      BY <1>1, <1>6, <3>1 DEF TypeOK
    <3>3. /\ processes[s] <= nproc
          /\ process[processes[s]].id = s
          /\ process[processes[s]].task \in allocated
          /\ list.at[process[processes[s]].task].process = processes[s]
      BY <1>1, <1>7, <3>1 DEF TasksOfTable
    <3>4. processes[s] <= nproc'
      BY <1>1, <3>1, <3>3 DEF TypeOK, p, Objects
    <3>5. /\ process[processes[s]].task # a
          /\ process[processes[s]].task \in TaskAddrs
      BY <1>1, <3>3 DEF TypeOK
    <3>6. QED
      BY <1>1, <1>3, <3>1, <3>2, <3>3, <3>4, <3>5
  <2>3. QED
    BY <2>1, <2>2
<1>8. ASSUME NEW b \in allocated'
      PROVE  /\ list'.at[b].process \in Loaded'
             /\ process'[list'.at[b].process].task = b
  <2>1. CASE b = a
    BY <1>1, <1>3, <1>5, <2>1 DEF TypeOK
  <2>2. CASE b # a
    <3>1. b \in allocated /\ b \in TaskAddrs
      BY <1>1, <2>2 DEF TypeOK
    <3>2. /\ list'.at[b].process = list.at[b].process
          /\ list.at[b].process \in Loaded
          /\ process[list.at[b].process].task = b
      BY <1>1, <1>3, <2>2, <3>1 DEF TasksOfTable
    <3>3. list.at[b].process # p
      BY <1>6, <3>2
    <3>4. QED
      BY <1>1, <1>5, <3>2, <3>3 DEF TypeOK
  <2>3. QED
    BY <2>1, <2>2
<1>9. TasksOfTable'
  BY <1>7, <1>8 DEF TasksOfTable
<1>10. current_process' \in Objects /\ FocusLoaded'
  BY <1>1, <1>5 DEF FocusLoaded
<1>11. QED
  BY <1>4, <1>9, <1>10

\* A step that changes no task's process, no process in the table and neither
\* the table nor the allocated tasks keeps them in step.
LEMMA Untouched ==
  ASSUME TypeOK, TasksOfTable,
         UNCHANGED <<allocated, processes>>,
         nproc' \in Nat, nproc' >= nproc,
         \A q \in Objects : q <= nproc => process'[q] = process[q],
         \A b \in allocated : list'.at[b].process = list.at[b].process
  PROVE  TasksOfTable'
<1>1. Loaded' = Loaded /\ Loaded \subseteq Objects
  BY DEF Loaded, TypeOK
<1>2. \A q \in Loaded : q <= nproc /\ process'[q] = process[q]
  BY <1>1 DEF Loaded, TasksOfTable
<1>3. nproc \in Nat /\ \A q \in Objects : q \in Nat
  BY TasksAssumption DEF TypeOK, Objects
<1>4. ASSUME NEW s \in Slots, processes[s] # NoProcess
      PROVE  LET q == processes[s]
             IN /\ q <= nproc'
                /\ process'[q].id = s
                /\ process'[q].task \in allocated
                /\ list'.at[process'[q].task].process = q
  <2>1. processes[s] \in Loaded /\ processes[s] \in Objects
    BY <1>1, <1>4 DEF Loaded
  <2>2. process'[processes[s]] = process[processes[s]] /\ processes[s] <= nproc'
    BY <1>2, <1>3, <2>1
  <2>3. QED
    BY <1>4, <2>2 DEF TasksOfTable
<1>5. QED
  BY <1>1, <1>2, <1>4 DEF TasksOfTable

\* The exit of a process takes its task and its slot away together, and moves
\* the keyboard on if it was there.
LEMMA ExitStep ==
  ASSUME TasksInv, Exit
  PROVE  TasksInv'
<1> DEFINE p == Running
           t == process[p].task
           removed == task_list_remove(list, t)
           table == [processes EXCEPT ![process[p].id] = NoProcess]
           r == task_next(removed, allocated \ {t})
<1>1. /\ TypeOK /\ TasksOfTable /\ FocusLoaded
      /\ mode = "user"
      /\ list.current \in allocated /\ list.current \in TaskAddrs
  BY DEF TasksInv, Exit, CurrentAllocated, TypeOK
<1>2. PICK s0 \in Slots : processes[s0] = p
  BY <1>1 DEF TasksOfTable, Loaded, Running
<1>3. /\ p \in Objects /\ p # NoProcess
      /\ process[p].id = s0
      /\ t = list.current
  <2>1. p # NoProcess
    BY <1>1 DEF TasksOfTable, Loaded, Running
  <2>2. p \in Objects
    BY <1>1, <1>2, <2>1 DEF TypeOK
  <2>3. process[p].id = s0
    BY <1>1, <1>2, <2>1 DEF TasksOfTable
  <2>4. t = list.current
    BY <1>1 DEF TasksOfTable, Running
  <2>5. QED
    BY <2>1, <2>2, <2>3, <2>4
<1>4. /\ removed \in TaskLists
      /\ \A b \in TaskAddrs : removed.at[b].process = list.at[b].process
  BY <1>1, <1>3, TaskListRemove DEF TypeOK
<1>5. /\ r.list \in TaskLists
      /\ r.list.at = removed.at
      /\ r.mode \in {"user", "panic", "stale", "null"}
      /\ r.mode = "user" => r.list.current \in allocated \ {t}
  BY <1>1, <1>4, TaskNext DEF TypeOK
<1>6. /\ allocated' = allocated \ {t}
      /\ processes' = table
      /\ dangled' = (dangled \/ StalePrev(t))
      /\ process' = process /\ nproc' = nproc
      /\ \/ /\ current_process = p /\ IsEmpty(table)
            /\ mode' = "panic"
            /\ list' = removed
            /\ current_process' = current_process
         \/ /\ ~(current_process = p /\ IsEmpty(table))
            /\ mode' = r.mode
            /\ list' = r.list
            /\ current_process' = IF current_process = p
                                    THEN process_switch_to_any(table)
                                    ELSE current_process
  BY DEF Exit
<1> HIDE DEF p, t, removed, r
<1>7. /\ table \in [Slots -> Objects \cup {NoProcess}]
      /\ \A s \in Slots : table[s] = IF s = s0 THEN NoProcess ELSE processes[s]
  BY <1>1, <1>3 DEF TypeOK
<1> HIDE DEF table
<1>8. Loaded' = {table[s] : s \in Slots} \ {NoProcess}
  BY <1>6 DEF Loaded
\* A process other than p keeps its slot and its task.
<1>9. ASSUME NEW q \in Loaded, q # p
      PROVE  q \in Loaded' /\ q \in Objects /\ process[q].task # t
  <2>1. PICK s \in Slots : processes[s] = q /\ q # NoProcess
    BY DEF Loaded
  <2>2. s # s0
    BY <1>2, <1>9, <2>1
  <2>3. table[s] = q
    BY <1>7, <2>1, <2>2
  <2>4. q \in Loaded' /\ q \in Objects
    BY <1>1, <1>8, <2>1, <2>3 DEF TypeOK
  <2>5. list.at[process[q].task].process = q
    BY <1>1, <2>1 DEF TasksOfTable
  <2>6. list.at[t].process = p
    BY <1>3 DEF p, Running
  <2>7. QED
    BY <1>9, <2>4, <2>5, <2>6
<1>10. \A b \in TaskAddrs : list'.at[b].process = list.at[b].process
  BY <1>4, <1>5, <1>6
<1>11. TasksOfTable'
  <2>1. ASSUME NEW s \in Slots, processes'[s] # NoProcess
        PROVE  LET q == processes'[s]
               IN /\ q <= nproc'
                  /\ process'[q].id = s
                  /\ process'[q].task \in allocated'
                  /\ list'.at[process'[q].task].process = q
    <3>1. s # s0 /\ processes'[s] = processes[s] /\ processes[s] \in Loaded
      BY <1>6, <1>7, <2>1 DEF Loaded
    <3>2. /\ processes[s] <= nproc
          /\ process[processes[s]].id = s
          /\ process[processes[s]].task \in allocated
          /\ list.at[process[processes[s]].task].process = processes[s]
      BY <1>1, <2>1, <3>1 DEF TasksOfTable
    <3>3. processes[s] # p
      BY <1>3, <3>1, <3>2
    <3>4. /\ process[processes[s]].task # t
          /\ process[processes[s]].task \in TaskAddrs
      BY <1>1, <1>9, <3>1, <3>2, <3>3 DEF TypeOK
    <3>5. QED
      BY <1>6, <1>10, <3>1, <3>2, <3>4
  <2>2. ASSUME NEW b \in allocated'
        PROVE  /\ list'.at[b].process \in Loaded'
               /\ process'[list'.at[b].process].task = b
    <3>1. b \in allocated /\ b # t /\ b \in TaskAddrs
      BY <1>1, <1>6 DEF TypeOK
    <3>2. list.at[b].process \in Loaded /\ process[list.at[b].process].task = b
      BY <1>1, <3>1 DEF TasksOfTable
    <3>3. list.at[b].process # p
      BY <3>1, <3>2 DEF t
    <3>4. QED
      BY <1>6, <1>9, <1>10, <3>1, <3>2, <3>3
  <2>3. QED
    BY <2>1, <2>2 DEF TasksOfTable
<1>12. current_process' \in Objects /\ FocusLoaded'
  <2>1. CASE current_process # p
    BY <1>1, <1>6, <1>9, <2>1 DEF FocusLoaded, TypeOK
  <2>2. CASE current_process = p /\ IsEmpty(table)
    BY <1>1, <1>6, <2>2 DEF FocusLoaded, TypeOK
  <2>3. CASE current_process = p /\ ~IsEmpty(table)
    <3> DEFINE occupied == {s \in Slots : table[s] # NoProcess}
    <3>1. occupied \subseteq Nat /\ occupied # {}
      BY <2>3, TasksAssumption DEF IsEmpty, Slots
    <3>2. Min(occupied) \in occupied
      BY <3>1, LeastOf
    <3>3. current_process' = table[Min(occupied)]
      BY <1>6, <2>3 DEF process_switch_to_any
    <3>4. QED
      BY <1>7, <1>8, <3>2, <3>3 DEF FocusLoaded
  <2>4. QED
    BY <2>1, <2>2, <2>3
<1>13. TypeOK'
  <2>1. list' \in TaskLists /\ mode' \in {"user", "panic", "stale", "null"}
    BY <1>4, <1>5, <1>6
  <2>2. dangled' \in BOOLEAN
    BY <1>1, <1>6, Zenon DEF TypeOK, StalePrev
  <2>3. QED
    BY <1>1, <1>6, <1>7, <1>12, <2>1, <2>2 DEF TypeOK
<1>14. CurrentAllocated'
  BY <1>5, <1>6 DEF CurrentAllocated
<1>15. QED
  BY <1>11, <1>12, <1>13, <1>14 DEF TasksInv

\* What task_page computes is a mode, and "user" only for an allocated task.
LEMMA TaskPage ==
  ASSUME NEW l, NEW live
  PROVE  /\ task_page(l, live) \in {"user", "stale", "null"}
         /\ task_page(l, live) = "user" => l.current \in live
BY DEF task_page

\* The inductive invariant of tasks and processes.
THEOREM TasksInvariance == Spec => []TasksInv
<1>1. Init => TasksInv
  <2> SUFFICES ASSUME Init PROVE TasksInv
    OBVIOUS
  <2>1. PICK a \in TaskAddrs, b \in TaskAddrs :
          /\ a # b
          /\ list = task_new(task_new(EmptyList, a, 1), b, 2)
          /\ allocated = {a, b}
          /\ process = [p \in Objects |-> CASE p = 1 -> [id |-> 0, task |-> a]
                                            [] p = 2 -> [id |-> 1, task |-> b]
                                            [] OTHER -> [id |-> 0, task |-> Null]]
          /\ nproc = 2
          /\ processes = [s \in Slots |-> IF s \in {0, 1} THEN s + 1 ELSE NoProcess]
          /\ current_process = 2
          /\ mode = "user"
          /\ dangled = FALSE
    BY DEF Init
  <2>2. 1 \in Objects /\ 2 \in Objects /\ 0 \in Slots /\ 1 \in Slots
    BY TasksAssumption DEF Objects, Slots
  <2>3. EmptyList \in TaskLists
    BY DEF EmptyList, TaskLists, TaskFields, Addresses
  <2> DEFINE one == task_new(EmptyList, a, 1)
  <2>4. one \in TaskLists /\ one.at[a].process = 1
    BY <2>2, <2>3, TaskNew
  <2>5. one.head = a /\ one.current = a
    BY DEF task_new, EmptyList
  <2> HIDE DEF one
  <2>6. list \in TaskLists /\ list.at[a].process = 1 /\ list.at[b].process = 2
    BY <2>1, <2>2, <2>4, TaskNew DEF one
  <2>7. list.current = a
    <3>1. one.head # Null
      BY <2>5, TasksAssumption
    <3>2. list = [[[one EXCEPT !.at[b] = [process |-> 2, next |-> Null, prev |-> Null]]
                        EXCEPT !.at[one.tail].next = b]
                        EXCEPT !.at[b].prev = one.tail, !.tail = b]
      BY <2>1, <3>1 DEF task_new, one
    <3>3. QED
      BY <2>4, <2>5, <3>2 DEF TaskLists
  <2>8. /\ process[1] = [id |-> 0, task |-> a]
        /\ process[2] = [id |-> 1, task |-> b]
        /\ process \in [Objects -> [id : Slots, task : Addresses]]
    BY <2>1, <2>2 DEF Addresses
  <2>9. /\ processes \in [Slots -> Objects \cup {NoProcess}]
        /\ processes[0] = 1 /\ processes[1] = 2
        /\ \A s \in Slots : processes[s] # NoProcess => s \in {0, 1}
    BY <2>1, <2>2
  <2>10. TypeOK
    <3>1. nproc \in 0 .. MaxLoads
      BY <2>1, TasksAssumption
    <3>2. allocated \subseteq TaskAddrs /\ current_process \in Objects
      BY <2>1, <2>2
    <3>3. mode \in {"user", "panic", "stale", "null"} /\ dangled \in BOOLEAN
      BY <2>1
    <3>4. QED
      BY <2>6, <2>8, <2>9, <3>1, <3>2, <3>3 DEF TypeOK
  <2>11. 1 \in Loaded /\ 2 \in Loaded
    BY <2>2, <2>9 DEF Loaded, NoProcess
  <2>12. TasksOfTable
    BY <2>1, <2>6, <2>8, <2>9, <2>11 DEF TasksOfTable
  <2>13. QED
    BY <2>1, <2>7, <2>10, <2>11, <2>12 DEF TasksInv, FocusLoaded, CurrentAllocated
<1>2. TasksInv /\ [Next]_vars => TasksInv'
  <2> SUFFICES ASSUME TasksInv, [Next]_vars
               PROVE  TasksInv'
    OBVIOUS
  <2>0. TypeOK /\ TasksOfTable /\ FocusLoaded /\ CurrentAllocated
    BY DEF TasksInv
  <2>1. CASE idt_clock
    <3> DEFINE r == task_next(list, allocated)
    <3>1. /\ r.list \in TaskLists
          /\ r.list.at = list.at
          /\ r.mode \in {"user", "panic", "stale", "null"}
          /\ r.mode = "user" => r.list.current \in allocated
      BY <2>0, TaskNext DEF TypeOK
    <3>2. /\ list' = r.list /\ mode' = r.mode /\ mode = "user"
          /\ UNCHANGED <<allocated, process, nproc, processes, current_process, dangled>>
      BY <2>1 DEF idt_clock
    <3> HIDE DEF r
    <3>3. TypeOK'
      BY <2>0, <3>1, <3>2 DEF TypeOK
    <3>4. TasksOfTable'
      BY <2>0, <3>1, <3>2 DEF TasksOfTable, Loaded
    <3>5. FocusLoaded' /\ CurrentAllocated'
      BY <2>0, <3>1, <3>2 DEF FocusLoaded, CurrentAllocated, Loaded
    <3>6. QED
      BY <3>3, <3>4, <3>5 DEF TasksInv
  <2>2. ASSUME NEW a \in TaskAddrs, LoadStart(a)
        PROVE  TasksInv'
    <3> DEFINE new == task_new(list, a, nproc + 1)
    <3>1. process_load_switch(a) /\ list' = [new EXCEPT !.current = a] /\ mode' = mode
      BY <2>2 DEF LoadStart
    <3>2. new \in TaskLists
      <4>1. nproc + 1 \in Objects
        BY <2>0, <3>1, TasksAssumption DEF TypeOK, Objects, process_load_switch
      <4>2. QED
        BY <2>0, <4>1, TaskNew DEF TypeOK
    <3>3. list' \in TaskLists /\ list'.at = new.at /\ list'.current = a
      BY <3>1, <3>2 DEF TaskLists, Addresses
    <3> HIDE DEF new
    <3>4. allocated' = allocated \cup {a} /\ dangled' = dangled
      BY <3>1 DEF process_load_switch
    <3>5. /\ process' \in [Objects -> [id : Slots, task : Addresses]]
          /\ nproc' \in 0 .. MaxLoads
          /\ processes' \in [Slots -> Objects \cup {NoProcess}]
          /\ TasksOfTable'
          /\ current_process' \in Objects /\ FocusLoaded'
      BY <3>1, <3>3, LoadStep DEF new
    <3>6. TypeOK' /\ CurrentAllocated'
      BY <2>0, <3>1, <3>3, <3>4, <3>5 DEF TypeOK, CurrentAllocated
    <3>7. QED
      BY <3>5, <3>6 DEF TasksInv
  <2>3. ASSUME NEW a \in TaskAddrs, LoadWithoutArguments(a)
        PROVE  TasksInv'
    <3> DEFINE new == task_new(list, a, nproc + 1)
    <3>1. /\ process_load_switch(a) /\ list' = new
          /\ mode' = task_page(list', allocated')
      BY <2>3 DEF LoadWithoutArguments
    <3>2. new \in TaskLists
      <4>1. nproc + 1 \in Objects
        BY <2>0, <3>1, TasksAssumption DEF TypeOK, Objects, process_load_switch
      <4>2. QED
        BY <2>0, <4>1, TaskNew DEF TypeOK
    <3> HIDE DEF new
    <3>3. allocated' = allocated \cup {a} /\ dangled' = dangled
      BY <3>1 DEF process_load_switch
    <3>4. /\ process' \in [Objects -> [id : Slots, task : Addresses]]
          /\ nproc' \in 0 .. MaxLoads
          /\ processes' \in [Slots -> Objects \cup {NoProcess}]
          /\ TasksOfTable'
          /\ current_process' \in Objects /\ FocusLoaded'
      BY <3>1, LoadStep DEF new
    <3>5. TypeOK' /\ CurrentAllocated'
      BY <2>0, <3>1, <3>2, <3>3, <3>4, TaskPage DEF TypeOK, CurrentAllocated
    <3>6. QED
      BY <3>4, <3>5 DEF TasksInv
  <2>4. ASSUME NEW a \in TaskAddrs, MapFails(a)
        PROVE  TasksInv'
    <3> DEFINE new == task_new(list, a, nproc + 1)
    <3>1. /\ a \notin allocated
          /\ nproc' = nproc + 1 /\ nproc + 1 \in Objects
          /\ process' = [process EXCEPT ![nproc + 1] =
                           [id |-> process_get_free_slot, task |-> a]]
          /\ list' = task_list_remove(new, a)
          /\ mode' = task_page(list', allocated)
          /\ UNCHANGED <<allocated, processes, current_process, dangled>>
          /\ mode = "user"
      BY <2>0, <2>4, TasksAssumption DEF MapFails, TypeOK, Objects
    <3>2. process_get_free_slot \in Slots
      <4>1. FreeSlots \subseteq Nat /\ FreeSlots # {}
        BY <2>4, TasksAssumption DEF MapFails, FreeSlots, Slots
      <4>2. QED
        BY <4>1, LeastOf DEF process_get_free_slot, FreeSlots
    <3>3. /\ new \in TaskLists
          /\ \A b \in TaskAddrs : b # a => new.at[b].process = list.at[b].process
      BY <2>0, <3>1, TaskNew DEF TypeOK
    <3> HIDE DEF new
    <3>4. /\ list' \in TaskLists
          /\ \A b \in allocated : list'.at[b].process = list.at[b].process
      BY <2>0, <3>1, <3>3, TaskListRemove DEF TypeOK
    <3>5. TypeOK'
      <4>1. process' \in [Objects -> [id : Slots, task : Addresses]]
        BY <2>0, <3>1, <3>2 DEF TypeOK, Addresses
      <4>2. nproc' \in 0 .. MaxLoads
        BY <3>1, TasksAssumption DEF Objects
      <4>3. QED
        BY <2>0, <3>1, <3>4, <4>1, <4>2, TaskPage DEF TypeOK
    <3>6. TasksOfTable'
      <4>1. nproc \in Nat /\ nproc' \in Nat /\ nproc' >= nproc
        BY <2>0, <3>1, TasksAssumption DEF TypeOK
      <4>2. \A q \in Objects : q <= nproc => process'[q] = process[q]
        BY <2>0, <3>1, <4>1 DEF TypeOK, Objects
      <4>3. QED
        BY <2>0, <3>1, <3>4, <4>1, <4>2, Untouched
    <3>7. FocusLoaded' /\ CurrentAllocated'
      BY <2>0, <3>1, TaskPage DEF FocusLoaded, CurrentAllocated, Loaded
    <3>8. QED
      BY <3>5, <3>6, <3>7 DEF TasksInv
  <2>5. CASE LoadFails \/ TaskOutOfMemory
    <3>1. /\ UNCHANGED <<list, allocated, process, processes, current_process, dangled>>
          /\ mode = "user" /\ mode' \in {"user", "null"}
          /\ nproc' \in 0 .. MaxLoads /\ nproc' >= nproc
          /\ nproc' \in Nat
      BY <2>0, <2>5, TasksAssumption DEF LoadFails, TaskOutOfMemory, TypeOK
    <3>2. TypeOK'
      BY <2>0, <3>1 DEF TypeOK
    <3>3. TasksOfTable'
      BY <2>0, <3>1, Untouched
    <3>4. FocusLoaded' /\ CurrentAllocated'
      BY <2>0, <3>1 DEF FocusLoaded, CurrentAllocated, Loaded
    <3>5. QED
      BY <3>2, <3>3, <3>4 DEF TasksInv
  <2>6. CASE Exit
    BY <2>6, ExitStep
  <2>7. CASE UNCHANGED vars
    BY <2>0, <2>7
       DEF vars, TasksInv, TypeOK, TasksOfTable, FocusLoaded, CurrentAllocated, Loaded
  <2>8. QED
    BY <2>1, <2>2, <2>3, <2>4, <2>5, <2>6, <2>7 DEF Next
<1>3. QED
  BY <1>1, <1>2, PTL DEF Spec

\* Type correctness: every link of the task list is null or an address of a task.
THEOREM TasksTypeCorrect == Spec => []TypeOK
<1>1. TasksInv => TypeOK
  BY DEF TasksInv
<1>2. QED
  BY <1>1, TasksInvariance, PTL

\* The process table and the allocated tasks stay in step.
THEOREM TableInStep == Spec => []TasksOfTable
<1>1. TasksInv => TasksOfTable
  BY DEF TasksInv
<1>2. QED
  BY <1>1, TasksInvariance, PTL

\* The process that has the keyboard is in the process table.
THEOREM FocusAlwaysLoaded == Spec => []FocusLoaded
<1>1. TasksInv => FocusLoaded
  BY DEF TasksInv
<1>2. QED
  BY <1>1, TasksInvariance, PTL
------------------------------------------------------------------------------
(***************************************************************************)
(* The order of the task list.  As long as no task has exited whose prev   *)
(* link was stale, the tasks can be numbered so that next leads from each  *)
(* to the one after it.                                                    *)
(***************************************************************************)

\* s[1], ..., s[n] are the tasks in A in the order of the list l.  Only the first
\* may have a null prev: the others were put behind a tail.  A prev link leads to
\* the task before, or to an address that was freed and now holds a later task.
OrderOf(l, A, n, s) ==
  /\ n \in Nat /\ s \in [1 .. n -> A]
  /\ \A i, j \in 1 .. n : s[i] = s[j] => i = j
  /\ \A a \in A : \E i \in 1 .. n : s[i] = a
  /\ n > 0 => l.head = s[1] /\ l.tail = s[n]
  /\ \A i \in 1 .. n : l.at[s[i]].next = IF i = n THEN Null ELSE s[i + 1]
  /\ \A i \in 1 .. n : l.at[s[i]].prev = Null => i = 1
  /\ \A i, j \in 1 .. n : l.at[s[i]].prev = s[j] => i = j + 1 \/ i < j

\* What task_new writes when the list is not empty.
LEMMA NewFields ==
  ASSUME NEW l \in TaskLists, NEW a \in TaskAddrs, NEW p,
         l.head # Null, l.tail \in TaskAddrs, l.tail # a
  PROVE  LET r == task_new(l, a, p)
         IN /\ r.head = l.head /\ r.tail = a /\ r.current = l.current
            /\ r.at[a] = [process |-> p, next |-> Null, prev |-> l.tail]
            /\ \A b \in TaskAddrs \ {a} :
                 /\ r.at[b].next = IF b = l.tail THEN a ELSE l.at[b].next
                 /\ r.at[b].prev = l.at[b].prev
                 /\ r.at[b].process = l.at[b].process
<1> DEFINE blank == [process |-> p, next |-> Null, prev |-> Null]
           fresh == [l EXCEPT !.at[a] = blank]
           linked == [fresh EXCEPT !.at[l.tail].next = a]
           done == [linked EXCEPT !.at[a].prev = l.tail, !.tail = a]
<1>1. task_new(l, a, p) = done
  BY DEF task_new
<1>2. \A b \in TaskAddrs : l.at[b] \in TaskFields
  BY DEF TaskLists
<1>3. /\ fresh.head = l.head /\ fresh.current = l.current
      /\ fresh.at = [l.at EXCEPT ![a] = blank]
      /\ fresh = [at |-> fresh.at, head |-> fresh.head, tail |-> fresh.tail, current |-> fresh.current]
  BY DEF TaskLists
<1> DEFINE f == fresh.at
<1>4. \A b \in TaskAddrs : f[b] = IF b = a THEN blank ELSE l.at[b]
  BY <1>3 DEF TaskLists
<1>5. f = [b \in TaskAddrs |-> f[b]]
  BY <1>3 DEF TaskLists
<1> HIDE DEF fresh, f
<1>6. /\ linked.head = l.head /\ linked.current = l.current
      /\ linked.at = [f EXCEPT ![l.tail].next = a]
      /\ linked = [at |-> linked.at, head |-> linked.head, tail |-> linked.tail, current |-> linked.current]
  BY <1>3 DEF f
<1> DEFINE g == linked.at
<1>7. /\ g = [b \in TaskAddrs |-> g[b]]
      /\ \A b \in TaskAddrs : g[b] = IF b = l.tail THEN [f[b] EXCEPT !.next = a] ELSE f[b]
  BY <1>5, <1>6
<1> HIDE DEF linked, g
<1>8. /\ done.head = l.head /\ done.current = l.current /\ done.tail = a
      /\ done.at = [g EXCEPT ![a].prev = l.tail]
  BY <1>6 DEF g
<1> DEFINE h == done.at
<1>9. \A b \in TaskAddrs : h[b] = IF b = a THEN [g[b] EXCEPT !.prev = l.tail] ELSE g[b]
  BY <1>7, <1>8
<1> HIDE DEF done, h
<1>10. h[a] = [process |-> p, next |-> Null, prev |-> l.tail]
  <2>1. g[a] = blank
    BY <1>4, <1>7
  <2>2. QED
    BY <1>9, <2>1
<1>11. ASSUME NEW b \in TaskAddrs \ {a}
       PROVE  /\ h[b].next = IF b = l.tail THEN a ELSE l.at[b].next
              /\ h[b].prev = l.at[b].prev
              /\ h[b].process = l.at[b].process
  <2>1. h[b] = g[b] /\ f[b] = l.at[b] /\ l.at[b] \in TaskFields
    BY <1>2, <1>4, <1>9
  <2>2. CASE b = l.tail
    <3>1. h[b] = [l.at[b] EXCEPT !.next = a]
      BY <1>7, <2>1, <2>2
    <3>2. QED
      BY <2>1, <2>2, <3>1 DEF TaskFields
  <2>3. CASE b # l.tail
    BY <1>7, <2>1, <2>3
  <2>4. QED
    BY <2>2, <2>3
<1>12. QED
  BY <1>1, <1>8, <1>10, <1>11 DEF h

\* What task_list_remove writes.
LEMMA RemoveFields ==
  ASSUME NEW l \in TaskLists, NEW t \in TaskAddrs
  PROVE  LET r == task_list_remove(l, t)
             q == l.at[t].prev
             n == l.at[t].next
         IN /\ r.head = IF t = l.head THEN n ELSE l.head
            /\ r.tail = IF t = l.tail THEN q ELSE l.tail
            /\ r.current = IF t # l.current THEN l.current
                           ELSE IF n = Null THEN r.head ELSE n
            /\ \A b \in TaskAddrs :
                 /\ r.at[b].next = IF q # Null /\ b = q THEN n ELSE l.at[b].next
                 /\ r.at[b].prev = l.at[b].prev
                 /\ r.at[b].process = l.at[b].process
<1> DEFINE q == l.at[t].prev
           n == l.at[t].next
           u == UnlinkFromPrev(l, t)
           e == [u EXCEPT !.head = IF t = u.head THEN u.at[t].next ELSE u.head,
                          !.tail = IF t = u.tail THEN u.at[t].prev ELSE u.tail]
           r == [e EXCEPT !.current = IF t = e.current THEN task_get_next(e) ELSE e.current]
<1>1. task_list_remove(l, t) = r
  BY DEF task_list_remove
<1>2. /\ l.at \in [TaskAddrs -> TaskFields]
      /\ q \in Addresses
      /\ l = [at |-> l.at, head |-> l.head, tail |-> l.tail, current |-> l.current]
  BY DEF TaskLists, TaskFields
<1>3. /\ u.head = l.head /\ u.tail = l.tail /\ u.current = l.current
      /\ u = [at |-> u.at, head |-> u.head, tail |-> u.tail, current |-> u.current]
      /\ \A b \in TaskAddrs :
           /\ u.at[b].next = IF q # Null /\ b = q THEN n ELSE l.at[b].next
           /\ u.at[b].prev = l.at[b].prev
           /\ u.at[b].process = l.at[b].process
  <2>1. CASE q = Null
    <3>1. u = l
      BY <2>1 DEF UnlinkFromPrev
    <3>2. QED
      BY <1>2, <2>1, <3>1
  <2>2. CASE q # Null
    <3>1. q \in TaskAddrs
      BY <1>2, <2>2 DEF Addresses
    <3>2. u = [l EXCEPT !.at[q].next = n]
      BY <2>2 DEF UnlinkFromPrev
    <3> HIDE DEF u, q, n
    <3>3. /\ u.head = l.head /\ u.tail = l.tail /\ u.current = l.current
          /\ u = [at |-> u.at, head |-> u.head, tail |-> u.tail, current |-> u.current]
          /\ u.at = [l.at EXCEPT ![q].next = n]
      BY <1>2, <3>2
    <3>4. ASSUME NEW b \in TaskAddrs
          PROVE  /\ u.at[b].next = IF b = q THEN n ELSE l.at[b].next
                 /\ u.at[b].prev = l.at[b].prev
                 /\ u.at[b].process = l.at[b].process
      <4>1. l.at[b] \in TaskFields
        BY <1>2
      <4>2. CASE b = q
        <5>1. u.at[b] = [l.at[b] EXCEPT !.next = n]
          BY <1>2, <3>1, <3>3, <4>2
        <5>2. QED
          BY <4>1, <4>2, <5>1 DEF TaskFields
      <4>3. CASE b # q
        BY <1>2, <3>1, <3>3, <4>3
      <4>4. QED
        BY <4>2, <4>3
    <3>5. QED
      BY <2>2, <3>3, <3>4
  <2>3. QED
    BY <2>1, <2>2
<1>4. u.at[t].next = n /\ u.at[t].prev = q
  BY <1>3
<1> HIDE DEF u, q, n
<1> DEFINE hd == IF t = u.head THEN u.at[t].next ELSE u.head
           tl == IF t = u.tail THEN u.at[t].prev ELSE u.tail
<1>5a. hd = (IF t = l.head THEN n ELSE l.head) /\ tl = (IF t = l.tail THEN q ELSE l.tail)
  BY <1>3, <1>4
<1>5b. e = [u EXCEPT !.head = hd, !.tail = tl]
  OBVIOUS
<1>5c. u = [at |-> u.at, head |-> u.head, tail |-> u.tail, current |-> u.current] /\ u.current = l.current
  BY <1>3
<1> HIDE DEF e, hd, tl
<1>5. /\ e.head = hd /\ e.tail = tl /\ e.current = l.current /\ e.at = u.at
      /\ e = [at |-> e.at, head |-> e.head, tail |-> e.tail, current |-> e.current]
  BY <1>5b, <1>5c
<1>6. t = l.current => task_get_next(e) = IF n = Null THEN e.head ELSE n
  BY <1>4, <1>5 DEF task_get_next
<1>7. /\ r.head = e.head /\ r.tail = e.tail /\ r.at = u.at
      /\ r.current = IF t # l.current THEN l.current ELSE IF n = Null THEN e.head ELSE n
  BY <1>5, <1>6
<1> HIDE DEF r
<1>8. QED
  BY <1>1, <1>3, <1>5, <1>5a, <1>7 DEF q, n
------------------------------------------------------------------------------
\* A new task is put behind the last one.
LEMMA OrderNew ==
  ASSUME NEW l \in TaskLists, NEW A \in SUBSET TaskAddrs, NEW n, NEW s,
         OrderOf(l, A, n, s), n > 0,
         NEW a \in TaskAddrs, a \notin A, NEW p
  PROVE  OrderOf(task_new(l, a, p), A \cup {a}, n + 1,
                 [k \in 1 .. n + 1 |-> IF k = n + 1 THEN a ELSE s[k]])
<1> DEFINE r == task_new(l, a, p)
           z == [k \in 1 .. n + 1 |-> IF k = n + 1 THEN a ELSE s[k]]
<1>1. /\ n \in Nat /\ s \in [1 .. n -> A]
      /\ \A i, j \in 1 .. n : s[i] = s[j] => i = j
      /\ \A b \in A : \E i \in 1 .. n : s[i] = b
      /\ l.head = s[1] /\ l.tail = s[n]
      /\ \A i \in 1 .. n : l.at[s[i]].next = IF i = n THEN Null ELSE s[i + 1]
      /\ \A i \in 1 .. n : l.at[s[i]].prev = Null => i = 1
      /\ \A i, j \in 1 .. n : l.at[s[i]].prev = s[j] => i = j + 1 \/ i < j
  BY DEF OrderOf
<1>2. 1 \in 1 .. n /\ n \in 1 .. n
  BY <1>1
<1>3. l.head # Null /\ l.tail \in A /\ l.tail # a /\ l.tail # Null
  BY <1>1, <1>2, TasksAssumption
<1>4. /\ r.head = l.head /\ r.tail = a
      /\ r.at[a] = [process |-> p, next |-> Null, prev |-> l.tail]
      /\ \A b \in TaskAddrs \ {a} :
           /\ r.at[b].next = IF b = l.tail THEN a ELSE l.at[b].next
           /\ r.at[b].prev = l.at[b].prev
  BY <1>3, NewFields
<1> HIDE DEF r
<1>5. \A k \in 1 .. n : z[k] = s[k] /\ z[k] \in A /\ z[k] # a /\ z[k] \in TaskAddrs \ {a} /\ k # n + 1
  BY <1>1
<1>6. z[n + 1] = a /\ n + 1 \in Nat
  BY <1>1
<1>7. \A k \in 1 .. n + 1 : k \in 1 .. n \/ k = n + 1
  BY <1>1
<1>7a. \A k \in 1 .. n : k \in 1 .. n + 1
  BY <1>1
<1>8. z \in [1 .. n + 1 -> A \cup {a}]
  BY <1>1, <1>7
<1> HIDE DEF z
<1>9. \A i, j \in 1 .. n + 1 : z[i] = z[j] => i = j
  BY <1>1, <1>5, <1>6, <1>7
<1>10. \A b \in A \cup {a} : \E i \in 1 .. n + 1 : z[i] = b
  <2>1. n + 1 \in 1 .. n + 1
    BY <1>1
  <2>2. QED
    BY <1>1, <1>5, <1>6, <1>7a, <2>1
<1>11. r.head = z[1] /\ r.tail = z[n + 1]
  BY <1>1, <1>2, <1>4, <1>5, <1>6
<1>12. ASSUME NEW i \in 1 .. n + 1
       PROVE  /\ r.at[z[i]].next = IF i = n + 1 THEN Null ELSE z[i + 1]
              /\ r.at[z[i]].prev = Null => i = 1
  <2>1. CASE i = n + 1
    BY <1>3, <1>4, <1>6, <2>1
  <2>2. CASE i \in 1 .. n
    <3>1. z[i] = s[i] /\ z[i] \in TaskAddrs \ {a} /\ i # n + 1
      BY <1>5, <2>2
    <3>2. r.at[z[i]].prev = Null => i = 1
      BY <1>1, <1>4, <2>2, <3>1
    <3>3. CASE i = n
      <4>1. z[i + 1] = a /\ z[i] = l.tail
        BY <1>1, <1>6, <3>1, <3>3
      <4>2. QED
        BY <1>4, <3>1, <3>2, <4>1
    <3>4. CASE i # n
      <4>1. z[i] # l.tail
        BY <1>1, <1>2, <2>2, <3>1, <3>4
      <4>2. i + 1 \in 1 .. n
        BY <1>1, <2>2, <3>4
      <4>3. l.at[s[i]].next = s[i + 1] /\ z[i + 1] = s[i + 1]
        BY <1>1, <1>5, <2>2, <3>4, <4>2
      <4>4. QED
        BY <1>4, <3>1, <3>2, <4>1, <4>3
    <3>5. QED
      BY <3>3, <3>4
  <2>3. QED
    BY <1>7, <2>1, <2>2
<1>13. ASSUME NEW i \in 1 .. n + 1, NEW j \in 1 .. n + 1, r.at[z[i]].prev = z[j]
       PROVE  i = j + 1 \/ i < j
  <2>1. CASE i = n + 1
    <3>1. z[j] = s[n]
      BY <1>1, <1>4, <1>6, <1>13, <2>1
    <3>2. j \in 1 .. n
      BY <1>3, <1>1, <1>6, <1>7, <3>1
    <3>3. j = n
      BY <1>1, <1>2, <1>5, <3>1, <3>2
    <3>4. QED
      BY <2>1, <3>3
  <2>2. CASE i \in 1 .. n /\ j = n + 1
    BY <1>1, <2>2
  <2>3. CASE i \in 1 .. n /\ j \in 1 .. n
    <3>1. l.at[s[i]].prev = s[j]
      BY <1>4, <1>5, <1>13, <2>3
    <3>2. QED
      BY <1>1, <2>3, <3>1
  <2>4. QED
    BY <1>7, <2>1, <2>2, <2>3
<1>14. QED
  BY <1>6, <1>8, <1>9, <1>10, <1>11, <1>12, <1>13 DEF OrderOf, r, z

\* A task whose prev link, if it has one, leads to the task before it can be taken
\* out of the list.
LEMMA OrderRemove ==
  ASSUME NEW l \in TaskLists, NEW A \in SUBSET TaskAddrs, NEW n, NEW s,
         OrderOf(l, A, n, s), NEW i \in 1 .. n,
         IF i = 1 THEN l.at[s[i]].prev = Null ELSE l.at[s[i]].prev = s[i - 1]
  PROVE  OrderOf(task_list_remove(l, s[i]), A \ {s[i]}, n - 1,
                 [k \in 1 .. n - 1 |-> IF k < i THEN s[k] ELSE s[k + 1]])
<1> DEFINE t == s[i]
           r == task_list_remove(l, t)
           z == [k \in 1 .. n - 1 |-> IF k < i THEN s[k] ELSE s[k + 1]]
<1>0a. n \in Nat
  BY DEF OrderOf
<1>0. n \in Int /\ i \in Nat
  BY <1>0a
<1>1. /\ n \in Nat /\ s \in [1 .. n -> A] /\ i \in Nat
      /\ \A j, k \in 1 .. n : s[j] = s[k] => j = k
      /\ \A b \in A : \E j \in 1 .. n : s[j] = b
      /\ l.head = s[1] /\ l.tail = s[n]
      /\ \A j \in 1 .. n : l.at[s[j]].next = IF j = n THEN Null ELSE s[j + 1]
      /\ \A j \in 1 .. n : l.at[s[j]].prev = Null => j = 1
      /\ \A j, k \in 1 .. n : l.at[s[j]].prev = s[k] => j = k + 1 \/ j < k
  BY <1>0 DEF OrderOf
<1>2. 1 \in 1 .. n /\ n \in 1 .. n /\ t \in A /\ t \in TaskAddrs
  BY <1>1
<1> HIDE DEF t
<1>3. /\ r.head = IF t = l.head THEN l.at[t].next ELSE l.head
      /\ r.tail = IF t = l.tail THEN l.at[t].prev ELSE l.tail
      /\ \A b \in TaskAddrs :
           /\ r.at[b].next = IF l.at[t].prev # Null /\ b = l.at[t].prev
                               THEN l.at[t].next ELSE l.at[b].next
           /\ r.at[b].prev = l.at[b].prev
  BY <1>2, RemoveFields
<1> HIDE DEF r
<1>4. ASSUME NEW k \in 1 .. n - 1
      PROVE  /\ k < i => k \in 1 .. n /\ k # i /\ z[k] = s[k]
             /\ ~(k < i) => k + 1 \in 1 .. n /\ k + 1 # i /\ z[k] = s[k + 1]
  BY <1>1
<1>5. \A k \in 1 .. n : k # i => s[k] # t
  BY <1>1 DEF t
<1>6. z \in [1 .. n - 1 -> A \ {t}]
  <2>1. \A k \in 1 .. n - 1 : z[k] \in A \ {t}
    BY <1>1, <1>4, <1>5
  <2>2. QED
    BY <2>1
<1> HIDE DEF z
<1>7. \A j, k \in 1 .. n - 1 : z[j] = z[k] => j = k
  <2> SUFFICES ASSUME NEW j \in 1 .. n - 1, NEW k \in 1 .. n - 1, z[j] = z[k]
               PROVE  j = k
    OBVIOUS
  <2>1. CASE j < i /\ k < i
    <3>1. j \in 1 .. n /\ k \in 1 .. n /\ s[j] = s[k]
      BY <1>4, <2>1
    <3>2. QED
      BY <1>1, <3>1
  <2>2. CASE j < i /\ ~(k < i)
    <3>1. j = k + 1
      BY <1>1, <1>4, <2>2
    <3>2. QED
      BY <1>1, <2>2, <3>1
  <2>3. CASE ~(j < i) /\ k < i
    <3>1. j + 1 = k
      BY <1>1, <1>4, <2>3
    <3>2. QED
      BY <1>1, <2>3, <3>1
  <2>4. CASE ~(j < i) /\ ~(k < i)
    <3>1. j + 1 = k + 1
      BY <1>1, <1>4, <2>4
    <3>2. QED
      BY <3>1
  <2>5. QED
    BY <2>1, <2>2, <2>3, <2>4
<1>8. ASSUME NEW b \in A \ {t}
      PROVE  \E k \in 1 .. n - 1 : z[k] = b
  <2>1. PICK j \in 1 .. n : s[j] = b
    BY <1>1
  <2>2. j # i
    BY <2>1 DEF t
  <2>3. CASE j < i
    <3>1. j \in 1 .. n - 1
      BY <1>1, <2>3
    <3>2. QED
      BY <1>4, <2>1, <2>3, <3>1
  <2>4. CASE j > i
    <3>1. j - 1 \in 1 .. n - 1 /\ ~(j - 1 < i) /\ (j - 1) + 1 = j
      BY <1>1, <2>4
    <3>2. z[j - 1] = s[(j - 1) + 1]
      BY <1>4, <3>1
    <3>3. QED
      BY <2>1, <3>1, <3>2
  <2>5. QED
    BY <1>1, <2>2, <2>3, <2>4
<1>9. ASSUME n - 1 > 0
      PROVE  r.head = z[1] /\ r.tail = z[n - 1]
  <2>1. 1 \in 1 .. n - 1 /\ n - 1 \in 1 .. n - 1 /\ (n - 1) + 1 = n /\ n # 1 /\ 1 + 1 = 2
    BY <1>1, <1>9
  <2>2. r.head = z[1]
    <3>1. CASE i = 1
      <4>1. t = l.head /\ r.head = l.at[t].next
        BY <1>1, <1>3, <3>1 DEF t
      <4>2. l.at[t].next = s[i + 1]
        BY <1>1, <1>2, <2>1, <3>1 DEF t
      <4>3. z[1] = s[2]
        BY <1>4, <2>1, <3>1
      <4>4. QED
        BY <3>1, <4>1, <4>2, <4>3
    <3>2. CASE i # 1
      <4>1. t # l.head /\ 1 < i
        BY <1>1, <1>2, <1>5, <3>2
      <4>2. QED
        BY <1>1, <1>3, <1>4, <2>1, <4>1
    <3>3. QED
      BY <3>1, <3>2
  <2>3. r.tail = z[n - 1]
    <3>1. CASE i = n
      <4>1. t = l.tail /\ i # 1
        BY <1>1, <2>1, <3>1 DEF t
      <4>2. r.tail = s[n - 1]
        BY <1>3, <3>1, <4>1 DEF t
      <4>3. n - 1 < i
        BY <1>1, <3>1
      <4>4. QED
        BY <1>4, <2>1, <4>2, <4>3
    <3>2. CASE i # n
      <4>1. t # l.tail /\ ~(n - 1 < i)
        BY <1>1, <1>2, <1>5, <3>2
      <4>2. QED
        BY <1>1, <1>3, <1>4, <2>1, <4>1
    <3>3. QED
      BY <3>1, <3>2
  <2>4. QED
    BY <2>2, <2>3
<1>10. ASSUME NEW k \in 1 .. n - 1
       PROVE  r.at[z[k]].prev = Null => k = 1
  <2>1. z[k] \in TaskAddrs /\ r.at[z[k]].prev = l.at[z[k]].prev
    BY <1>3, <1>6
  <2>2. CASE k < i
    <3>1. k \in 1 .. n /\ z[k] = s[k]
      BY <1>4, <2>2
    <3>2. QED
      BY <1>1, <2>1, <3>1
  <2>3. CASE ~(k < i)
    <3>1. k + 1 # 1 /\ k + 1 \in 1 .. n /\ z[k] = s[k + 1]
      BY <1>1, <1>4, <2>3
    <3>2. QED
      BY <1>1, <2>1, <3>1
  <2>4. QED
    BY <2>2, <2>3
<1>11. ASSUME NEW k \in 1 .. n - 1
       PROVE  r.at[z[k]].next = IF k = n - 1 THEN Null ELSE z[k + 1]
  <2> DEFINE q == l.at[t].prev
  <2>1. r.at[z[k]].next = IF q # Null /\ z[k] = q THEN l.at[t].next ELSE l.at[z[k]].next
    BY <1>3, <1>6
  <2>2. q = IF i = 1 THEN Null ELSE s[i - 1]
    BY DEF t
  <2>3. i # 1 => i - 1 \in 1 .. n
    BY <1>1
  <2>4. l.at[t].next = IF i = n THEN Null ELSE s[i + 1]
    BY <1>1 DEF t
  <2> HIDE DEF q
  <2>5. CASE k + 1 = i
    <3>1. z[k] = s[k] /\ i # 1 /\ i - 1 = k /\ k \in 1 .. n
      BY <1>1, <1>4, <2>5
    <3>2. z[k] = q /\ q # Null
      BY <1>1, <2>2, <3>1, TasksAssumption
    <3>3. r.at[z[k]].next = IF i = n THEN Null ELSE s[i + 1]
      BY <2>1, <2>4, <3>2
    <3>4. k = n - 1 <=> i = n
      BY <1>1, <2>5
    <3>5. ASSUME k # n - 1 PROVE z[k + 1] = s[i + 1]
      <4>1. i \in 1 .. n - 1 /\ ~(i < i)
        BY <1>1, <2>5, <3>5
      <4>2. z[i] = s[i + 1]
        BY <1>4, <4>1
      <4>3. QED
        BY <2>5, <4>2
    <3>6. QED
      BY <3>3, <3>4, <3>5
  <2>6. CASE k + 1 < i
    <3>1. k < i /\ k \in 1 .. n /\ k # n /\ k # n - 1 /\ i # 1 /\ k # i - 1
      BY <1>1, <2>6
    <3>2. z[k] = s[k] /\ z[k] # q
      BY <1>1, <1>4, <2>2, <2>3, <3>1
    <3>3. r.at[z[k]].next = s[k + 1]
      BY <1>1, <2>1, <3>1, <3>2
    <3>4. k + 1 \in 1 .. n - 1
      BY <1>1, <2>6
    <3>5. z[k + 1] = s[k + 1]
      BY <1>4, <2>6, <3>4
    <3>6. QED
      BY <3>1, <3>3, <3>5
  <2>7. CASE ~(k < i)
    <3>1. z[k] = s[k + 1] /\ k + 1 \in 1 .. n /\ k + 1 # i - 1
      BY <1>1, <1>4, <2>7
    <3>2. q # Null => z[k] # q
      BY <1>1, <2>2, <2>3, <3>1
    <3>3. r.at[z[k]].next = IF k + 1 = n THEN Null ELSE s[(k + 1) + 1]
      BY <1>1, <2>1, <3>1, <3>2
    <3>4. k = n - 1 <=> k + 1 = n
      BY <1>0
    <3>5. ASSUME k # n - 1 PROVE z[k + 1] = s[(k + 1) + 1]
      <4>1. k + 1 \in 1 .. n - 1 /\ ~(k + 1 < i)
        BY <1>1, <2>7, <3>5
      <4>2. QED
        BY <1>4, <4>1
    <3>6. QED
      BY <3>3, <3>4, <3>5
  <2>8. QED
    BY <1>1, <2>5, <2>6, <2>7
<1>12. n - 1 \in Nat
  BY <1>1
<1>12a. ASSUME NEW j \in 1 .. n - 1, NEW k \in 1 .. n - 1, r.at[z[j]].prev = z[k]
        PROVE  j = k + 1 \/ j < k
  <2>1. l.at[z[j]].prev = z[k] /\ j \in Nat /\ k \in Nat
    BY <1>3, <1>6, <1>12a
  <2>2. CASE j < i /\ k < i
    <3>1. l.at[s[j]].prev = s[k] /\ j \in 1 .. n /\ k \in 1 .. n
      BY <1>4, <2>1, <2>2
    <3>2. QED
      BY <1>1, <3>1
  <2>3. CASE j < i /\ ~(k < i)
    BY <1>0, <2>1, <2>3
  <2>4. CASE ~(j < i) /\ k < i
    <3>1. l.at[s[j + 1]].prev = s[k] /\ j + 1 \in 1 .. n /\ k \in 1 .. n
      BY <1>4, <2>1, <2>4
    <3>2. j + 1 = k + 1 \/ j + 1 < k
      BY <1>1, <3>1
    <3>3. QED
      BY <1>0, <2>1, <2>4, <3>2
  <2>5. CASE ~(j < i) /\ ~(k < i)
    <3>1. l.at[s[j + 1]].prev = s[k + 1] /\ j + 1 \in 1 .. n /\ k + 1 \in 1 .. n
      BY <1>4, <2>1, <2>5
    <3>2. j + 1 = (k + 1) + 1 \/ j + 1 < k + 1
      BY <1>1, <3>1
    <3>3. QED
      BY <2>1, <3>2
  <2>6. QED
    BY <2>2, <2>3, <2>4, <2>5
<1>13. OrderOf(r, A \ {t}, n - 1, z)
  BY <1>6, <1>7, <1>8, <1>9, <1>10, <1>11, <1>12, <1>12a DEF OrderOf
<1>14. QED
  BY <1>13 DEF r, t, z

\* The next task of a task in the list is in the list.
LEMMA OrderNext ==
  ASSUME NEW l \in TaskLists, NEW A \in SUBSET TaskAddrs, NEW n, NEW s,
         OrderOf(l, A, n, s), l.current \in A
  PROVE  task_get_next(l) \in A
<1>1. /\ n \in Nat /\ s \in [1 .. n -> A]
      /\ \A i \in 1 .. n : l.at[s[i]].next = IF i = n THEN Null ELSE s[i + 1]
  BY DEF OrderOf
<1>2. PICK i \in 1 .. n : s[i] = l.current
  BY DEF OrderOf
<1>3. n > 0 /\ 1 \in 1 .. n /\ l.head \in A
  BY <1>1, <1>2 DEF OrderOf
<1>4. CASE i = n
  BY <1>1, <1>2, <1>3, <1>4 DEF task_get_next
<1>5. CASE i # n
  <2>1. i + 1 \in 1 .. n
    BY <1>1, <1>5
  <2>2. l.at[l.current].next \in A
    BY <1>1, <1>2, <1>5, <2>1
  <2>3. QED
    BY <1>3, <2>2 DEF task_get_next
<1>6. QED
  BY <1>4, <1>5
------------------------------------------------------------------------------
Ordered(l, A) == \E n \in Nat : \E s \in [1 .. n -> A] : OrderOf(l, A, n, s)

\* The inductive invariant of the list, on top of TasksInv: what a step needs to
\* know of the order, of the current task and of the mode.
ListInv ==
  ~dangled => /\ Ordered(list, allocated)
              /\ mode # "stale"
              /\ allocated # {} => list.current \in allocated

\* An order depends on the links and the two ends only.
LEMMA OrderSame ==
  ASSUME NEW l, NEW r, NEW A, Ordered(l, A),
         r.at = l.at, r.head = l.head, r.tail = l.tail
  PROVE  Ordered(r, A)
<1>0. PICK n \in Nat : \E s \in [1 .. n -> A] : OrderOf(l, A, n, s)
  BY DEF Ordered
<1>1. PICK s \in [1 .. n -> A] : OrderOf(l, A, n, s)
  BY <1>0
<1>2. OrderOf(r, A, n, s)
  BY <1>1 DEF OrderOf
<1>3. QED
  BY <1>2 DEF Ordered

\* task_new keeps a list in order.
LEMMA OrderedNew ==
  ASSUME NEW l \in TaskLists, NEW A \in SUBSET TaskAddrs, Ordered(l, A), A # {},
         NEW a \in TaskAddrs, a \notin A, NEW p
  PROVE  /\ Ordered(task_new(l, a, p), A \cup {a})
         /\ task_new(l, a, p).current = l.current
         /\ task_new(l, a, p).at[a].next = Null
         /\ task_new(l, a, p).at[a].prev # Null
         /\ task_new(l, a, p).at[task_new(l, a, p).at[a].prev].next = a
         /\ task_new(l, a, p).at[a].prev \in A
<1>0. PICK n \in Nat : \E s \in [1 .. n -> A] : OrderOf(l, A, n, s)
  BY DEF Ordered
<1>1. PICK s \in [1 .. n -> A] : OrderOf(l, A, n, s)
  BY <1>0
<1>2. n > 0 /\ n \in 1 .. n /\ 1 \in 1 .. n
  BY <1>1 DEF OrderOf
<1>3. l.head # Null /\ l.tail \in A /\ l.tail # a /\ l.tail # Null
  BY <1>1, <1>2, TasksAssumption DEF OrderOf
<1> DEFINE z == [k \in 1 .. n + 1 |-> IF k = n + 1 THEN a ELSE s[k]]
<1>4. OrderOf(task_new(l, a, p), A \cup {a}, n + 1, z)
  BY <1>1, <1>2, OrderNew
<1> HIDE DEF z
<1>5. Ordered(task_new(l, a, p), A \cup {a})
  BY <1>4 DEF Ordered, OrderOf
<1> DEFINE r == task_new(l, a, p)
<1>6. /\ r.current = l.current
      /\ r.at[a] = [process |-> p, next |-> Null, prev |-> l.tail]
      /\ \A b \in TaskAddrs \ {a} : r.at[b].next = IF b = l.tail THEN a ELSE l.at[b].next
  BY <1>3, NewFields
<1> HIDE DEF r
<1>7. r.at[a].next = Null /\ r.at[a].prev = l.tail
  BY <1>6
<1>8. QED
  BY <1>3, <1>5, <1>6, <1>7 DEF r

\* A prev link that is not stale leads to the task before.
LEMMA PrevInOrder ==
  ASSUME NEW l, NEW A \in SUBSET TaskAddrs, NEW n \in Nat, NEW s \in [1 .. n -> A],
         OrderOf(l, A, n, s), NEW i \in 1 .. n,
         \/ l.at[s[i]].prev = Null
         \/ l.at[s[i]].prev \in A /\ l.at[l.at[s[i]].prev].next = s[i]
  PROVE  IF i = 1 THEN l.at[s[i]].prev = Null ELSE l.at[s[i]].prev = s[i - 1]
<1>1. /\ \A j, k \in 1 .. n : s[j] = s[k] => j = k
      /\ \A b \in A : \E j \in 1 .. n : s[j] = b
      /\ \A j \in 1 .. n : l.at[s[j]].next = IF j = n THEN Null ELSE s[j + 1]
      /\ \A j \in 1 .. n : l.at[s[j]].prev = Null => j = 1
  BY DEF OrderOf
<1> DEFINE t == s[i]
<1>2. CASE l.at[t].prev = Null
  BY <1>1, <1>2
<1>3. CASE l.at[t].prev \in A /\ l.at[l.at[t].prev].next = t
  <2>1. PICK j \in 1 .. n : s[j] = l.at[t].prev
    BY <1>1, <1>3
  <2>2. t # Null
    BY TasksAssumption
  <2>3. j # n /\ s[j + 1] = t
    BY <1>1, <1>3, <2>1, <2>2
  <2>4. j + 1 \in 1 .. n /\ j \in Nat
    BY <2>3
  <2>5. j + 1 = i
    BY <1>1, <2>3, <2>4
  <2>6. i # 1 /\ i - 1 = j
    BY <2>4, <2>5
  <2>7. QED
    BY <2>1, <2>6
<1>4. QED
  BY <1>2, <1>3

\* task_list_remove keeps a list in order and its current task in it, if the task
\* has no prev link to a task that is not the one before it.
LEMMA OrderedRemove ==
  ASSUME NEW l \in TaskLists, NEW A \in SUBSET TaskAddrs, Ordered(l, A),
         NEW t \in A, l.current \in A,
         \/ l.at[t].prev = Null
         \/ l.at[t].prev \in A /\ l.at[l.at[t].prev].next = t
  PROVE  /\ Ordered(task_list_remove(l, t), A \ {t})
         /\ A \ {t} # {} => task_list_remove(l, t).current \in A \ {t}
         /\ l.current # t => task_list_remove(l, t).current = l.current
<1>0. PICK n \in Nat : \E s \in [1 .. n -> A] : OrderOf(l, A, n, s)
  BY DEF Ordered
<1>1. PICK s \in [1 .. n -> A] : OrderOf(l, A, n, s)
  BY <1>0
<1>2. /\ \A j, k \in 1 .. n : s[j] = s[k] => j = k
      /\ \A b \in A : \E j \in 1 .. n : s[j] = b
      /\ \A j \in 1 .. n : l.at[s[j]].next = IF j = n THEN Null ELSE s[j + 1]
      /\ \A j \in 1 .. n : l.at[s[j]].prev = Null => j = 1
      /\ s \in [1 .. n -> A] /\ n \in Nat
  BY <1>1 DEF OrderOf
<1>3. PICK i \in 1 .. n : s[i] = t
  BY <1>2
<1>4. IF i = 1 THEN l.at[s[i]].prev = Null ELSE l.at[s[i]].prev = s[i - 1]
  BY <1>1, <1>3, PrevInOrder, ZenonT(40)
<1> DEFINE z == [k \in 1 .. n - 1 |-> IF k < i THEN s[k] ELSE s[k + 1]]
           r == task_list_remove(l, t)
<1>5. OrderOf(r, A \ {t}, n - 1, z)
  BY <1>1, <1>3, <1>4, OrderRemove, ZenonT(40)
<1>6. Ordered(r, A \ {t})
  <2> HIDE DEF z, r
  <2>1. QED
    BY <1>5 DEF Ordered, OrderOf
<1>7. r.current = IF t # l.current THEN l.current
                  ELSE IF l.at[t].next = Null THEN r.head ELSE l.at[t].next
  BY RemoveFields
<1> HIDE DEF r
<1>8. ASSUME A \ {t} # {}
      PROVE  r.current \in A \ {t}
  <2>1. CASE t # l.current
    BY <1>7, <2>1
  <2>2. CASE t = l.current /\ l.at[t].next = Null
    <3> HIDE DEF z
    <3>1. \A b \in A \ {t} : \E k \in 1 .. n - 1 : z[k] = b
      BY <1>5 DEF OrderOf
    <3>2. n - 1 > 0 /\ 1 \in 1 .. n - 1
      BY <1>8, <3>1
    <3>3. r.head = z[1] /\ z[1] \in A \ {t}
      BY <1>5, <3>2 DEF OrderOf
    <3>4. QED
      BY <1>7, <2>2, <3>3
  <2>3. CASE t = l.current /\ l.at[t].next # Null
    <3>1. i # n /\ l.at[t].next = s[i + 1]
      BY <1>2, <1>3, <2>3
    <3>2. i + 1 \in 1 .. n /\ i + 1 # i
      BY <3>1
    <3>3. s[i + 1] \in A \ {t}
      BY <1>2, <1>3, <3>2
    <3>4. QED
      BY <1>7, <2>3, <3>1, <3>3
  <2>4. QED
    BY <2>1, <2>2, <2>3
<1>9. QED
  BY <1>6, <1>7, <1>8 DEF r

\* From a list in order task_next goes to a task in the list.
LEMMA OrderedNext ==
  ASSUME NEW l \in TaskLists, NEW A \in SUBSET TaskAddrs, Ordered(l, A),
         l.current \in A
  PROVE  LET r == task_next(l, A)
         IN /\ r.mode = "user" /\ r.list.current \in A
            /\ r.list.current = task_get_next(l)
            /\ r.list.at = l.at /\ r.list.head = l.head /\ r.list.tail = l.tail
<1>1. task_get_next(l) \in A
  BY OrderNext DEF Ordered
<1>2. l.current # Null /\ task_get_next(l) # Null
  BY <1>1, TasksAssumption
<1> DEFINE next == task_get_next(l)
<1>3. task_next(l, A) = [mode |-> "user", list |-> [l EXCEPT !.current = next]]
  BY <1>1, <1>2 DEF task_next
<1> HIDE DEF next
<1>4. QED
  BY <1>1, <1>3 DEF TaskLists, next

\* The exit of a process whose prev link is not stale takes its task out of the
\* order.
LEMMA ExitOrder ==
  ASSUME TasksInv, ListInv, Exit
  PROVE  ListInv'
<1> DEFINE p == Running
           t == process[p].task
           removed == task_list_remove(list, t)
           table == [processes EXCEPT ![process[p].id] = NoProcess]
           r == task_next(removed, allocated \ {t})
<1>1. /\ list \in TaskLists /\ allocated \in SUBSET TaskAddrs
      /\ mode = "user"
      /\ list.current \in allocated
      /\ allocated' = allocated \ {t}
      /\ dangled' = (dangled \/ StalePrev(t))
      /\ \/ /\ current_process = p /\ IsEmpty(table)
            /\ mode' = "panic"
            /\ list' = removed
         \/ /\ ~(current_process = p /\ IsEmpty(table))
            /\ mode' = r.mode
            /\ list' = r.list
  BY DEF TasksInv, TypeOK, CurrentAllocated, Exit
<1>2. t = list.current
  BY <1>1 DEF TasksInv, TasksOfTable, Running
<1>3. FocusLoaded' /\ TasksOfTable'
  BY ExitStep DEF TasksInv
<1> HIDE DEF t, removed, table, r
<1> SUFFICES ASSUME ~dangled'
             PROVE  /\ Ordered(list', allocated')
                    /\ mode' # "stale"
                    /\ allocated' # {} => list'.current \in allocated'
  BY DEF ListInv
<1>4. Ordered(list, allocated) /\ ~StalePrev(t)
  BY <1>1 DEF ListInv
<1>5. /\ Ordered(removed, allocated \ {t})
      /\ allocated \ {t} # {} => removed.current \in allocated \ {t}
  <2>1. \/ list.at[t].prev = Null
        \/ list.at[t].prev \in allocated /\ list.at[list.at[t].prev].next = t
    BY <1>4 DEF StalePrev
  <2>2. QED
    BY <1>1, <1>2, <1>4, <2>1, OrderedRemove DEF removed
<1>6. CASE mode' = "panic" /\ list' = removed
  BY <1>1, <1>5, <1>6
<1>7. CASE mode' = r.mode /\ list' = r.list
  <2>1. CASE mode' = "panic"
    <3>1. removed \in TaskLists
      BY <1>1, <1>2, TaskListRemove DEF removed
    <3>2. allocated \ {t} = {}
      <4>1. SUFFICES ASSUME allocated \ {t} # {}
                     PROVE  FALSE
        OBVIOUS
      <4>2. r.mode = "user"
        BY <1>1, <1>5, <3>1, <4>1, OrderedNext DEF r
      <4>3. QED
        BY <1>7, <2>1, <4>2
    <3>3. removed.current = Null \/ removed.current \notin allocated \ {t}
      BY <3>2
    <3>4. r.mode \in {"null", "stale"}
      BY <3>2 DEF r, task_next
    <3>5. QED
      BY <1>7, <2>1, <3>4
  <2>2. CASE mode' # "panic"
    <3>1. removed \in TaskLists
      BY <1>1, <1>2, TaskListRemove DEF removed
    <3>2. allocated' # {}
      BY <1>3, <2>2 DEF FocusLoaded, TasksOfTable, Loaded
    <3>3. /\ r.mode = "user" /\ r.list.current \in allocated \ {t}
          /\ r.list.at = removed.at /\ r.list.head = removed.head
          /\ r.list.tail = removed.tail
      BY <1>1, <1>5, <3>1, <3>2, OrderedNext DEF r
    <3>4. Ordered(r.list, allocated \ {t})
      BY <1>5, <3>3, OrderSame
    <3>5. QED
      BY <1>1, <1>7, <3>3, <3>4
  <2>3. QED
    BY <2>1, <2>2
<1>8. QED
  BY <1>1, <1>6, <1>7

\* The list is in order in the first state.
LEMMA InitOrder ==
  ASSUME Init
  PROVE  ListInv
<1>1. PICK a \in TaskAddrs, b \in TaskAddrs :
        /\ a # b
        /\ list = task_new(task_new(EmptyList, a, 1), b, 2)
        /\ allocated = {a, b}
        /\ mode = "user"
  BY DEF Init
<1>2. EmptyList \in TaskLists /\ 1 \in Objects
  BY TasksAssumption DEF EmptyList, TaskLists, TaskFields, Addresses, Objects
<1> DEFINE one == task_new(EmptyList, a, 1)
<1>3. one \in TaskLists
  BY <1>2, TaskNew
<1>4. /\ one.head = a /\ one.tail = a /\ one.current = a
      /\ one.at[a].next = Null /\ one.at[a].prev = Null
  BY DEF task_new, EmptyList
<1> HIDE DEF one
<1> DEFINE s == [k \in 1 .. 1 |-> a]
<1>5. OrderOf(one, {a}, 1, s)
  BY <1>4, TasksAssumption DEF OrderOf
<1>6. Ordered(one, {a})
  <2>1. s \in [1 .. 1 -> {a}]
    OBVIOUS
  <2> HIDE DEF s
  <2>2. QED
    BY <1>5, <2>1 DEF Ordered
<1>7. /\ Ordered(task_new(one, b, 2), {a} \cup {b})
      /\ task_new(one, b, 2).current = a
  <2> DEFINE first == {a}
  <2>1. first \in SUBSET TaskAddrs /\ first # {} /\ b \notin first
    BY <1>1
  <2>2. Ordered(one, first)
    BY <1>6
  <2> HIDE DEF first
  <2>3. /\ Ordered(task_new(one, b, 2), first \cup {b})
        /\ task_new(one, b, 2).current = one.current
    BY <1>3, <2>1, <2>2, OrderedNew
  <2>4. QED
    BY <1>4, <2>3 DEF first
<1>8. {a} \cup {b} = allocated
  BY <1>1
<1>9. QED
  BY <1>1, <1>7, <1>8 DEF ListInv, one

\* The list stays in order.
THEOREM ListInvariance == Spec => []ListInv
<1>1. Init => ListInv
  BY InitOrder
<1>2. TasksInv /\ ListInv /\ [Next]_vars => ListInv'
  <2> SUFFICES ASSUME TasksInv, ListInv, [Next]_vars
               PROVE  ListInv'
    OBVIOUS
  <2>0. list \in TaskLists /\ allocated \in SUBSET TaskAddrs /\ CurrentAllocated
    BY DEF TasksInv, TypeOK
  <2>1. CASE idt_clock
    <3>1. /\ list' = task_next(list, allocated).list
          /\ mode' = task_next(list, allocated).mode
          /\ mode = "user" /\ allocated' = allocated /\ dangled' = dangled
      BY <2>1 DEF idt_clock
    <3> SUFFICES ASSUME ~dangled
                 PROVE  /\ Ordered(list', allocated)
                        /\ mode' # "stale"
                        /\ list'.current \in allocated
      BY <3>1 DEF ListInv
    <3>2. Ordered(list, allocated) /\ list.current \in allocated
      BY <2>0, <3>1 DEF ListInv, CurrentAllocated
    <3>3. /\ mode' = "user" /\ list'.current \in allocated
          /\ list'.at = list.at /\ list'.head = list.head /\ list'.tail = list.tail
      BY <2>0, <3>1, <3>2, OrderedNext
    <3>4. QED
      BY <3>2, <3>3, OrderSame
  <2>2. ASSUME NEW a \in TaskAddrs, LoadStart(a)
        PROVE  ListInv'
    <3> DEFINE new == task_new(list, a, nproc + 1)
    <3>1. /\ a \notin allocated /\ allocated' = allocated \cup {a}
          /\ dangled' = dangled /\ mode = "user" /\ mode' = mode
          /\ list' = [new EXCEPT !.current = a]
      BY <2>2 DEF LoadStart, process_load_switch
    <3>2. new \in TaskLists
      <4>1. nproc + 1 \in Objects
        BY <2>2, TasksAssumption
           DEF TasksInv, TypeOK, Objects, LoadStart, process_load_switch
      <4>2. QED
        BY <2>0, <4>1, TaskNew
    <3> SUFFICES ASSUME ~dangled
                 PROVE  Ordered(list', allocated') /\ list'.current \in allocated'
      BY <3>1 DEF ListInv
    <3>3. Ordered(list, allocated) /\ allocated # {}
      BY <2>0, <3>1 DEF ListInv, CurrentAllocated
    <3>4. Ordered(new, allocated \cup {a})
      BY <2>0, <3>1, <3>3, OrderedNew
    <3> HIDE DEF new
    <3>5. /\ list'.at = new.at /\ list'.head = new.head /\ list'.tail = new.tail
          /\ list'.current = a
      BY <3>1, <3>2 DEF TaskLists
    <3>6. Ordered(list', allocated \cup {a})
      BY <3>4, <3>5, OrderSame
    <3>7. QED
      BY <3>1, <3>5, <3>6
  <2>3. ASSUME NEW a \in TaskAddrs, LoadWithoutArguments(a)
        PROVE  ListInv'
    <3> DEFINE new == task_new(list, a, nproc + 1)
    <3>1. /\ a \notin allocated /\ allocated' = allocated \cup {a}
          /\ dangled' = dangled /\ mode = "user"
          /\ list' = new /\ mode' = task_page(list', allocated')
      BY <2>3 DEF LoadWithoutArguments, process_load_switch
    <3> SUFFICES ASSUME ~dangled
                 PROVE  /\ Ordered(list', allocated') /\ mode' # "stale"
                        /\ list'.current \in allocated'
      BY <3>1 DEF ListInv
    <3>2. Ordered(list, allocated) /\ list.current \in allocated
      BY <2>0, <3>1 DEF ListInv, CurrentAllocated
    <3>3. Ordered(new, allocated \cup {a}) /\ new.current = list.current
      BY <2>0, <3>1, <3>2, OrderedNew
    <3> HIDE DEF new
    <3>4. QED
      BY <3>1, <3>2, <3>3 DEF task_page
  <2>4. ASSUME NEW a \in TaskAddrs, MapFails(a)
        PROVE  ListInv'
    <3> DEFINE new == task_new(list, a, nproc + 1)
               undone == task_list_remove(new, a)
    <3>1. /\ a \notin allocated /\ allocated' = allocated
          /\ dangled' = dangled /\ mode = "user"
          /\ list' = undone /\ mode' = task_page(list', allocated)
      BY <2>4 DEF MapFails
    <3> SUFFICES ASSUME ~dangled
                 PROVE  /\ Ordered(list', allocated) /\ mode' # "stale"
                        /\ list'.current \in allocated
      BY <3>1 DEF ListInv
    <3>2. new \in TaskLists
      <4>1. nproc + 1 \in Objects
        BY <2>4, TasksAssumption DEF TasksInv, TypeOK, Objects, MapFails
      <4>2. QED
        BY <2>0, <4>1, TaskNew
    <3>3. Ordered(list, allocated) /\ list.current \in allocated
      BY <2>0, <3>1 DEF ListInv, CurrentAllocated
    <3>4. /\ Ordered(new, allocated \cup {a})
          /\ new.current = list.current
          /\ new.at[new.at[a].prev].next = a
          /\ new.at[a].prev \in allocated
      BY <2>0, <3>1, <3>3, OrderedNew
    <3> HIDE DEF new
    <3>5. /\ allocated \cup {a} \in SUBSET TaskAddrs
          /\ new.current \in allocated \cup {a} /\ new.current # a
          /\ new.at[a].prev \in allocated \cup {a}
          /\ (allocated \cup {a}) \ {a} = allocated
      BY <2>0, <3>1, <3>3, <3>4
    <3>6. Ordered(undone, allocated) /\ undone.current = new.current
      BY <3>2, <3>4, <3>5, OrderedRemove, SMTT(30)
    <3> HIDE DEF undone
    <3>7. QED
      BY <3>1, <3>3, <3>4, <3>6 DEF task_page
  <2>5. CASE LoadFails \/ TaskOutOfMemory
    BY <2>5 DEF LoadFails, TaskOutOfMemory, ListInv
  <2>6. CASE Exit
    BY <2>6, ExitOrder
  <2>7. CASE UNCHANGED vars
    BY <2>7 DEF vars, ListInv
  <2>8. QED
    BY <2>1, <2>2, <2>3, <2>4, <2>5, <2>6, <2>7 DEF Next
<1>3. QED
  BY <1>1, <1>2, TasksInvariance, PTL DEF Spec
------------------------------------------------------------------------------
(***************************************************************************)
(* Chain is a recursive function: it exists, because a least length for    *)
(* which it does not is impossible, and it visits the tasks in their order.*)
(***************************************************************************)

\* f is the first n steps of the list l.
Follows(f, l, n) ==
  f = [k \in 1 .. n |-> IF k = 1 THEN l.head
                        ELSE IF f[k - 1] = Null THEN Null ELSE l.at[f[k - 1]].next]

\* Chain, for any list.
ChainOf(l) == CHOOSE f : Follows(f, l, Cardinality(TaskAddrs))

\* The links can be followed any number of times.
LEMMA FollowsExists ==
  ASSUME NEW l, NEW n \in Nat
  PROVE  \E f : Follows(f, l, n)
<1> DEFINE T == {k \in Nat : ~ \E f : Follows(f, l, k)}
           Step(x) == IF x = Null THEN Null ELSE l.at[x].next
<1>0. \A f, k : Follows(f, l, k) <=>
                  f = [j \in 1 .. k |-> IF j = 1 THEN l.head ELSE Step(f[j - 1])]
  BY DEF Follows
<1> HIDE DEF Step
<1>1. T = {}
  <2> SUFFICES ASSUME T # {} PROVE FALSE
    OBVIOUS
  <2>1. PICK k \in T : \A j \in T : k <= j
    BY Least
  <2>2. k \in Nat /\ ~ \E f : Follows(f, l, k)
    OBVIOUS
  <2>3. CASE k = 0
    <3> DEFINE f == [j \in 1 .. 0 |-> Null]
    <3>1. f = [j \in 1 .. 0 |-> IF j = 1 THEN l.head ELSE Step(f[j - 1])]
      OBVIOUS
    <3> HIDE DEF f
    <3>2. QED
      BY <1>0, <2>2, <2>3, <3>1
  <2>4. CASE k # 0
    <3>1. k - 1 \in Nat /\ ~(k <= k - 1)
      BY <2>2, <2>4
    <3>2. PICK g : Follows(g, l, k - 1)
      BY <2>1, <3>1
    <3> DEFINE f == [j \in 1 .. k |-> IF j = k THEN IF k = 1 THEN l.head ELSE Step(g[k - 1])
                                      ELSE g[j]]
    <3>3. \A j \in 1 .. k - 1 : g[j] = IF j = 1 THEN l.head ELSE Step(g[j - 1])
      BY <1>0, <3>2
    <3>4. ASSUME NEW j \in 1 .. k
          PROVE  f[j] = IF j = 1 THEN l.head ELSE Step(f[j - 1])
      <4>1. CASE j = k /\ j # 1
        <5>1. k - 1 \in 1 .. k /\ k - 1 # k
          BY <2>2, <4>1
        <5>2. QED
          BY <4>1, <5>1
      <4>2. CASE j # k /\ j # 1
        <5>1. j \in 1 .. k - 1 /\ j - 1 \in 1 .. k /\ j - 1 # k
          BY <2>2, <4>2
        <5>2. QED
          BY <3>3, <4>2, <5>1
      <4>3. CASE j = 1
        <5>1. j # k => j \in 1 .. k - 1
          BY <2>2, <4>3
        <5>2. QED
          BY <3>3, <4>3, <5>1
      <4>4. QED
        BY <4>1, <4>2, <4>3
    <3>5. f = [j \in 1 .. k |-> f[j]]
      OBVIOUS
    <3> HIDE DEF f
    <3>6. Follows(f, l, k)
      <4>1. f = [j \in 1 .. k |-> IF j = 1 THEN l.head ELSE Step(f[j - 1])]
        BY <3>4, <3>5
      <4>2. QED
        BY <1>0, <4>1
    <3>7. QED
      BY <2>2, <3>6
  <2>5. QED
    BY <2>3, <2>4
<1>2. QED
  BY <1>1

\* ChainOf satisfies the equation it is defined by.
LEMMA ChainSteps ==
  ASSUME NEW l
  PROVE  /\ Cardinality(TaskAddrs) \in Nat
         /\ \A k \in 1 .. Cardinality(TaskAddrs) :
              ChainOf(l)[k] = IF k = 1 THEN l.head
                              ELSE IF ChainOf(l)[k - 1] = Null THEN Null
                                   ELSE l.at[ChainOf(l)[k - 1]].next
<1> DEFINE c == Cardinality(TaskAddrs)
           f == ChainOf(l)
<1>1. c \in Nat
  BY FS_CardinalityType, TasksAssumption
<1>2. Follows(f, l, c)
  BY <1>1, FollowsExists DEF ChainOf
<1> HIDE DEF f
<1>3. QED
  BY <1>1, <1>2 DEF Follows, f

\* There are as many tasks as places in the order, and Chain visits them in it.
LEMMA ChainOrder ==
  ASSUME NEW l, NEW A \in SUBSET TaskAddrs, NEW n \in Nat, NEW s \in [1 .. n -> A],
         OrderOf(l, A, n, s)
  PROVE  /\ Cardinality(A) = n
         /\ n <= Cardinality(TaskAddrs)
         /\ \A k \in 1 .. n : ChainOf(l)[k] = s[k]
<1>1. /\ \A i, j \in 1 .. n : s[i] = s[j] => i = j
      /\ \A a \in A : \E i \in 1 .. n : s[i] = a
      /\ n > 0 => l.head = s[1] /\ l.tail = s[n]
      /\ \A i \in 1 .. n : l.at[s[i]].next = IF i = n THEN Null ELSE s[i + 1]
  BY DEF OrderOf
<1>2. Cardinality(A) = n
  <2>1. s \in Injection(1 .. n, A) /\ s \in Surjection(1 .. n, A)
    BY <1>1, Zenon DEF Injection, Surjection, IsInjective
  <2>2. ExistsBijection(1 .. n, A)
    BY <2>1 DEF ExistsBijection, Bijection
  <2>3. QED
    BY <2>2, FS_CountingElements
<1>3. n <= Cardinality(TaskAddrs)
  BY <1>2, FS_Subset, TasksAssumption
<1> DEFINE T == {k \in 1 .. n : ChainOf(l)[k] # s[k]}
<1>4. T = {}
  <2> SUFFICES ASSUME T # {} PROVE FALSE
    OBVIOUS
  <2>1. PICK k \in T : \A j \in T : k <= j
    <3>1. T \subseteq Nat
      OBVIOUS
    <3>2. QED
      BY <3>1, Least
  <2>2. k \in 1 .. n /\ ChainOf(l)[k] # s[k] /\ k \in 1 .. Cardinality(TaskAddrs)
    BY <1>3, ChainSteps
  <2>3. CASE k = 1
    <3>1. ChainOf(l)[1] = l.head
      BY <2>2, <2>3, ChainSteps
    <3>2. QED
      BY <1>1, <2>2, <2>3, <3>1
  <2>4. CASE k # 1
    <3>1. k - 1 \in 1 .. n /\ ~(k <= k - 1) /\ k - 1 # n /\ (k - 1) + 1 = k
      BY <2>2, <2>4
    <3>2. ChainOf(l)[k - 1] = s[k - 1]
      BY <2>1, <3>1
    <3>3. s[k - 1] # Null
      BY <3>1, TasksAssumption
    <3>4. ChainOf(l)[k] = l.at[s[k - 1]].next
      BY <2>2, <2>4, <3>2, <3>3, ChainSteps
    <3>5. QED
      BY <1>1, <2>2, <3>1, <3>4
  <2>5. QED
    BY <2>3, <2>4
<1>5. QED
  BY <1>2, <1>3, <1>4

\* The list is intact: following next from the head visits every allocated task
\* once, ends at the tail and never meets a freed task, for any sequence of loads,
\* failed loads and exits in which no task exits after its predecessor did.
THEOREM ListStaysIntact == Spec => []ListIntact
<1>1. TasksInv /\ ListInv => ListIntact
  <2> SUFFICES ASSUME TasksInv, ListInv, ~dangled
               PROVE  LET n == Cardinality(allocated)
                      IN /\ {Chain[k] : k \in 1 .. n} = allocated
                         /\ n > 0 => /\ list.at[Chain[n]].next = Null
                                     /\ list.tail = Chain[n]
                                     /\ list.current \in allocated
                         /\ n = 0 => mode = "panic"
                         /\ mode # "stale"
    BY DEF ListIntact
  <2> DEFINE n == Cardinality(allocated)
  <2>1. /\ Ordered(list, allocated) /\ mode # "stale"
        /\ allocated # {} => list.current \in allocated
    BY DEF ListInv
  <2>2. PICK m \in Nat : \E s \in [1 .. m -> allocated] : OrderOf(list, allocated, m, s)
    BY <2>1 DEF Ordered
  <2>3. PICK s \in [1 .. m -> allocated] : OrderOf(list, allocated, m, s)
    BY <2>2
  <2>4. n = m /\ \A k \in 1 .. m : Chain[k] = s[k]
    <3>1. Chain = ChainOf(list)
      BY DEF Chain, ChainOf, Follows
    <3>2. QED
      BY <2>3, <3>1, ChainOrder DEF TasksInv, TypeOK
  <2> HIDE DEF n
  <2>5. /\ \A a \in allocated : \E i \in 1 .. m : s[i] = a
        /\ m > 0 => list.tail = s[m] /\ list.at[s[m]].next = Null
    BY <2>3 DEF OrderOf
  <2>6. {Chain[k] : k \in 1 .. n} = allocated
    BY <2>4, <2>5
  <2>7. n > 0 => /\ list.at[Chain[n]].next = Null
                 /\ list.tail = Chain[n]
                 /\ list.current \in allocated
    <3>1. m > 0 => m \in 1 .. m /\ allocated # {}
      OBVIOUS
    <3>2. QED
      BY <2>1, <2>4, <2>5, <3>1
  <2>8. n = 0 => mode = "panic"
    <3>1. n = 0 => allocated = {}
      BY <2>4, <2>5
    <3>2. QED
      BY <3>1 DEF TasksInv, FocusLoaded, TasksOfTable, Loaded
  <2>9. QED
    BY <2>1, <2>6, <2>7, <2>8 DEF n
<1>2. QED
  BY <1>1, TasksInvariance, ListInvariance, PTL
------------------------------------------------------------------------------
(***************************************************************************)
(* The refinement: the processes take turns as RoundRobin says.            *)
(***************************************************************************)

\* Ready and the orphans, for any list.
ReadyOf(l, A) ==
  [k \in 1 .. Cardinality(A) |->
     IF ChainOf(l)[k] = Null THEN NoProcess ELSE l.at[ChainOf(l)[k]].process]

StaleIn(l, A, b) ==
  LET q == l.at[b].prev
  IN q # Null /\ (q \notin A \/ l.at[q].next # b)

OrphansOf(l, A) == {l.at[a].process : a \in {b \in A : StaleIn(l, A, b)}}

\* Each task has a process of its own.
OwnProcess(l, A) ==
  /\ \A a \in A : l.at[a].process \in Objects
  /\ \A a, b \in A : l.at[a].process = l.at[b].process => a = b

\* Ready lists the processes in the order of their tasks, each in one place.
LEMMA ReadyOrder ==
  ASSUME NEW l, NEW A \in SUBSET TaskAddrs, NEW n \in Nat, NEW s \in [1 .. n -> A],
         OrderOf(l, A, n, s), OwnProcess(l, A)
  PROVE  LET q == ReadyOf(l, A)
         IN /\ q = [k \in 1 .. n |-> l.at[s[k]].process]
            /\ q \in Seq(Objects) /\ Len(q) = n
            /\ \A k \in 1 .. n : q[k] = l.at[s[k]].process /\ Turns!Position(q, q[k]) = k
            /\ Turns!Members(q) = {l.at[a].process : a \in A}
<1> DEFINE q == ReadyOf(l, A)
           e == [k \in 1 .. n |-> l.at[s[k]].process]
<1>1. q = e
  <2>1. Cardinality(A) = n /\ \A k \in 1 .. n : ChainOf(l)[k] = s[k]
    BY ChainOrder
  <2>2. \A k \in 1 .. n : s[k] # Null
    BY TasksAssumption
  <2>3. QED
    BY <2>1, <2>2 DEF ReadyOf
<1>2. e \in [1 .. n -> Objects]
  BY DEF OwnProcess
<1>3. \A k \in 1 .. n : e[k] = l.at[s[k]].process
  OBVIOUS
<1> HIDE DEF q, e
<1>4. e \in Seq(Objects) /\ Len(e) = n /\ DOMAIN e = 1 .. n
  BY <1>2
<1>5. \A j, k \in 1 .. n : e[j] = e[k] => j = k
  BY <1>3 DEF OwnProcess, OrderOf
<1>6. \A k \in 1 .. n : Turns!Position(e, e[k]) = k
  BY <1>4, <1>5 DEF Turns!Position
<1>7. Turns!Members(e) = {l.at[a].process : a \in A}
  <2>1. \A a \in A : \E k \in 1 .. n : s[k] = a
    BY DEF OrderOf
  <2>2. QED
    BY <1>3, <1>4, <2>1 DEF Turns!Members
<1>8. QED
  BY <1>1, <1>3, <1>4, <1>6, <1>7 DEF q, e

\* Where task_get_next leads in the order.
LEMMA NextInOrder ==
  ASSUME NEW l, NEW A \in SUBSET TaskAddrs, NEW n \in Nat, NEW s \in [1 .. n -> A],
         OrderOf(l, A, n, s), NEW i \in 1 .. n, l.current = s[i]
  PROVE  task_get_next(l) = s[IF i = n THEN 1 ELSE i + 1]
<1>1. /\ l.head = s[1]
      /\ l.at[s[i]].next = IF i = n THEN Null ELSE s[i + 1]
  BY DEF OrderOf
<1>2. CASE i = n
  BY <1>1, <1>2 DEF task_get_next
<1>3. CASE i # n
  <2>1. i + 1 \in 1 .. n
    BY <1>3
  <2>2. s[i + 1] # Null
    BY <2>1, TasksAssumption
  <2>3. QED
    BY <1>1, <1>3, <2>2 DEF task_get_next
<1>4. QED
  BY <1>2, <1>3

\* The successor in the queue is the process of the next task.
LEMMA SuccIsNext ==
  ASSUME NEW l, NEW A \in SUBSET TaskAddrs, NEW n \in Nat, NEW s \in [1 .. n -> A],
         OrderOf(l, A, n, s), OwnProcess(l, A), l.current \in A
  PROVE  Turns!Succ(ReadyOf(l, A), l.at[l.current].process)
           = l.at[task_get_next(l)].process
<1> DEFINE q == ReadyOf(l, A)
<1>1. PICK i \in 1 .. n : s[i] = l.current
  BY DEF OrderOf
<1>2. /\ Len(q) = n
      /\ \A k \in 1 .. n : q[k] = l.at[s[k]].process /\ Turns!Position(q, q[k]) = k
  BY ReadyOrder
<1> HIDE DEF q
<1> DEFINE j == IF i = n THEN 1 ELSE i + 1
<1>3. j \in 1 .. n
  OBVIOUS
<1>4. Turns!Succ(q, q[i]) = q[j]
  BY <1>2 DEF Turns!Succ
<1>5. task_get_next(l) = s[j]
  BY <1>1, NextInOrder
<1> HIDE DEF j
<1>6. QED
  BY <1>1, <1>2, <1>3, <1>4, <1>5 DEF q

\* The view of a state that the refinement mapping gives, in terms of the above.
LEMMA View ==
  /\ Ready = ReadyOf(list, allocated)
  /\ {list.at[a].process : a \in {b \in allocated : StalePrev(b)}}
       = OrphansOf(list, allocated)
  /\ Ready' = ReadyOf(list', allocated')
  /\ {list.at[a].process : a \in {b \in allocated : StalePrev(b)}}'
       = OrphansOf(list', allocated')
<1>1. Ready = ReadyOf(list, allocated)
  BY DEF Ready, ReadyOf, Chain, ChainOf, Follows
<1>2. Ready' = ReadyOf(list', allocated')
  BY DEF Ready, ReadyOf, Chain, ChainOf, Follows
<1>3. {list.at[a].process : a \in {b \in allocated : StalePrev(b)}}
        = OrphansOf(list, allocated)
  BY DEF OrphansOf, StaleIn, StalePrev
<1>4. {list.at[a].process : a \in {b \in allocated : StalePrev(b)}}'
        = OrphansOf(list', allocated')
  BY DEF OrphansOf, StaleIn, StalePrev
<1>5. QED
  BY <1>1, <1>2, <1>3, <1>4

\* Different tasks belong to different processes, before and after a step.
LEMMA OwnTasks ==
  ASSUME TasksInv, TasksInv'
  PROVE  OwnProcess(list, allocated) /\ OwnProcess(list', allocated')
<1>1. OwnProcess(list, allocated)
  BY DEF TasksInv, TypeOK, TasksOfTable, Loaded, OwnProcess
<1>2. OwnProcess(list', allocated')
  BY DEF TasksInv, TypeOK, TasksOfTable, Loaded, OwnProcess
<1>3. QED
  BY <1>1, <1>2

\* The queue and the orphans depend on the links and on the head.
LEMMA SameTurns ==
  ASSUME NEW l, NEW r, NEW A, r.at = l.at, r.head = l.head
  PROVE  ReadyOf(r, A) = ReadyOf(l, A) /\ OrphansOf(r, A) = OrphansOf(l, A)
BY DEF ReadyOf, ChainOf, Follows, OrphansOf, StaleIn

\* The clock interrupt is a turn.
LEMMA TickTurn ==
  ASSUME TasksInv, TasksInv', ListInv, idt_clock, ~dangled
  PROVE  Turns!Tick
<1>1. /\ list \in TaskLists /\ allocated \in SUBSET TaskAddrs
      /\ mode = "user" /\ list.current \in allocated /\ Ordered(list, allocated)
      /\ list' = task_next(list, allocated).list
      /\ mode' = task_next(list, allocated).mode
      /\ UNCHANGED <<allocated, current_process, dangled>>
  BY DEF TasksInv, TypeOK, CurrentAllocated, ListInv, idt_clock
<1>2. /\ mode' = "user"
      /\ list'.at = list.at /\ list'.head = list.head
      /\ list'.current = task_get_next(list)
  BY <1>1, OrderedNext
<1>3. Up /\ Up'
  BY <1>1, <1>2 DEF Up
<1>4. Ready' = Ready
  BY <1>1, <1>2, SameTurns, View
<1>5. OrphansOf(list', allocated') = OrphansOf(list, allocated)
  BY <1>1, <1>2, SameTurns
<1>6. Running' = Turns!Succ(Ready, Running)
  <2>1. PICK n \in Nat : \E s \in [1 .. n -> allocated] : OrderOf(list, allocated, n, s)
    BY <1>1 DEF Ordered
  <2>2. Turns!Succ(ReadyOf(list, allocated), list.at[list.current].process)
          = list.at[task_get_next(list)].process
    BY <1>1, <2>1, OwnTasks, SuccIsNext
  <2>3. QED
    BY <1>2, <2>2, View DEF Running
<1>7. QED
  BY <1>1, <1>3, <1>4, <1>5, <1>6, View DEF Turns!Tick

\* A new task is the last in the queue, no orphan, and makes nobody an orphan or
\* the child of an orphan.
LEMMA NewTurn ==
  ASSUME NEW l \in TaskLists, NEW A \in SUBSET TaskAddrs, Ordered(l, A), A # {},
         NEW a \in TaskAddrs, a \notin A, NEW p \in Objects,
         OwnProcess(l, A), OwnProcess(task_new(l, a, p), A \cup {a})
  PROVE  /\ ReadyOf(task_new(l, a, p), A \cup {a}) = Append(ReadyOf(l, A), p)
         /\ OrphansOf(task_new(l, a, p), A \cup {a}) = OrphansOf(l, A)
<1>0. PICK n \in Nat : \E s \in [1 .. n -> A] : OrderOf(l, A, n, s)
  BY DEF Ordered
<1>1. PICK s \in [1 .. n -> A] : OrderOf(l, A, n, s)
  BY <1>0
<1>2. n > 0 /\ n \in 1 .. n /\ 1 \in 1 .. n
  BY <1>1 DEF OrderOf
<1>3. /\ l.head # Null /\ l.tail \in A /\ l.tail # a /\ l.tail # Null
      /\ l.at[l.tail].next = Null
  BY <1>1, <1>2, TasksAssumption DEF OrderOf
<1> DEFINE r == task_new(l, a, p)
           B == A \cup {a}
           z == [k \in 1 .. n + 1 |-> IF k = n + 1 THEN a ELSE s[k]]
<1>4. OrderOf(r, B, n + 1, z)
  BY <1>1, <1>2, OrderNew, ZenonT(40)
<1>5. /\ r.at[a] = [process |-> p, next |-> Null, prev |-> l.tail]
      /\ \A b \in TaskAddrs \ {a} :
           /\ r.at[b].next = IF b = l.tail THEN a ELSE l.at[b].next
           /\ r.at[b].prev = l.at[b].prev
           /\ r.at[b].process = l.at[b].process
  BY <1>3, NewFields
<1>6. z \in [1 .. n + 1 -> B] /\ n + 1 \in Nat /\ B \in SUBSET TaskAddrs
  BY <1>4 DEF OrderOf
<1>7. \A k \in 1 .. n : z[k] = s[k] /\ s[k] \in TaskAddrs \ {a} /\ k \in 1 .. n + 1
  OBVIOUS
<1>8. z[n + 1] = a /\ n + 1 \in 1 .. n + 1
  OBVIOUS
<1>9. OwnProcess(r, B)
  OBVIOUS
<1> HIDE DEF r, B, z
<1>10. /\ ReadyOf(r, B) \in Seq(Objects) /\ Len(ReadyOf(r, B)) = n + 1
       /\ \A k \in 1 .. n + 1 : ReadyOf(r, B)[k] = r.at[z[k]].process
  BY <1>4, <1>6, <1>9, ReadyOrder
<1>11. /\ ReadyOf(l, A) \in Seq(Objects) /\ Len(ReadyOf(l, A)) = n
       /\ \A k \in 1 .. n : ReadyOf(l, A)[k] = l.at[s[k]].process
  BY <1>1, ReadyOrder
<1>12. ReadyOf(r, B) = Append(ReadyOf(l, A), p)
  <2> DEFINE q == ReadyOf(r, B)
             o == ReadyOf(l, A)
  <2>1. ASSUME NEW k \in 1 .. n PROVE q[k] = o[k]
    <3>1. z[k] = s[k] /\ s[k] \in TaskAddrs \ {a} /\ k \in 1 .. n + 1
      BY <1>7
    <3>2. q[k] = r.at[s[k]].process
      BY <1>10, <3>1
    <3>3. r.at[s[k]].process = l.at[s[k]].process
      BY <1>5, <3>1
    <3>4. QED
      BY <1>11, <3>2, <3>3
  <2>2. q[n + 1] = p
    BY <1>5, <1>8, <1>10
  <2>3. q \in Seq(Objects) /\ Len(q) = n + 1 /\ o \in Seq(Objects) /\ Len(o) = n
    BY <1>10, <1>11
  <2> HIDE DEF q, o
  <2>4. q = Append(o, p)
    BY <2>1, <2>2, <2>3
  <2>5. QED
    BY <2>4 DEF q, o
<1>13. \A b \in A : StaleIn(r, B, b) <=> StaleIn(l, A, b)
  <2> SUFFICES ASSUME NEW b \in A
               PROVE  StaleIn(r, B, b) <=> StaleIn(l, A, b)
    OBVIOUS
  <2> DEFINE q == l.at[b].prev
  <2>1. r.at[b].prev = q /\ b # a /\ b # Null /\ q \in Addresses
    BY <1>5, TasksAssumption DEF TaskLists, TaskFields
  <2> HIDE DEF q
  <2>2. CASE q = a
    <3>1. r.at[q].next = Null
      BY <1>5, <2>2
    <3>2. QED
      BY <2>1, <2>2, <3>1, TasksAssumption DEF StaleIn, B, q
  <2>3. CASE q # a /\ q # Null
    <3>1. r.at[q].next = IF q = l.tail THEN a ELSE l.at[q].next
      BY <1>5, <2>1, <2>3 DEF Addresses
    <3>2. r.at[q].next = b <=> l.at[q].next = b
      BY <1>3, <2>1, <3>1
    <3>3. QED
      BY <2>1, <2>3, <3>2 DEF StaleIn, B, q
  <2>4. CASE q = Null
    BY <2>1, <2>4 DEF StaleIn, q
  <2>5. QED
    BY <2>2, <2>3, <2>4
<1>14. ~StaleIn(r, B, a)
  <2>1. r.at[a].prev = l.tail /\ r.at[l.tail].next = a
    BY <1>3, <1>5
  <2>2. QED
    BY <1>3, <2>1 DEF StaleIn, B
<1>15. OrphansOf(r, B) = OrphansOf(l, A)
  <2>1. {b \in B : StaleIn(r, B, b)} = {b \in A : StaleIn(l, A, b)}
    BY <1>13, <1>14 DEF B
  <2>2. \A b \in A : r.at[b].process = l.at[b].process
    BY <1>5
  <2>3. QED
    BY <2>1, <2>2 DEF OrphansOf
<1>16. QED
  BY <1>12, <1>15 DEF r, B

\* A load puts the new process at the end of the queue and gives it the keyboard.
LEMMA LoadTurn ==
  ASSUME TasksInv, TasksInv', ListInv, ~dangled, NEW a \in TaskAddrs,
         LoadStart(a) \/ LoadWithoutArguments(a)
  PROVE  \E p \in Objects : Turns!Start(p)
<1> DEFINE p == nproc + 1
           new == task_new(list, a, p)
<1>1. /\ list \in TaskLists /\ allocated \in SUBSET TaskAddrs
      /\ mode = "user" /\ list.current \in allocated /\ Ordered(list, allocated)
      /\ a \notin allocated /\ allocated' = allocated \cup {a}
      /\ current_process' = p /\ dangled' = dangled
  BY DEF TasksInv, TypeOK, CurrentAllocated, ListInv, LoadStart, LoadWithoutArguments,
         process_load_switch
<1>2. p \in Objects
  BY TasksAssumption
     DEF TasksInv, TypeOK, Objects, LoadStart, LoadWithoutArguments, process_load_switch
<1>3. new \in TaskLists /\ new.at[a].process = p
      /\ \A b \in TaskAddrs : b # a => new.at[b].process = list.at[b].process
  BY <1>1, <1>2, TaskNew
<1>4. new.current = list.current
  BY <1>1, OrderedNew
<1>5. /\ list'.at = new.at /\ list'.head = new.head
      /\ list'.current \in {a, list.current}
      /\ mode' = "user"
  <2>1. CASE LoadStart(a)
    <3>1. list' = [new EXCEPT !.current = a] /\ mode' = "user"
      BY <1>1, <2>1 DEF LoadStart
    <3> HIDE DEF new
    <3>2. QED
      BY <1>3, <3>1 DEF TaskLists
  <2>2. CASE LoadWithoutArguments(a)
    <3>1. list' = new /\ mode' = task_page(list', allocated')
      BY <2>2 DEF LoadWithoutArguments
    <3> HIDE DEF new
    <3>2. QED
      BY <1>1, <1>4, <3>1 DEF task_page
  <2>3. QED
    BY <2>1, <2>2
<1>6. Up /\ Up'
  BY <1>1, <1>5 DEF Up
<1>7. OwnProcess(list, allocated) /\ OwnProcess(new, allocated \cup {a})
  <2> HIDE DEF new
  <2>1. QED
    BY <1>1, <1>5, OwnTasks DEF OwnProcess
<1>8. /\ ReadyOf(new, allocated \cup {a}) = Append(ReadyOf(list, allocated), p)
      /\ OrphansOf(new, allocated \cup {a}) = OrphansOf(list, allocated)
  <2>1. allocated # {}
    BY <1>1
  <2> HIDE DEF p
  <2>2. QED
    BY <1>1, <1>2, <1>7, <2>1, NewTurn
<1> HIDE DEF new
<1>9. /\ ReadyOf(list', allocated') = ReadyOf(new, allocated \cup {a})
      /\ OrphansOf(list', allocated') = OrphansOf(new, allocated \cup {a})
  BY <1>1, <1>5, SameTurns
<1>10. Ready' = Append(Ready, p)
  BY <1>8, <1>9, View
<1>11. Running' \in {p, Running}
  BY <1>1, <1>3, <1>5 DEF Running
<1>12. p \notin Turns!Members(Ready)
  <2>0. PICK n \in Nat : \E s \in [1 .. n -> allocated] : OrderOf(list, allocated, n, s)
    BY <1>1 DEF Ordered
  <2>1. Turns!Members(ReadyOf(list, allocated)) = {list.at[b].process : b \in allocated}
    BY <1>1, <1>7, <2>0, ReadyOrder
  <2>2. ASSUME NEW b \in allocated
        PROVE  list.at[b].process <= nproc /\ list.at[b].process \in Nat
    <3>1. list.at[b].process \in Loaded
      BY DEF TasksInv, TasksOfTable
    <3>2. PICK c \in Slots : processes[c] = list.at[b].process /\ processes[c] # NoProcess
      BY <3>1 DEF Loaded
    <3>3. processes[c] <= nproc /\ processes[c] \in Objects
      BY <3>2 DEF TasksInv, TasksOfTable, TypeOK
    <3>4. QED
      BY <3>2, <3>3, TasksAssumption DEF Objects
  <2>3. nproc \in Nat
    BY TasksAssumption DEF TasksInv, TypeOK
  <2>4. p \notin {list.at[b].process : b \in allocated}
    BY <2>2, <2>3
  <2>5. QED
    BY <2>1, <2>4, View
<1> HIDE DEF p
<1>13. Turns!Start(p)
  BY <1>1, <1>6, <1>8, <1>9, <1>10, <1>11, <1>12, View DEF Turns!Start
<1>14. QED
  BY <1>2, <1>13

\* A load that is undone leaves no trace in the queue.
LEMMA UndoneTurn ==
  ASSUME TasksInv, ListInv, ~dangled, NEW a \in TaskAddrs, MapFails(a)
  PROVE  /\ Ready' = Ready
         /\ OrphansOf(list', allocated') = OrphansOf(list, allocated)
         /\ Running' = Running
         /\ mode' = "user"
<1> DEFINE p == nproc + 1
           new == task_new(list, a, p)
           undone == task_list_remove(new, a)
<1>1. /\ list \in TaskLists /\ allocated \in SUBSET TaskAddrs
      /\ list.current \in allocated /\ Ordered(list, allocated)
      /\ a \notin allocated /\ allocated' = allocated
      /\ list' = undone /\ mode' = task_page(list', allocated)
  BY DEF TasksInv, TypeOK, CurrentAllocated, ListInv, MapFails
<1>2. p \in Objects
  BY TasksAssumption DEF TasksInv, TypeOK, Objects, MapFails
<1>3. new \in TaskLists
  BY <1>1, <1>2, TaskNew
<1>4. PICK n \in Nat : \E s \in [1 .. n -> allocated] : OrderOf(list, allocated, n, s)
  BY <1>1 DEF Ordered
<1>5. PICK s \in [1 .. n -> allocated] : OrderOf(list, allocated, n, s)
  BY <1>4
<1>6. /\ n > 0 /\ n \in 1 .. n /\ 1 \in 1 .. n
      /\ list.head \in allocated /\ list.tail \in allocated
      /\ list.at[list.tail].next = Null
  BY <1>1, <1>5 DEF OrderOf
<1>7. list.head # Null /\ list.tail # a /\ list.tail # Null /\ list.head # a
  BY <1>1, <1>6, TasksAssumption
<1>8. /\ new.head = list.head /\ new.tail = a /\ new.current = list.current
      /\ new.at[a] = [process |-> p, next |-> Null, prev |-> list.tail]
      /\ \A b \in TaskAddrs \ {a} :
           /\ new.at[b].next = IF b = list.tail THEN a ELSE list.at[b].next
           /\ new.at[b].prev = list.at[b].prev
           /\ new.at[b].process = list.at[b].process
  BY <1>1, <1>6, <1>7, NewFields
<1> HIDE DEF p, new
<1>9. new.at[a].next = Null /\ new.at[a].prev = list.tail
  BY <1>8
<1>10. /\ undone.head = IF a = new.head THEN Null ELSE new.head
       /\ undone.current = IF a # new.current THEN new.current ELSE undone.current
       /\ \A b \in TaskAddrs :
            /\ undone.at[b].next = IF list.tail # Null /\ b = list.tail
                                     THEN Null ELSE new.at[b].next
            /\ undone.at[b].prev = new.at[b].prev
            /\ undone.at[b].process = new.at[b].process
  BY <1>3, <1>9, RemoveFields
<1> HIDE DEF undone
<1>11. /\ undone.head = list.head /\ undone.current = list.current
       /\ \A b \in allocated :
            /\ undone.at[b].next = list.at[b].next
            /\ undone.at[b].prev = list.at[b].prev
            /\ undone.at[b].process = list.at[b].process
  <2>1. \A b \in allocated : b \in TaskAddrs \ {a}
    BY <1>1
  <2>2. QED
    BY <1>1, <1>6, <1>7, <1>8, <1>10, <2>1
<1>12. OrderOf(undone, allocated, n, s)
  <2>1. undone.tail = list.tail
    <3>1. undone.tail = IF a = new.tail THEN new.at[a].prev ELSE new.tail
      BY <1>3, RemoveFields DEF undone
    <3>2. QED
      BY <1>8, <1>9, <3>1
  <2>2. \A i \in 1 .. n : /\ undone.at[s[i]].next = list.at[s[i]].next
                         /\ undone.at[s[i]].prev = list.at[s[i]].prev
    BY <1>11
  <2>3. undone.head = list.head
    BY <1>11
  <2>4. \A i \in 1 .. n : undone.at[s[i]].next = IF i = n THEN Null ELSE s[i + 1]
    BY <1>5, <2>2 DEF OrderOf
  <2>5. \A i \in 1 .. n : undone.at[s[i]].prev = Null => i = 1
    BY <1>5, <2>2 DEF OrderOf
  <2>6. ASSUME NEW i \in 1 .. n, NEW j \in 1 .. n, undone.at[s[i]].prev = s[j]
        PROVE  i = j + 1 \/ i < j
    <3>1. list.at[s[i]].prev = s[j]
      BY <2>2, <2>6
    <3>2. QED
      BY <1>5, <3>1 DEF OrderOf
  <2>7. /\ \A i, j \in 1 .. n : s[i] = s[j] => i = j
        /\ \A b \in allocated : \E i \in 1 .. n : s[i] = b
        /\ undone.head = s[1] /\ undone.tail = s[n]
    BY <1>5, <1>6, <2>1, <2>3 DEF OrderOf
  <2>8. QED
    BY <2>4, <2>5, <2>6, <2>7 DEF OrderOf
<1>13. OwnProcess(list, allocated) /\ OwnProcess(undone, allocated)
  <2>1. OwnProcess(list, allocated)
    BY DEF TasksInv, TypeOK, TasksOfTable, Loaded, OwnProcess
  <2>2. QED
    BY <1>11, <2>1 DEF OwnProcess
<1>14. ReadyOf(undone, allocated) = ReadyOf(list, allocated)
  <2>1. ReadyOf(list, allocated) = [k \in 1 .. n |-> list.at[s[k]].process]
    BY <1>1, <1>5, <1>13, ReadyOrder
  <2>2. ReadyOf(undone, allocated) = [k \in 1 .. n |-> undone.at[s[k]].process]
    BY <1>1, <1>12, <1>13, ReadyOrder
  <2>3. \A k \in 1 .. n : undone.at[s[k]].process = list.at[s[k]].process
    BY <1>11
  <2>4. QED
    BY <2>1, <2>2, <2>3
<1>15. OrphansOf(undone, allocated) = OrphansOf(list, allocated)
  <2>1. ASSUME NEW b \in allocated
        PROVE  StaleIn(undone, allocated, b) <=> StaleIn(list, allocated, b)
    BY <1>11 DEF StaleIn
  <2>2. QED
    BY <1>11, <2>1 DEF OrphansOf
<1>16. QED
  BY <1>1, <1>11, <1>14, <1>15, View DEF Running, task_page

\* Taking a task out of the list takes its process out of the queue; the process
\* after it becomes an orphan, and the others stay what they are.
LEMMA RemoveTurn ==
  ASSUME NEW l \in TaskLists, NEW A \in SUBSET TaskAddrs,
         NEW n \in Nat, NEW s \in [1 .. n -> A], OrderOf(l, A, n, s),
         OwnProcess(l, A), n > 1, NEW i \in 1 .. n, l.current = s[i],
         ~StaleIn(l, A, s[i])
  PROVE  LET r == task_list_remove(l, s[i])
             B == A \ {s[i]}
         IN /\ ReadyOf(r, B) = Turns!Without(ReadyOf(l, A), l.at[s[i]].process)
            /\ OrphansOf(r, B) = OrphansOf(l, A) \cup
                 (IF i = n THEN {} ELSE {l.at[s[i + 1]].process})
            /\ r.current = task_get_next(l)
            /\ OwnProcess(r, B)
<1> DEFINE t == s[i]
           r == task_list_remove(l, t)
           B == A \ {t}
           z == [k \in 1 .. n - 1 |-> IF k < i THEN s[k] ELSE s[k + 1]]
<1>1. /\ \A j, k \in 1 .. n : s[j] = s[k] => j = k
      /\ \A b \in A : \E j \in 1 .. n : s[j] = b
      /\ \A j \in 1 .. n : l.at[s[j]].next = IF j = n THEN Null ELSE s[j + 1]
      /\ \A j \in 1 .. n : l.at[s[j]].prev = Null => j = 1
      /\ \A j, k \in 1 .. n : l.at[s[j]].prev = s[k] => j = k + 1 \/ j < k
  BY DEF OrderOf
<1>1a. l.head = s[1]
  BY DEF OrderOf
<1>2. IF i = 1 THEN l.at[t].prev = Null ELSE l.at[t].prev = s[i - 1]
  BY PrevInOrder, ZenonT(40) DEF StaleIn
<1>3. OrderOf(r, B, n - 1, z)
  BY <1>2, OrderRemove, ZenonT(40)
<1>4. t \in A /\ t \in TaskAddrs /\ \A b \in A : b \in TaskAddrs /\ b # Null
  BY TasksAssumption
<1> DEFINE q == l.at[t].prev
<1>5. /\ r.head = IF t = l.head THEN l.at[t].next ELSE l.head
      /\ r.current = IF l.at[t].next = Null THEN r.head ELSE l.at[t].next
      /\ \A b \in TaskAddrs :
           /\ r.at[b].next = IF q # Null /\ b = q THEN l.at[t].next ELSE l.at[b].next
           /\ r.at[b].prev = l.at[b].prev
           /\ r.at[b].process = l.at[b].process
  BY <1>4, RemoveFields
<1>6. \A k \in 1 .. n - 1 : z[k] = s[IF k < i THEN k ELSE k + 1]
  OBVIOUS
<1>7. z \in [1 .. n - 1 -> B] /\ n - 1 \in Nat /\ B \in SUBSET TaskAddrs
  BY <1>3 DEF OrderOf
<1> HIDE DEF r, z, t, q
<1>8. OwnProcess(r, B)
  BY <1>4, <1>5 DEF OwnProcess
<1>9. ReadyOf(r, B) = [k \in 1 .. n - 1 |-> r.at[z[k]].process]
  <2> HIDE DEF B
  <2>1. QED
    BY <1>3, <1>7, <1>8, ReadyOrder
<1>10. /\ Len(ReadyOf(l, A)) = n
       /\ \A k \in 1 .. n : /\ ReadyOf(l, A)[k] = l.at[s[k]].process
                            /\ Turns!Position(ReadyOf(l, A), ReadyOf(l, A)[k]) = k
  BY ReadyOrder
<1>11. ReadyOf(r, B) = Turns!Without(ReadyOf(l, A), l.at[t].process)
  <2> DEFINE o == ReadyOf(l, A)
  <2>1. Turns!Position(o, l.at[t].process) = i
    BY <1>10 DEF t
  <2>2. Len(o) = n
    BY <1>10
  <2>3. ASSUME NEW k \in 1 .. n - 1
        PROVE  r.at[z[k]].process = o[IF k < i THEN k ELSE k + 1]
    <3> DEFINE j == IF k < i THEN k ELSE k + 1
    <3>1. j \in 1 .. n /\ z[k] = s[j]
      BY <1>6
    <3> HIDE DEF j
    <3>2. r.at[z[k]].process = o[j]
      BY <1>4, <1>5, <1>10, <3>1
    <3>3. QED
      BY <3>2 DEF j
  <2> HIDE DEF o
  <2>4. Turns!Without(o, l.at[t].process)
          = [k \in 1 .. n - 1 |-> o[IF k < i THEN k ELSE k + 1]]
    BY <2>1, <2>2 DEF Turns!Without
  <2>5. QED
    BY <1>9, <2>3, <2>4 DEF o
<1>12. ASSUME NEW m \in 1 .. n, m # i
       PROVE  StaleIn(r, B, s[m]) <=> StaleIn(l, A, s[m]) \/ m = i + 1
  <2> DEFINE b == s[m]
             p == l.at[b].prev
  <2>1. b \in A /\ b # t /\ b # Null /\ r.at[b].prev = p
    BY <1>1, <1>4, <1>5, <1>12 DEF t
  <2>2. p \in Addresses
    BY <1>4 DEF TaskLists, TaskFields
  <2> HIDE DEF b, p
  <2>3. CASE p = Null
    <3>1. m = 1
      BY <1>1, <2>3 DEF b, p
    <3>2. QED
      BY <2>1, <2>3, <3>1 DEF StaleIn, b, p
  <2>4. CASE p # Null /\ p \notin A
    BY <2>1, <2>4 DEF StaleIn, b, p
  <2>5. CASE p \in A
    <3>1. PICK j \in 1 .. n : s[j] = p
      BY <1>1, <2>5
    <3>2. m = j + 1 \/ m < j
      BY <1>1, <3>1 DEF b, p
    <3>3. p # Null /\ l.at[p].next = IF j = n THEN Null ELSE s[j + 1]
      BY <1>1, <1>4, <2>5, <3>1
    <3>4. StaleIn(l, A, b) <=> m # j + 1
      <4>1. CASE j = n
        BY <2>1, <2>5, <3>2, <3>3, <4>1 DEF StaleIn, p
      <4>2. CASE j # n
        <5>1. j + 1 \in 1 .. n
          BY <4>2
        <5>2. s[j + 1] = b <=> m = j + 1
          BY <1>1, <5>1 DEF b
        <5>3. QED
          BY <2>5, <3>3, <4>2, <5>2 DEF StaleIn, p
      <4>3. QED
        BY <4>1, <4>2
    <3>5. CASE j = i
      <4>1. p = t /\ p \notin B
        BY <3>1, <3>5 DEF t
      <4>2. StaleIn(r, B, b)
        BY <2>1, <3>3, <4>1 DEF StaleIn
      <4>3. QED
        BY <3>4, <3>5, <4>2 DEF b
    <3>6. CASE j # i
      <4>1. p \in B
        BY <1>1, <2>5, <3>1, <3>6 DEF t
      <4>2. p = q <=> i # 1 /\ j = i - 1
        <5>1. i # 1 => i - 1 \in 1 .. n
          OBVIOUS
        <5>2. QED
          BY <1>1, <1>2, <3>1, <3>3, <5>1 DEF q
      <4>3. r.at[p].next = b <=> m = j + 1
        <5>1. CASE p # q
          <6>1. r.at[p].next = l.at[p].next
            BY <1>4, <1>5, <2>5, <5>1
          <6>2. QED
            BY <2>5, <3>3, <3>4, <6>1 DEF StaleIn, p
        <5>2. CASE p = q
          <6>1. j = i - 1 /\ j + 1 = i /\ m # j + 1
            BY <1>12, <4>2, <5>2
          <6>2. m < j
            BY <3>2, <6>1
          <6>3. r.at[p].next = IF i = n THEN Null ELSE s[i + 1]
            BY <1>1, <1>4, <1>5, <2>5, <3>3, <5>2 DEF t
          <6>4. i # n => i + 1 \in 1 .. n /\ i + 1 # m
            BY <6>1, <6>2
          <6>5. r.at[p].next # b
            BY <1>1, <2>1, <6>3, <6>4 DEF b
          <6>6. QED
            BY <6>1, <6>5
        <5>3. QED
          BY <5>1, <5>2
      <4>4. StaleIn(r, B, b) <=> m # j + 1
        BY <2>1, <3>3, <4>1, <4>3 DEF StaleIn
      <4>5. m = i + 1 => m # j + 1
        BY <3>6
      <4>6. QED
        BY <3>4, <4>4, <4>5 DEF b
    <3>7. QED
      BY <3>5, <3>6
  <2>6. QED
    BY <2>2, <2>3, <2>4, <2>5 DEF Addresses
<1>13. OrphansOf(r, B) = OrphansOf(l, A) \cup
         (IF i = n THEN {} ELSE {l.at[s[i + 1]].process})
  <2> DEFINE new == IF i = n THEN {} ELSE {s[i + 1]}
  <2>1. \A b \in A : b \in new <=> \E m \in 1 .. n : s[m] = b /\ m = i + 1
    BY <1>1
  <2>2. new \subseteq A
    OBVIOUS
  <2>3. ASSUME NEW b \in A
        PROVE  b \in B /\ StaleIn(r, B, b) <=> StaleIn(l, A, b) \/ b \in new
    <3>1. PICK m \in 1 .. n : s[m] = b
      BY <1>1
    <3>2. CASE m = i
      <4>1. b \notin B /\ ~StaleIn(l, A, b)
        BY <3>1, <3>2 DEF t
      <4>2. b \notin new
        BY <1>1, <2>1, <3>1, <3>2
      <4>3. QED
        BY <4>1, <4>2
    <3>3. CASE m # i
      <4>1. b \in B
        BY <1>1, <3>1, <3>3 DEF t
      <4>2. b \in new <=> m = i + 1
        BY <1>1, <2>1, <3>1
      <4>3. QED
        BY <1>12, <3>1, <3>3, <4>1, <4>2
    <3>4. QED
      BY <3>2, <3>3
  <2> HIDE DEF new
  <2>4. {b \in B : StaleIn(r, B, b)} = {b \in A : StaleIn(l, A, b)} \cup new
    BY <2>2, <2>3
  <2>5. OrphansOf(r, B) = {l.at[b].process : b \in {c \in B : StaleIn(r, B, c)}}
    <3>1. \A b \in {c \in B : StaleIn(r, B, c)} : r.at[b].process = l.at[b].process
      BY <1>4, <1>5
    <3>2. QED
      BY <3>1 DEF OrphansOf
  <2>6. OrphansOf(r, B) = OrphansOf(l, A) \cup {l.at[b].process : b \in new}
    BY <2>4, <2>5 DEF OrphansOf
  <2>7. {l.at[b].process : b \in new} = IF i = n THEN {} ELSE {l.at[s[i + 1]].process}
    BY DEF new
  <2>8. QED
    BY <2>6, <2>7
<1>14. r.current = task_get_next(l)
  <2>1. task_get_next(l) = IF l.at[t].next = Null THEN l.head ELSE l.at[t].next
    BY DEF task_get_next, t
  <2>2. l.at[t].next = Null => r.head = l.head
    <3>1. ASSUME l.at[t].next = Null PROVE i = n
      <4>1. i # n => i + 1 \in 1 .. n
        OBVIOUS
      <4>2. QED
        BY <1>1, <1>4, <3>1, <4>1 DEF t
    <3>2. i = n => t # l.head
      <4>1. 1 \in 1 .. n /\ n # 1
        OBVIOUS
      <4>2. QED
        BY <1>1, <1>1a, <4>1 DEF t
    <3>3. QED
      BY <1>5, <3>1, <3>2
  <2>3. QED
    BY <1>5, <2>1, <2>2
<1>15. QED
  BY <1>8, <1>11, <1>13, <1>14 DEF r, t

\* The mapped state once the promise has ended.
LEMMA Ended ==
  /\ ~Up' => /\ (IF Up THEN Ready ELSE <<>>)' = <<>>
             /\ (IF Up THEN Running ELSE NoProcess)' = 0
             /\ (IF Up THEN current_process ELSE NoProcess)' = 0
             /\ (IF Up THEN {list.at[a].process : a \in {b \in allocated : StalePrev(b)}}
                       ELSE {})' = {}
BY DEF NoProcess

\* An exit takes the process out of the queue; it ends the promise when it was the
\* last process or an orphan.
LEMMA ExitTurn ==
  ASSUME TasksInv, TasksInv', ListInv, ListInv', ~dangled, Exit
  PROVE  Turns!Exit \/ Turns!LastExit \/ Turns!OrphanExit
<1> DEFINE p == Running
           t == process[p].task
           removed == task_list_remove(list, t)
           table == [processes EXCEPT ![process[p].id] = NoProcess]
           r == task_next(removed, allocated \ {t})
<1>1. /\ list \in TaskLists /\ allocated \in SUBSET TaskAddrs
      /\ mode = "user" /\ list.current \in allocated /\ Ordered(list, allocated)
      /\ allocated' = allocated \ {t}
      /\ processes' = table
      /\ dangled' = (dangled \/ StalePrev(t))
      /\ IF current_process = p /\ IsEmpty(table)
           THEN /\ mode' = "panic"
                /\ list' = removed
                /\ UNCHANGED current_process
           ELSE /\ mode' = r.mode
                /\ list' = r.list
                /\ current_process' = IF current_process = p
                                        THEN process_switch_to_any(table)
                                        ELSE current_process
  BY DEF TasksInv, TypeOK, CurrentAllocated, ListInv, Exit
<1>2. t = list.current /\ p = list.at[t].process
  BY <1>1 DEF TasksInv, TasksOfTable, Running
<1>3. PICK n \in Nat : \E s \in [1 .. n -> allocated] : OrderOf(list, allocated, n, s)
  BY <1>1 DEF Ordered
<1>4. PICK s \in [1 .. n -> allocated] : OrderOf(list, allocated, n, s)
  BY <1>3
<1>5. PICK i \in 1 .. n : s[i] = t
  BY <1>1, <1>2, <1>4 DEF OrderOf
<1>6. /\ OwnProcess(list, allocated) /\ OwnProcess(list', allocated')
      /\ Ready = ReadyOf(list, allocated)
      /\ Running = p
  BY OwnTasks, View
<1>7. Up
  BY <1>1 DEF Up
<1>8. p \in OrphansOf(list, allocated) <=> StalePrev(t)
  <2>1. p \in OrphansOf(list, allocated) <=>
          \E b \in allocated : StaleIn(list, allocated, b) /\ list.at[b].process = p
    BY DEF OrphansOf
  <2>2. \A b \in allocated : list.at[b].process = p => b = t
    BY <1>1, <1>2, <1>6 DEF OwnProcess
  <2>3. StaleIn(list, allocated, t) <=> StalePrev(t)
    BY DEF StaleIn, StalePrev
  <2>4. QED
    BY <1>1, <1>2, <2>1, <2>2, <2>3
<1> HIDE DEF p, t, removed, table, r
<1>9. CASE StalePrev(t)
  <2>1. ~Up' /\ (IF Up THEN "up" ELSE IF mode = "panic" /\ ~dangled THEN "panic" ELSE "broken")'
                  = "broken"
    BY <1>1, <1>9 DEF Up
  <2>2. Turns!Ends("broken")
    BY <2>1, Ended DEF Turns!Ends
  <2>3. QED
    BY <1>6, <1>7, <1>8, <1>9, <2>2, View DEF Turns!OrphanExit
<1>10. CASE ~StalePrev(t) /\ n = 1
  <2>1. Ready = <<p>>
    <3>1. /\ Len(Ready) = n /\ Ready \in Seq(Objects)
          /\ \A k \in 1 .. n : Ready[k] = list.at[s[k]].process
      BY <1>1, <1>4, <1>6, ReadyOrder
    <3>2. Len(Ready) = 1 /\ Ready[1] = p
      BY <1>2, <1>5, <1>10, <3>1
    <3>3. QED
      BY <3>1, <3>2
  <2>2. allocated' = {}
    BY <1>1, <1>4, <1>5, <1>10 DEF OrderOf
  <2>3. mode' = "panic" /\ ~dangled'
    <3>1. FocusLoaded' /\ TasksOfTable'
      BY DEF TasksInv
    <3>2. QED
      BY <1>1, <1>10, <2>2, <3>1 DEF FocusLoaded, TasksOfTable, Loaded
  <2>4. ~Up' /\ (IF Up THEN "up" ELSE IF mode = "panic" /\ ~dangled THEN "panic" ELSE "broken")'
                  = "panic"
    BY <2>3 DEF Up
  <2>5. Turns!Ends("panic")
    BY <2>4, Ended DEF Turns!Ends
  <2>6. QED
    BY <1>6, <1>7, <1>8, <1>10, <2>1, <2>5, View DEF Turns!LastExit
<1>11. CASE ~StalePrev(t) /\ n > 1
  <2> DEFINE B == allocated \ {t}
  <2>1. ~StaleIn(list, allocated, s[i])
    BY <1>5, <1>11 DEF StaleIn, StalePrev
  <2>2. /\ ReadyOf(removed, B) = Turns!Without(ReadyOf(list, allocated), p)
        /\ OrphansOf(removed, B) = OrphansOf(list, allocated) \cup
             (IF i = n THEN {} ELSE {list.at[s[i + 1]].process})
        /\ removed.current = task_get_next(list)
        /\ OwnProcess(removed, B)
    <3>1. list.current = s[i]
      BY <1>2, <1>5
    <3> DEFINE rest == task_list_remove(list, s[i])
    <3>2. /\ ReadyOf(rest, allocated \ {s[i]})
               = Turns!Without(ReadyOf(list, allocated), list.at[s[i]].process)
          /\ OrphansOf(rest, allocated \ {s[i]}) = OrphansOf(list, allocated) \cup
               (IF i = n THEN {} ELSE {list.at[s[i + 1]].process})
          /\ rest.current = task_get_next(list)
          /\ OwnProcess(rest, allocated \ {s[i]})
      BY <1>1, <1>4, <1>6, <1>11, <2>1, <3>1, RemoveTurn
    <3>3. rest = removed /\ allocated \ {s[i]} = B /\ list.at[s[i]].process = p
      BY <1>2, <1>5 DEF removed
    <3> HIDE DEF rest, B
    <3>4. QED
      BY <3>2, <3>3
  <2>3. removed \in TaskLists /\ B \in SUBSET TaskAddrs
        /\ \A b \in TaskAddrs : removed.at[b].process = list.at[b].process
    BY <1>1, <1>2, TaskListRemove DEF removed
  <2>4. Ordered(removed, B) /\ removed.current \in B
    <3>1. \/ list.at[t].prev = Null
          \/ list.at[t].prev \in allocated /\ list.at[list.at[t].prev].next = t
      BY <1>11 DEF StalePrev
    <3>2. B # {}
      <4>1. \E j \in 1 .. n : j # i
        <5>1. 1 \in 1 .. n /\ 2 \in 1 .. n
          BY <1>11
        <5>2. QED
          BY <5>1
      <4>2. QED
        BY <1>4, <1>5, <4>1 DEF OrderOf
    <3>3. QED
      BY <1>1, <1>2, <3>1, <3>2, OrderedRemove DEF removed
  <2>5. /\ r.mode = "user" /\ r.list.current = task_get_next(removed)
        /\ r.list.at = removed.at /\ r.list.head = removed.head
    BY <2>3, <2>4, OrderedNext DEF r
  <2>6. ~(current_process = p /\ IsEmpty(table))
    <3>1. B # {}
      BY <2>4
    <3>2. \E c \in Slots : processes'[c] # NoProcess
      BY <1>1, <3>1 DEF TasksInv, TasksOfTable, Loaded
    <3>3. QED
      BY <1>1, <3>2 DEF IsEmpty
  <2>7. /\ mode' = "user" /\ list' = r.list /\ allocated' = B /\ ~dangled'
        /\ current_process' = IF current_process = p
                                THEN process_switch_to_any(table)
                                ELSE current_process
    BY <1>1, <1>11, <2>5, <2>6
  <2>8. Up'
    BY <2>7 DEF Up
  <2>9. /\ ReadyOf(list', allocated') = ReadyOf(removed, B)
        /\ OrphansOf(list', allocated') = OrphansOf(removed, B)
    BY <2>5, <2>7, SameTurns
  <2> HIDE DEF B
  <2>10. Ready' = Turns!Without(Ready, p)
    BY <1>6, <2>2, <2>9, View
  <2>11. Turns!Succ(Ready, p) = list.at[task_get_next(list)].process
    BY <1>1, <1>2, <1>4, <1>6, SuccIsNext
  <2>12. Running' = Turns!Succ(Ready', Turns!Succ(Ready, p))
    <3>1. PICK m \in Nat : \E z \in [1 .. m -> B] : OrderOf(removed, B, m, z)
      BY <2>4 DEF Ordered
    <3>2. Turns!Succ(ReadyOf(removed, B), removed.at[removed.current].process)
            = removed.at[task_get_next(removed)].process
      BY <2>2, <2>3, <2>4, <3>1, SuccIsNext
    <3>3. removed.at[removed.current].process = Turns!Succ(Ready, p)
      BY <2>2, <2>3, <2>4, <2>11
    <3>4. Running' = removed.at[task_get_next(removed)].process
      BY <2>5, <2>7 DEF Running
    <3>5. QED
      BY <2>9, <3>2, <3>3, <3>4, View
  <2>13. current_process' \in IF current_process = p THEN Turns!Members(Ready')
                              ELSE {current_process}
    <3>1. CASE current_process # p
      BY <2>7, <3>1
    <3>2. CASE current_process = p
      <4>1. current_process' \in Loaded'
        BY <2>7 DEF TasksInv, FocusLoaded
      <4>2. PICK c \in Slots : current_process' = processes'[c] /\ processes'[c] # NoProcess
        BY <4>1 DEF Loaded
      <4>3. \E b \in allocated' : list'.at[b].process = current_process'
        BY <4>2 DEF TasksInv, TasksOfTable
      <4>4. \E b \in B : removed.at[b].process = current_process'
        BY <2>5, <2>7, <4>3
      <4>5. PICK m \in Nat : \E z \in [1 .. m -> B] : OrderOf(removed, B, m, z)
        BY <2>4 DEF Ordered
      <4>6. Turns!Members(ReadyOf(removed, B)) = {removed.at[b].process : b \in B}
        BY <2>2, <2>3, <4>5, ReadyOrder
      <4>7. current_process' \in Turns!Members(Ready')
        BY <2>9, <4>4, <4>6, View
      <4>8. QED
        BY <3>2, <4>7
    <3>3. QED
      BY <3>1, <3>2
  <2>14. /\ Len(Ready) = n
         /\ p = Ready[Len(Ready)] <=> i = n
    <3>1. /\ Len(Ready) = n
          /\ \A k \in 1 .. n : Ready[k] = list.at[s[k]].process
                               /\ Turns!Position(Ready, Ready[k]) = k
      BY <1>1, <1>4, <1>6, ReadyOrder
    <3>2. p = Ready[i] /\ n \in 1 .. n
      BY <1>2, <1>5, <1>11, <3>1
    <3>3. QED
      BY <3>1, <3>2
  <2>15. OrphansOf(list', allocated') = OrphansOf(list, allocated) \cup
           (IF p = Ready[Len(Ready)] THEN {} ELSE {Turns!Succ(Ready, p)})
    <3>1. list.current = s[i]
      BY <1>2, <1>5
    <3>2. task_get_next(list) = s[IF i = n THEN 1 ELSE i + 1]
      BY <1>1, <1>4, <3>1, NextInOrder, ZenonT(40)
    <3>3. QED
      BY <2>2, <2>9, <2>11, <2>14, <3>2
  <2>16. p \notin OrphansOf(list, allocated)
    BY <1>8, <1>11
  <2>17. Turns!Exit
    BY <1>6, <1>7, <1>11, <2>8, <2>10, <2>12, <2>13, <2>14, <2>15, <2>16, View DEF Turns!Exit
  <2>18. QED
    BY <2>17
<1>12. n = 1 \/ n > 1
  BY <1>5
<1>13. QED
  BY <1>9, <1>10, <1>11, <1>12

\* What Append leaves and where it puts the new element.
LEMMA Appended ==
  ASSUME NEW S, NEW q \in Seq(S), NEW e \in S
  PROVE  /\ Len(Append(q, e)) = Len(q) + 1
         /\ Append(q, e)[Len(q) + 1] = e
         /\ \A k \in 1 .. Len(q) : Append(q, e)[k] = q[k]
OBVIOUS

\* In the first state two processes are ready and no link is stale.
LEMMA InitTurns ==
  ASSUME Init, TasksInv
  PROVE  Turns!Init
<1>1. PICK a \in TaskAddrs, b \in TaskAddrs :
        /\ a # b
        /\ list = task_new(task_new(EmptyList, a, 1), b, 2)
        /\ allocated = {a, b}
        /\ current_process = 2
        /\ mode = "user"
        /\ dangled = FALSE
  BY DEF Init
<1>2. EmptyList \in TaskLists /\ 1 \in Objects /\ 2 \in Objects
  BY TasksAssumption DEF EmptyList, TaskLists, TaskFields, Addresses, Objects
<1> DEFINE one == task_new(EmptyList, a, 1)
           A == {a}
           s == [k \in 1 .. 1 |-> a]
<1>3. one \in TaskLists
  BY <1>2, TaskNew
<1>4. /\ one.head = a /\ one.tail = a /\ one.current = a
      /\ one.at[a].next = Null /\ one.at[a].prev = Null /\ one.at[a].process = 1
  BY DEF task_new, EmptyList
<1> HIDE DEF one
<1>5. OrderOf(one, A, 1, s)
  BY <1>4, TasksAssumption DEF OrderOf
<1>6. s \in [1 .. 1 -> A] /\ A \in SUBSET TaskAddrs /\ A # {} /\ b \notin A /\ s[1] = a
  BY <1>1
<1> HIDE DEF s
<1>7. OwnProcess(one, A)
  BY <1>2, <1>4 DEF OwnProcess
<1>8. OrphansOf(one, A) = {}
  BY <1>4 DEF OrphansOf, StaleIn
<1>9. A \cup {b} = allocated /\ list = task_new(one, b, 2)
  BY <1>1 DEF one
<1> HIDE DEF A
<1>10. ReadyOf(one, A) = <<1>>
  <2> DEFINE n == 1
  <2>1. n \in Nat /\ s \in [1 .. n -> A] /\ OrderOf(one, A, n, s) /\ 1 \in 1 .. n
    BY <1>5, <1>6
  <2> HIDE DEF n
  <2>1a. n \in Nat /\ s \in [1 .. n -> A] /\ OrderOf(one, A, n, s)
    BY <2>1
  <2>1b. A \in SUBSET TaskAddrs
    BY <1>6
  <2>2. /\ ReadyOf(one, A) \in Seq(Objects) /\ Len(ReadyOf(one, A)) = n
        /\ \A k \in 1 .. n : ReadyOf(one, A)[k] = one.at[s[k]].process
    BY <1>7, <2>1a, <2>1b, ReadyOrder
  <2>3. Len(ReadyOf(one, A)) = 1 /\ ReadyOf(one, A)[1] = 1
    BY <1>4, <1>6, <2>1, <2>2 DEF n
  <2>4. QED
    BY <2>2, <2>3
<1>11. Ordered(one, A)
  BY <1>5, <1>6 DEF Ordered
<1>12. OwnProcess(list, allocated)
  BY DEF TasksInv, TypeOK, TasksOfTable, Loaded, OwnProcess
<1>13. /\ ReadyOf(task_new(one, b, 2), A \cup {b}) = Append(ReadyOf(one, A), 2)
       /\ OrphansOf(task_new(one, b, 2), A \cup {b}) = OrphansOf(one, A)
  BY <1>2, <1>3, <1>6, <1>7, <1>9, <1>11, <1>12, NewTurn, ZenonT(40)
<1>14. Ready = <<1, 2>>
  <2> DEFINE o == ReadyOf(one, A)
  <2>1. Ready = Append(o, 2)
    BY <1>9, <1>13, View
  <2>2. o \in Seq(Objects) /\ Len(o) = 1 /\ o[1] = 1
    BY <1>2, <1>10
  <2> HIDE DEF o
  <2> DEFINE q == Append(o, 2)
  <2>3. q \in Seq(Objects)
    BY <1>2, <2>2
  <2>4. Len(q) = Len(o) + 1 /\ q[Len(o) + 1] = 2 /\ \A k \in 1 .. Len(o) : q[k] = o[k]
    <3> DEFINE e == 2
    <3>1. o \in Seq(Objects) /\ e \in Objects
      BY <1>2, <2>2
    <3> HIDE DEF e
    <3>2. /\ Len(Append(o, e)) = Len(o) + 1
          /\ Append(o, e)[Len(o) + 1] = e
          /\ \A k \in 1 .. Len(o) : Append(o, e)[k] = o[k]
      BY <3>1, Appended
    <3>3. QED
      BY <3>2 DEF e
  <2>5. q[1] = o[1]
    BY <2>2, <2>4
  <2> HIDE DEF q
  <2>6. Len(q) = 2 /\ q[1] = 1 /\ q[2] = 2
    BY <2>2, <2>4, <2>5
  <2>7. q = <<1, 2>>
    BY <2>3, <2>6
  <2>8. QED
    BY <2>1, <2>7 DEF q
<1>15. Running = 1
  <2>1. list.current = a
    BY <1>3, <1>4, <1>6, <1>9, <1>11, OrderedNew, SMTT(30)
  <2>2. list.at[a].process = 1
    BY <1>1, <1>2, <1>3, <1>4, <1>9, TaskNew
  <2>3. QED
    BY <2>1, <2>2 DEF Running
<1>16. Up
  BY <1>1 DEF Up
<1>17. {list.at[c].process : c \in {d \in allocated : StalePrev(d)}} = {}
  BY <1>8, <1>9, <1>13, View
<1>18. 1 # 2
  OBVIOUS
<1>19. QED
  BY <1>1, <1>2, <1>14, <1>15, <1>16, <1>17, <1>18 DEF Turns!Init

\* The processes take turns in the order in which they were loaded, as RoundRobin
\* says, and the list breaks only where it says it may: when an orphan exits, or
\* when there is no memory for a new task.
THEOREM ImplementsRoundRobin == Spec => RefinesRoundRobin
<1>1. Init /\ TasksInv => Turns!Init
  BY InitTurns
<1>2. /\ TasksInv /\ TasksInv' /\ ListInv /\ ListInv'
      /\ [Next]_vars
      => [Turns!Next]_(Turns!vars)
  <2> SUFFICES ASSUME TasksInv, TasksInv', ListInv, ListInv', [Next]_vars
               PROVE  [Turns!Next]_(Turns!vars)
    OBVIOUS
  <2>1. CASE UNCHANGED vars
    <3>1. UNCHANGED <<list, allocated, current_process, mode, dangled>>
      BY <2>1 DEF vars
    <3>2. Up' = Up /\ Running' = Running
      BY <3>1 DEF Up, Running
    <3>3. Ready' = Ready /\ OrphansOf(list', allocated') = OrphansOf(list, allocated)
      BY <3>1, View
    <3>4. QED
      BY <3>1, <3>2, <3>3, View DEF Turns!vars
  <2>2. CASE Next /\ dangled
    <3>1. dangled'
      BY <2>2 DEF Next, idt_clock, LoadStart, LoadWithoutArguments, process_load_switch,
                  MapFails, LoadFails, TaskOutOfMemory, Exit
    <3>2. ~Up /\ ~Up'
      BY <2>2, <3>1 DEF Up
    <3>3. QED
      BY <2>2, <3>1, <3>2, Ended DEF Turns!vars, NoProcess
  <2>3. CASE Next /\ ~dangled
    <3>1. CASE idt_clock
      BY <2>3, <3>1, TickTurn DEF Turns!Next
    <3>2. ASSUME NEW a \in TaskAddrs, LoadStart(a) \/ LoadWithoutArguments(a)
          PROVE  Turns!Next
      BY <2>3, <3>2, LoadTurn DEF Turns!Next
    <3>3. ASSUME NEW a \in TaskAddrs, MapFails(a)
          PROVE  UNCHANGED Turns!vars
      <4>1. /\ Ready' = Ready
            /\ OrphansOf(list', allocated') = OrphansOf(list, allocated)
            /\ Running' = Running
            /\ mode' = "user"
        BY <2>3, <3>3, UndoneTurn
      <4>2. /\ mode = "user" /\ UNCHANGED <<current_process, dangled>>
        BY <3>3 DEF MapFails
      <4>3. Up /\ Up'
        BY <2>3, <4>1, <4>2 DEF Up
      <4>4. QED
        BY <4>1, <4>2, <4>3, View DEF Turns!vars
    <3>4. CASE LoadFails
      <4>1. UNCHANGED <<list, allocated, current_process, mode, dangled>>
        BY <3>4 DEF LoadFails
      <4>2. Up' = Up /\ Running' = Running
        BY <4>1 DEF Up, Running
      <4>3. Ready' = Ready /\ OrphansOf(list', allocated') = OrphansOf(list, allocated)
        BY <4>1, View
      <4>4. QED
        BY <4>1, <4>2, <4>3, View DEF Turns!vars
    <3>5. CASE TaskOutOfMemory
      <4>1. mode = "user" /\ mode' = "null" /\ dangled' = dangled
        BY <3>5 DEF TaskOutOfMemory
      <4>2. Up /\ ~Up'
        BY <2>3, <4>1 DEF Up
      <4>3. Turns!Ends("broken")
        BY <4>1, <4>2, Ended DEF Turns!Ends
      <4>4. QED
        BY <4>2, <4>3 DEF Turns!OutOfMemory, Turns!Next
    <3>6. CASE Exit
      BY <2>3, <3>6, ExitTurn DEF Turns!Next
    <3>7. QED
      BY <2>3, <3>1, <3>2, <3>3, <3>4, <3>5, <3>6 DEF Next
  <2>4. QED
    BY <2>1, <2>2, <2>3
<1>3. QED
  BY <1>1, <1>2, TasksInvariance, ListInvariance, PTL DEF Spec, RefinesRoundRobin, Turns!Spec
------------------------------------------------------------------------------
(***************************************************************************)
(* The task list and the keyboard layer together.                          *)
(***************************************************************************)

\* The process on the processor, as the keyboard layer sees it.
Reader == IF mode = "user" THEN Running ELSE current_process

\* The task list goes on as it does without the keyboard.
LEMMA ConsoleTasks == ConsoleSpec => Spec
<1>1. ConsoleInit => Init
  BY DEF ConsoleInit
<1>2. [ConsoleNext]_allvars => [Next]_vars
  BY DEF ConsoleNext, allvars, TaskStep, KeyStep
<1>3. QED
  BY <1>1, <1>2, PTL DEF ConsoleSpec, Spec

\* A step of the scheduler, a load or an exit is for the keyboard layer a change
\* of the processes that have the keyboard and the processor.
LEMMA ConsoleStep == TasksInv /\ TasksInv' /\ [ConsoleNext]_allvars => [K!Next]_(K!vars)
<1> SUFFICES ASSUME TasksInv, TasksInv', [ConsoleNext]_allvars
             PROVE  [K!Next]_(K!vars)
  OBVIOUS
<1>1. Reader' \in Objects /\ current_process' \in Objects
  <2>1. current_process' \in Objects
    BY DEF TasksInv, TypeOK
  <2>2. ASSUME mode' = "user" PROVE Running' \in Objects
    <3>1. list'.current \in allocated'
      BY <2>2 DEF TasksInv, CurrentAllocated
    <3>2. Running' \in Loaded'
      BY <3>1 DEF TasksInv, TasksOfTable, Running
    <3>3. QED
      BY <3>2 DEF TasksInv, TypeOK, Loaded
  <2>3. QED
    BY <2>1, <2>2 DEF Reader
<1>2. CASE TaskStep
  <2>1. UNCHANGED kbvars
    BY <1>2 DEF TaskStep
  <2>2. K!Schedule
    BY <1>1, <2>1 DEF K!Schedule, kbvars, Reader
  <2>3. QED
    BY <2>2 DEF K!Next
<1>3. CASE KeyStep
  BY <1>3 DEF KeyStep, K!Next
<1>4. CASE UNCHANGED allvars
  BY <1>4 DEF allvars, vars, kbvars, K!vars, Running
<1>5. QED
  BY <1>2, <1>3, <1>4 DEF ConsoleNext

\* Tasks and keyboard together implement the keyboard layer: whatever is loaded,
\* exits or is interrupted, process_current() and task_current()->process are
\* processes, so a key is typed to one and read by one.
THEOREM ConsoleImplementsKeyboard == ConsoleSpec => RefinesKeyboard
<1>1. ConsoleInit => K!Init
  BY DEF ConsoleInit
<1>2. ConsoleSpec => []TasksInv
  BY ConsoleTasks, TasksInvariance, PTL
<1>3. QED
  BY <1>1, <1>2, ConsoleStep, PTL DEF ConsoleSpec, RefinesKeyboard, K!Spec

\* The proofs about the keyboard layer hold of it as it is used here.
P == INSTANCE KeyboardProofs WITH
  Procs <- Objects,
  focus <- current_process,
  running <- IF mode = "user" THEN Running ELSE current_process

\* Under the scheduler, loads and exits each process reads the characters typed
\* for it in order and each once, until its ring is overrun.
THEOREM ConsoleImplementsQueues == ConsoleSpec => K!RefinesKeyQueue
<1>1. P!KeyboardAssumption
  BY ConsoleAssumption DEF P!KeyboardAssumption, K!KeyboardAssumption
<1>2. P!Spec => P!RefinesKeyQueue
  BY <1>1, P!ImplementsKeyQueue
<1>3. K!Init => P!Init
  BY DEF P!Init, K!Init
<1>4. [K!Next]_(K!vars) => [P!Next]_(P!vars)
  <2> SUFFICES ASSUME [K!Next]_(K!vars) PROVE [P!Next]_(P!vars)
    OBVIOUS
  <2>1. K!vars = P!vars /\ K!vars' = P!vars'
    BY DEF K!vars, P!vars
  <2>2. ASSUME NEW s \in K!Scancodes, K!classic_keyboard_handle_interrupt(s)
        PROVE  P!classic_keyboard_handle_interrupt(s) /\ s \in P!Scancodes
    BY <2>2 DEF K!classic_keyboard_handle_interrupt, P!classic_keyboard_handle_interrupt,
         K!classic_keyboard_scancode_to_char, P!classic_keyboard_scancode_to_char,
         K!keyboard_push, P!keyboard_push, K!keyboard_get_tail_index,
         P!keyboard_get_tail_index, K!Scancodes, P!Scancodes, K!IsUpper, P!IsUpper,
         K!Chars, P!Chars
  <2>3. ASSUME NEW s \in K!Scancodes, K!KeyReleased(s)
        PROVE  P!KeyReleased(s) /\ s \in P!Scancodes
    BY <2>1, <2>3 DEF K!KeyReleased, P!KeyReleased, K!Scancodes, P!Scancodes
  <2>4. K!isr80h_command2_getkey => P!isr80h_command2_getkey
    BY DEF K!isr80h_command2_getkey, P!isr80h_command2_getkey, K!keyboard_pop, P!keyboard_pop,
         K!HeadIndex, P!HeadIndex
  <2>5. K!Schedule => P!Schedule
    BY DEF K!Schedule, P!Schedule
  <2>6. QED
    BY <2>1, <2>2, <2>3, <2>4, <2>5 DEF K!Next, P!Next
<1>5. P!Queue!Init => K!Queue!Init
  BY DEF P!Queue!Init, K!Queue!Init, P!Pending, K!Pending, P!Count, K!Count
<1>6. [P!Queue!Next]_(P!Queue!vars) => [K!Queue!Next]_(K!Queue!vars)
  BY DEF P!Queue!Next, K!Queue!Next, P!Queue!vars, K!Queue!vars, P!Queue!Type, K!Queue!Type,
     P!Queue!Read, K!Queue!Read, P!Queue!Schedule, K!Queue!Schedule,
     P!Pending, K!Pending, P!Count, K!Count, P!Chars, K!Chars, P!IsUpper, K!IsUpper
<1>7. QED
  BY <1>2, <1>3, <1>4, <1>5, <1>6, ConsoleImplementsKeyboard, PTL
     DEF RefinesKeyboard, K!Spec, P!Spec, K!RefinesKeyQueue, P!RefinesKeyQueue,
         K!Queue!Spec, P!Queue!Spec
==============================================================================
