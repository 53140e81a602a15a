----------------------------- MODULE RoundRobin -----------------------------
(***************************************************************************)
(* What the task list promises: the loaded processes take turns in the     *)
(* order in which they were loaded.                                        *)
(*                                                                         *)
(* The promise is the one task.c and process.c keep, with its two          *)
(* peculiarities.  A process that exits passes the processor to the        *)
(* process after its successor, which loses its turn.  And the promise     *)
(* ends when an orphan exits: a process whose predecessor in the queue has *)
(* exited earlier (its task keeps a link to the freed task).               *)
(***************************************************************************)
EXTENDS Integers, Sequences, FiniteSets

CONSTANT Procs   \* struct Process objects

VARIABLES
  queue,     \* the loaded processes, in the order they were loaded
  running,   \* the process on the processor
  focus,     \* the process that gets the keyboard input
  orphans,   \* the processes whose predecessor has exited
  status     \* "up", "panic" (no process left) or "broken"

vars == <<queue, running, focus, orphans, status>>

Members(q) == {q[k] : k \in DOMAIN q}

Position(q, p) == CHOOSE k \in DOMAIN q : q[k] = p

\* The successor of p in queue q, cyclically.
Succ(q, p) ==
  LET k == Position(q, p)
  IN q[IF k = Len(q) THEN 1 ELSE k + 1]

Without(q, p) ==
  LET k == Position(q, p)
  IN [j \in 1 .. Len(q) - 1 |-> q[IF j < k THEN j ELSE j + 1]]

\* No promise any more.
Ends(why) ==
  /\ status' = why
  /\ queue' = <<>> /\ running' = 0 /\ focus' = 0 /\ orphans' = {}

Init ==
  /\ \E p, q \in Procs :
       p # q /\ queue = <<p, q>> /\ running = p /\ focus = q
  /\ orphans = {}
  /\ status = "up"

Tick ==
  /\ status = "up"
  /\ running' = Succ(queue, running)
  /\ UNCHANGED <<queue, focus, orphans, status>>

\* A new process is put at the end of the queue, gets the keyboard and, if its
\* arguments could be handed to it, the processor.
Start(p) ==
  /\ status = "up"
  /\ p \notin Members(queue)
  /\ queue' = Append(queue, p)
  /\ running' \in {p, running}
  /\ focus' = p
  /\ UNCHANGED <<orphans, status>>

Exit ==
  /\ status = "up"
  /\ running \notin orphans
  /\ Len(queue) > 1
  /\ queue' = Without(queue, running)
  /\ running' = Succ(queue', Succ(queue, running))
  /\ focus' \in IF focus = running THEN Members(queue') ELSE {focus}
  /\ orphans' = orphans \cup (IF running = queue[Len(queue)] THEN {}
                              ELSE {Succ(queue, running)})
  /\ UNCHANGED status

LastExit ==
  /\ status = "up"
  /\ queue = <<running>>
  /\ running \notin orphans
  /\ Ends("panic")

OrphanExit ==
  /\ status = "up"
  /\ running \in orphans
  /\ Ends("broken")

\* The kernel works on a null task when there is no memory for a new one.
OutOfMemory == status = "up" /\ Ends("broken")

Next ==
  \/ Tick
  \/ \E p \in Procs : Start(p)
  \/ Exit \/ LastExit \/ OrphanExit \/ OutOfMemory

Spec == Init /\ [][Next]_vars
==============================================================================
