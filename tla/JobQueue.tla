------------------------------ MODULE JobQueue ------------------------------
(***************************************************************************)
(* What ThreadPool in multithreaded-webserver-rust/src/lib.rs promises its *)
(* owner: jobs start in the order they were submitted, each once, at most  *)
(* one per slot; a panicking job costs a slot, jobs are discarded only     *)
(* when no slot is left, and the pool closes only when it has lost nothing *)
(* and owes nothing.                                                       *)
(***************************************************************************)
EXTENDS Naturals, Sequences, FiniteSets

CONSTANT P  \* number of slots

VARIABLES
  pending,  \* submitted jobs not started, oldest first
  running,  \* jobs started and not ended
  next,     \* number of the next job to submit
  slots,    \* slots no job has destroyed
  closed    \* the owner got the pool dropped

qvars == <<pending, running, next, slots, closed>>

Init ==
  /\ pending = <<>> /\ running = {} /\ next = 1
  /\ slots = P /\ closed = FALSE

Submit ==
  /\ ~closed /\ slots > 0
  /\ pending' = Append(pending, next)
  /\ next' = next + 1
  /\ UNCHANGED <<running, slots, closed>>

Start ==
  /\ pending # <<>> /\ Cardinality(running) < slots
  /\ running' = running \cup {Head(pending)}
  /\ pending' = Tail(pending)
  /\ UNCHANGED <<next, slots, closed>>

Return(j) ==
  /\ j \in running
  /\ running' = running \ {j}
  /\ UNCHANGED <<pending, next, slots, closed>>

\* The job destroys its slot; with the last slot goes what is still pending.
Crash(j) ==
  /\ j \in running
  /\ running' = running \ {j}
  /\ slots' = slots - 1
  /\ pending' = IF slots = 1 THEN <<>> ELSE pending
  /\ UNCHANGED <<next, closed>>

Close ==
  /\ ~closed /\ pending = <<>> /\ running = {} /\ slots = P
  /\ closed' = TRUE
  /\ UNCHANGED <<pending, running, next, slots>>

Next == Submit \/ Start \/ Close \/ \E j \in running : Return(j) \/ Crash(j)

Spec == Init /\ [][Next]_qvars
=============================================================================
