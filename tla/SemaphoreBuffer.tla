-------------------------- MODULE SemaphoreBuffer ---------------------------
(***************************************************************************)
(* producer_consumer/semaphore_imple.c: the thread that inserts (it runs   *)
(* the function named consumer) and the one that removes (the function     *)
(* named producer), with the semaphores mutex, full and empty.  The buffer *)
(* itself is simulated in the code: here it is the number of its items.    *)
(***************************************************************************)
EXTENDS Integers

CONSTANT N  \* number of slots in the buffer, at least 1 (100 in the code)

VARIABLES
  sem,    \* the values of the three semaphores
  items,  \* calls of insert_item less calls of remove_item
  pc      \* what each thread does next

vars == <<sem, items, pc>>

Semaphores == {"mutex", "full", "empty"}
Threads == {"inserter", "remover"}

\* The program points, in the order each thread goes through them.
InserterPCs == {"waitEmpty", "lock", "insert", "unlock", "postFull"}
RemoverPCs  == {"waitFull", "lock", "remove", "unlock", "postEmpty", "consume"}

sem_wait(s) == sem[s] > 0 /\ sem' = [sem EXCEPT ![s] = @ - 1]
sem_post(s) == sem' = [sem EXCEPT ![s] = @ + 1]

Goto(t, from, to) ==
  /\ pc[t] = from
  /\ pc' = [pc EXCEPT ![t] = to]

Init ==
  /\ sem = [s \in Semaphores |-> CASE s = "mutex" -> 1 [] s = "full" -> 0 [] s = "empty" -> N]
  /\ items = 0
  /\ pc = [t \in Threads |-> IF t = "inserter" THEN "waitEmpty" ELSE "waitFull"]

-----------------------------------------------------------------------------
\* Both threads: sem_wait(&mutex) and sem_post(&mutex) around the buffer.
Lock(t, from, to)    == Goto(t, from, to) /\ sem_wait("mutex") /\ UNCHANGED items
Unlock(t, from, to)  == Goto(t, from, to) /\ sem_post("mutex") /\ UNCHANGED items

(* The function consumer *)

\* produce_item returns and a slot is reserved.
BadReserve == Goto("inserter", "waitEmpty", "lock") /\ UNCHANGED <<sem, items>>
Reserve    == Goto("inserter", "waitEmpty", "lock") /\ sem_wait("empty") /\ UNCHANGED items

Insert == Goto("inserter", "insert", "unlock") /\ items' = items + 1 /\ UNCHANGED sem

Publish == Goto("inserter", "postFull", "waitEmpty") /\ sem_post("full") /\ UNCHANGED items

consumer ==
  \/ Reserve \/ Lock("inserter", "lock", "insert")
  \/ Insert \/ Unlock("inserter", "unlock", "postFull") \/ Publish

(* The function producer *)

Claim  == Goto("remover", "waitFull", "lock") /\ sem_wait("full") /\ UNCHANGED items
\* A wait for more items inside the critical section.
BadRemove ==
  /\ Goto("remover", "remove", IF items = N THEN "unlock" ELSE "remove")
  /\ items' = IF items = N THEN items - 1 ELSE items
  /\ UNCHANGED sem

Remove == Goto("remover", "remove", "unlock") /\ items' = items - 1 /\ UNCHANGED sem

GiveBack == Goto("remover", "postEmpty", "consume") /\ sem_post("empty") /\ UNCHANGED items

\* consume_item and the printed sem_getvalue(&full).
Consume == Goto("remover", "consume", "waitFull") /\ UNCHANGED <<sem, items>>

producer ==
  \/ Claim \/ Lock("remover", "lock", "remove")
  \/ Remove \/ Unlock("remover", "unlock", "postEmpty") \/ GiveBack \/ Consume

Next == consumer \/ producer

Spec == Init /\ [][Next]_vars

\* Both threads keep running; no semaphore needs to be fair with one thread
\* on each side of it.
FairSpec == Spec /\ WF_vars(consumer) /\ WF_vars(producer)

-----------------------------------------------------------------------------
(* Properties *)

TypeOK ==
  /\ sem \in [Semaphores -> 0 .. N] /\ sem["mutex"] \in {0, 1}
  /\ items \in 0 .. N
  /\ pc \in [Threads -> InserterPCs \cup RemoverPCs]
  /\ pc["inserter"] \in InserterPCs /\ pc["remover"] \in RemoverPCs

At(t, points) == IF pc[t] \in points THEN 1 ELSE 0

\* Every slot is free, full, or on its way in the hands of one thread: the
\* semaphores never count a slot twice and never forget one.
SlotsBalance ==
  /\ sem["empty"] = N - items - At("inserter", {"lock", "insert"})
                            - At("remover", {"unlock", "postEmpty"})
  /\ sem["full"] = items - At("inserter", {"unlock", "postFull"})
                         - At("remover", {"lock", "remove"})

\* The buffer is touched by one thread at a time.
BufferExclusion ==
  ~(pc["inserter"] \in {"insert", "unlock"} /\ pc["remover"] \in {"remove", "unlock"})

\* Neither side is ever shut out: the inserter and the remover both come back
\* to the buffer forever.
BothKeepGoing ==
  /\ []<>(pc["inserter"] = "insert")
  /\ []<>(pc["remover"] = "remove")

B == INSTANCE BoundedBuffer
ImplementsBoundedBuffer == B!Spec
=============================================================================
