----------------------------- MODULE LockOrder ------------------------------
(***************************************************************************)
(* deadlock_simulation/main.c: thread t locks mutex t, sleeps, locks the   *)
(* other mutex, and unlocks both in the order it took them.  main creates  *)
(* the two threads, joins them and destroys the mutexes.                   *)
(***************************************************************************)
EXTENDS Integers

VARIABLES
  owner,    \* who holds each mutex, Nobody if it is free
  at,       \* what each thread does next
  returned  \* how many of its six calls main has returned from

vars == <<owner, at, returned>>

Threads == {1, 2}   \* thread1_func and thread2_func; the mutexes lock1 and lock2
Nobody  == 0

First(t)  == t
Second(t) == 3 - t

lock(t, l)   == owner[l] = Nobody /\ owner' = [owner EXCEPT ![l] = t]
unlock(t, l) == owner[l] = t /\ owner' = [owner EXCEPT ![l] = Nobody]

Move(t, from, to) ==
  /\ at[t] = from
  /\ at' = [at EXCEPT ![t] = to]

Init ==
  /\ owner = [l \in Threads |-> Nobody]
  /\ at = [t \in Threads |-> "none"]
  /\ returned = 0

-----------------------------------------------------------------------------
(* The threads *)

LockFirst(t)   == Move(t, "lockFirst", "lockSecond") /\ lock(t, First(t)) /\ UNCHANGED returned
LockSecond(t)  == Move(t, "lockSecond", "unlockFirst") /\ lock(t, Second(t)) /\ UNCHANGED returned

\* The first mutex forgotten.
BadUnlockFirst(t) == Move(t, "unlockFirst", "unlockSecond") /\ UNCHANGED <<owner, returned>>

UnlockFirst(t)  == Move(t, "unlockFirst", "unlockSecond") /\ unlock(t, First(t)) /\ UNCHANGED returned
UnlockSecond(t) == Move(t, "unlockSecond", "done") /\ unlock(t, Second(t)) /\ UNCHANGED returned

thread(t) == LockFirst(t) \/ LockSecond(t) \/ UnlockFirst(t) \/ UnlockSecond(t)

(* main: pthread_create twice, pthread_join twice, pthread_mutex_destroy twice *)

Return(n) == returned = n - 1 /\ returned' = n

Create(t)  == Return(t) /\ Move(t, "none", "lockFirst") /\ UNCHANGED owner
Join(t)    == Return(2 + t) /\ at[t] = "done" /\ UNCHANGED <<owner, at>>
Destroy(l) == Return(4 + l) /\ owner[l] = Nobody /\ UNCHANGED <<owner, at>>

main == \E i \in Threads : Create(i) \/ Join(i) \/ Destroy(i)

Next == main \/ \E t \in Threads : thread(t)

Spec == Init /\ [][Next]_vars

-----------------------------------------------------------------------------
(* Properties *)

\* Each thread holds its first mutex and waits for the other's.
Crossed == \A t \in Threads : at[t] = "lockSecond" /\ owner[First(t)] = t

\* Either the two threads end up holding one mutex each and wanting the
\* other, or both run to their end, every mutex is free again and main gets
\* to the end of its calls: there is no third way out, such as a mutex left
\* locked when main destroys it.
EndsOrCrossed ==
  \/ <>[]Crossed
  \/ <>[](returned = 6 /\ \A l \in Threads : owner[l] = Nobody)
=============================================================================
