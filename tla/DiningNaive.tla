---------------------------- MODULE DiningNaive ----------------------------
(***************************************************************************)
(* dining_philosophers/nonsolution.c: every philosopher waits for the      *)
(* semaphore of fork i, then for that of fork (i + 1) % N, eats, and posts *)
(* both in the same order.                                                 *)
(***************************************************************************)
EXTENDS Integers

CONSTANT N  \* number of philosophers and forks, at least 2 (5 in the code)

VARIABLES
  started,  \* number of threads main has created
  forks,    \* value of the semaphore forks[i]
  pc        \* where philosopher i is

vars == <<started, forks, pc>>

Philosophers == 0 .. N-1

\* (i + 1) % N, and the philosopher whose second fork is fork i.
RIGHT(i) == IF i = N-1 THEN 0 ELSE i+1
LEFT(i)  == IF i = 0 THEN N-1 ELSE i-1

\* "reaching": holds fork i and waits for the next; "putting": has posted
\* fork i and not the next.
PCs == {"none", "thinking", "reaching", "eating", "putting"}

take_fork(f) == forks[f] > 0 /\ forks' = [forks EXCEPT ![f] = @ - 1]
put_fork(f)  == forks' = [forks EXCEPT ![f] = @ + 1]

Goto(i, from, to) ==
  /\ pc[i] = from
  /\ pc' = [pc EXCEPT ![i] = to]

Init ==
  /\ started = 0
  /\ forks = [f \in Philosophers |-> 1]
  /\ pc = [i \in Philosophers |-> "none"]

Create ==
  /\ started < N
  /\ Goto(started, "none", "thinking")
  /\ started' = started + 1
  /\ UNCHANGED forks

TakeFirst(i) ==
  /\ Goto(i, "thinking", "reaching")
  /\ take_fork(i)
  /\ UNCHANGED started

\* The second fork taken without waiting for it.
BadTakeSecond(i) ==
  /\ Goto(i, "reaching", "eating")
  /\ forks' = [forks EXCEPT ![RIGHT(i)] = 0]
  /\ UNCHANGED started

TakeSecond(i) ==
  /\ Goto(i, "reaching", "eating")
  /\ take_fork(RIGHT(i))
  /\ UNCHANGED started

PutFirst(i) ==
  /\ Goto(i, "eating", "putting")
  /\ put_fork(i)
  /\ UNCHANGED started

\* The second post forgotten, or given to the wrong fork.
BadForgetSecond(i) == Goto(i, "putting", "thinking") /\ UNCHANGED <<started, forks>>
PutSecond(i) ==
  /\ Goto(i, "putting", "thinking")
  /\ put_fork(RIGHT(i))
  /\ UNCHANGED started

philosopher(i) == TakeFirst(i) \/ TakeSecond(i) \/ PutFirst(i) \/ PutSecond(i)

Next == Create \/ \E i \in Philosophers : philosopher(i)

Spec == Init /\ [][Next]_vars

\* Every thread keeps running: the sleeps are bounded.
FairSpec ==
  /\ Spec
  /\ WF_vars(Create)
  /\ \A i \in Philosophers : WF_vars(philosopher(i))

-----------------------------------------------------------------------------
(* Properties *)

TypeOK ==
  /\ started \in 0 .. N
  /\ forks \in [Philosophers -> {0, 1}]
  /\ pc \in [Philosophers -> PCs]

HasFirst(i)  == pc[i] \in {"reaching", "eating"}
HasSecond(i) == pc[i] \in {"eating", "putting"}

\* Every fork is on the table or in exactly one hand: the semaphores neither
\* lose nor duplicate a fork, whoever holds it as first or second fork.
ForkConservation ==
  \A f \in Philosophers :
    /\ forks[f] = 0 <=> HasFirst(f) \/ HasSecond(LEFT(f))
    /\ ~(HasFirst(f) /\ HasSecond(LEFT(f)))

Blocked(i) ==
  \/ pc[i] = "thinking" /\ forks[i] = 0
  \/ pc[i] = "reaching" /\ forks[RIGHT(i)] = 0

CircularWait == \A i \in Philosophers : pc[i] = "reaching"

\* The program can stop in one way only: when nobody can take a step,
\* everybody holds the fork it took first and waits for its neighbour's.
StuckIsCircularWait ==
  (\A i \in Philosophers : Blocked(i)) => CircularWait

\* Short of that circular wait somebody ends a meal again and again; some
\* philosopher may still starve.
SomebodyEatsOrCircularWait ==
  <>[]CircularWait \/ []<>(\E i \in Philosophers : pc[i] = "putting")

\* eat() in nonsolution.c keeps the promise of the abstract table.
D == INSTANCE Dining WITH eating <- {i \in Philosophers : pc[i] = "eating"}
ImplementsDining == D!Spec
=============================================================================
