--------------------------- MODULE DiningSolution ---------------------------
(***************************************************************************)
(* dining_philosophers/solution.c: N philosopher threads, the shared array *)
(* state[], one semaphore forks[i] per philosopher and the semaphore mutex *)
(* that guards state[].  A philosopher eats once its semaphore lets it     *)
(* through; whoever finds both its neighbours not EATING posts it.         *)
(***************************************************************************)
EXTENDS Integers

CONSTANTS
  N,        \* number of philosophers (5 in the code)
  ForkInit  \* initial value of every forks[i] (1 in the code)

ASSUME NAssumption == N \in Nat /\ N >= 2
ASSUME ForkInitAssumption == ForkInit \in {0, 1}

VARIABLES
  started,  \* number of threads main has created so far
  state,    \* state[i], the shared array
  forks,    \* value of the semaphore forks[i]
  mutex,    \* value of the semaphore mutex
  pc        \* where philosopher i is in philosopher()

vars == <<started, state, forks, mutex, pc>>

Philosophers == 0 .. N-1

LEFT(i)  == IF i = 0 THEN N-1 ELSE i-1
RIGHT(i) == IF i = N-1 THEN 0 ELSE i+1

States == {"THINKING", "HUNGRY", "EATING"}

\* "none" before pthread_create; the others name the next thing the thread does.
PutPCs   == {"putting", "testLeft", "testRight", "putDone"}
TakePCs  == {"taking", "testing", "takeDone"}
PCs      == {"none", "thinking", "waiting", "eating"} \cup TakePCs \cup PutPCs

Goto(i, from, to) ==
  /\ pc[i] = from
  /\ pc' = [pc EXCEPT ![i] = to]

sem_wait_mutex == mutex > 0 /\ mutex' = mutex - 1
sem_post_mutex == mutex' = mutex + 1

-----------------------------------------------------------------------------
Init ==
  /\ started = 0
  /\ state = [i \in Philosophers |-> "THINKING"]
  /\ forks = [i \in Philosophers |-> ForkInit]
  /\ mutex = 1
  /\ pc = [i \in Philosophers |-> "none"]

\* main: state[i] = THINKING without the mutex, then pthread_create.
Create ==
  /\ started < N
  /\ Goto(started, "none", "thinking")
  /\ state' = [state EXCEPT ![started] = "THINKING"]
  /\ started' = started + 1
  /\ UNCHANGED <<forks, mutex>>

\* Mutants of the condition of test() and of its two effects.
BadCanEat(k) == state[k] = "HUNGRY" /\ state[LEFT(k)] # "EATING"

\* test(k): promote a hungry philosopher whose neighbours are not eating.
CanEat(k) ==
  /\ state[k] = "HUNGRY"
  /\ state[LEFT(k)] # "EATING"
  /\ state[RIGHT(k)] # "EATING"

BadRepost(k) ==
  /\ state' = state
  /\ forks' = IF CanEat(k) THEN [forks EXCEPT ![k] = @ + 1] ELSE forks

test(k) ==
  IF CanEat(k)
  THEN /\ state' = [state EXCEPT ![k] = "EATING"]
       /\ forks' = [forks EXCEPT ![k] = @ + 1]
  ELSE UNCHANGED <<state, forks>>

-----------------------------------------------------------------------------
\* think() returns and take_forks(i) enters the critical section.
LockToTake(i) ==
  /\ Goto(i, "thinking", "taking")
  /\ sem_wait_mutex
  /\ UNCHANGED <<started, state, forks>>

BecomeHungry(i) ==
  /\ Goto(i, "taking", "testing")
  /\ state' = [state EXCEPT ![i] = "HUNGRY"]
  /\ UNCHANGED <<started, forks, mutex>>

\* A test retried inside the critical section until it succeeds.
BadTestSelf(i) ==
  /\ Goto(i, "testing", IF CanEat(i) THEN "takeDone" ELSE "testing")
  /\ test(i)
  /\ UNCHANGED <<started, mutex>>

TestSelf(i) ==
  /\ Goto(i, "testing", "takeDone")
  /\ test(i)
  /\ UNCHANGED <<started, mutex>>

UnlockTaken(i) ==
  /\ Goto(i, "takeDone", "waiting")
  /\ sem_post_mutex
  /\ UNCHANGED <<started, state, forks>>

\* sem_wait(&forks[i]); take_forks returns and eat() begins.
WaitForks(i) ==
  /\ Goto(i, "waiting", "eating")
  /\ forks[i] > 0
  /\ forks' = [forks EXCEPT ![i] = @ - 1]
  /\ UNCHANGED <<started, state, mutex>>

\* eat() returns and put_forks(i) enters the critical section.
LockToPut(i) ==
  /\ Goto(i, "eating", "putting")
  /\ sem_wait_mutex
  /\ UNCHANGED <<started, state, forks>>

PutDown(i) ==
  /\ Goto(i, "putting", "testLeft")
  /\ state' = [state EXCEPT ![i] = "THINKING"]
  /\ UNCHANGED <<started, forks, mutex>>

TestLeft(i) ==
  /\ Goto(i, "testLeft", "testRight")
  /\ test(LEFT(i))
  /\ UNCHANGED <<started, mutex>>

BadTestRight(i) ==
  /\ Goto(i, "testRight", "putDone")
  /\ UNCHANGED <<started, state, forks, mutex>>

TestRight(i) ==
  /\ Goto(i, "testRight", "putDone")
  /\ test(RIGHT(i))
  /\ UNCHANGED <<started, mutex>>

UnlockPut(i) ==
  /\ Goto(i, "putDone", "thinking")
  /\ sem_post_mutex
  /\ UNCHANGED <<started, state, forks>>

philosopher(i) ==
  \/ LockToTake(i) \/ BecomeHungry(i) \/ TestSelf(i) \/ UnlockTaken(i)
  \/ WaitForks(i)
  \/ LockToPut(i) \/ PutDown(i) \/ TestLeft(i) \/ TestRight(i) \/ UnlockPut(i)

Next == Create \/ \E i \in Philosophers : philosopher(i)

Spec == Init /\ [][Next]_vars

\* Every thread keeps running: the sleeps are bounded.  Nothing more is
\* assumed of sem_wait: a thread may lose the race for a semaphore forever.
FairSpec ==
  /\ Spec
  /\ WF_vars(Create)
  /\ \A i \in Philosophers : WF_vars(philosopher(i))

-----------------------------------------------------------------------------
(* Properties *)

TypeOK ==
  /\ started \in 0 .. N
  /\ state \in [Philosophers -> States]
  /\ forks \in [Philosophers -> 0 .. 2]
  /\ mutex \in {0, 1}
  /\ pc \in [Philosophers -> PCs]

\* The array state[] never records two neighbours as EATING (the test in
\* test() under the mutex of take_forks and put_forks).
StateExclusion ==
  \A i \in Philosophers : state[i] = "EATING" => state[RIGHT(i)] # "EATING"

\* No two neighbours are inside eat() at once: what acquiring both forks
\* before eat() is for.
EatExclusion ==
  \A i \in Philosophers : pc[i] = "eating" => pc[RIGHT(i)] # "eating"

\* eat() in solution.c keeps the promise of the abstract table; it does so
\* only if the semaphores forks[i] start at 0.
D == INSTANCE Dining WITH eating <- {i \in Philosophers : pc[i] = "eating"}
ImplementsDining == D!Spec

\* When no thread is inside a critical section, every hungry philosopher has
\* an eating neighbour: the tests that put_forks makes of its two neighbours
\* are enough to wake everyone who may eat.
NoMissedTest ==
  mutex = 1 => \A k \in Philosophers : ~CanEat(k)

\* What philosopher i is owed between meals: the value of its semaphore, less
\* the post of a grant it has not used yet, plus the token it used without a
\* grant.
Granted(i)  == state[i] = "EATING" /\ pc[i] \in TakePCs \cup {"waiting"}
Ungranted(i) == state[i] # "EATING" /\ pc[i] \in {"eating", "putting"}
Spare(i) ==
  forks[i] - (IF Granted(i) THEN 1 ELSE 0) + (IF Ungranted(i) THEN 1 ELSE 0)

\* The token balance of every semaphore forks[i]: a philosopher never owns
\* more spare tokens than sem_init gave it, and eats without having been
\* granted its forks only on such a token.
TokenBalance ==
  \A i \in Philosophers :
    /\ Spare(i) \in 0 .. ForkInit
    /\ Ungranted(i) => ForkInit = 1 /\ forks[i] = 0

\* The table never stalls: however the threads are scheduled, somebody ends a
\* meal again and again.  One philosopher may still starve between two others.
SomebodyEats == []<>(\E i \in Philosophers : pc[i] = "putting")
=============================================================================
