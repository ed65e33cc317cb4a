---------------------------- MODULE MCDeadlocks -----------------------------
(***************************************************************************)
(* The two programs that can stop in a circular wait, for one TLC run:     *)
(* DiningNaive and LockOrder.  They share nothing, so a behaviour chooses  *)
(* one of them and the other rests in its initial state.                   *)
(*                                                                         *)
(* DiningNaive has its started, forks and pc in the variables of           *)
(* DiningSolution that are called so, and the state and the mutex of the   *)
(* latter rest: what is proved of the two has one home.                    *)
(***************************************************************************)
EXTENDS DiningSolution

VARIABLES
  program,  \* the one that runs
  owner, at, returned

Naive == INSTANCE DiningNaive
LO == INSTANCE LockOrder

solutionVars == <<state, mutex>>
lockVars     == <<owner, at, returned>>
allVars      == <<program, vars, lockVars>>

MCInit ==
  /\ program \in {"dining", "locks"} /\ Naive!Init /\ LO!Init
  /\ state = [i \in Philosophers |-> "THINKING"] /\ mutex = 1

RunsDining == program = "dining" /\ UNCHANGED <<program, solutionVars, lockVars>>
RunsLocks  == program = "locks" /\ UNCHANGED <<program, vars>>

MCNext ==
  \/ RunsDining /\ Naive!Next
  \/ RunsLocks /\ LO!Next

\* Every thread keeps running, as in FairSpec.
MCSpec ==
  /\ MCInit /\ [][MCNext]_allVars
  /\ WF_allVars(RunsDining /\ Naive!Create)
  /\ \A i \in Philosophers : WF_allVars(RunsDining /\ Naive!philosopher(i))
  /\ WF_allVars(RunsLocks /\ LO!main)
  /\ \A t \in LO!Threads : WF_allVars(RunsLocks /\ LO!thread(t))

\* The philosophers of nonsolution.c stop in one way only: everybody holds the
\* fork it took first and waits for its neighbour's.
StuckIsCircularWait == Naive!StuckIsCircularWait

\* eat() in nonsolution.c keeps the promise of the abstract table.
NaiveImplementsDining == Naive!ImplementsDining

\* A circular wait is the only thing that keeps either program from its goal:
\* somebody eats again and again, or everybody waits for a neighbour's fork;
\* both takers of the locks end, or wait for each other.
CircularWaitOrProgress ==
  /\ program = "dining" => Naive!SomebodyEatsOrCircularWait
  /\ program = "locks" => LO!EndsOrCrossed
=============================================================================
