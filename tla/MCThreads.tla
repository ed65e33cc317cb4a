----------------------------- MODULE MCThreads ------------------------------
(***************************************************************************)
(* Three programs whose threads share a few numbers, for one TLC run:      *)
(* FatalRace without a lock, SemaphoreBuffer with three semaphores, and    *)
(* ParallelSum with a mutex.  They share nothing with each other, so a     *)
(* behaviour chooses one of them and the others rest in an initial state.  *)
(***************************************************************************)
EXTENDS FatalRace

CONSTANTS
  Slots,                     \* SemaphoreBuffer
  Ends, Modulus, MaxThreads  \* ParallelSum

ASSUME SlotsAssumption == Slots \in Nat \ {0}
ASSUME EndsAssumption == Ends \subseteq Nat
ASSUME ModulusAssumption == Modulus \in Nat \ {0}
ASSUME MaxThreadsAssumption == MaxThreads \in Nat

VARIABLES
  program,  \* the one that runs
  sem, stored, does,
  end, threads, cstart, chunk, step, own, sum, mtx, stage

SB == INSTANCE SemaphoreBuffer WITH N <- Slots, items <- stored, pc <- does
PS == INSTANCE ParallelSum

bufferVars == <<sem, stored, does>>
sumVars    == <<end, threads, cstart, chunk, step, own, sum, mtx, stage>>
allVars    == <<program, vars, bufferVars, sumVars>>

MCInit ==
  /\ program \in {"race", "semaphores", "sum"}
  /\ Init /\ SB!Init /\ PS!Init
  /\ program # "sum" => threads = 0 /\ end = CHOOSE e \in Ends : TRUE

RunsRace       == program = "race" /\ UNCHANGED <<program, bufferVars, sumVars>>
RunsSemaphores == program = "semaphores" /\ UNCHANGED <<program, vars, sumVars>>
RunsSum        == program = "sum" /\ UNCHANGED <<program, vars, bufferVars>>

MCNext ==
  \/ RunsRace /\ Next
  \/ RunsSemaphores /\ SB!Next
  \/ RunsSum /\ PS!Next

\* Of the three only the semaphores' liveness is checked: both their threads
\* keep running, as in SemaphoreBuffer's FairSpec.
MCSpec ==
  /\ MCInit /\ [][MCNext]_allVars
  /\ WF_allVars(RunsSemaphores /\ SB!consumer) /\ WF_allVars(RunsSemaphores /\ SB!producer)

\* The semaphores keep a buffer of Slots slots.
ImplementsBoundedBuffer == SB!ImplementsBoundedBuffer

\* Neither side of it is shut out.
SidesKeepGoing == program = "semaphores" => SB!BothKeepGoing

\* A printed sum is the sum of the whole range.
SumIsWhole == PS!SumIsWhole
=============================================================================
