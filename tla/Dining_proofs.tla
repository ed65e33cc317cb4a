--------------------------- MODULE Dining_proofs ---------------------------
(***************************************************************************)
(* Proofs about the two programs of dining_philosophers/ for every number  *)
(* N >= 2 of philosophers.                                                 *)
(*                                                                         *)
(* solution.c: IInv is the inductive invariant: the mutex really makes the *)
(* two critical sections exclusive, each program point fixes what state[i] *)
(* may be, and the semaphores balance.                                     *)
(*                                                                         *)
(* nonsolution.c: fork conservation is inductive together with the types;  *)
(* exclusion and the shape of a stuck state follow from it.  Naive has its *)
(* started, forks and pc in the variables of solution.c that are called    *)
(* so: each theorem is about the behaviours of one of the two.             *)
(***************************************************************************)
EXTENDS MCDeadlocks, TLAPS

-----------------------------------------------------------------------------
(* solution.c *)

InCS(i) == pc[i] \in TakePCs \cup PutPCs

MutexInv ==
  /\ \A i \in Philosophers : InCS(i) => mutex = 0
  /\ \A i, j \in Philosophers : InCS(i) /\ InCS(j) => i = j

\* What the program point of philosopher i says of state[i].
PcState(i) ==
  /\ pc[i] \in {"none", "thinking", "taking", "testLeft", "testRight", "putDone"}
       => state[i] = "THINKING"
  /\ pc[i] = "testing" => state[i] = "HUNGRY"
  /\ pc[i] \in {"takeDone", "waiting", "eating", "putting"} => state[i] # "THINKING"
  /\ i >= started => pc[i] = "none"

\* A philosopher that may eat is the next one a thread in its critical
\* section is about to test.
AboutToTest(k) ==
  \/ pc[k] = "testing"
  \/ \E j \in Philosophers :
       \/ pc[j] = "testLeft" /\ k \in {LEFT(j), RIGHT(j)}
       \/ pc[j] = "testRight" /\ k = RIGHT(j)

PendingTests == \A k \in Philosophers : CanEat(k) => AboutToTest(k)

IInv ==
  /\ TypeOK
  /\ MutexInv
  /\ \A i \in Philosophers : PcState(i)
  /\ StateExclusion
  /\ TokenBalance

-----------------------------------------------------------------------------
\* The ring: neighbours are philosophers, and each is the other's neighbour.
LEMMA Ring ==
  \A i \in Philosophers :
    /\ LEFT(i) \in Philosophers /\ RIGHT(i) \in Philosophers
    /\ LEFT(RIGHT(i)) = i /\ RIGHT(LEFT(i)) = i
    /\ LEFT(i) # i /\ RIGHT(i) # i
BY NAssumption DEF Philosophers, LEFT, RIGHT

\* The initial state of solution.c satisfies the inductive invariant.
LEMMA InitIInv == Init => IInv
BY NAssumption, ForkInitAssumption, Ring
   DEF Init, IInv, TypeOK, MutexInv, InCS, PcState, StateExclusion, TokenBalance,
       Spare, Granted, Ungranted, Philosophers, States, PCs, TakePCs, PutPCs

\* test(k), run by a thread inside its critical section, keeps state[] free of
\* neighbours that both eat, and posts forks[k] exactly when it grants.
LEMMA TestKeeps ==
  ASSUME IInv, NEW i \in Philosophers, NEW k \in Philosophers,
         NEW from \in {"testing", "testLeft", "testRight"},
         NEW to \in {"takeDone", "testRight", "putDone"},
         Goto(i, from, to), test(k),
         from = "testing" => k = i /\ to = "takeDone",
         from # "testing" => k # i /\ to # "takeDone",
         UNCHANGED <<started, mutex>>
  PROVE  IInv'
<1> USE DEF Goto, test, PCs, TakePCs, PutPCs, States
<1>1. /\ state \in [Philosophers -> States] /\ forks \in [Philosophers -> 0 .. 2]
      /\ pc \in [Philosophers -> PCs] /\ InCS(i) /\ i \in Philosophers
  BY DEF IInv, TypeOK, InCS
<1>2. /\ pc' \in [Philosophers -> PCs] /\ pc'[i] = to
      /\ \A j \in Philosophers : j # i => pc'[j] = pc[j] /\ (InCS(j) <=> InCS(j)')
      /\ InCS(i)'
  BY <1>1 DEF InCS
<1>3. MutexInv'
  BY <1>1, <1>2 DEF IInv, MutexInv
<1>4. \A j \in Philosophers \ {i} : ~InCS(j)
  BY <1>1 DEF IInv, MutexInv
<1>5. CASE CanEat(k)
  <2>1. /\ state' = [state EXCEPT ![k] = "EATING"]
        /\ forks' = [forks EXCEPT ![k] = @ + 1]
        /\ state[k] = "HUNGRY"
    BY <1>5 DEF CanEat
  <2>2. pc[k] \in {"testing", "waiting", "eating"} /\ PcState(k) /\ (pc[k] = "testing" => k = i)
    BY <2>1, <1>1, <1>4 DEF IInv, PcState, InCS
  <2>3. Spare(k) \in 0 .. ForkInit /\ Spare(k)' = Spare(k) /\ ~Ungranted(k)'
        /\ forks'[k] \in 0 .. 2
    <3>1. forks[k] \in 0 .. 2 /\ forks'[k] = forks[k] + 1 /\ state'[k] = "EATING"
      BY <2>1, <1>1
    <3>2. Spare(k) \in 0 .. ForkInit /\ (Ungranted(k) => ForkInit = 1 /\ forks[k] = 0)
      BY DEF IInv, TokenBalance
    <3>3. pc'[k] \in {"takeDone", "waiting", "eating"} /\ (pc'[k] = "eating" <=> pc[k] = "eating")
      BY <2>2, <1>1, <1>2
    <3>4. ~Ungranted(k)' /\ (Granted(k)' <=> pc[k] # "eating")
      BY <3>1, <3>3 DEF Ungranted, Granted
    <3>5. ~Granted(k) /\ (Ungranted(k) <=> pc[k] = "eating")
      BY <2>1, <2>2 DEF Ungranted, Granted
    <3>6. Spare(k) = forks[k] + (IF pc[k] = "eating" THEN 1 ELSE 0)
      BY <3>5, <3>1 DEF Spare
    <3>7. Spare(k)' = forks'[k] - (IF pc[k] # "eating" THEN 1 ELSE 0)
      BY <3>4, <3>1 DEF Spare
    <3>8. QED BY <3>1, <3>2, <3>4, <3>5, <3>6, <3>7, ForkInitAssumption
  <2>4. \A j \in Philosophers \ {k} :
           /\ state'[j] = state[j] /\ forks'[j] = forks[j]
           /\ (Granted(j) <=> Granted(j)') /\ (Ungranted(j) <=> Ungranted(j)')
    <3> SUFFICES ASSUME NEW j \in Philosophers \ {k}
                 PROVE  /\ state'[j] = state[j] /\ forks'[j] = forks[j]
                        /\ (Granted(j) <=> Granted(j)') /\ (Ungranted(j) <=> Ungranted(j)')
      OBVIOUS
    <3>1. state'[j] = state[j] /\ forks'[j] = forks[j]
      BY <2>1, <1>1
    <3>2. CASE j # i
      BY <3>1, <3>2, <1>2 DEF Granted, Ungranted
    <3>3. CASE j = i
      <4>1. from # "testing" /\ state[j] = "THINKING"
        BY <3>3, <1>1 DEF IInv, PcState
      <4>2. QED BY <3>1, <4>1, <3>3, <1>1, <1>2 DEF Granted, Ungranted
    <3>4. QED BY <3>2, <3>3
  <2>5. TokenBalance'
    <3> SUFFICES ASSUME NEW j \in Philosophers
                 PROVE  /\ Spare(j)' \in 0 .. ForkInit
                        /\ Ungranted(j)' => ForkInit = 1 /\ forks'[j] = 0
      BY DEF TokenBalance
    <3>1. CASE j = k
      BY <3>1, <2>3
    <3>2. CASE j # k
      BY <3>2, <2>4 DEF IInv, TokenBalance, Spare
    <3>3. QED BY <3>1, <3>2
  <2>6. StateExclusion'
    <3> SUFFICES ASSUME NEW j \in Philosophers, state'[j] = "EATING"
                 PROVE  state'[RIGHT(j)] # "EATING"
      BY DEF StateExclusion
    <3>1. RIGHT(j) \in Philosophers /\ RIGHT(j) # j /\ LEFT(RIGHT(j)) = j
      BY Ring
    <3>2. state[LEFT(k)] # "EATING" /\ state[RIGHT(k)] # "EATING"
      BY <1>5 DEF CanEat
    <3>3. CASE j = k
      BY <3>1, <3>2, <3>3, <2>4
    <3>4. CASE j # k
      BY <3>1, <3>2, <3>4, <2>4 DEF IInv, StateExclusion
    <3>5. QED BY <3>3, <3>4
  <2>7. \A j \in Philosophers : PcState(j)'
    <3> SUFFICES ASSUME NEW j \in Philosophers PROVE PcState(j)'
      OBVIOUS
    <3>1. PcState(j)
      BY DEF IInv
    <3>2. CASE j = k
      <4>1. state'[j] = "EATING" /\ pc'[j] \in {"takeDone", "waiting", "eating"}
        BY <2>1, <2>2, <1>1, <1>2, <3>2
      <4>2. QED BY <4>1, <3>1, <2>2, <3>2 DEF PcState
    <3>3. CASE j # k /\ j # i
      BY <3>1, <3>3, <2>4, <1>2 DEF PcState
    <3>4. CASE j # k /\ j = i
      BY <3>1, <3>4, <2>4, <1>2 DEF PcState
    <3>5. QED BY <3>2, <3>3, <3>4
  <2>8. TypeOK'
    BY <1>1, <1>2, <2>1, <2>3 DEF IInv, TypeOK
  <2>9. QED BY <1>3, <2>5, <2>6, <2>7, <2>8 DEF IInv
<1>6. CASE ~CanEat(k)
  <2>1. UNCHANGED <<state, forks>>
    BY <1>6
  <2>2. \A j \in Philosophers : (Granted(j) <=> Granted(j)') /\ (Ungranted(j) <=> Ungranted(j)')
    BY <2>1, <1>1, <1>2 DEF Granted, Ungranted
  <2>3. \A j \in Philosophers : PcState(j)'
    <3>1. from = "testing" => state[i] = "HUNGRY"
      BY DEF IInv, PcState
    <3>2. from # "testing" => state[i] = "THINKING"
      BY DEF IInv, PcState
    <3>3. QED BY <3>1, <3>2, <2>1, <1>2 DEF IInv, PcState
  <2>4. TypeOK' /\ StateExclusion' /\ TokenBalance'
    BY <2>1, <2>2, <1>2 DEF IInv, TypeOK, StateExclusion, TokenBalance, Spare
  <2>5. QED BY <1>3, <2>3, <2>4 DEF IInv
<1>7. QED BY <1>5, <1>6

\* A step that leaves state[] and forks[] alone and moves one thread between
\* program points that say the same of both keeps the token balance.
LEMMA QuietStep ==
  ASSUME IInv, UNCHANGED <<state, forks>>, pc' \in [Philosophers -> PCs],
         \A j \in Philosophers : (Granted(j) <=> Granted(j)') /\ (Ungranted(j) <=> Ungranted(j)')
  PROVE  StateExclusion' /\ TokenBalance'
BY DEF IInv, StateExclusion, TokenBalance, Spare

\* A step that changes state[i] alone, to something other than EATING.
LEMMA OwnStateStep ==
  ASSUME IInv, NEW i \in Philosophers, NEW v \in {"THINKING", "HUNGRY"},
         state' = [state EXCEPT ![i] = v], UNCHANGED forks,
         pc' \in [Philosophers -> PCs],
         \A j \in Philosophers \ {i} : pc'[j] = pc[j],
         Spare(i)' \in 0 .. ForkInit, ~Ungranted(i)'
  PROVE  StateExclusion' /\ TokenBalance'
<1>1. state \in [Philosophers -> States]
  BY DEF IInv, TypeOK
<1>2. \A j \in Philosophers \ {i} : state'[j] = state[j] /\ state'[i] = v
  BY <1>1
<1>3. \A j \in Philosophers \ {i} :
         (Granted(j) <=> Granted(j)') /\ (Ungranted(j) <=> Ungranted(j)')
  BY <1>2 DEF Granted, Ungranted
<1>4. \A j \in Philosophers \ {i} : Spare(j)' = Spare(j)
  BY <1>3 DEF Spare
<1>5. StateExclusion'
  BY <1>2, Ring DEF IInv, StateExclusion
<1>6. TokenBalance'
  BY <1>3, <1>4 DEF IInv, TokenBalance
<1>7. QED BY <1>5, <1>6

\* Every step of solution.c preserves the inductive invariant.
LEMMA NextIInv == IInv /\ [Next]_vars => IInv'
<1> USE DEF Goto, PCs, TakePCs, PutPCs
<1> SUFFICES ASSUME IInv, [Next]_vars PROVE IInv'
  OBVIOUS
<1>0. /\ started \in 0 .. N
      /\ state \in [Philosophers -> States] /\ forks \in [Philosophers -> 0 .. 2]
      /\ mutex \in {0, 1} /\ pc \in [Philosophers -> PCs]
      /\ MutexInv
      /\ \A j \in Philosophers : PcState(j)
      /\ \A j \in Philosophers : Spare(j) \in 0 .. ForkInit
                                 /\ (Ungranted(j) => ForkInit = 1 /\ forks[j] = 0)
  BY DEF IInv, TypeOK, TokenBalance
<1>1. CASE Create
  <2>1. /\ started \in Philosophers /\ started < N
        /\ pc[started] = "none" /\ pc' = [pc EXCEPT ![started] = "thinking"]
        /\ state' = [state EXCEPT ![started] = "THINKING"]
        /\ state[started] = "THINKING" /\ started' = started + 1
        /\ UNCHANGED <<forks, mutex>>
    BY <1>1, <1>0, NAssumption DEF Create, Philosophers, PcState
  <2>2. state' = state
    BY <2>1, <1>0
  <2>3. \A j \in Philosophers : (Granted(j) <=> Granted(j)') /\ (Ungranted(j) <=> Ungranted(j)')
    BY <2>1, <2>2, <1>0 DEF Granted, Ungranted
  <2>4. StateExclusion' /\ TokenBalance'
    BY <2>1, <2>2, <2>3, <1>0, QuietStep
  <2>5. TypeOK'
    BY <2>1, <2>2, <1>0, NAssumption DEF TypeOK
  <2>6. MutexInv'
    BY <2>1, <1>0 DEF MutexInv, InCS
  <2>7. \A j \in Philosophers : PcState(j)'
    BY <2>1, <2>2, <1>0 DEF PcState, Philosophers
  <2>8. QED BY <2>4, <2>5, <2>6, <2>7 DEF IInv
<1>2. ASSUME NEW i \in Philosophers, philosopher(i) PROVE IInv'
  <2>1. CASE LockToTake(i)
    <3>1. /\ pc[i] = "thinking" /\ pc' = [pc EXCEPT ![i] = "taking"]
          /\ mutex = 1 /\ mutex' = 0 /\ UNCHANGED <<started, state, forks>>
      BY <2>1, <1>0 DEF LockToTake, sem_wait_mutex
    <3>2. \A j \in Philosophers : (Granted(j) <=> Granted(j)') /\ (Ungranted(j) <=> Ungranted(j)')
      BY <3>1, <1>0 DEF Granted, Ungranted, PcState
    <3>3. StateExclusion' /\ TokenBalance'
      BY <3>1, <3>2, <1>0, QuietStep
    <3>4. TypeOK' /\ MutexInv' /\ \A j \in Philosophers : PcState(j)'
      BY <3>1, <1>0 DEF TypeOK, MutexInv, InCS, PcState
    <3>5. QED BY <3>3, <3>4 DEF IInv
  <2>2. CASE BecomeHungry(i)
    <3>1. /\ pc[i] = "taking" /\ pc' = [pc EXCEPT ![i] = "testing"]
          /\ state' = [state EXCEPT ![i] = "HUNGRY"] /\ UNCHANGED <<started, forks, mutex>>
      BY <2>2 DEF BecomeHungry
    <3>2. Spare(i)' = Spare(i) /\ ~Ungranted(i)'
      BY <3>1, <1>0 DEF Spare, Granted, Ungranted, PcState
    <3>3. StateExclusion' /\ TokenBalance'
      BY <3>1, <3>2, <1>0, OwnStateStep
    <3>4. TypeOK' /\ MutexInv' /\ \A j \in Philosophers : PcState(j)'
      BY <3>1, <1>0 DEF TypeOK, MutexInv, InCS, PcState, States
    <3>5. QED BY <3>3, <3>4 DEF IInv
  <2>3. CASE TestSelf(i)
    BY <2>3, TestKeeps DEF TestSelf
  <2>4. CASE UnlockTaken(i)
    <3>1. /\ pc[i] = "takeDone" /\ pc' = [pc EXCEPT ![i] = "waiting"]
          /\ mutex' = mutex + 1 /\ UNCHANGED <<started, state, forks>>
      BY <2>4 DEF UnlockTaken, sem_post_mutex
    <3>2. mutex = 0 /\ \A j \in Philosophers \ {i} : ~InCS(j)
      BY <3>1, <1>0 DEF MutexInv, InCS
    <3>3. \A j \in Philosophers : (Granted(j) <=> Granted(j)') /\ (Ungranted(j) <=> Ungranted(j)')
      BY <3>1, <1>0 DEF Granted, Ungranted
    <3>4. StateExclusion' /\ TokenBalance'
      BY <3>1, <3>3, <1>0, QuietStep
    <3>5. TypeOK' /\ MutexInv' /\ \A j \in Philosophers : PcState(j)'
      BY <3>1, <3>2, <1>0 DEF TypeOK, MutexInv, InCS, PcState
    <3>6. QED BY <3>4, <3>5 DEF IInv
  <2>5. CASE WaitForks(i)
    <3>1. /\ pc[i] = "waiting" /\ pc' = [pc EXCEPT ![i] = "eating"]
          /\ forks[i] > 0 /\ forks' = [forks EXCEPT ![i] = @ - 1]
          /\ UNCHANGED <<started, state, mutex>>
      BY <2>5 DEF WaitForks
    <3>2. \A j \in Philosophers \ {i} :
             pc'[j] = pc[j] /\ forks'[j] = forks[j] /\ Spare(j)' = Spare(j)
             /\ (Ungranted(j) <=> Ungranted(j)')
      BY <3>1, <1>0 DEF Spare, Granted, Ungranted
    <3>3. Spare(i)' = Spare(i) /\ (Ungranted(i)' => ForkInit = 1 /\ forks'[i] = 0)
      BY <3>1, <1>0, ForkInitAssumption DEF Spare, Granted, Ungranted
    <3>4. TokenBalance'
      BY <3>2, <3>3, <1>0 DEF TokenBalance
    <3>5. TypeOK' /\ MutexInv' /\ StateExclusion' /\ \A j \in Philosophers : PcState(j)'
      BY <3>1, <1>0 DEF IInv, TypeOK, MutexInv, InCS, PcState, StateExclusion
    <3>6. QED BY <3>4, <3>5 DEF IInv
  <2>6. CASE LockToPut(i)
    <3>1. /\ pc[i] = "eating" /\ pc' = [pc EXCEPT ![i] = "putting"]
          /\ mutex = 1 /\ mutex' = 0 /\ UNCHANGED <<started, state, forks>>
      BY <2>6, <1>0 DEF LockToPut, sem_wait_mutex
    <3>2. \A j \in Philosophers : (Granted(j) <=> Granted(j)') /\ (Ungranted(j) <=> Ungranted(j)')
      BY <3>1, <1>0 DEF Granted, Ungranted
    <3>3. StateExclusion' /\ TokenBalance'
      BY <3>1, <3>2, <1>0, QuietStep
    <3>4. TypeOK' /\ MutexInv' /\ \A j \in Philosophers : PcState(j)'
      BY <3>1, <1>0 DEF TypeOK, MutexInv, InCS, PcState
    <3>5. QED BY <3>3, <3>4 DEF IInv
  <2>7. CASE PutDown(i)
    <3>1. /\ pc[i] = "putting" /\ pc' = [pc EXCEPT ![i] = "testLeft"]
          /\ state' = [state EXCEPT ![i] = "THINKING"] /\ UNCHANGED <<started, forks, mutex>>
      BY <2>7 DEF PutDown
    <3>2. Spare(i) = forks[i] + (IF state[i] # "EATING" THEN 1 ELSE 0)
      BY <3>1, <1>0 DEF Spare, Granted, Ungranted
    <3>3. Spare(i)' = forks[i] /\ ~Ungranted(i)'
      BY <3>1, <1>0 DEF Spare, Granted, Ungranted
    <3>4. Spare(i)' \in 0 .. ForkInit
      BY <3>2, <3>3, <1>0, ForkInitAssumption
    <3>5. StateExclusion' /\ TokenBalance'
      BY <3>1, <3>3, <3>4, <1>0, OwnStateStep
    <3>6. TypeOK' /\ MutexInv' /\ \A j \in Philosophers : PcState(j)'
      BY <3>1, <1>0 DEF TypeOK, MutexInv, InCS, PcState, States
    <3>7. QED BY <3>5, <3>6 DEF IInv
  <2>8. CASE TestLeft(i)
    BY <2>8, TestKeeps, Ring DEF TestLeft
  <2>9. CASE TestRight(i)
    BY <2>9, TestKeeps, Ring DEF TestRight
  <2>10. CASE UnlockPut(i)
    <3>1. /\ pc[i] = "putDone" /\ pc' = [pc EXCEPT ![i] = "thinking"]
          /\ mutex' = mutex + 1 /\ UNCHANGED <<started, state, forks>>
      BY <2>10 DEF UnlockPut, sem_post_mutex
    <3>2. mutex = 0 /\ \A j \in Philosophers \ {i} : ~InCS(j)
      BY <3>1, <1>0 DEF MutexInv, InCS
    <3>3. \A j \in Philosophers : (Granted(j) <=> Granted(j)') /\ (Ungranted(j) <=> Ungranted(j)')
      BY <3>1, <1>0 DEF Granted, Ungranted
    <3>4. StateExclusion' /\ TokenBalance'
      BY <3>1, <3>3, <1>0, QuietStep
    <3>5. TypeOK' /\ MutexInv' /\ \A j \in Philosophers : PcState(j)'
      BY <3>1, <3>2, <1>0 DEF TypeOK, MutexInv, InCS, PcState
    <3>6. QED BY <3>4, <3>5 DEF IInv
  <2>11. QED
    BY <1>2, <2>1, <2>2, <2>3, <2>4, <2>5, <2>6, <2>7, <2>8, <2>9, <2>10 DEF philosopher
<1>3. CASE UNCHANGED vars
  BY <1>3 DEF vars, IInv, TypeOK, MutexInv, InCS, PcState, StateExclusion, TokenBalance,
              Spare, Granted, Ungranted
<1>4. QED BY <1>1, <1>2, <1>3 DEF Next

\* IInv holds in every reachable state of solution.c.
LEMMA Invariance == Spec => []IInv
BY InitIInv, NextIInv, PTL DEF Spec

-----------------------------------------------------------------------------
\* Type correctness of solution.c: in particular no semaphore forks[i] ever
\* exceeds 2 and mutex stays binary.
THEOREM TypeCorrect == Spec => []TypeOK
<1>1. IInv => TypeOK
  BY DEF IInv
<1>2. QED BY <1>1, Invariance, PTL

\* state[] never records two neighbours as EATING, for any N.
THEOREM NeighboursNotBothGranted == Spec => []StateExclusion
<1>1. IInv => StateExclusion
  BY DEF IInv
<1>2. QED BY <1>1, Invariance, PTL

\* The semaphores forks[i] balance, for any N: an ungranted meal uses up the
\* token that sem_init(&forks[i], 0, 1) created.
THEOREM TokensBalance == Spec => []TokenBalance
<1>1. IInv => TokenBalance
  BY DEF IInv
<1>2. QED BY <1>1, Invariance, PTL

\* Only test() and put_forks change who may eat, and whoever lets a neighbour
\* eat is about to test it.
LEMMA NextPending == IInv /\ PendingTests /\ [Next]_vars => PendingTests'
<1> USE DEF Goto, PCs, TakePCs, PutPCs
<1> SUFFICES ASSUME IInv, PendingTests, [Next]_vars, NEW k \in Philosophers, CanEat(k)'
             PROVE  AboutToTest(k)'
  BY DEF PendingTests
<1>0. /\ state \in [Philosophers -> States] /\ pc \in [Philosophers -> PCs]
      /\ \A i, j \in Philosophers : InCS(i) /\ InCS(j) => i = j
      /\ CanEat(k) => AboutToTest(k)
      /\ LEFT(k) \in Philosophers /\ RIGHT(k) \in Philosophers
      /\ LEFT(k) # k /\ RIGHT(k) # k
  BY Ring DEF IInv, TypeOK, MutexInv, PendingTests
<1>1. CASE Create
  <2>1. started \in Philosophers /\ state[started] = "THINKING"
    BY <1>1, NAssumption DEF Create, IInv, TypeOK, PcState, Philosophers
  <2>2. state' = state
    BY <2>1, <1>1, <1>0 DEF Create
  <2>3. AboutToTest(k)
    BY <2>2, <1>0 DEF CanEat
  <2>4. QED BY <2>1, <2>3, <1>1, <1>0 DEF Create, AboutToTest
<1>2. ASSUME NEW i \in Philosophers, philosopher(i) PROVE AboutToTest(k)'
  <2>1. CASE BecomeHungry(i)
    BY <2>1, <1>0 DEF BecomeHungry, CanEat, AboutToTest, InCS, IInv, PcState
  <2>2. CASE PutDown(i)
    <3>1. /\ pc'[i] = "testLeft" /\ ~AboutToTest(k)
          /\ \A j \in Philosophers \ {i} : state'[j] = state[j]
      BY <2>2, <1>0 DEF PutDown, AboutToTest, InCS
    <3>2. k # i /\ i \in {LEFT(k), RIGHT(k)}
      BY <2>2, <3>1, <1>0 DEF PutDown, CanEat
    <3>3. k \in {LEFT(i), RIGHT(i)}
      BY <3>2, Ring
    <3>4. QED BY <3>1, <3>3 DEF AboutToTest
  <2>3. ASSUME NEW t \in Philosophers, test(t), InCS(i),
               pc' = [pc EXCEPT ![i] = pc'[i]]
        PROVE  k # t /\ CanEat(k) /\ AboutToTest(k)
    BY <2>3, <1>0 DEF test, CanEat
  <2>4. CASE TestSelf(i)
    <3>1. k # i /\ AboutToTest(k)
      BY <2>3, <2>4, <1>0 DEF TestSelf, InCS
    <3>2. QED BY <3>1, <2>4, <1>0 DEF TestSelf, AboutToTest, InCS
  <2>5. CASE TestLeft(i)
    <3>1. k # LEFT(i) /\ AboutToTest(k)
      BY <2>3, <2>5, <1>0, Ring DEF TestLeft, InCS
    <3>2. QED BY <3>1, <2>5, <1>0 DEF TestLeft, AboutToTest, InCS
  <2>6. CASE TestRight(i)
    <3>1. k # RIGHT(i) /\ AboutToTest(k)
      BY <2>3, <2>6, <1>0, Ring DEF TestRight, InCS
    <3>2. QED BY <3>1, <2>6, <1>0 DEF TestRight, AboutToTest, InCS
  <2>7. CASE LockToTake(i) \/ UnlockTaken(i) \/ WaitForks(i) \/ LockToPut(i) \/ UnlockPut(i)
    BY <2>7, <1>0 DEF LockToTake, UnlockTaken, WaitForks, LockToPut, UnlockPut,
                      CanEat, AboutToTest, InCS
  <2>8. QED BY <1>2, <2>1, <2>2, <2>4, <2>5, <2>6, <2>7 DEF philosopher
<1>3. CASE UNCHANGED vars
  BY <1>0, <1>3 DEF vars, CanEat, AboutToTest
<1>4. QED BY <1>1, <1>2, <1>3 DEF Next

\* No wakeup is missed: while the mutex is free nobody who may eat is left
\* hungry, for any N.
THEOREM NoWakeupMissed == Spec => []NoMissedTest
<1>1. Init => PendingTests
  BY Ring DEF Init, PendingTests, CanEat
<1>2. IInv /\ PendingTests => NoMissedTest
  BY DEF IInv, MutexInv, PendingTests, AboutToTest, NoMissedTest, InCS, TakePCs, PutPCs
<1>3. QED BY <1>1, <1>2, NextPending, Invariance, PTL DEF Spec

\* The initial value of forks[] is the only thing wrong with solution.c: had
\* sem_init given 0, no two neighbours would ever be in eat() together.
THEOREM EatExclusionIfForksStartAtZero == ForkInit = 0 => (Spec => []EatExclusion)
<1>1. ForkInit = 0 /\ IInv => EatExclusion
  <2> SUFFICES ASSUME ForkInit = 0, IInv, NEW i \in Philosophers,
                      pc[i] = "eating", pc[RIGHT(i)] = "eating"
               PROVE  FALSE
    BY DEF EatExclusion
  <2>1. \A j \in Philosophers : pc[j] = "eating" => state[j] = "EATING"
    BY DEF IInv, TokenBalance, Ungranted
  <2>2. QED BY <2>1, Ring DEF IInv, StateExclusion
<1>2. SUFFICES ASSUME ForkInit = 0 PROVE Spec => []EatExclusion
  OBVIOUS
<1>3. IInv => EatExclusion
  BY <1>1, <1>2
<1>4. QED BY <1>3, Invariance, PTL
\* With semaphores that start at 0, every step of solution.c starts or stops
\* one meal of the abstract table, next to no other, or leaves it as it is.
THEOREM SolutionImplementsDiningIfForksStartAtZero == ForkInit = 0 => (Spec => ImplementsDining)
<1> SUFFICES ASSUME ForkInit = 0 PROVE Spec => ImplementsDining
  OBVIOUS
<1> DEFINE eaters == {i \in Philosophers : pc[i] = "eating"}
<1> USE DEF Goto
<1>1. Init => D!Init
  BY DEF Init, D!Init
<1>2. IInv /\ [Next]_vars => [D!Next]_eaters
  <2> SUFFICES ASSUME IInv, [Next]_vars PROVE D!Next \/ UNCHANGED eaters
    OBVIOUS
  <2>0. pc \in [Philosophers -> PCs] /\ IInv'
    BY NextIInv DEF IInv, TypeOK
  <2>1. CASE Create
    BY <2>0, <2>1 DEF Create
  <2>2. ASSUME NEW i \in Philosophers, philosopher(i) PROVE D!Next \/ UNCHANGED eaters
    <3>1. CASE WaitForks(i)
      <4>1. eaters' = eaters \cup {i} /\ i \notin eaters /\ state' = state
        BY <2>0, <3>1 DEF WaitForks
      <4>2. i \in eaters' /\ \A j \in eaters' : state[j] = "EATING"
        <5>1. \A j \in Philosophers : pc'[j] = "eating" => state'[j] = "EATING"
          BY <2>0 DEF IInv, TokenBalance, Ungranted
        <5>2. QED BY <5>1, <4>1
      <4>3. state[RIGHT(i)] # "EATING" /\ state[LEFT(i)] # "EATING"
        BY <4>2, Ring DEF IInv, StateExclusion
      <4>4. RIGHT(i) \notin eaters /\ LEFT(i) \notin eaters
        BY <4>1, <4>2, <4>3
      <4>5. D!Neighbours(i) = {LEFT(i), RIGHT(i)}
        <5>1. (i + 1) % N = RIGHT(i) /\ (i - 1) % N = LEFT(i)
          BY NAssumption DEF Philosophers, RIGHT, LEFT
        <5>2. QED BY <5>1, Ring DEF D!Neighbours
      <4>6. D!Start(i)
        BY <4>1, <4>4, <4>5 DEF D!Start
      <4>7. QED BY <4>6 DEF D!Next, D!Philosophers, Philosophers
    <3>2. CASE LockToPut(i)
      <4>1. D!Stop(i)
        BY <2>0, <3>2 DEF LockToPut, D!Stop
      <4>2. QED BY <4>1 DEF D!Next, D!Philosophers, Philosophers
    <3>3. CASE LockToTake(i) \/ BecomeHungry(i) \/ TestSelf(i) \/ UnlockTaken(i)
      BY <2>0, <3>3 DEF LockToTake, BecomeHungry, TestSelf, UnlockTaken
    <3>4. CASE PutDown(i) \/ TestLeft(i) \/ TestRight(i) \/ UnlockPut(i)
      BY <2>0, <3>4 DEF PutDown, TestLeft, TestRight, UnlockPut
    <3>5. QED BY <2>2, <3>1, <3>2, <3>3, <3>4 DEF philosopher
  <2>3. CASE UNCHANGED vars
    BY <2>3 DEF vars
  <2>4. QED BY <2>1, <2>2, <2>3 DEF Next
<1>3. QED BY <1>1, <1>2, Invariance, PTL DEF Spec, ImplementsDining, D!Spec

-----------------------------------------------------------------------------
(* nonsolution.c *)

NaiveInv == Naive!TypeOK /\ Naive!ForkConservation

\* The ring: neighbours are philosophers, and each is the other's neighbour.
LEMMA NaiveRing ==
  \A i \in Naive!Philosophers :
    /\ Naive!LEFT(i) \in Naive!Philosophers /\ Naive!RIGHT(i) \in Naive!Philosophers
    /\ Naive!LEFT(Naive!RIGHT(i)) = i /\ Naive!RIGHT(Naive!LEFT(i)) = i
    /\ Naive!LEFT(i) # i /\ Naive!RIGHT(i) # i
BY NAssumption DEF Naive!Philosophers, Naive!LEFT, Naive!RIGHT

\* All forks are on the table before main creates the first thread.
LEMMA NaiveInitInv == Naive!Init => NaiveInv
BY NAssumption, NaiveRing
   DEF Naive!Init, NaiveInv, Naive!TypeOK, Naive!ForkConservation, Naive!HasFirst,
       Naive!HasSecond, Naive!Philosophers, Naive!PCs

\* Every step of nonsolution.c keeps every fork in one place.
LEMMA NaiveNextInv == NaiveInv /\ [Naive!Next]_(Naive!vars) => NaiveInv'
<1> USE DEF Naive!Goto, Naive!PCs
<1> SUFFICES ASSUME NaiveInv, [Naive!Next]_(Naive!vars) PROVE NaiveInv'
  OBVIOUS
<1>0. /\ started \in 0 .. N
      /\ forks \in [Naive!Philosophers -> {0, 1}]
      /\ pc \in [Naive!Philosophers -> Naive!PCs]
      /\ \A f \in Naive!Philosophers :
           /\ forks[f] = 0 <=> Naive!HasFirst(f) \/ Naive!HasSecond(Naive!LEFT(f))
           /\ ~(Naive!HasFirst(f) /\ Naive!HasSecond(Naive!LEFT(f)))
  BY DEF NaiveInv, Naive!TypeOK, Naive!ForkConservation
<1>1. CASE Naive!Create
  <2>1. started \in Naive!Philosophers
    BY <1>1, <1>0, NAssumption DEF Naive!Create, Naive!Philosophers
  <2>2. /\ pc[started] = "none" /\ pc' = [pc EXCEPT ![started] = "thinking"]
        /\ started' = started + 1 /\ forks' = forks
    BY <1>1 DEF Naive!Create
  <2>3. /\ \A i \in Naive!Philosophers : Naive!HasFirst(i) <=> Naive!HasFirst(i)'
        /\ \A i \in Naive!Philosophers : Naive!HasSecond(i) <=> Naive!HasSecond(i)'
    BY <2>1, <2>2, <1>0 DEF Naive!HasFirst, Naive!HasSecond
  <2>4. Naive!ForkConservation'
    BY <2>2, <2>3, <1>0, NaiveRing DEF Naive!ForkConservation
  <2>5. Naive!TypeOK'
    BY <2>1, <2>2, <1>0, NAssumption DEF Naive!TypeOK, Naive!Philosophers
  <2>6. QED BY <2>4, <2>5 DEF NaiveInv
<1>2. ASSUME NEW i \in Naive!Philosophers, Naive!philosopher(i) PROVE NaiveInv'
  <2>0. \A f \in Naive!Philosophers : Naive!LEFT(f) = i <=> f = Naive!RIGHT(i)
    BY NaiveRing
  <2>1. CASE Naive!TakeFirst(i)
    BY <2>0, <2>1, <1>0, NaiveRing
       DEF Naive!TakeFirst, Naive!take_fork, NaiveInv, Naive!TypeOK,
           Naive!ForkConservation, Naive!HasFirst, Naive!HasSecond
  <2>2. CASE Naive!TakeSecond(i)
    BY <2>0, <2>2, <1>0, NaiveRing
       DEF Naive!TakeSecond, Naive!take_fork, NaiveInv, Naive!TypeOK,
           Naive!ForkConservation, Naive!HasFirst, Naive!HasSecond
  <2>3. CASE Naive!PutFirst(i)
    BY <2>0, <2>3, <1>0, NaiveRing
       DEF Naive!PutFirst, Naive!put_fork, NaiveInv, Naive!TypeOK,
           Naive!ForkConservation, Naive!HasFirst, Naive!HasSecond
  <2>4. CASE Naive!PutSecond(i)
    BY <2>0, <2>4, <1>0, NaiveRing
       DEF Naive!PutSecond, Naive!put_fork, NaiveInv, Naive!TypeOK,
           Naive!ForkConservation, Naive!HasFirst, Naive!HasSecond
  <2>5. QED BY <1>2, <2>1, <2>2, <2>3, <2>4 DEF Naive!philosopher
<1>3. CASE UNCHANGED Naive!vars
  BY <1>0, <1>3
     DEF Naive!vars, NaiveInv, Naive!TypeOK, Naive!ForkConservation, Naive!HasFirst,
         Naive!HasSecond
<1>4. QED BY <1>1, <1>2, <1>3 DEF Naive!Next

\* NaiveInv holds in every reachable state of nonsolution.c.
LEMMA NaiveInvariance == Naive!Spec => []NaiveInv
BY NaiveInitInv, NaiveNextInv, PTL DEF Naive!Spec

-----------------------------------------------------------------------------
\* No fork of nonsolution.c is ever lost, duplicated or in two hands, for any N.
THEOREM ForksConserved == Naive!Spec => []Naive!ForkConservation
<1>1. NaiveInv => Naive!ForkConservation
  BY DEF NaiveInv
<1>2. QED BY <1>1, NaiveInvariance, PTL

\* For any N, a state in which no philosopher of nonsolution.c can take its
\* next step is the circular wait.
THEOREM StuckOnlyInCircularWait == Naive!Spec => []StuckIsCircularWait
<1>1. NaiveInv => StuckIsCircularWait
  <2> SUFFICES ASSUME NaiveInv, \A i \in Naive!Philosophers : Naive!Blocked(i),
                      NEW i \in Naive!Philosophers, pc[i] = "thinking", forks[i] = 0
               PROVE  FALSE
    BY DEF StuckIsCircularWait, Naive!StuckIsCircularWait, Naive!CircularWait, Naive!Blocked
  <2>1. Naive!HasSecond(Naive!LEFT(i)) /\ Naive!LEFT(i) \in Naive!Philosophers
    BY NaiveRing DEF NaiveInv, Naive!ForkConservation, Naive!HasFirst
  <2>2. Naive!Blocked(Naive!LEFT(i))
    BY <2>1
  <2>3. QED BY <2>1, <2>2 DEF Naive!HasSecond, Naive!Blocked
<1>2. QED BY <1>1, NaiveInvariance, PTL

-----------------------------------------------------------------------------
\* The abstract table's neighbours are the ring's.
LEMMA SameNeighbours ==
  \A i \in Naive!Philosophers : Naive!D!Neighbours(i) = {Naive!LEFT(i), Naive!RIGHT(i)}
<1> SUFFICES ASSUME NEW i \in Naive!Philosophers
             PROVE  Naive!D!Neighbours(i) = {Naive!LEFT(i), Naive!RIGHT(i)}
  OBVIOUS
<1>1. (i + 1) % N = Naive!RIGHT(i)
  BY NAssumption DEF Naive!Philosophers, Naive!RIGHT
<1>2. (i - 1) % N = Naive!LEFT(i)
  BY NAssumption DEF Naive!Philosophers, Naive!LEFT
<1>3. QED BY <1>1, <1>2, NaiveRing DEF Naive!D!Neighbours

\* For any N, every step of nonsolution.c starts or stops one meal of the
\* abstract table, next to no other, or leaves the table as it is.
THEOREM NonsolutionImplementsDining == Naive!Spec => NaiveImplementsDining
<1> DEFINE eaters == {i \in Naive!Philosophers : pc[i] = "eating"}
<1>1. Naive!Init => Naive!D!Init
  BY DEF Naive!Init, Naive!D!Init
<1>2. NaiveInv /\ [Naive!Next]_(Naive!vars) => [Naive!D!Next]_eaters
  <2> SUFFICES ASSUME NaiveInv, [Naive!Next]_(Naive!vars)
               PROVE  Naive!D!Next \/ UNCHANGED eaters
    OBVIOUS
  <2> USE DEF Naive!Goto
  <2>0. pc \in [Naive!Philosophers -> Naive!PCs]
    BY DEF NaiveInv, Naive!TypeOK
  <2>1. CASE Naive!Create
    BY <2>0, <2>1 DEF Naive!Create
  <2>2. ASSUME NEW i \in Naive!Philosophers, Naive!philosopher(i)
        PROVE  Naive!D!Next \/ UNCHANGED eaters
    <3>1. CASE Naive!TakeSecond(i)
      <4>1. eaters' = eaters \cup {i} /\ i \notin eaters
        BY <2>0, <3>1 DEF Naive!TakeSecond
      <4>2. Naive!RIGHT(i) \notin eaters /\ Naive!LEFT(i) \notin eaters
        <5>1. /\ forks[Naive!RIGHT(i)] > 0 /\ Naive!RIGHT(i) \in Naive!Philosophers
              /\ forks[Naive!RIGHT(i)] \in {0, 1}
          BY <3>1, NaiveRing DEF Naive!TakeSecond, Naive!take_fork, NaiveInv, Naive!TypeOK
        <5>2. ~Naive!HasFirst(Naive!RIGHT(i))
          BY <5>1 DEF NaiveInv, Naive!ForkConservation
        <5>3. Naive!HasFirst(i) /\ ~Naive!HasSecond(Naive!LEFT(i))
          BY <3>1 DEF Naive!TakeSecond, Naive!HasFirst, NaiveInv, Naive!ForkConservation
        <5>4. QED BY <5>2, <5>3 DEF Naive!HasFirst, Naive!HasSecond
      <4>3. Naive!D!Start(i)
        BY <4>1, <4>2, SameNeighbours DEF Naive!D!Start
      <4>4. QED BY <4>3 DEF Naive!D!Next, Naive!D!Philosophers, Naive!Philosophers
    <3>2. CASE Naive!PutFirst(i)
      <4>1. Naive!D!Stop(i)
        BY <2>0, <3>2 DEF Naive!PutFirst, Naive!D!Stop
      <4>2. QED BY <4>1 DEF Naive!D!Next, Naive!D!Philosophers, Naive!Philosophers
    <3>3. CASE Naive!TakeFirst(i) \/ Naive!PutSecond(i)
      BY <2>0, <3>3 DEF Naive!TakeFirst, Naive!PutSecond
    <3>4. QED BY <2>2, <3>1, <3>2, <3>3 DEF Naive!philosopher
  <2>3. CASE UNCHANGED Naive!vars
    BY <2>3 DEF Naive!vars
  <2>4. QED BY <2>1, <2>2, <2>3 DEF Naive!Next
<1>3. QED BY <1>1, <1>2, NaiveInvariance, PTL
   DEF Naive!Spec, NaiveImplementsDining, Naive!ImplementsDining, Naive!D!Spec
=============================================================================
