--------------------------- MODULE Threads_proofs ---------------------------
(***************************************************************************)
(* Proofs about the three programs whose threads share a few numbers.      *)
(*                                                                         *)
(* What the race detector of FatalRace says is proved for every N: a wrong *)
(* counter, a buffer out of bounds and two sleeping threads each need one  *)
(* of the named races.  CountNeedsRace is inductive with the types.  The   *)
(* other two need to know what a thread has seen: in HasRoom, that a       *)
(* thread past its comparison still has room, because the other thread can *)
(* only make more of it; in WillBeWoken, that a thread going to sleep is   *)
(* at its limit or the other one is on its way to wake it.                 *)
(*                                                                         *)
(* SemaphoreBuffer is a bounded buffer for any number of slots: the mutex  *)
(* counts the thread in its critical section, full and empty count what    *)
(* the slot balance says, and the rest is arithmetic.                      *)
(*                                                                         *)
(* That the sum ParallelSum prints is whole is proved for every range, any *)
(* number of threads and any width of the numbers.  The chunks made so far *)
(* add up to the numbers before cstart; sum holds what the threads that    *)
(* have stored have found; both in arithmetic that wraps around.           *)
(***************************************************************************)
EXTENDS MCThreads, SumTheorems, SequenceTheorems

-----------------------------------------------------------------------------
(* FatalRace *)

\* Past the comparison, or woken: the thread is about to use a slot.
Admitted(t) ==
  \/ pc[t] \in {"item", "load", "store"}
  \/ pc[t] = "spin" /\ flag[t] = 0

HasRoom ==
  races \cap {"update", "stale"} = {} =>
    /\ count \in 0 .. N
    /\ \A t \in Threads : Admitted(t) => count # Limit(t)

Sleeping(t) == pc[t] = "doze" \/ Asleep(t)

WillBeWoken ==
  races \cap {"update", "wasted"} = {} =>
    \A t \in Threads : Sleeping(t) =>
      \/ count = Limit(t)
      \/ count = Signal(Other(t)) /\ pc[Other(t)] = "test"
      \/ pc[Other(t)] = "wake"

IInv == TypeOK /\ CountNeedsRace /\ HasRoom /\ WillBeWoken

-----------------------------------------------------------------------------
\* The two threads, spelled out.
LEMMA TwoThreads ==
  /\ Other("producer") = "consumer" /\ Other("consumer") = "producer"
  /\ \A t \in Threads : Other(t) \in Threads /\ Other(t) # t /\ Other(Other(t)) = t
  /\ \A t, u \in Threads : u = t \/ u = Other(t)
  /\ \A t \in Threads : /\ Delta(t) \in {1, -1} /\ Delta(Other(t)) = -Delta(t)
                        /\ Limit(t) \in {0, N} /\ Limit(Other(t)) = N - Limit(t)
                        /\ Signal(Other(t)) = Limit(t) + Delta(Other(t))
                        /\ Delta(t) = 1 <=> Limit(t) = N
<1>1. Other("producer") = "consumer" /\ Other("consumer") = "producer"
  BY DEF Other, Threads
<1>2. \A t \in Threads : t = "producer" \/ t = "consumer"
  BY DEF Threads
<1>3. "producer" \in Threads /\ "consumer" \in Threads
  BY DEF Threads
<1>4. QED
  BY <1>1, <1>2, <1>3, NAssumption DEF Delta, Limit, Signal

LEMMA InitIInv == Init => IInv
<1> SUFFICES ASSUME Init PROVE IInv
  OBVIOUS
<1>1. TypeOK
  BY DEF Init, TypeOK, PCs
<1>2. CountNeedsRace
  BY TwoThreads DEF Init, CountNeedsRace, Pending, Threads
<1>3. HasRoom
  BY NAssumption DEF Init, HasRoom, Admitted
<1>4. WillBeWoken
  BY DEF Init, WillBeWoken, Sleeping, Asleep
<1>5. QED BY <1>1, <1>2, <1>3, <1>4 DEF IInv

-----------------------------------------------------------------------------
LEMMA NextIInv == IInv /\ [Next]_vars => IInv'
<1> SUFFICES ASSUME IInv, [Next]_vars PROVE IInv'
  OBVIOUS
<1>0. TypeOK /\ CountNeedsRace /\ HasRoom /\ WillBeWoken
  BY DEF IInv
<1>1. CASE UNCHANGED vars
  <2>1. UNCHANGED <<count, flag, reg, items, pc, races>>
    BY <1>1 DEF vars
  <2>2. TypeOK' /\ CountNeedsRace'
    BY <2>1, <1>0 DEF TypeOK, CountNeedsRace, Pending
  <2>3. HasRoom' /\ WillBeWoken'
    BY <2>1, <1>0 DEF HasRoom, Admitted, WillBeWoken, Sleeping, Asleep
  <2>4. QED BY <2>2, <2>3 DEF IInv
<1>2. ASSUME NEW t \in Threads, loop(t) PROVE IInv'
  <2> DEFINE o == Other(t)
  <2> HIDE DEF o
  <2>0. /\ o \in Threads /\ o # t /\ Other(t) = o /\ Other(o) = t
        /\ \A u \in Threads : u = t \/ u = o
        /\ \/ t = "producer" /\ o = "consumer"
           \/ t = "consumer" /\ o = "producer"
        /\ Delta(t) \in {1, -1} /\ Delta(o) = -Delta(t)
        /\ Limit(t) \in {0, N} /\ Limit(o) = N - Limit(t)
        /\ Signal(o) = Limit(t) + Delta(o) /\ Signal(t) = Limit(o) + Delta(t)
        /\ Delta(t) = 1 <=> Limit(t) = N
        /\ N \in Nat /\ N >= 2
    BY TwoThreads, NAssumption DEF o, Threads
  <2>a. /\ count \in Int /\ items \in Int /\ reg[t] \in Int /\ reg[o] \in Int
        /\ DOMAIN pc = Threads /\ DOMAIN flag = Threads
        /\ races \subseteq {"update", "wasted", "stale"}
    BY <1>0, <2>0 DEF TypeOK
  \* The invariants for t and o.
  <2>b. "update" \notin races => count = items - Pending(t) - Pending(o)
    BY <1>0, <2>0, <2>a DEF CountNeedsRace, Pending, Delta
  <2>c. races \cap {"update", "stale"} = {} =>
          /\ count \in 0 .. N
          /\ Admitted(t) => count # Limit(t)
          /\ Admitted(o) => count # Limit(o)
    BY <1>0, <2>0 DEF HasRoom
  <2>d. races \cap {"update", "wasted"} = {} =>
          /\ Sleeping(t) => \/ count = Limit(t)
                            \/ count = Signal(o) /\ pc[o] = "test"
                            \/ pc[o] = "wake"
          /\ Sleeping(o) => \/ count = Limit(o)
                            \/ count = Signal(t) /\ pc[t] = "test"
                            \/ pc[t] = "wake"
    BY <1>0, <2>0 DEF WillBeWoken
  <2>1. CASE Check(t)
    <3>1. /\ pc[t] = "check"
          /\ pc' = [pc EXCEPT ![t] = IF count = Limit(t) THEN "doze" ELSE "item"]
          /\ UNCHANGED <<count, flag, reg, items, races>>
      BY <2>1 DEF Check, Goto
    <3>2. TypeOK'
      BY <3>1, <1>0 DEF TypeOK, PCs
    <3>3. CountNeedsRace'
      BY <3>1, <1>0, <2>0, <2>a DEF CountNeedsRace, Pending
    <3>4. HasRoom'
      BY <3>1, <2>0, <2>a, <2>c DEF HasRoom, Admitted
    <3>5. WillBeWoken'
      BY <3>1, <2>0, <2>a, <2>d DEF WillBeWoken, Sleeping, Asleep
    <3>6. QED BY <3>2, <3>3, <3>4, <3>5 DEF IInv
  <2>2. CASE Doze(t)
    <3>1. /\ pc[t] = "doze" /\ pc' = [pc EXCEPT ![t] = "spin"]
          /\ flag' = [flag EXCEPT ![t] = 1]
          /\ UNCHANGED <<count, reg, items, races>>
      BY <2>2 DEF Doze, Goto
    <3>2. TypeOK'
      BY <3>1, <1>0 DEF TypeOK, PCs
    <3>3. CountNeedsRace'
      BY <3>1, <1>0, <2>0, <2>a DEF CountNeedsRace, Pending
    <3>4. HasRoom'
      BY <3>1, <2>0, <2>a, <2>c DEF HasRoom, Admitted
    <3>5. WillBeWoken'
      BY <3>1, <2>0, <2>a, <2>d DEF WillBeWoken, Sleeping, Asleep
    <3>6. QED BY <3>2, <3>3, <3>4, <3>5 DEF IInv
  <2>3. CASE Spin(t)
    <3>1. /\ flag[t] = 0 /\ pc[t] = "spin" /\ pc' = [pc EXCEPT ![t] = "item"]
          /\ UNCHANGED <<count, flag, reg, items, races>>
      BY <2>3 DEF Spin, Goto
    <3>2. TypeOK'
      BY <3>1, <1>0 DEF TypeOK, PCs
    <3>3. CountNeedsRace'
      BY <3>1, <1>0, <2>0, <2>a DEF CountNeedsRace, Pending
    <3>4. HasRoom'
      BY <3>1, <2>0, <2>a, <2>c DEF HasRoom, Admitted
    <3>5. WillBeWoken'
      BY <3>1, <2>0, <2>a, <2>d DEF WillBeWoken, Sleeping, Asleep
    <3>6. QED BY <3>2, <3>3, <3>4, <3>5 DEF IInv
  <2>4. CASE Item(t)
    <3>1. /\ pc[t] = "item" /\ pc' = [pc EXCEPT ![t] = "load"]
          /\ items' = items + Delta(t)
          /\ UNCHANGED <<count, flag, reg, races>>
      BY <2>4 DEF Item, Goto
    <3>2. TypeOK'
      BY <3>1, <1>0, <2>0, <2>a DEF TypeOK, PCs
    <3>3. CountNeedsRace'
      BY <3>1, <2>0, <2>a, <2>b DEF CountNeedsRace, Pending
    <3>4. HasRoom'
      BY <3>1, <2>0, <2>a, <2>c DEF HasRoom, Admitted
    <3>5. WillBeWoken'
      BY <3>1, <2>0, <2>a, <2>d DEF WillBeWoken, Sleeping, Asleep
    <3>6. QED BY <3>2, <3>3, <3>4, <3>5 DEF IInv
  <2>5. CASE Load(t)
    <3>1. /\ pc[t] = "load" /\ pc' = [pc EXCEPT ![t] = "store"]
          /\ reg' = [reg EXCEPT ![t] = count]
          /\ UNCHANGED <<count, flag, items, races>>
      BY <2>5 DEF Load, Goto
    <3>2. TypeOK'
      BY <3>1, <1>0 DEF TypeOK, PCs
    <3>3. CountNeedsRace'
      BY <3>1, <1>0, <2>0, <2>a DEF CountNeedsRace, Pending
    <3>4. HasRoom'
      BY <3>1, <2>0, <2>a, <2>c DEF HasRoom, Admitted
    <3>5. WillBeWoken'
      BY <3>1, <2>0, <2>a, <2>d DEF WillBeWoken, Sleeping, Asleep
    <3>6. QED BY <3>2, <3>3, <3>4, <3>5 DEF IInv
  <2>6. CASE Store(t)
    <3>1. /\ pc[t] = "store" /\ pc' = [pc EXCEPT ![t] = "test"]
          /\ count' = reg[t] + Delta(t)
          /\ races' = IF count = reg[t] THEN races ELSE races \cup {"update"}
          /\ UNCHANGED <<flag, reg, items>>
      BY <2>6 DEF Store, Goto
    <3>2. TypeOK'
      BY <3>1, <1>0, <2>0, <2>a DEF TypeOK, PCs
    \* Without an update race the store adds Delta(t) to the count there is.
    <3>a. "update" \notin races' => races' = races /\ count' = count + Delta(t)
      BY <3>1
    <3>3. CountNeedsRace'
      BY <3>1, <3>a, <2>0, <2>a, <2>b DEF CountNeedsRace, Pending
    <3>4. HasRoom'
      BY <3>1, <3>a, <2>0, <2>a, <2>c DEF HasRoom, Admitted
    <3>5. WillBeWoken'
      BY <3>1, <3>a, <2>0, <2>a, <2>d DEF WillBeWoken, Sleeping, Asleep
    <3>6. QED BY <3>2, <3>3, <3>4, <3>5 DEF IInv
  <2>7. CASE Test(t)
    <3>1. /\ pc[t] = "test"
          /\ pc' = [pc EXCEPT ![t] = IF count = Signal(t) THEN "wake" ELSE "check"]
          /\ UNCHANGED <<count, flag, reg, items, races>>
      BY <2>7 DEF Test, Goto
    <3>2. TypeOK'
      BY <3>1, <1>0 DEF TypeOK, PCs
    <3>3. CountNeedsRace'
      BY <3>1, <1>0, <2>0, <2>a DEF CountNeedsRace, Pending
    <3>4. HasRoom'
      BY <3>1, <2>0, <2>a, <2>c DEF HasRoom, Admitted
    <3>5. WillBeWoken'
      BY <3>1, <2>0, <2>a, <2>d DEF WillBeWoken, Sleeping, Asleep
    <3>6. QED BY <3>2, <3>3, <3>4, <3>5 DEF IInv
  <2>8. CASE Wake(t)
    <3>1. /\ pc[t] = "wake" /\ pc' = [pc EXCEPT ![t] = "check"]
          /\ flag' = [flag EXCEPT ![o] = 0]
          /\ races' = races \cup WakeRaces(t)
          /\ UNCHANGED <<count, reg, items>>
      BY <2>8 DEF Wake, Goto, o
    <3>a. /\ WakeRaces(t) \subseteq {"wasted", "stale"}
          /\ "wasted" \in WakeRaces(t) <=> pc[o] = "doze"
          /\ "stale" \in WakeRaces(t) <=> count # Signal(t)
      BY <2>0 DEF WakeRaces
    <3>2. TypeOK'
      BY <3>1, <3>a, <1>0, <2>0 DEF TypeOK, PCs
    <3>3. CountNeedsRace'
      BY <3>1, <3>a, <1>0, <2>0, <2>a DEF CountNeedsRace, Pending
    \* A wakeup that is not stale finds the count one off o's limit.
    <3>4. HasRoom'
      BY <3>1, <3>a, <2>0, <2>a, <2>c DEF HasRoom, Admitted
    <3>5. WillBeWoken'
      BY <3>1, <3>a, <2>0, <2>a, <2>d DEF WillBeWoken, Sleeping, Asleep
    <3>6. QED BY <3>2, <3>3, <3>4, <3>5 DEF IInv
  <2>9. QED
    BY <1>2, <2>1, <2>2, <2>3, <2>4, <2>5, <2>6, <2>7, <2>8 DEF loop
<1>3. QED BY <1>1, <1>2 DEF Next

-----------------------------------------------------------------------------
LEMMA IInvHolds == Spec => []IInv
<1>1. QED BY InitIInv, NextIInv, PTL DEF Spec

\* Types of the variables: count and items are integers, wherever the races
\* take them.
THEOREM TypeCorrect == Spec => []TypeOK
<1>1. IInv => TypeOK
  BY DEF IInv
<1>2. QED BY <1>1, IInvHolds, PTL

\* count is right, but for what the threads hold, until one store of count++
\* or count-- undoes the other's.
THEOREM WrongCountNeedsRace == Spec => []CountNeedsRace
<1>1. IInv => CountNeedsRace
  BY DEF IInv
<1>2. QED BY <1>1, IInvHolds, PTL

\* Without a lost update or a stale wakeup the buffer stays within 0 .. N:
\* count does, and what it lacks of items a thread past its test makes up for.
THEOREM OverrunNeedsItsRace == Spec => []OverrunNeedsRace
<1>1. ASSUME IInv, races \cap {"update", "stale"} = {} PROVE items \in 0 .. N
  <2>1. items \in Int /\ count \in 0 .. N
    BY <1>1 DEF IInv, TypeOK, HasRoom
  <2>2. items = count + Pending("producer") + Pending("consumer")
    BY <1>1, <2>1, TwoThreads DEF IInv, CountNeedsRace, Pending, Delta
  <2>3. /\ pc["producer"] \in {"load", "store"} => count # N
        /\ pc["consumer"] \in {"load", "store"} => count # 0
    BY <1>1 DEF IInv, HasRoom, Admitted, Limit, Threads
  <2>4. QED BY <2>1, <2>2, <2>3, NAssumption DEF Pending, Delta
<1>2. IInv => OverrunNeedsRace
  BY <1>1 DEF OverrunNeedsRace
<1>3. QED BY <1>2, IInvHolds, PTL

\* Both threads asleep would put count at N and at 0: one of them has missed
\* its wakeup, or an update is lost.
THEOREM StuckNeedsItsRace == Spec => []StuckNeedsRace
<1>1. ASSUME IInv, races \cap {"update", "wasted"} = {},
             \A t \in Threads : Asleep(t)
      PROVE FALSE
  <2>1. /\ Asleep("producer") /\ Asleep("consumer")
        /\ "producer" \in Threads /\ "consumer" \in Threads
    BY <1>1 DEF Threads
  <2>2. count = Limit("producer") /\ count = Limit("consumer")
    BY <1>1, <2>1, TwoThreads DEF IInv, WillBeWoken, Sleeping, Asleep
  <2>3. QED BY <2>2, NAssumption DEF Limit
<1>2. IInv => StuckNeedsRace
  BY <1>1 DEF StuckNeedsRace
<1>3. QED BY <1>2, IInvHolds, PTL

-----------------------------------------------------------------------------
(* SemaphoreBuffer *)

\* sem_wait(&mutex) has returned and sem_post(&mutex) has not been called.
MutexBalance ==
  sem["mutex"] = 1 - SB!At("inserter", {"insert", "unlock"}) - SB!At("remover", {"remove", "unlock"})

BufferInv == SB!TypeOK /\ SB!SlotsBalance /\ MutexBalance

\* The three sem_init calls establish both balances.
LEMMA BufferInitInv == SB!Init => BufferInv
<1> SUFFICES ASSUME SB!Init PROVE BufferInv
  OBVIOUS
<1>1. /\ does["inserter"] = "waitEmpty" /\ does["remover"] = "waitFull"
      /\ sem["mutex"] = 1 /\ sem["full"] = 0 /\ sem["empty"] = Slots /\ stored = 0
      /\ sem \in [SB!Semaphores -> 0 .. Slots]
      /\ does \in [SB!Threads -> SB!InserterPCs \cup SB!RemoverPCs]
  BY SlotsAssumption DEF SB!Init, SB!Threads, SB!Semaphores, SB!InserterPCs, SB!RemoverPCs
<1>2. SB!TypeOK
  BY <1>1, SlotsAssumption DEF SB!TypeOK, SB!InserterPCs, SB!RemoverPCs
<1>3. SB!SlotsBalance
  <2>1. /\ SB!At("inserter", {"lock", "insert"}) = 0 /\ SB!At("remover", {"unlock", "postEmpty"}) = 0
        /\ SB!At("inserter", {"unlock", "postFull"}) = 0 /\ SB!At("remover", {"lock", "remove"}) = 0
    BY <1>1 DEF SB!At
  <2>2. QED BY <1>1, <2>1, SlotsAssumption DEF SB!SlotsBalance
<1>4. MutexBalance
  BY <1>1 DEF MutexBalance, SB!At
<1>5. QED BY <1>2, <1>3, <1>4 DEF BufferInv

\* Both loops preserve both balances: every step moves one slot, or the right
\* to touch the buffer, from one holder to the next.
LEMMA BufferNextInv == BufferInv /\ [SB!Next]_(SB!vars) => BufferInv'
<1> SUFFICES ASSUME BufferInv, [SB!Next]_(SB!vars) PROVE BufferInv'
  OBVIOUS
<1> USE SlotsAssumption
    DEF SB!Goto, SB!sem_wait, SB!sem_post, SB!Semaphores, SB!Threads, SB!InserterPCs, SB!RemoverPCs,
        BufferInv, SB!TypeOK, SB!SlotsBalance, MutexBalance, SB!At
<1>1. CASE SB!Reserve
  BY <1>1 DEF SB!Reserve
<1>2. CASE SB!Lock("inserter", "lock", "insert")
  BY <1>2 DEF SB!Lock
<1>3. CASE SB!Insert
  BY <1>3 DEF SB!Insert
<1>4. CASE SB!Unlock("inserter", "unlock", "postFull")
  BY <1>4 DEF SB!Unlock
<1>5. CASE SB!Publish
  BY <1>5 DEF SB!Publish
<1>6. CASE SB!Claim
  BY <1>6 DEF SB!Claim
<1>7. CASE SB!Lock("remover", "lock", "remove")
  BY <1>7 DEF SB!Lock
<1>8. CASE SB!Remove
  BY <1>8 DEF SB!Remove
<1>9. CASE SB!Unlock("remover", "unlock", "postEmpty")
  BY <1>9 DEF SB!Unlock
<1>10. CASE SB!GiveBack
  BY <1>10 DEF SB!GiveBack
<1>11. CASE SB!Consume
  BY <1>11 DEF SB!Consume
<1>12. CASE UNCHANGED SB!vars
  BY <1>12 DEF SB!vars
<1>13. QED
  BY <1>1, <1>2, <1>3, <1>4, <1>5, <1>6, <1>7, <1>8, <1>9, <1>10, <1>11, <1>12
     DEF SB!Next, SB!consumer, SB!producer

\* BufferInv holds in every reachable state of semaphore_imple.c.
LEMMA BufferInvariance == SB!Spec => []BufferInv
BY BufferInitInv, BufferNextInv, PTL DEF SB!Spec

-----------------------------------------------------------------------------
\* For any number of Slots the semaphores account for every slot.
THEOREM SlotsAreBalanced == SB!Spec => []SB!SlotsBalance
<1>1. BufferInv => SB!SlotsBalance
  BY DEF BufferInv
<1>2. QED BY <1>1, BufferInvariance, PTL

\* For any number of Slots the buffer is touched by one thread at a time.
THEOREM OneThreadInBuffer == SB!Spec => []SB!BufferExclusion
<1>1. BufferInv => SB!BufferExclusion
  BY DEF BufferInv, SB!TypeOK, MutexBalance, SB!At, SB!Semaphores, SB!BufferExclusion
<1>2. QED BY <1>1, BufferInvariance, PTL

\* For any number of Slots the program is a bounded buffer of as many slots: it never inserts into
\* a full one nor removes from an empty one.
THEOREM SemaphoresImplementBuffer == SB!Spec => ImplementsBoundedBuffer
<1>1. SB!Init => SB!B!Init
  BY DEF SB!Init, SB!B!Init
<1>2. BufferInv /\ [SB!Next]_(SB!vars) => [SB!B!Next]_stored
  <2> SUFFICES ASSUME BufferInv, [SB!Next]_(SB!vars) PROVE SB!B!Next \/ UNCHANGED stored
    OBVIOUS
  <2>1. CASE SB!Insert
    <3>1. stored < Slots /\ stored' = stored + 1
      BY <2>1, SlotsAssumption
         DEF SB!Insert, SB!Goto, BufferInv, SB!TypeOK, SB!SlotsBalance, SB!At, SB!Semaphores
    <3>2. SB!B!Put
      BY <3>1 DEF SB!B!Put
    <3>3. QED BY <3>2 DEF SB!B!Next
  <2>2. CASE SB!Remove
    <3>1. stored > 0 /\ stored' = stored - 1
      BY <2>2, SlotsAssumption
         DEF SB!Remove, SB!Goto, BufferInv, SB!TypeOK, SB!SlotsBalance, SB!At, SB!Semaphores
    <3>2. SB!B!Get
      BY <3>1 DEF SB!B!Get
    <3>3. QED BY <3>2 DEF SB!B!Next
  <2>3. CASE SB!consumer /\ ~SB!Insert
    BY <2>3 DEF SB!consumer, SB!Reserve, SB!Lock, SB!Unlock, SB!Publish
  <2>4. CASE SB!producer /\ ~SB!Remove
    BY <2>4 DEF SB!producer, SB!Claim, SB!Lock, SB!Unlock, SB!GiveBack, SB!Consume
  <2>5. CASE UNCHANGED SB!vars
    BY <2>5 DEF SB!vars
  <2>6. QED BY <2>1, <2>2, <2>3, <2>4, <2>5 DEF SB!Next
<1>3. QED BY <1>1, <1>2, BufferInvariance, PTL
     DEF SB!Spec, ImplementsBoundedBuffer, SB!ImplementsBoundedBuffer, SB!B!Spec

-----------------------------------------------------------------------------
(* Unsigned arithmetic *)

LEMMA Divided ==
  ASSUME NEW a \in Int
  PROVE  /\ a \div Modulus \in Int /\ a % Modulus \in 0 .. Modulus - 1
         /\ a = (a \div Modulus) * Modulus + (a % Modulus)
BY ModulusAssumption

\* No multiple of m but 0 is nearer to 0 than m.
LEMMA NoSmallMultiple ==
  ASSUME NEW r \in Int, NEW m \in Nat, m > 0, r * m < m, r * m > -m
  PROVE  r = 0
OBVIOUS

LEMMA RemainderIs ==
  ASSUME NEW a \in Int, NEW x \in 0 .. Modulus - 1, NEW k \in Int, a = k * Modulus + x
  PROVE  a % Modulus = x
<1> DEFINE q == a \div Modulus
           r == a % Modulus
<1>1. q \in Int /\ r \in 0 .. Modulus - 1 /\ a = q * Modulus + r
  BY Divided
<1> HIDE DEF q, r
<1>2. (q - k) * Modulus = x - r
  <2>1. (q - k) * Modulus = q * Modulus - k * Modulus
    BY <1>1, ModulusAssumption
  <2>2. QED BY <1>1, <2>1, ModulusAssumption
<1>3. q - k = 0
  BY <1>1, <1>2, NoSmallMultiple, ModulusAssumption
<1>4. r = x
  BY <1>1, <1>2, <1>3, ModulusAssumption
<1>5. QED BY <1>4 DEF r

LEMMA RemainderSmall == ASSUME NEW a \in 0 .. Modulus - 1 PROVE a % Modulus = a
BY ModulusAssumption

\* It makes no difference to a sum when a term of it wraps around.
LEMMA WrapInSum ==
  ASSUME NEW a \in Int, NEW b \in Int, NEW c \in Int, a % Modulus = b % Modulus
  PROVE  (a + c) % Modulus = (b + c) % Modulus
<1> DEFINE k == (b \div Modulus) - (a \div Modulus)
           q == (a + c) \div Modulus
           r == (a + c) % Modulus
<1>1. k \in Int /\ b = a + k * Modulus
  <2>1. /\ a \div Modulus \in Int /\ a = (a \div Modulus) * Modulus + (a % Modulus)
        /\ b \div Modulus \in Int /\ b = (b \div Modulus) * Modulus + (b % Modulus)
        /\ b % Modulus \in 0 .. Modulus - 1
    BY Divided
  <2>2. QED BY <2>1, ModulusAssumption
<1>2. q \in Int /\ r \in 0 .. Modulus - 1 /\ a + c = q * Modulus + r
  BY Divided
<1> HIDE DEF k, q, r
<1>3. b + c = (q + k) * Modulus + r
  BY <1>1, <1>2, ModulusAssumption
<1>4. q + k \in Int /\ b + c \in Int
  BY <1>1, <1>2
<1>5. (b + c) % Modulus = r
  BY <1>2, <1>3, <1>4, RemainderIs
<1>6. QED BY <1>5 DEF r

\* A quotient grows with the dividend.
LEMMA Quotients ==
  /\ \A a, b, t \in Nat : t > 0 /\ a <= b => a \div t \in Nat /\ a \div t <= b \div t
  /\ \A a, t \in Nat : t > 0 => (a * t) \div t = a
<1>1. ASSUME NEW a \in Nat, NEW b \in Nat, NEW t \in Nat, t > 0, a <= b
      PROVE  a \div t \in Nat /\ a \div t <= b \div t
  BY <1>1
<1>2. ASSUME NEW a \in Nat, NEW t \in Nat, t > 0 PROVE (a * t) \div t = a
  BY <1>2
<1>3. QED BY <1>1, <1>2

-----------------------------------------------------------------------------
(* Sums of ranges *)

\* The sum of first .. last - 1, before it wraps around.
Plain(first, last) == SumFunctionOnSet([x \in first .. last - 1 |-> x], first .. last - 1)

LEMMA PlainStep ==
  ASSUME NEW a \in Nat, NEW b \in Nat, a <= b
  PROVE  Plain(a, b) \in Int /\ Plain(a, b + 1) = Plain(a, b) + b
<1> DEFINE S == a .. b - 1
           f == [x \in a .. b |-> x]
           e == [x \in a .. b - 1 |-> x]
<1>1. IsFiniteSet(S)
  BY FS_Interval
<1>2. S \cup {b} = a .. b /\ b \notin S /\ (b + 1) - 1 = b
  OBVIOUS
<1>3. /\ \A x \in S \cup {b} : f[x] = x /\ f[x] \in Int
      /\ \A x \in S : e[x] = f[x] /\ e[x] \in Int
  BY <1>2
<1>4. Plain(a, b + 1) = SumFunctionOnSet(f, S \cup {b})
  BY <1>2 DEF Plain
<1>5. Plain(a, b) = SumFunctionOnSet(e, S)
  BY DEF Plain
<1> HIDE DEF S, f, e
<1>6. SumFunctionOnSet(f, S \cup {b}) = f[b] + SumFunctionOnSet(f, S)
  BY <1>1, <1>2, <1>3, SumPutIn
<1>7. SumFunctionOnSet(e, S) = SumFunctionOnSet(f, S)
  BY <1>1, <1>3, SumSame
<1>8. SumFunctionOnSet(e, S) \in Int
  BY <1>1, <1>3, SumType
<1>9. f[b] = b
  BY <1>2, <1>3
<1>10. QED BY <1>4, <1>5, <1>6, <1>7, <1>8, <1>9

LEMMA PlainEmpty == ASSUME NEW a \in Nat, NEW b \in Nat, b <= a PROVE Plain(a, b) = 0
<1>1. a .. b - 1 = {}
  OBVIOUS
<1>2. QED BY <1>1, SumEmpty DEF Plain

\* A range is what is before its end less what is before its start: by
\* induction on the end.
LEMMA PlainIs ==
  ASSUME NEW a \in Nat, NEW b \in Nat, a <= b
  PROVE  Plain(a, b) = Plain(0, b) - Plain(0, a) /\ Plain(0, a) \in Int /\ Plain(0, b) \in Int
<1> DEFINE Bad == {n \in Nat : a <= n /\ Plain(a, n) # Plain(0, n) - Plain(0, a)}
<1>1. \A n \in Nat : Plain(0, n) \in Int
  BY PlainStep
<1>2. Bad = {}
  <2>1. SUFFICES ASSUME Bad # {} PROVE FALSE
    OBVIOUS
  <2>2. PICK m \in Bad : \A n \in Bad : m <= n
    BY <2>1, LeastNat
  <2>3. m # a
    BY <1>1, <2>2, PlainEmpty
  <2>4. m - 1 \in Nat /\ a <= m - 1 /\ m - 1 \notin Bad
    BY <2>2, <2>3
  <2>5. Plain(a, m - 1) = Plain(0, m - 1) - Plain(0, a)
    BY <2>4
  <2>6. /\ Plain(a, (m - 1) + 1) = Plain(a, m - 1) + (m - 1)
        /\ Plain(0, (m - 1) + 1) = Plain(0, m - 1) + (m - 1)
    BY <2>4, PlainStep
  <2>7. (m - 1) + 1 = m
    BY <2>2
  <2>8. Plain(a, m) = Plain(0, m) - Plain(0, a)
    BY <1>1, <2>2, <2>4, <2>5, <2>6, <2>7
  <2>9. QED BY <2>2, <2>8
<1>3. QED BY <1>1, <1>2

\* The range may start from 0 or from 1.
LEMMA PlainFromOne == ASSUME NEW b \in Nat PROVE Plain(1, b) = Plain(0, b)
<1>1. Plain(0, 1) = 0 /\ Plain(0, 0) = 0
  <2>1. Plain(0, 0) = 0 /\ Plain(0, 0 + 1) = Plain(0, 0) + 0
    BY PlainEmpty, PlainStep
  <2>2. QED BY <2>1
<1>2. CASE b = 0
  BY <1>1, <1>2, PlainEmpty
<1>3. CASE b # 0
  <2>1. 1 \in Nat /\ 1 <= b
    BY <1>3
  <2>2. QED BY <1>1, <2>1, PlainIs
<1>4. QED BY <1>2, <1>3

\* A chunk adds its range to the numbers before it.  The first one may be
\* from 1 to 0, and the next then starts from 0.
LEMMA ChunkAdds ==
  ASSUME NEW c \in Nat, NEW d \in Nat, c <= d \/ (c = 1 /\ d = 0)
  PROVE  Plain(0, c) + Plain(c, d) = Plain(0, d) /\ Plain(0, c) \in Int /\ Plain(c, d) \in Int
<1>1. CASE c <= d
  BY <1>1, PlainIs
<1>2. CASE c = 1 /\ d = 0
  <2>1. Plain(c, d) = 0 /\ Plain(0, 0) = 0
    BY <1>2, PlainEmpty
  <2>2. Plain(0, 1) = Plain(1, 1) /\ Plain(1, 1) = 0
    BY PlainFromOne, PlainEmpty
  <2>3. QED BY <1>2, <2>1, <2>2
<1>3. QED BY <1>1, <1>2

LEMMA PlainType == ASSUME NEW a \in Nat, NEW b \in Nat PROVE Plain(a, b) \in Int
<1>1. CASE a <= b
  BY <1>1, PlainStep
<1>2. CASE b <= a
  BY <1>2, PlainEmpty
<1>3. QED BY <1>1, <1>2

LEMMA SumOfIs ==
  ASSUME NEW a \in Nat, NEW b \in Nat
  PROVE  /\ PS!SumOf(a, b) = Plain(a, b) % Modulus
         /\ PS!SumOf(a, b) \in 0 .. Modulus - 1
<1>1. PS!SumOf(a, b) = Plain(a, b) % Modulus
  BY DEF PS!SumOf, Plain, SumFunctionOnSet, FoldFunctionOnSet, MapThenFoldSet,
         PS!SumFunctionOnSet, PS!FoldFunctionOnSet, PS!MapThenFoldSet
<1>2. QED BY <1>1, PlainType, Divided

-----------------------------------------------------------------------------
(* ParallelSum *)

\* What the threads that are given the chunks of l find.
Found(l) == [i \in DOMAIN l |-> PS!SumOf(l[i][1], l[i][2])]
Total(l, S) == SumFunctionOnSet(Found(l), S)

Steps == {"sum", "lock", "load", "store", "unlock", "done"}

SumTypes ==
  /\ end \in Nat /\ threads \in Nat /\ cstart \in Nat
  /\ chunk \in Seq(Nat \X Nat) /\ Len(chunk) <= threads
  /\ step \in Seq(Steps) /\ Len(step) = Len(chunk)
  /\ own \in Seq(0 .. Modulus - 1) /\ Len(own) = Len(chunk)
  /\ sum \in 0 .. Modulus - 1
  /\ stage \in {"create", "join", "printed", "aborted"}

Inside(i) == step[i] \in {"load", "store", "unlock"}
LockInv ==
  /\ \A i \in DOMAIN chunk : Inside(i) => mtx
  /\ \A i, j \in DOMAIN chunk : Inside(i) /\ Inside(j) => i = j

OwnInv ==
  \A i \in DOMAIN chunk :
    /\ step[i] \in {"lock", "load"} => own[i] = Found(chunk)[i]
    /\ step[i] = "store" => own[i] = (sum + Found(chunk)[i]) % Modulus

Stored == {i \in DOMAIN chunk : step[i] \in {"unlock", "done"}}
StoredInv == sum = Total(chunk, Stored) % Modulus

\* The chunks so far cover what is before cstart.
CutInv ==
  threads > 0 /\ PS!Fits =>
    /\ cstart = IF chunk = <<>> THEN 1 ELSE (end * Len(chunk)) \div threads
    /\ Total(chunk, DOMAIN chunk) % Modulus = Plain(0, cstart) % Modulus

StageInv ==
  /\ stage \in {"join", "printed"} => Len(chunk) = threads
  /\ stage = "printed" => \A i \in DOMAIN chunk : step[i] = "done"

SumInv == SumTypes /\ LockInv /\ OwnInv /\ StoredInv /\ CutInv /\ StageInv

LEMMA FoundType ==
  ASSUME NEW l \in Seq(Nat \X Nat)
  PROVE  /\ DOMAIN l = 1 .. Len(l) /\ Len(l) \in Nat /\ IsFiniteSet(DOMAIN l)
         /\ \A i \in DOMAIN l : /\ Found(l)[i] \in 0 .. Modulus - 1 /\ Found(l)[i] \in Int
                               /\ Found(l)[i] = PS!SumOf(l[i][1], l[i][2])
         /\ \A S \in SUBSET DOMAIN l : IsFiniteSet(S) /\ Total(l, S) \in Int
<1>1. DOMAIN l = 1 .. Len(l) /\ Len(l) \in Nat
  OBVIOUS
<1>2. IsFiniteSet(DOMAIN l)
  BY <1>1, FS_Interval
<1>3. ASSUME NEW i \in DOMAIN l
      PROVE  /\ Found(l)[i] \in 0 .. Modulus - 1 /\ Found(l)[i] \in Int
             /\ Found(l)[i] = PS!SumOf(l[i][1], l[i][2])
  <2>1. l[i] \in Nat \X Nat
    BY <1>1
  <2>2. l[i][1] \in Nat /\ l[i][2] \in Nat
    BY <2>1
  <2>3. Found(l)[i] = PS!SumOf(l[i][1], l[i][2])
    BY DEF Found
  <2>4. Found(l)[i] \in 0 .. Modulus - 1
    BY <2>2, <2>3, SumOfIs
  <2>5. Found(l)[i] \in Int
    BY <2>4, ModulusAssumption
  <2>6. QED BY <2>3, <2>4, <2>5
<1>4. ASSUME NEW S \in SUBSET DOMAIN l PROVE IsFiniteSet(S) /\ Total(l, S) \in Int
  <2>1. IsFiniteSet(S)
    BY <1>2, FS_Subset
  <2>2. \A i \in S : Found(l)[i] \in Int
    BY <1>3
  <2>3. QED BY <2>1, <2>2, SumType DEF Total
<1>5. QED BY <1>1, <1>2, <1>3, <1>4

\* r is l with one more chunk, at k.
OneMore(l, c, d, r, k) ==
  /\ l \in Seq(Nat \X Nat) /\ c \in Nat /\ d \in Nat /\ r \in Seq(Nat \X Nat)
  /\ k \notin DOMAIN l /\ DOMAIN r = DOMAIN l \cup {k}
  /\ r[k] = <<c, d>> /\ \A i \in DOMAIN l : r[i] = l[i]

LEMMA FoundAppend ==
  ASSUME NEW l, NEW c, NEW d, NEW r, NEW k, OneMore(l, c, d, r, k)
  PROVE  /\ \A i \in DOMAIN l : Found(r)[i] = Found(l)[i]
         /\ \A S \in SUBSET DOMAIN l : Total(r, S) = Total(l, S)
         /\ Total(r, DOMAIN r) = Total(l, DOMAIN l) + PS!SumOf(c, d)
<1>0. /\ l \in Seq(Nat \X Nat) /\ c \in Nat /\ d \in Nat /\ r \in Seq(Nat \X Nat)
      /\ k \notin DOMAIN l /\ DOMAIN r = DOMAIN l \cup {k}
      /\ r[k] = <<c, d>> /\ \A i \in DOMAIN l : r[i] = l[i]
  BY DEF OneMore
<1>1. \A i \in DOMAIN l : Found(r)[i] = Found(l)[i]
  BY <1>0 DEF Found
<1>2. Found(r)[k] = PS!SumOf(c, d)
  BY <1>0 DEF Found
<1>3. ASSUME NEW S \in SUBSET DOMAIN l PROVE Total(r, S) = Total(l, S)
  <2>1. IsFiniteSet(S)
    BY <1>0, FoundType
  <2>2. \A i \in S : Found(r)[i] = Found(l)[i]
    BY <1>1
  <2>3. QED BY <2>1, <2>2, SumSame DEF Total
<1> DEFINE D == DOMAIN l
<1>4. IsFiniteSet(D) /\ \A i \in D \cup {k} : Found(r)[i] \in Int
  BY <1>0, FoundType
<1>5. Total(r, D) = Total(l, D) /\ Total(l, D) \in Int
  BY <1>0, <1>3, FoundType
<1>6. DOMAIN r = D \cup {k} /\ k \notin D
  BY <1>0
<1> HIDE DEF D
<1>7. Total(r, D \cup {k}) = Found(r)[k] + Total(r, D)
  BY <1>4, <1>6, SumPutIn DEF Total
<1>8. PS!SumOf(c, d) \in Int
  BY <1>0, SumOfIs, ModulusAssumption
<1>9. Total(r, DOMAIN r) = Total(l, D) + PS!SumOf(c, d)
  BY <1>2, <1>5, <1>6, <1>7, <1>8
<1>10. QED BY <1>1, <1>3, <1>9 DEF D

\* Where the products do not wrap around, the chunks follow one another.
LEMMA CutStep ==
  ASSUME NEW e \in Nat, NEW t \in Nat, NEW k \in Nat, k < t, e * t < Modulus
  PROVE  /\ ((e * (k + 1)) % Modulus) \div t = (e * (k + 1)) \div t
         /\ (e * (k + 1)) \div t \in Nat
         /\ (e * k) \div t <= (e * (k + 1)) \div t
<1>1. e * (k + 1) \in Nat /\ e * k \in Nat /\ e * k <= e * (k + 1) /\ e * t \in Nat
  <2>1. e * (k + 1) = e * k + e /\ e * k \in Nat /\ e * t \in Nat
    OBVIOUS
  <2>2. QED BY <2>1
<1>2. e * (k + 1) <= e * t
  <2>1. t - (k + 1) \in Nat
    OBVIOUS
  <2>2. e * (t - (k + 1)) \in Nat /\ e * t = e * (k + 1) + e * (t - (k + 1))
    BY <2>1
  <2>3. QED BY <1>1, <2>2
<1>3. e * (k + 1) \in 0 .. Modulus - 1
  BY <1>1, <1>2, ModulusAssumption
<1>4. QED BY <1>1, <1>3, RemainderSmall, Quotients

LEMMA SumInitInv == PS!Init => SumInv
<1> SUFFICES ASSUME PS!Init PROVE SumInv
  OBVIOUS
<1>1. /\ end \in Nat /\ threads \in Nat /\ cstart = 1 /\ chunk = <<>> /\ step = <<>> /\ own = <<>>
      /\ sum = 0 /\ mtx = FALSE /\ stage = "create"
  BY EndsAssumption, MaxThreadsAssumption DEF PS!Init, PS!start
<1>2. DOMAIN chunk = {} /\ Len(chunk) = 0 /\ chunk \in Seq(Nat \X Nat)
  BY <1>1
<1>3. Total(chunk, {}) = 0 /\ 0 % Modulus = 0
  BY SumEmpty, RemainderSmall, ModulusAssumption DEF Total
<1>4. Plain(0, 1) = 0
  BY PlainFromOne, PlainEmpty
<1>5. SumTypes
  BY <1>1, <1>2, ModulusAssumption DEF SumTypes
<1>6. LockInv /\ OwnInv /\ StageInv
  BY <1>1, <1>2 DEF LockInv, OwnInv, StageInv
<1>7. StoredInv
  <2>1. Stored = {}
    BY <1>2 DEF Stored
  <2>2. QED BY <1>1, <1>3, <2>1 DEF StoredInv
<1>8. CutInv
  BY <1>1, <1>2, <1>3, <1>4 DEF CutInv
<1>9. QED BY <1>5, <1>6, <1>7, <1>8 DEF SumInv

\* A thread's step leaves the chunks alone, and the other threads.
LEMMA MoveKeeps ==
  ASSUME SumTypes, StageInv, CutInv, NEW i \in DOMAIN chunk, NEW from, NEW to \in Steps,
         PS!Move(i, from, to), from # "done"
  PROVE  /\ step[i] = from /\ step' \in Seq(Steps) /\ Len(step') = Len(chunk)
         /\ step'[i] = to /\ \A j \in DOMAIN chunk : j # i => step'[j] = step[j]
         /\ CutInv' /\ StageInv'
<1>1. /\ step[i] = from /\ step' = [step EXCEPT ![i] = to]
      /\ UNCHANGED <<end, threads, cstart, chunk, stage>>
  BY DEF PS!Move
<1>2. step \in Seq(Steps) /\ Len(step) = Len(chunk) /\ DOMAIN chunk = 1 .. Len(chunk)
      /\ i \in 1 .. Len(step)
  BY DEF SumTypes
<1>3. /\ step' \in Seq(Steps) /\ Len(step') = Len(step)
      /\ \A j \in 1 .. Len(step) : step'[j] = IF j = i THEN to ELSE step[j]
  BY <1>1, <1>2, ExceptSeq
<1>4. step'[i] = to /\ \A j \in DOMAIN chunk : j # i => step'[j] = step[j]
  BY <1>2, <1>3
<1>5. CutInv'
  BY <1>1 DEF CutInv, PS!Fits
<1>6. StageInv'
  BY <1>1, <1>4 DEF StageInv
<1>7. QED BY <1>1, <1>2, <1>3, <1>4, <1>5, <1>6

LEMMA SumNextInv == SumInv /\ [PS!Next]_(PS!vars) => SumInv'
<1> SUFFICES ASSUME SumInv, [PS!Next]_(PS!vars) PROVE SumInv'
  OBVIOUS
<1>0. SumTypes /\ LockInv /\ OwnInv /\ StoredInv /\ CutInv /\ StageInv
  BY DEF SumInv
<1>a. /\ DOMAIN chunk = 1 .. Len(chunk) /\ Len(chunk) \in Nat
      /\ \A i \in DOMAIN chunk : Found(chunk)[i] \in 0 .. Modulus - 1 /\ Found(chunk)[i] \in Int
      /\ \A S \in SUBSET DOMAIN chunk : IsFiniteSet(S) /\ Total(chunk, S) \in Int
  BY <1>0, FoundType DEF SumTypes
<1>b. Stored \in SUBSET DOMAIN chunk
  BY DEF Stored
\* The steps that leave the sums and the threads alone.
<1>1. ASSUME UNCHANGED <<end, threads, cstart, chunk, step, own, sum, mtx>>,
             stage' \in {"create", "join", "printed", "aborted"}, StageInv'
      PROVE  SumInv'
  <2>1. SumTypes' /\ LockInv' /\ OwnInv'
    BY <1>0, <1>1 DEF SumTypes, LockInv, Inside, OwnInv
  <2>2. StoredInv'
    BY <1>0, <1>1 DEF StoredInv, Stored
  <2>3. CutInv'
    BY <1>0, <1>1 DEF CutInv, PS!Fits
  <2>4. QED BY <1>1, <2>1, <2>2, <2>3 DEF SumInv
<1>2. CASE UNCHANGED PS!vars
  <2>1. UNCHANGED <<end, threads, cstart, chunk, step, own, sum, mtx, stage>>
    BY <1>2 DEF PS!vars
  <2>2. stage' \in {"create", "join", "printed", "aborted"} /\ StageInv'
    BY <1>0, <2>1 DEF SumTypes, StageInv
  <2>3. QED BY <1>1, <2>1, <2>2
<1>3. CASE PS!CreateFails \/ PS!StartJoining \/ PS!Report
  <2>1. UNCHANGED <<end, threads, cstart, chunk, step, own, sum, mtx>>
    BY <1>3 DEF PS!CreateFails, PS!StartJoining, PS!Report
  <2>2. stage' \in {"create", "join", "printed", "aborted"} /\ StageInv'
    BY <1>0, <1>3, <2>1
       DEF PS!CreateFails, PS!StartJoining, PS!Report, PS!Created, SumTypes, StageInv
  <2>3. QED BY <1>1, <2>1, <2>2
<1>4. CASE PS!Create
  <2> DEFINE k == Len(chunk)
             n == k + 1
             cend == PS!ChunkEnd(k)
  <2>1. /\ stage = "create" /\ k < threads
        /\ chunk' = Append(chunk, <<cstart, cend>>) /\ cstart' = cend
        /\ step' = Append(step, "sum") /\ own' = Append(own, 0)
        /\ UNCHANGED <<end, threads, sum, mtx, stage>>
    BY <1>4 DEF PS!Create
  <2>2. /\ end \in Nat /\ threads \in Nat /\ cstart \in Nat /\ k \in Nat /\ threads > 0
        /\ chunk \in Seq(Nat \X Nat)
    BY <1>0, <1>a, <2>1 DEF SumTypes
  <2>3. cend \in Nat
    <3>1. (end * (k + 1)) \in Nat
      BY <2>2
    <3>2. (end * (k + 1)) % Modulus \in 0 .. Modulus - 1
      BY <3>1, Divided
    <3> DEFINE x == (end * (k + 1)) % Modulus
    <3>3. x \in Nat /\ cend = x \div threads
      BY <3>2, ModulusAssumption DEF PS!ChunkEnd
    <3> HIDE DEF x, cend, k
    <3>4. QED BY <2>2, <3>3, Quotients
  <2> HIDE DEF cend
  <2>4. /\ chunk' \in Seq(Nat \X Nat) /\ Len(chunk') = n /\ chunk'[n] = <<cstart, cend>>
        /\ \A i \in 1 .. k : chunk'[i] = chunk[i]
    <3>1. <<cstart, cend>> \in Nat \X Nat
      BY <2>2, <2>3
    <3>2. QED BY <2>1, <2>2, <3>1, AppendProperties
  <2>5. /\ step' \in Seq(Steps) /\ Len(step') = n /\ step'[n] = "sum"
        /\ \A i \in 1 .. k : step'[i] = step[i]
    <3>1. "sum" \in Steps /\ step \in Seq(Steps) /\ Len(step) = k
      BY <1>0 DEF Steps, SumTypes
    <3>2. QED BY <2>1, <3>1, AppendProperties
  <2>6. /\ own' \in Seq(0 .. Modulus - 1) /\ Len(own') = n
        /\ \A i \in 1 .. k : own'[i] = own[i]
    <3>1. 0 \in 0 .. Modulus - 1 /\ own \in Seq(0 .. Modulus - 1) /\ Len(own) = k
      BY <1>0, ModulusAssumption DEF SumTypes
    <3>2. QED BY <2>1, <3>1, AppendProperties
  <2>7. DOMAIN chunk' = DOMAIN chunk \cup {n} /\ n \notin DOMAIN chunk /\ chunk' # <<>>
    <3>1. DOMAIN chunk' = 1 .. n
      BY <2>4
    <3>2. QED BY <1>a, <2>2, <2>4, <3>1
  <2>8. /\ \A i \in DOMAIN chunk : Found(chunk')[i] = Found(chunk)[i]
        /\ \A S \in SUBSET DOMAIN chunk : Total(chunk', S) = Total(chunk, S)
        /\ Total(chunk', DOMAIN chunk') = Total(chunk, DOMAIN chunk) + PS!SumOf(cstart, cend)
    <3>1. OneMore(chunk, cstart, cend, chunk', n)
      BY <1>a, <2>2, <2>3, <2>4, <2>7 DEF OneMore
    <3> HIDE DEF n
    <3>2. QED BY <3>1, FoundAppend
  <2>9. SumTypes'
    BY <1>0, <2>1, <2>2, <2>3, <2>4, <2>5, <2>6 DEF SumTypes
  <2>10. LockInv'
    BY <1>0, <1>a, <2>1, <2>5, <2>7 DEF LockInv, Inside
  <2>11. OwnInv'
    BY <1>0, <1>a, <2>1, <2>5, <2>6, <2>7, <2>8 DEF OwnInv
  <2>12. StoredInv'
    <3>1. Stored' = Stored
      BY <1>a, <2>5, <2>7 DEF Stored
    <3>2. QED BY <1>0, <1>b, <2>1, <2>8, <3>1 DEF StoredInv
  <2>13. StageInv'
    BY <2>1 DEF StageInv
  <2>14. CutInv'
    <3> SUFFICES ASSUME PS!Fits
                 PROVE  /\ cend = (end * n) \div threads
                        /\ Total(chunk', DOMAIN chunk') % Modulus = Plain(0, cend) % Modulus
      BY <2>1, <2>4, <2>7 DEF CutInv, PS!Fits
    <3>1. /\ cend = (end * n) \div threads
          /\ (end * k) \div threads <= cend
      <4>1. end * threads < Modulus
        BY DEF PS!Fits
      <4> HIDE DEF k
      <4>2. QED BY <2>1, <2>2, <4>1, CutStep DEF cend, PS!ChunkEnd
    <3>2. /\ cstart = IF chunk = <<>> THEN 1 ELSE (end * k) \div threads
          /\ Total(chunk, DOMAIN chunk) % Modulus = Plain(0, cstart) % Modulus
      BY <1>0, <2>2 DEF CutInv
    <3>3. cstart <= cend \/ (cstart = 1 /\ cend = 0)
      BY <2>3, <3>1, <3>2
    <3>4. /\ Plain(0, cstart) + Plain(cstart, cend) = Plain(0, cend)
          /\ Plain(0, cstart) \in Int /\ Plain(cstart, cend) \in Int
      BY <2>2, <2>3, <3>3, ChunkAdds
    <3> DEFINE T == Total(chunk, DOMAIN chunk)
               s == PS!SumOf(cstart, cend)
               p == Plain(cstart, cend)
               q == Plain(0, cstart)
    <3>5. T \in Int /\ s \in Int /\ s % Modulus = p % Modulus /\ T % Modulus = q % Modulus
      <4>1. s = p % Modulus /\ s \in 0 .. Modulus - 1
        BY <2>2, <2>3, SumOfIs
      <4>2. s % Modulus = s
        BY <4>1, RemainderSmall
      <4>3. T \in Int /\ s \in Int
        BY <1>a, <4>1, ModulusAssumption
      <4>4. QED BY <3>2, <4>1, <4>2, <4>3
    <3> HIDE DEF T, s, p, q
    <3>6. p \in Int /\ q \in Int
      BY <3>4 DEF p, q
    <3>7. (T + s) % Modulus = (q + s) % Modulus
      BY <3>5, <3>6, WrapInSum
    <3>8. (s + q) % Modulus = (p + q) % Modulus
      BY <3>5, <3>6, WrapInSum
    <3>9. q + s = s + q /\ q + p = p + q
      BY <3>5, <3>6
    <3>10. (T + s) % Modulus = (q + p) % Modulus
      BY <3>7, <3>8, <3>9
    <3>11. QED BY <2>8, <3>1, <3>4, <3>10 DEF T, s, p, q
  <2>15. QED BY <2>9, <2>10, <2>11, <2>12, <2>13, <2>14 DEF SumInv
<1>5. ASSUME NEW i \in DOMAIN chunk, PS!sum_function(i) PROVE SumInv'
  <2>0. /\ own \in Seq(0 .. Modulus - 1) /\ Len(own) = Len(chunk) /\ i \in 1 .. Len(own)
        /\ sum \in 0 .. Modulus - 1
        /\ Modulus \in Nat /\ Modulus > 0
    BY <1>0, <1>a, ModulusAssumption DEF SumTypes
  <2>a. PICK from, to : /\ PS!Move(i, from, to) /\ to \in Steps /\ from \in Steps \ {"done"}
                        /\ \/ from = "sum" /\ to = "lock" /\ PS!SumChunk(i)
                           \/ from = "lock" /\ to = "load" /\ PS!Lock(i)
                           \/ from = "load" /\ to = "store" /\ PS!Load(i)
                           \/ from = "store" /\ to = "unlock" /\ PS!Store(i)
                           \/ from = "unlock" /\ to = "done" /\ PS!Unlock(i)
    BY <1>5 DEF PS!sum_function, PS!SumChunk, PS!Lock, PS!Load, PS!Store, PS!Unlock, Steps
  <2>b. /\ step[i] = from /\ step' \in Seq(Steps) /\ Len(step') = Len(chunk)
        /\ step'[i] = to /\ \A j \in DOMAIN chunk : j # i => step'[j] = step[j]
        /\ CutInv' /\ StageInv'
    BY <1>0, <2>a, MoveKeeps
  <2>c. UNCHANGED <<end, threads, cstart, chunk, stage>>
    BY <2>a DEF PS!Move
  \* What is left to show of each step.
  <2>d. ASSUME own' \in Seq(0 .. Modulus - 1), Len(own') = Len(chunk), sum' \in 0 .. Modulus - 1,
               LockInv', OwnInv', StoredInv'
        PROVE  SumInv'
    <3>1. SumTypes'
      BY <1>0, <2>b, <2>c, <2>d DEF SumTypes
    <3>2. QED BY <2>b, <2>d, <3>1 DEF SumInv
  <2>e. ASSUME sum' = sum, {from, to} \cap {"unlock", "done"} = {} \/ (from = "unlock" /\ to = "done")
        PROVE  StoredInv'
    <3>1. Stored' = Stored
      BY <2>b, <2>c, <2>e DEF Stored
    <3>2. QED BY <1>0, <2>c, <2>e, <3>1 DEF StoredInv
  <2>1. CASE PS!SumChunk(i) /\ from = "sum" /\ to = "lock"
    <3> DEFINE found == PS!SumOf(chunk[i][1], chunk[i][2])
    <3>1. own' = [own EXCEPT ![i] = found] /\ UNCHANGED <<sum, mtx>>
      BY <2>1 DEF PS!SumChunk
    <3>2. found = Found(chunk)[i] /\ found \in 0 .. Modulus - 1
      BY <1>a DEF Found
    <3> HIDE DEF found
    <3>3. /\ own' \in Seq(0 .. Modulus - 1) /\ Len(own') = Len(own)
          /\ \A j \in 1 .. Len(own) : own'[j] = IF j = i THEN found ELSE own[j]
      BY <2>0, <3>1, <3>2, ExceptSeq
    <3>4. LockInv'
      BY <1>0, <2>1, <2>b, <2>c, <3>1 DEF LockInv, Inside
    <3>5. OwnInv'
      BY <1>0, <1>a, <2>0, <2>1, <2>b, <2>c, <3>1, <3>2, <3>3 DEF OwnInv
    <3>6. StoredInv'
      BY <2>1, <2>e, <3>1
    <3>7. QED BY <2>0, <2>d, <3>1, <3>3, <3>4, <3>5, <3>6
  <2>2. CASE PS!Lock(i) /\ from = "lock" /\ to = "load"
    <3>1. ~mtx /\ mtx' = TRUE /\ UNCHANGED <<own, sum>>
      BY <2>2 DEF PS!Lock
    <3>2. LockInv'
      BY <1>0, <2>2, <2>b, <2>c, <3>1 DEF LockInv, Inside
    <3>3. OwnInv'
      BY <1>0, <2>2, <2>b, <2>c, <3>1 DEF OwnInv
    <3>4. StoredInv'
      BY <2>2, <2>e, <3>1
    <3>5. QED BY <2>0, <2>d, <3>1, <3>2, <3>3, <3>4
  <2>3. CASE PS!Load(i) /\ from = "load" /\ to = "store"
    <3> DEFINE new == (sum + own[i]) % Modulus
    <3>1. own' = [own EXCEPT ![i] = new] /\ UNCHANGED <<sum, mtx>>
      BY <2>3 DEF PS!Load
    <3>2. own[i] = Found(chunk)[i]
      BY <1>0, <2>3, <2>b DEF OwnInv
    <3>3. new = (sum + Found(chunk)[i]) % Modulus /\ new \in 0 .. Modulus - 1
      <4>1. sum + Found(chunk)[i] \in Int
        BY <1>a, <2>0
      <4>2. QED BY <3>2, <4>1, Divided
    <3> HIDE DEF new
    <3>4. /\ own' \in Seq(0 .. Modulus - 1) /\ Len(own') = Len(own)
          /\ \A j \in 1 .. Len(own) : own'[j] = IF j = i THEN new ELSE own[j]
      BY <2>0, <3>1, <3>3, ExceptSeq
    <3>5. LockInv'
      BY <1>0, <2>3, <2>b, <2>c, <3>1 DEF LockInv, Inside
    <3>6. OwnInv'
      BY <1>0, <1>a, <2>0, <2>3, <2>b, <2>c, <3>1, <3>3, <3>4 DEF OwnInv
    <3>7. StoredInv'
      BY <2>3, <2>e, <3>1
    <3>8. QED BY <2>0, <2>d, <3>1, <3>4, <3>5, <3>6, <3>7
  <2>4. CASE PS!Store(i) /\ from = "store" /\ to = "unlock"
    <3>1. sum' = own[i] /\ UNCHANGED <<own, mtx>>
      BY <2>4 DEF PS!Store
    <3>2. own[i] = (sum + Found(chunk)[i]) % Modulus
      BY <1>0, <2>4, <2>b DEF OwnInv
    <3>3. sum' \in 0 .. Modulus - 1
      BY <2>0, <3>1
    <3>4. LockInv'
      BY <1>0, <2>4, <2>b, <2>c, <3>1 DEF LockInv, Inside
    \* Nobody else has added sum to its own while i had the mutex.
    <3>5. OwnInv'
      <4>1. \A j \in DOMAIN chunk : j # i => step[j] # "store"
        BY <1>0, <2>4, <2>b DEF LockInv, Inside
      <4>2. QED BY <1>0, <2>4, <2>b, <2>c, <3>1, <4>1 DEF OwnInv
    <3>6. StoredInv'
      <4> DEFINE G == Total(chunk, Stored)
                 f == Found(chunk)[i]
      <4>1. Stored' = Stored \cup {i} /\ i \notin Stored
        BY <2>4, <2>b, <2>c DEF Stored
      <4>2. Total(chunk, Stored \cup {i}) = f + G
        <5>1. IsFiniteSet(Stored) /\ \A j \in Stored \cup {i} : Found(chunk)[j] \in Int
          BY <1>a, <1>b
        <5>2. QED BY <4>1, <5>1, SumPutIn DEF Total
      <4>3. G \in Int /\ f \in Int /\ sum \in Int /\ sum % Modulus = G % Modulus
        <5>1. G \in Int /\ f \in Int
          BY <1>a, <1>b
        <5>2. sum = G % Modulus
          BY <1>0 DEF StoredInv
        <5>3. sum \in Int /\ sum % Modulus = sum
          BY <2>0, RemainderSmall
        <5>4. QED BY <5>1, <5>2, <5>3
      <4> HIDE DEF G, f
      <4>4. (sum + f) % Modulus = (G + f) % Modulus
        BY <4>3, WrapInSum
      <4>5. G + f = f + G
        BY <4>3
      <4>6. sum' = Total(chunk, Stored \cup {i}) % Modulus
        BY <3>1, <3>2, <4>2, <4>4, <4>5 DEF f
      <4>7. QED BY <2>c, <4>1, <4>6 DEF StoredInv
    <3>7. QED BY <2>0, <2>d, <3>1, <3>3, <3>4, <3>5, <3>6
  <2>5. CASE PS!Unlock(i) /\ from = "unlock" /\ to = "done"
    <3>1. mtx' = FALSE /\ UNCHANGED <<own, sum>>
      BY <2>5 DEF PS!Unlock
    <3>2. LockInv'
      BY <1>0, <2>5, <2>b, <2>c, <3>1 DEF LockInv, Inside
    <3>3. OwnInv'
      BY <1>0, <2>5, <2>b, <2>c, <3>1 DEF OwnInv
    <3>4. StoredInv'
      BY <2>5, <2>e, <3>1
    <3>5. QED BY <2>0, <2>d, <3>1, <3>2, <3>3, <3>4
  <2>6. QED BY <2>a, <2>1, <2>2, <2>3, <2>4, <2>5
<1>6. QED
  BY <1>2, <1>3, <1>4, <1>5 DEF PS!Next, PS!Created

\* Whatever the threads of multi_thread_sum.cpp do, the sum main prints is that
\* of the whole range, if the products that cut the range did not wrap around:
\* for any range, any number of threads, more than there are numbers too, and
\* any width of the numbers.
THEOREM PrintedSumIsWhole == PS!Spec => []SumIsWhole
<1>1. ASSUME SumInv, stage = "printed", threads > 0, PS!Fits
      PROVE  sum = PS!SumOf(PS!start, end)
  <2>1. /\ end \in Nat /\ threads \in Nat /\ sum \in 0 .. Modulus - 1 /\ chunk \in Seq(Nat \X Nat)
        /\ Len(chunk) = threads /\ \A i \in DOMAIN chunk : step[i] = "done"
    BY <1>1 DEF SumInv, SumTypes, StageInv
  <2>2. Stored = DOMAIN chunk
    BY <2>1 DEF Stored
  <2>3. chunk # <<>>
    BY <1>1, <2>1
  <2>4. cstart = (end * threads) \div threads
    BY <1>1, <2>1, <2>3 DEF SumInv, CutInv
  <2>5. cstart = end
    BY <1>1, <2>1, <2>4, Quotients
  <2>6. sum = Plain(0, end) % Modulus
    BY <1>1, <2>2, <2>5 DEF SumInv, CutInv, StoredInv
  <2>7. QED BY <2>1, <2>6, PlainFromOne, SumOfIs DEF PS!start
<1>2. SumInv => SumIsWhole
  BY <1>1 DEF SumIsWhole, PS!SumIsWhole
<1>3. QED BY <1>2, SumInitInv, SumNextInv, PTL DEF PS!Spec

=============================================================================
