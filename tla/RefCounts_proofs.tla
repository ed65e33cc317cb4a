-------------------------- MODULE RefCounts_proofs --------------------------
(***************************************************************************)
(* Proofs about the two reference counts.                                  *)
(*                                                                         *)
(* wait_free_counter/counter.cpp, for every number of threads and every    *)
(* position of the helped bit: IInv adds two facts to the invariants that  *)
(* are model-checked, namely that the count never reaches the flags and    *)
(* that nobody is at the exchange before the zero flag is set.             *)
(*                                                                         *)
(* shared_Pointer/main.cpp, for any variables and addresses: a count is    *)
(* the number of its owners and of the references assignment has           *)
(* forgotten.  There may be infinitely many variables: only finitely many  *)
(* are alive at a time.                                                    *)
(***************************************************************************)
EXTENDS StickyCounter, SharedPtr, FiniteSetTheorems, TLAPS

IInv ==
  /\ TypeOK
  /\ Zero \/ counter < Helped
  /\ \A t \in Threads : pc[t] = "exchange" => Zero
  /\ CountsReferences
  /\ SomebodyNotices
  /\ OneWinner
  /\ ReadZeroIsFinal

\* The counter created with the value 1 satisfies the inductive invariant.
LEMMA InitIInv == Init => IInv
<1> SUFFICES ASSUME Init PROVE IInv
  OBVIOUS
<1>1. /\ counter = 1 /\ refs = 1 /\ wins = 0 /\ zeroRead = FALSE
      /\ pc = [t \in Threads |-> "idle"]
  BY DEF Init
<1>2. ~Zero /\ counter < Helped /\ counter \in 0 .. 2 * IsZero - 1
  BY <1>1, HelpedAssumption DEF Zero, HasIsZero, IsZero
<1>3. TypeOK
  BY <1>1, <1>2 DEF TypeOK, PCs
<1>4. SomebodyNotices
  BY <1>1, <1>2 DEF SomebodyNotices
<1>5. CountsReferences /\ OneWinner /\ ReadZeroIsFinal
  BY <1>1, <1>2 DEF CountsReferences, OneWinner, ReadZeroIsFinal
<1>6. QED BY <1>1, <1>2, <1>3, <1>4, <1>5 DEF IInv

\* Every atomic instruction of counter.cpp preserves the inductive invariant.
LEMMA NextIInv == IInv /\ [Next]_vars => IInv'
<1> USE HelpedAssumption
    DEF TypeOK, PCs, Goto, CountsReferences, OneWinner, ReadZeroIsFinal, Zero, HasIsZero, HasHelped, IsZero
<1> SUFFICES ASSUME IInv, [Next]_vars PROVE IInv'
  OBVIOUS
<1>1. ASSUME NEW t \in Threads, Increment(t) PROVE IInv'
  BY <1>1 DEF Increment, Room, IInv, SomebodyNotices
<1>2. ASSUME NEW t \in Threads, FetchSub(t) PROVE IInv'
  <2>1. ~Zero /\ counter = refs /\ counter \in 1 .. Helped - 1
    BY <1>2 DEF FetchSub, IInv
  <2>2. \A u \in Threads \ {t} : pc'[u] = pc[u]
    BY <1>2 DEF FetchSub, IInv
  <2>3. SomebodyNotices'
    BY <1>2, <2>1 DEF FetchSub, IInv, SomebodyNotices
  <2>4. QED BY <1>2, <2>1, <2>2, <2>3 DEF FetchSub, IInv
<1>3. ASSUME NEW t \in Threads, SetZero(t) PROVE IInv'
  BY <1>3 DEF SetZero, IInv, SomebodyNotices
<1>4. ASSUME NEW t \in Threads, GiveUp(t) PROVE IInv'
  <2>1. /\ pc[t] = "cas" /\ counter # 0
        /\ pc' = [pc EXCEPT ![t] = IF HasHelped(counter) THEN "exchange" ELSE "idle"]
        /\ UNCHANGED <<counter, refs, wins, zeroRead>>
    BY <1>4 DEF GiveUp
  <2>2. HasHelped(counter) => Zero
    BY DEF IInv
  <2>3. HasHelped(counter) => pc'[t] = "exchange"
    BY <2>1 DEF IInv
  <2>4. SomebodyNotices'
    BY <2>1, <2>3 DEF SomebodyNotices
  <2>5. pc' \in [Threads -> PCs] /\ \A u \in Threads : pc'[u] = "exchange" => Zero'
    BY <2>1, <2>2 DEF IInv
  <2>6. QED BY <2>1, <2>4, <2>5 DEF IInv
<1>5. ASSUME NEW t \in Threads, Exchange(t) PROVE IInv'
  BY <1>5 DEF Exchange, IInv, SomebodyNotices
<1>6. ASSUME NEW t \in Threads, Load(t) PROVE IInv'
  <2>1. /\ pc[t] = "idle" /\ pc'[t] \in {"idle", "readCas"} /\ pc' \in [Threads -> PCs]
        /\ \A u \in Threads \ {t} : pc'[u] = pc[u]
        /\ UNCHANGED <<counter, refs, wins>> /\ zeroRead' = (zeroRead \/ HasIsZero(counter))
    BY <1>6 DEF Load, IInv
  <2>2. SomebodyNotices'
    BY <2>1 DEF IInv, SomebodyNotices
  <2>3. ReadZeroIsFinal' /\ zeroRead' \in BOOLEAN
    BY <2>1 DEF IInv
  <2>4. QED BY <2>1, <2>2, <2>3 DEF IInv
<1>7. ASSUME NEW t \in Threads, ReadCas(t) PROVE IInv'
  <2>1. /\ pc[t] = "readCas" /\ pc'[t] = "idle" /\ pc' \in [Threads -> PCs]
        /\ \A u \in Threads \ {t} : pc'[u] = pc[u]
        /\ counter' = IF counter = 0 THEN IsZero + Helped ELSE counter
        /\ UNCHANGED <<refs, wins>> /\ zeroRead' = (zeroRead \/ HasIsZero(counter'))
    BY <1>7 DEF ReadCas, IInv
  <2>2. SomebodyNotices'
    BY <2>1 DEF IInv, SomebodyNotices
  <2>3. ReadZeroIsFinal' /\ zeroRead' \in BOOLEAN
    BY <2>1 DEF IInv
  <2>4. QED BY <2>1, <2>2, <2>3 DEF IInv
<1>8. CASE UNCHANGED vars
  BY <1>8 DEF vars, IInv, SomebodyNotices
<1>9. QED
  BY <1>1, <1>2, <1>3, <1>4, <1>5, <1>6, <1>7, <1>8 DEF Next, decrement, read

\* IInv holds in every reachable state of counter.cpp.
LEMMA Invariance == Spec => []IInv
BY InitIInv, NextIInv, PTL DEF Spec

-----------------------------------------------------------------------------
\* No reference outlives the counter, for any number of threads: the word is
\* the number of references until it is zero for good, and then there is none.
THEOREM CountIsReferences == Spec => []CountsReferences
<1>1. IInv => CountsReferences
  BY DEF IInv
<1>2. QED BY <1>1, Invariance, PTL

\* Exactly one decrement() claims a dead counter, for any number of threads.
THEOREM ExactlyOneWinner == Spec => []OneWinner
<1>1. IInv => OneWinner
  BY DEF IInv
<1>2. QED BY <1>1, Invariance, PTL

\* A zero returned by read() is final, for any number of threads.
THEOREM ZeroReadIsFinal == Spec => []ReadZeroIsFinal
<1>1. IInv => ReadZeroIsFinal
  BY DEF IInv
<1>2. QED BY <1>1, Invariance, PTL

\* A decrement() that will notice is under way while the counter is not yet
\* claimed: the helped bit is never set with nobody to find it.
THEOREM HelpIsNoticed == Spec => []SomebodyNotices
<1>1. IInv => SomebodyNotices
  BY DEF IInv
<1>2. QED BY <1>1, Invariance, PTL

-----------------------------------------------------------------------------
\* The zero flag never goes away, for any number of threads.
THEOREM ZeroIsSticky == Spec => Sticky
<1>1. IInv /\ [Next]_vars => [Zero => Zero']_vars
  <2> USE HelpedAssumption DEF Zero, HasIsZero, IsZero
  <2> SUFFICES ASSUME IInv, [Next]_vars, Zero PROVE Zero'
    OBVIOUS
  <2>1. counter \in Nat /\ refs = 0
    BY DEF IInv, TypeOK, CountsReferences
  <2>2. ASSUME NEW t \in Threads, Increment(t) \/ decrement(t) \/ read(t) PROVE Zero'
    BY <2>1, <2>2 DEF Increment, decrement, FetchSub, SetZero, GiveUp, Exchange, read, Load, ReadCas
  <2>3. CASE UNCHANGED vars
    BY <2>3 DEF vars
  <2>4. QED BY <2>2, <2>3 DEF Next
<1>2. QED BY <1>1, Invariance, PTL DEF Spec, Sticky

\* For any number of threads, every atomic instruction of counter.cpp is a
\* step of the abstract reference count or leaves it as it is.
THEOREM CounterImplementsRefCount == Spec => ImplementsRefCount
<1>1. Init => R!Init
  BY HelpedAssumption DEF Init, R!Init, Zero, HasIsZero, IsZero
<1>2. IInv /\ [Next]_vars => [R!Next]_<<refs, Zero, wins = 1>>
  <2> SUFFICES ASSUME IInv, [Next]_vars
               PROVE  R!Next \/ UNCHANGED <<refs, Zero, wins = 1>>
    BY DEF R!rvars
  <2>0. /\ counter \in Nat /\ refs \in Nat /\ IInv'
        /\ IF Zero THEN refs = 0 ELSE counter = refs /\ wins = 0
        /\ Zero => wins = IF HasHelped(counter) THEN 0 ELSE 1
    BY NextIInv DEF IInv, TypeOK, CountsReferences, OneWinner
  <2>1. ASSUME NEW t \in Threads, Increment(t) PROVE R!Next \/ UNCHANGED <<refs, Zero, wins = 1>>
    <3>1. CASE Zero
      <4>1. refs' = refs /\ wins' = wins /\ Zero'
        BY <2>0, <2>1, <3>1, HelpedAssumption DEF Increment, Zero, HasIsZero, IsZero
      <4>2. QED BY <3>1, <4>1
    <3>2. CASE ~Zero
      <4>1. refs' = refs + 1 /\ wins' = wins
        BY <2>1, <3>2 DEF Increment, Zero
      <4>2. ~Zero'
        BY <2>0, <4>1 DEF IInv, CountsReferences
      <4>3. R!Acquire
        BY <3>2, <4>1, <4>2 DEF R!Acquire, Zero, HasIsZero
      <4>4. QED BY <4>3 DEF R!Next
    <3>3. QED BY <3>1, <3>2
  <2>2. ASSUME NEW t \in Threads, FetchSub(t) PROVE R!Next
    <3>1. refs > 0 /\ refs' = refs - 1 /\ wins' = wins /\ ~Zero
      BY <2>0, <2>2 DEF FetchSub
    <3>2. ~Zero'
      BY <2>0, <2>2, <3>1, HelpedAssumption DEF FetchSub, Zero, HasIsZero, IsZero
    <3>3. R!Release
      BY <3>1, <3>2 DEF R!Release, Zero, HasIsZero
    <3>4. QED BY <3>3 DEF R!Next
  <2>3. ASSUME NEW t \in Threads, SetZero(t) PROVE R!Next
    <3>1. ~Zero /\ refs = 0 /\ Zero' /\ refs' = refs
      BY <2>0, <2>3, HelpedAssumption DEF SetZero, Zero, HasIsZero, IsZero
    <3>2. R!Die
      BY <3>1 DEF R!Die
    <3>3. QED BY <3>2 DEF R!Next
  <2>4. ASSUME NEW t \in Threads, GiveUp(t) \/ Load(t) PROVE UNCHANGED <<refs, Zero, wins = 1>>
    BY <2>4 DEF GiveUp, Load, Zero
  <2>5. ASSUME NEW t \in Threads, Exchange(t) PROVE R!Next \/ UNCHANGED <<refs, Zero, wins = 1>>
    <3>1. Zero /\ Zero' /\ refs' = refs
      BY <2>5, HelpedAssumption DEF Exchange, Goto, IInv, Zero, HasIsZero, IsZero
    <3>2. CASE HasHelped(counter)
      <4>1. wins = 0 /\ wins' = 1
        BY <2>0, <2>5, <3>1, <3>2 DEF Exchange
      <4>2. R!Win
        BY <3>1, <4>1 DEF R!Win
      <4>3. QED BY <4>2 DEF R!Next
    <3>3. CASE ~HasHelped(counter)
      BY <2>5, <3>1, <3>3 DEF Exchange
    <3>4. QED BY <3>2, <3>3
  <2>6. ASSUME NEW t \in Threads, ReadCas(t) PROVE R!Next \/ UNCHANGED <<refs, Zero, wins = 1>>
    <3>1. CASE counter = 0
      <4>1. ~Zero /\ refs = 0 /\ Zero' /\ refs' = refs
        BY <2>0, <2>6, <3>1, HelpedAssumption DEF ReadCas, Zero, HasIsZero, IsZero
      <4>2. R!Die
        BY <4>1 DEF R!Die
      <4>3. QED BY <4>2 DEF R!Next
    <3>2. CASE counter # 0
      BY <2>6, <3>2 DEF ReadCas, Zero
    <3>3. QED BY <3>1, <3>2
  <2>7. CASE UNCHANGED vars
    BY <2>7 DEF vars, Zero
  <2>8. QED
    BY <2>1, <2>2, <2>3, <2>4, <2>5, <2>6, <2>7 DEF Next, decrement, read
<1>3. QED BY <1>1, <1>2, Invariance, PTL DEF Spec, ImplementsRefCount, R!Spec, R!rvars

-----------------------------------------------------------------------------
(* SharedPtr *)

FinitelyManyAlive == IsFiniteSet({p \in Names : Alive(p)})

\* The owners of an address have a number because few variables are alive.
PtrInv == PtrTypeOK /\ FinitelyManyAlive /\ CountsOwnersAndLost

\* An address has finitely many owners.
LEMMA OwnersAreFinite ==
  ASSUME FinitelyManyAlive, NEW a \in Addresses
  PROVE  IsFiniteSet(Owners(a)) /\ Cardinality(Owners(a)) \in Nat
<1>1. a # Nowhere
  BY DEF Addresses, Nowhere
<1>2. Owners(a) \subseteq {p \in Names : Alive(p)}
  BY <1>1 DEF Owners, Alive
<1> QED
  BY <1>2, FS_Subset, FS_CardinalityType DEF FinitelyManyAlive

\* Before the first pointer is constructed nobody owns anything.
LEMMA PtrInitInv == PtrInit => PtrInv
<1> SUFFICES ASSUME PtrInit PROVE PtrInv
  OBVIOUS
<1>1. PtrTypeOK
  BY DEF PtrInit, PtrTypeOK
<1>2. \A p \in Names : ~Alive(p)
  BY DEF PtrInit, Alive
<1>3. FinitelyManyAlive
  <2>1. {p \in Names : Alive(p)} = {}
    BY <1>2
  <2> QED
    BY <2>1, FS_EmptySet DEF FinitelyManyAlive
<1>4. ASSUME NEW a \in Addresses
      PROVE  size[a] = Cardinality(Owners(a)) + lost[a]
  <2>1. Owners(a) = {}
    BY <1>4 DEF PtrInit, Owners, Addresses, Nowhere
  <2>2. size[a] = 0 /\ lost[a] = 0
    BY <1>4 DEF PtrInit
  <2> QED
    BY <2>1, <2>2, FS_EmptySet
<1> QED
  BY <1>1, <1>3, <1>4 DEF PtrInv, CountsOwnersAndLost

\* A variable p that changes from one address to another changes the owners of
\* these two only.
LEMMA OwnersChange ==
  ASSUME PtrTypeOK, FinitelyManyAlive, NEW p \in Names, NEW b \in Addresses \cup {Nowhere},
         ptr' = [ptr EXCEPT ![p] = b], NEW a \in Addresses
  PROVE  /\ a = ptr[p] /\ a # b => Cardinality(Owners(a)') = Cardinality(Owners(a)) - 1
         /\ a # ptr[p] /\ a = b => Cardinality(Owners(a)') = Cardinality(Owners(a)) + 1
         /\ (a = ptr[p] <=> a = b) => Cardinality(Owners(a)') = Cardinality(Owners(a))
<1>1. ptr \in [Names -> Addresses \cup {Nowhere}]
  BY DEF PtrTypeOK
<1>2. IsFiniteSet(Owners(a)) /\ Cardinality(Owners(a)) \in Nat
  BY OwnersAreFinite
<1>3. CASE a = ptr[p] /\ a # b
  <2>1. Owners(a)' = Owners(a) \ {p} /\ p \in Owners(a)
    BY <1>1, <1>3 DEF Owners
  <2> QED
    BY <2>1, <1>2, <1>3, FS_RemoveElement
<1>4. CASE a # ptr[p] /\ a = b
  <2>1. Owners(a)' = Owners(a) \cup {p} /\ p \notin Owners(a)
    BY <1>1, <1>4 DEF Owners
  <2> QED
    BY <2>1, <1>2, <1>4, FS_AddElement
<1>5. CASE a = ptr[p] <=> a = b
  <2>1. Owners(a)' = Owners(a)
    BY <1>1, <1>5 DEF Owners
  <2> QED
    BY <2>1, <1>5
<1> QED
  BY <1>3, <1>4, <1>5

\* One variable that changes leaves finitely many alive.
LEMMA AliveChange ==
  ASSUME FinitelyManyAlive, NEW p \in Names, NEW b, PtrTypeOK,
         ptr' = [ptr EXCEPT ![p] = b]
  PROVE  FinitelyManyAlive'
<1>1. {q \in Names : Alive(q)}' \subseteq {q \in Names : Alive(q)} \cup {p}
  BY DEF Alive, PtrTypeOK
<1>2. IsFiniteSet({q \in Names : Alive(q)} \cup {p})
  BY FS_AddElement DEF FinitelyManyAlive
<1> QED
  BY <1>1, <1>2, FS_Subset DEF FinitelyManyAlive

\* Every construction, copy, assignment and destruction keeps the counts right.
LEMMA PtrNextInv == PtrInv /\ [PtrNext]_ptrVars => PtrInv'
<1> SUFFICES ASSUME PtrInv, [PtrNext]_ptrVars PROVE PtrInv'
  OBVIOUS
<1> USE DEF PtrInv
<1>0. \A a \in Addresses : /\ size[a] \in Nat /\ lost[a] \in Nat /\ Cardinality(Owners(a)) \in Nat
                           /\ size[a] = Cardinality(Owners(a)) + lost[a]
  BY OwnersAreFinite DEF PtrTypeOK, CountsOwnersAndLost
<1>1. ASSUME NEW p \in Names, NEW b \in Addresses, Construct(p, b) PROVE PtrInv'
  <2>1. /\ ptr' = [ptr EXCEPT ![p] = b] /\ ptr[p] = Nowhere /\ size[b] = 0
        /\ size' = [size EXCEPT ![b] = 1] /\ lost' = lost
    BY <1>1 DEF Construct, Alive
  <2>2. PtrTypeOK'
    BY <2>1 DEF PtrTypeOK
  <2>3. FinitelyManyAlive'
    BY <2>1, AliveChange
  <2>4. ASSUME NEW a \in Addresses PROVE (size[a] = Cardinality(Owners(a)) + lost[a])'
    <3>1. a # Nowhere
      BY DEF Addresses, Nowhere
    <3>2. Cardinality(Owners(a)') = IF a = b THEN Cardinality(Owners(a)) + 1 ELSE Cardinality(Owners(a))
      BY <2>1, <3>1, OwnersChange
    <3>3. size'[a] = IF a = b THEN size[a] + 1 ELSE size[a]
      BY <2>1 DEF PtrTypeOK
    <3> QED
      BY <1>0, <2>1, <3>2, <3>3
  <2> QED
    BY <2>2, <2>3, <2>4 DEF CountsOwnersAndLost
<1>2. ASSUME NEW p \in Names, NEW other \in Names, Copy(p, other) PROVE PtrInv'
  <2> DEFINE b == ptr[other]
  <2>1. /\ ptr' = [ptr EXCEPT ![p] = b] /\ ptr[p] = Nowhere /\ b \in Addresses
        /\ size' = [size EXCEPT ![b] = @ + 1] /\ lost' = lost
    BY <1>2 DEF Copy, Alive, PtrTypeOK
  <2> HIDE DEF b
  <2>2. PtrTypeOK'
    BY <2>1 DEF PtrTypeOK
  <2>3. FinitelyManyAlive'
    BY <2>1, AliveChange
  <2>4. ASSUME NEW a \in Addresses PROVE (size[a] = Cardinality(Owners(a)) + lost[a])'
    <3>1. a # Nowhere
      BY DEF Addresses, Nowhere
    <3>2. Cardinality(Owners(a)') = IF a = b THEN Cardinality(Owners(a)) + 1 ELSE Cardinality(Owners(a))
      BY <2>1, <3>1, OwnersChange
    <3>3. size'[a] = IF a = b THEN size[a] + 1 ELSE size[a]
      BY <2>1 DEF PtrTypeOK
    <3> QED
      BY <1>0, <2>1, <3>2, <3>3
  <2> QED
    BY <2>2, <2>3, <2>4 DEF CountsOwnersAndLost
<1>3. ASSUME NEW p \in Names, NEW other \in Names, Assign(p, other) PROVE PtrInv'
  <2> DEFINE b == ptr[other]
             c == ptr[p]
  <2>1. /\ ptr' = [ptr EXCEPT ![p] = b] /\ b \in Addresses /\ c \in Addresses
        /\ size' = [size EXCEPT ![b] = @ + 1] /\ lost' = [lost EXCEPT ![c] = @ + 1]
    BY <1>3 DEF Assign, Alive, PtrTypeOK
  <2>2. PtrTypeOK'
    BY <2>1 DEF PtrTypeOK
  <2>3. FinitelyManyAlive'
    BY <2>1, AliveChange
  <2>4. ASSUME NEW a \in Addresses PROVE (size[a] = Cardinality(Owners(a)) + lost[a])'
    <3>1. /\ a = c /\ a # b => Cardinality(Owners(a)') = Cardinality(Owners(a)) - 1
          /\ a # c /\ a = b => Cardinality(Owners(a)') = Cardinality(Owners(a)) + 1
          /\ (a = c <=> a = b) => Cardinality(Owners(a)') = Cardinality(Owners(a))
      BY <2>1, OwnersChange
    <3>2. size'[a] = IF a = b THEN size[a] + 1 ELSE size[a]
      BY <2>1 DEF PtrTypeOK
    <3>3. lost'[a] = IF a = c THEN lost[a] + 1 ELSE lost[a]
      BY <2>1 DEF PtrTypeOK
    <3> QED
      BY <1>0, <3>1, <3>2, <3>3
  <2> QED
    BY <2>2, <2>3, <2>4 DEF CountsOwnersAndLost
<1>4. ASSUME NEW p \in Names, Destroy(p) PROVE PtrInv'
  <2> DEFINE c == ptr[p]
  <2>1. /\ ptr' = [ptr EXCEPT ![p] = Nowhere] /\ c \in Addresses
        /\ size' = [size EXCEPT ![c] = @ - 1] /\ lost' = lost
    BY <1>4 DEF Destroy, Alive, PtrTypeOK
  <2>2. p \in Owners(c)
    BY DEF Owners
  <2>3. Cardinality(Owners(c)) > 0
    BY <2>1, <2>2, OwnersAreFinite, FS_EmptySet
  <2>4. size[c] > 0
    BY <1>0, <2>1, <2>3
  <2>5. PtrTypeOK'
    BY <2>1, <2>4 DEF PtrTypeOK
  <2>6. FinitelyManyAlive'
    BY <2>1, AliveChange
  <2>7. ASSUME NEW a \in Addresses PROVE (size[a] = Cardinality(Owners(a)) + lost[a])'
    <3>1. a # Nowhere
      BY DEF Addresses, Nowhere
    <3>2. Cardinality(Owners(a)') = IF a = c THEN Cardinality(Owners(a)) - 1 ELSE Cardinality(Owners(a))
      BY <2>1, <3>1, OwnersChange
    <3>3. size'[a] = IF a = c THEN size[a] - 1 ELSE size[a]
      BY <2>1 DEF PtrTypeOK
    <3> QED
      BY <1>0, <2>1, <3>2, <3>3
  <2> QED
    BY <2>5, <2>6, <2>7 DEF CountsOwnersAndLost
<1>5. ASSUME UNCHANGED ptrVars PROVE PtrInv'
  BY <1>5 DEF ptrVars, PtrTypeOK, FinitelyManyAlive, Alive, CountsOwnersAndLost, Owners
<1> QED
  BY <1>1, <1>2, <1>3, <1>4, <1>5 DEF PtrNext

\* However pointers are constructed, copied, assigned and destroyed, a count
\* is the number of its owners and of the references assignment overwrote.
THEOREM CountsAreOwnersAndLost == PtrSpec => []CountsOwnersAndLost
<1>1. PtrInv => CountsOwnersAndLost
  BY DEF PtrInv
<1> QED
  BY <1>1, PtrInitInv, PtrNextInv, PTL DEF PtrSpec
=============================================================================
