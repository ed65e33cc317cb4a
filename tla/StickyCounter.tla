--------------------------- MODULE StickyCounter ----------------------------
(***************************************************************************)
(* wait_free_counter/counter.cpp: a 64-bit atomic word whose two top bits  *)
(* are flags.  Each atomic instruction is one step.  The counter starts at *)
(* 1 for the reference of its creator; a thread calls decrement() only to  *)
(* give up a reference, and whoever won increment_if_not_zero() owns one.  *)
(***************************************************************************)
EXTENDS Naturals, FiniteSets

CONSTANTS
  Threads,
  Helped  \* the value of the helped bit (2^62 in the code)

ASSUME HelpedAssumption == Helped \in Nat /\ Helped > 2

IsZero == 2 * Helped  \* the value of the is_zero bit, the top one

\* The flag tests of the code, for words below 4 * Helped.
HasIsZero(v) == v >= IsZero
HasHelped(v) == v \in Helped .. IsZero - 1 \/ v >= IsZero + Helped

VARIABLES
  counter,  \* the atomic word
  pc,       \* where thread t is in the call it makes
  refs,     \* references given out and not given up (history)
  wins,     \* calls of decrement() that have returned true (history)
  zeroRead  \* some read() has returned 0 (history)

vars == <<counter, pc, refs, wins, zeroRead>>

\* "cas": fetch_sub returned 1, the compare_exchange of decrement() is next;
\* "exchange": that one failed and saw helped; "readCas": load() returned 0.
PCs == {"idle", "cas", "exchange", "readCas"}

Goto(t, from, to) ==
  /\ pc[t] = from
  /\ pc' = [pc EXCEPT ![t] = to]

\* Bound: the next increment carries into no flag (it would take 2^62 of them).
Room == counter \notin {Helped - 1, IsZero - 1, IsZero + Helped - 1, 2 * IsZero - 1}

Init ==
  /\ counter = 1
  /\ pc = [t \in Threads |-> "idle"]
  /\ refs = 1 /\ wins = 0 /\ zeroRead = FALSE

-----------------------------------------------------------------------------
(* increment_if_not_zero *)

\* fetch_add; the reference is won unless is_zero was set.
Increment(t) ==
  /\ pc[t] = "idle" /\ Room
  /\ counter' = counter + 1
  /\ refs' = IF HasIsZero(counter) THEN refs ELSE refs + 1
  /\ UNCHANGED <<pc, wins, zeroRead>>

-----------------------------------------------------------------------------
(* decrement *)

\* fetch_sub; it returns false at once unless the word was 1.
FetchSub(t) ==
  /\ refs > 0
  /\ Goto(t, "idle", IF counter = 1 THEN "cas" ELSE "idle")
  /\ counter' = counter - 1
  /\ refs' = refs - 1
  /\ UNCHANGED <<wins, zeroRead>>

\* is_zero stored whatever the word has become.
BadSetZero(t) ==
  /\ Goto(t, "cas", "idle")
  /\ counter' = IsZero /\ wins' = wins + 1
  /\ UNCHANGED <<refs, zeroRead>>

\* compare_exchange_strong(0, is_zero) succeeds: decrement() returns true.
SetZero(t) ==
  /\ Goto(t, "cas", "idle")
  /\ counter = 0
  /\ counter' = IsZero /\ wins' = wins + 1
  /\ UNCHANGED <<refs, zeroRead>>

\* It fails; without the helped bit decrement() returns false.
GiveUp(t) ==
  /\ counter # 0
  /\ Goto(t, "cas", IF HasHelped(counter) THEN "exchange" ELSE "idle")
  /\ UNCHANGED <<counter, refs, wins, zeroRead>>

\* The bit seen by the failed compare_exchange taken as proof enough.
BadExchange(t) ==
  /\ Goto(t, "exchange", "idle")
  /\ counter' = IsZero
  /\ wins' = wins + 1
  /\ UNCHANGED <<refs, zeroRead>>

\* exchange(is_zero): the one that takes the helped bit out returns true.
Exchange(t) ==
  /\ Goto(t, "exchange", "idle")
  /\ counter' = IsZero
  /\ wins' = IF HasHelped(counter) THEN wins + 1 ELSE wins
  /\ UNCHANGED <<refs, zeroRead>>

-----------------------------------------------------------------------------
(* read *)

\* load; any value but 0 is returned as it is, or as 0 under is_zero.
Load(t) ==
  /\ Goto(t, "idle", IF counter = 0 THEN "readCas" ELSE "idle")
  /\ zeroRead' = (zeroRead \/ HasIsZero(counter))
  /\ UNCHANGED <<counter, refs, wins>>

\* The load alone decides.
BadReadCas(t) ==
  /\ Goto(t, "readCas", "idle")
  /\ counter' = IF counter = 0 THEN IsZero + Helped ELSE counter
  /\ zeroRead' = TRUE
  /\ UNCHANGED <<refs, wins>>

\* The helper that sets is_zero alone leaves nobody to win.
BadHelp(t) ==
  /\ Goto(t, "readCas", "idle")
  /\ counter' = IF counter = 0 THEN IsZero ELSE counter
  /\ zeroRead' = (zeroRead \/ HasIsZero(counter'))
  /\ UNCHANGED <<refs, wins>>

\* compare_exchange_strong(0, is_zero | helped); where it fails, value is
\* reloaded and decides what is returned.
ReadCas(t) ==
  /\ Goto(t, "readCas", "idle")
  /\ counter' = IF counter = 0 THEN IsZero + Helped ELSE counter
  /\ zeroRead' = (zeroRead \/ HasIsZero(counter'))
  /\ UNCHANGED <<refs, wins>>

decrement(t) == FetchSub(t) \/ SetZero(t) \/ GiveUp(t) \/ Exchange(t)
read(t) == Load(t) \/ ReadCas(t)

Next == \E t \in Threads : Increment(t) \/ decrement(t) \/ read(t)

Spec == Init /\ [][Next]_vars

\* A thread that is inside a call keeps running.
FairSpec ==
  Spec /\ \A t \in Threads :
            WF_vars(SetZero(t) \/ GiveUp(t) \/ Exchange(t) \/ ReadCas(t))

-----------------------------------------------------------------------------
(* Properties *)

Zero == HasIsZero(counter)

TypeOK ==
  /\ counter \in 0 .. 2 * IsZero - 1
  /\ pc \in [Threads -> PCs]
  /\ refs \in Nat /\ wins \in {0, 1} /\ zeroRead \in BOOLEAN

\* Until it is zero for good the word is the number of references, and it is
\* zero for good only when there is none: no reference outlives the counter.
CountsReferences == IF Zero THEN refs = 0 ELSE counter = refs /\ wins = 0

\* While the word is 0 or helped, a decrement() is under way that will notice.
SomebodyNotices ==
  /\ counter = 0 => \E t \in Threads : pc[t] = "cas"
  /\ Zero /\ HasHelped(counter) => \E t \in Threads : pc[t] \in {"cas", "exchange"}

\* Exactly one decrement() returns true for a counter that is zero, however
\* many saw fetch_sub return 1; it may still be pending on the helped bit.
OneWinner == Zero => wins = IF HasHelped(counter) THEN 0 ELSE 1

\* Once a read() has returned 0 there is no reference and never will be.
ReadZeroIsFinal == zeroRead => Zero /\ refs = 0

\* The zero flag never goes away.
Sticky == [][Zero => Zero']_vars

\* A count that stays without references has a winner in the end.
ZeroIsClaimed == refs = 0 ~> (refs > 0 \/ wins = 1)

R == INSTANCE RefCount WITH dead <- Zero, won <- wins = 1
ImplementsRefCount == R!Spec
=============================================================================
