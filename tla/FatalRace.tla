----------------------------- MODULE FatalRace ------------------------------
(***************************************************************************)
(* producer_consumer/fatal_race.c: a producer and a consumer that sleep on *)
(* a flag of their own when the buffer is full or empty and are woken by   *)
(* the other.  Nothing is atomic: the Makefile builds without -O, so every *)
(* access of count, producer_f and consumer_f is one load or one store,    *)
(* and count++ is both.  The loads and stores interleave; store buffers    *)
(* are not modelled.                                                       *)
(*                                                                         *)
(* The two loops have one shape, so the thread is a parameter.  items and  *)
(* races are history: the code keeps neither.                              *)
(***************************************************************************)
EXTENDS Integers

CONSTANTS
  N,     \* number of slots in the buffer (100 in the code)
  Slack  \* bound: how far items and count may leave 0 .. N

ASSUME NAssumption == N \in Nat /\ N >= 2
ASSUME SlackAssumption == Slack \in Nat

VARIABLES
  count,  \* the shared counter
  flag,   \* producer_f and consumer_f: 1 while the thread is to sleep
  reg,    \* the value count++ or count-- has loaded
  items,  \* calls of insert_item less calls of remove_item
  pc,     \* what each thread does next
  races   \* the kinds of race that have happened

vars == <<count, flag, reg, items, pc, races>>

Threads == {"producer", "consumer"}
Other(t) == CHOOSE u \in Threads : u # t
Delta(t) == IF t = "producer" THEN 1 ELSE -1   \* count++ and count--
Limit(t) == IF t = "producer" THEN N ELSE 0    \* the count at which t sleeps
Signal(t) == IF t = "producer" THEN 1 ELSE N - 1  \* and at which it wakes the other

\* check, goto_sleep's store and its loop, insert_item or remove_item, the
\* load and the store of count, the second comparison, wakeup.
PCs == {"check", "doze", "spin", "item", "load", "store", "test", "wake"}

Goto(t, from, to) ==
  /\ pc[t] = from
  /\ pc' = [pc EXCEPT ![t] = to]

Init ==
  /\ count = 0
  /\ flag = [t \in Threads |-> 0]
  /\ reg = [t \in Threads |-> 0]
  /\ items = 0
  /\ pc = [t \in Threads |-> "check"]
  /\ races = {}

InRange(v) == v \in (-Slack) .. (N + Slack)

-----------------------------------------------------------------------------
\* if (count == N) and if (count == 0).
Check(t) ==
  /\ Goto(t, "check", IF count = Limit(t) THEN "doze" ELSE "item")
  /\ UNCHANGED <<count, flag, reg, items, races>>

\* *entity = 1, however much has happened since the comparison.
Doze(t) ==
  /\ Goto(t, "doze", "spin")
  /\ flag' = [flag EXCEPT ![t] = 1]
  /\ UNCHANGED <<count, reg, items, races>>

\* while (*entity != 0), left once and never tested again against count.
BadSpin(t) ==
  /\ Goto(t, "spin", "item")
  /\ UNCHANGED <<count, flag, reg, items, races>>

Spin(t) ==
  /\ flag[t] = 0
  /\ Goto(t, "spin", "item")
  /\ UNCHANGED <<count, flag, reg, items, races>>

\* insert_item and remove_item look at nothing.
Item(t) ==
  /\ InRange(items + Delta(t)) /\ InRange(count + Delta(t))
  /\ Goto(t, "item", "load")
  /\ items' = items + Delta(t)
  /\ UNCHANGED <<count, flag, reg, races>>

Load(t) ==
  /\ Goto(t, "load", "store")
  /\ reg' = [reg EXCEPT ![t] = count]
  /\ UNCHANGED <<count, flag, items, races>>

\* A store that undoes the other thread's: the update race.
BadStore(t) ==
  /\ Goto(t, "store", "test")
  /\ count' = reg[t]
  /\ races' = IF count = reg[t] THEN races ELSE races \cup {"update"}
  /\ UNCHANGED <<flag, reg, items>>

Store(t) ==
  /\ Goto(t, "store", "test")
  /\ count' = reg[t] + Delta(t)
  /\ races' = IF count = reg[t] THEN races ELSE races \cup {"update"}
  /\ UNCHANGED <<flag, reg, items>>

\* if (count == 1) and if (count == N - 1): another load.
BadTest(t) ==
  /\ Goto(t, "test", IF count = Limit(Other(t)) THEN "wake" ELSE "check")
  /\ UNCHANGED <<count, flag, reg, items, races>>

Test(t) ==
  /\ Goto(t, "test", IF count = Signal(t) THEN "wake" ELSE "check")
  /\ UNCHANGED <<count, flag, reg, items, races>>

\* The wakeup is wasted if the other thread has seen its limit and not yet
\* stored its flag; it is stale if count has moved since it was tested.
WakeRaces(t) ==
  {k \in {"wasted", "stale"} :
     \/ k = "wasted" /\ pc[Other(t)] = "doze"
     \/ k = "stale" /\ count # Signal(t)}

Wake(t) ==
  /\ Goto(t, "wake", "check")
  /\ flag' = [flag EXCEPT ![Other(t)] = 0]
  /\ races' = races \cup WakeRaces(t)
  /\ UNCHANGED <<count, reg, items>>

loop(t) ==
  \/ Check(t) \/ Doze(t) \/ Spin(t) \/ Item(t)
  \/ Load(t) \/ Store(t) \/ Test(t) \/ Wake(t)

Next == \E t \in Threads : loop(t)

Spec == Init /\ [][Next]_vars

-----------------------------------------------------------------------------
(* Properties *)

TypeOK ==
  /\ count \in Int /\ items \in Int
  /\ flag \in [Threads -> {0, 1}]
  /\ reg \in [Threads -> Int]
  /\ pc \in [Threads -> PCs]
  /\ races \subseteq {"update", "wasted", "stale"}

\* What t has done to the buffer and not yet to count.
Pending(t) == IF pc[t] \in {"load", "store"} THEN Delta(t) ELSE 0

\* The counter goes wrong in one way only, a store over the other thread's:
\* neither a lost wakeup nor a late one disturbs it.
CountNeedsRace ==
  "update" \notin races =>
    count = items - Pending("producer") - Pending("consumer")

\* The buffer overflows or underflows only after a lost update or a wakeup
\* that was decided on a count that had moved by the time it was sent.
OverrunNeedsRace ==
  races \cap {"update", "stale"} = {} => items \in 0 .. N

Asleep(t) == pc[t] = "spin" /\ flag[t] = 1

\* Both threads sleep for good only after a lost update or a wakeup sent into
\* the gap between a thread's comparison and the store of its flag.
StuckNeedsRace ==
  races \cap {"update", "wasted"} = {} => ~ \A t \in Threads : Asleep(t)

=============================================================================
