------------------------------ MODULE Multiset ------------------------------
(***************************************************************************)
(* What Skiplist/Skiplist.java promises: a multiset of integers, except    *)
(* that the two ends of int stand for its own head and tail: the least     *)
(* integer is always found, and the greatest is never accepted.            *)
(***************************************************************************)
EXTENDS Integers, FiniteSets

CONSTANTS
  Least, Greatest,  \* Integer.MIN_VALUE and Integer.MAX_VALUE
  MaxSize           \* bound on the number of elements

VARIABLES
  count,  \* how often each integer is in the set
  size,   \* how many elements there are
  result  \* what the last call returned

vars == <<count, size, result>>

Ints == Least .. Greatest

\* What a call with an argument may do: return nothing, throw, or answer.
Void(call, v)      == [call |-> call, num |-> v, void |-> TRUE]
Threw(call, v)     == [call |-> call, num |-> v, threw |-> TRUE]
Answer(call, v, b) == [call |-> call, num |-> v, answer |-> b]
Printed(s)         == [printed |-> s]

Init ==
  /\ count = [v \in Ints |-> 0]
  /\ size = 0
  /\ result = Printed(<<>>)

Search(v) ==
  /\ result' = IF v = Greatest THEN Threw("search", v)
                             ELSE Answer("search", v, v = Least \/ count[v] > 0)
  /\ UNCHANGED <<count, size>>

Add(v) ==
  /\ v # Greatest /\ size < MaxSize
  /\ count' = [count EXCEPT ![v] = @ + 1]
  /\ size' = size + 1
  /\ result' = Void("add", v)

AddFails ==
  /\ result' = Threw("add", Greatest)
  /\ UNCHANGED <<count, size>>

Erase(v) ==
  /\ count[v] > 0
  /\ count' = [count EXCEPT ![v] = @ - 1]
  /\ size' = size - 1
  /\ result' = Answer("erase", v, TRUE)

EraseMisses(v) ==
  /\ count[v] = 0
  /\ result' = IF v \in {Least, Greatest} THEN Threw("erase", v)
                                          ELSE Answer("erase", v, FALSE)
  /\ UNCHANGED <<count, size>>

\* The elements in ascending order.
List ==
  /\ \E s \in [1 .. size -> Ints] :
       /\ \A i, j \in DOMAIN s : i < j => s[i] <= s[j]
       /\ \A v \in Ints : Cardinality({i \in DOMAIN s : s[i] = v}) = count[v]
       /\ result' = Printed(s)
  /\ UNCHANGED <<count, size>>

Next ==
  \/ \E v \in Ints : Search(v) \/ Add(v) \/ Erase(v) \/ EraseMisses(v)
  \/ AddFails \/ List

Spec == Init /\ [][Next]_vars
=============================================================================
