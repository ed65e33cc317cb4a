------------------------------ MODULE Skiplist ------------------------------
(***************************************************************************)
(* Skiplist/Skiplist.java: nodes linked at as many levels as a coin decides *)
(* between a head of the least and a tail of the greatest integer.  Equal  *)
(* values may be in the list many times.  One thread calls it; the coin is *)
(* a choice over the levels.                                               *)
(***************************************************************************)
EXTENDS Integers, SequencesExt

CONSTANTS
  LEVELS,           \* 16 in the code
  Least, Greatest,  \* Integer.MIN_VALUE and Integer.MAX_VALUE
  MaxSize           \* bound on the number of elements

VARIABLES
  list,   \* the nodes that can be reached, by their reference
  size,
  result  \* what the last call returned

vars == <<list, size, result>>

Ints == Least .. Greatest

\* How a call may end, and a printed list.
Void(call, v)      == [call |-> call, num |-> v, void |-> TRUE]
Threw(call, v)     == [call |-> call, num |-> v, threw |-> TRUE]
Answer(call, v, b) == [call |-> call, num |-> v, answer |-> b]
Printed(s)         == [printed |-> s]

head == 0
tail == 1
Refs == 2 .. MaxSize + 1

Init ==
  /\ list = [n \in {head, tail} |->
               IF n = head THEN [value |-> Least, next |-> [l \in 1 .. LEVELS |-> tail]]
                           ELSE [value |-> Greatest, next |-> <<>>]]
  /\ size = 0
  /\ result = Printed(<<>>)

\* A changed heap, less what the garbage collector takes: what some set that
\* holds the head and the tail and every link of its nodes can do without.
Closed(heap, ns) == {head, tail} \subseteq ns /\ \A n \in ns : Range(heap[n].next) \subseteq ns

Collected(heap) ==
  Restrict(heap, {n \in DOMAIN heap : \A ns \in SUBSET DOMAIN heap : Closed(heap, ns) => n \in ns})

-----------------------------------------------------------------------------
\* The nodes with a link on level l.  A walk ends at the others, where the code
\* would throw; no walk of a call comes there.
OnLevel(l) == {n \in DOMAIN list : l \in DOMAIN list[n].next}

\* walkSkipList: on each level on from where the level above ended, up to the
\* last node whose value is num or less.
Along(num, l, from) ==
  LET along[curr \in DOMAIN list] ==
        LET next == list[curr].next[l] IN
          IF curr \notin OnLevel(l) \/ num < list[next].value THEN curr ELSE along[next]
  IN along[from]

walkSkipList(num) ==
  LET walk[l \in 1 .. LEVELS] ==
        Along(num, l, IF l = LEVELS THEN head ELSE walk[l + 1])
  IN walk

\* The walk for the greatest integer steps onto the tail, which has no links.
Throw(call, num) ==
  /\ num = Greatest
  /\ result' = Threw(call, num)
  /\ UNCHANGED <<list, size>>

search(target) ==
  /\ target # Greatest
  /\ result' = Answer("search", target, list[walkSkipList(target)[1]].value = target)
  /\ UNCHANGED <<list, size>>

\* The nodes with the link of at[l] set to to[l] on the levels up to the given one.
Relinked(at, to, levels) ==
  [n \in DOMAIN list |->
     [value |-> list[n].value,
      next  |-> [l \in DOMAIN list[n].next |->
                   IF l <= levels /\ at[l] = n THEN to[l] ELSE list[n].next[l]]]]

add(num) ==
  /\ num # Greatest /\ size < MaxSize
  /\ \E levels \in 1 .. LEVELS :
       LET walk == walkSkipList(num)
           new  == CHOOSE n \in Refs : n \notin DOMAIN list
           node == [value |-> num, next |-> [l \in 1 .. levels |-> list[walk[l]].next[l]]]
           old  == Relinked(walk, [l \in 1 .. levels |-> new], levels)
       IN list' = [n \in DOMAIN list \cup {new} |-> IF n = new THEN node ELSE old[n]]
  /\ size' = size + 1
  /\ result' = Void("add", num)

\* The node before the given one on level l, on from prev; BadBefore stops
\* before any node of that value.
BadBefore(l, prev, node) ==
  LET before[n \in DOMAIN list] ==
        LET next == list[n].next[l] IN
          IF n \notin OnLevel(l) \/ list[next].value = list[node].value THEN n ELSE before[next]
  IN before[prev]

Before(l, prev, node) ==
  LET before[n \in DOMAIN list] ==
        LET next == list[n].next[l] IN
          IF n \notin OnLevel(l) \/ next = node THEN n ELSE before[next]
  IN before[prev]

\* The levels of the node, and where the search for it on the highest begins.
Top(walk, node)  == Max({l \in 1 .. LEVELS : walk[l] = node})
Start(walk, top) == IF top = LEVELS THEN head ELSE walk[top + 1]

\* On each level from the node's highest down, where the level above ended,
\* the node before it is linked past it.
Unlinked(walk, node) ==
  LET top == Top(walk, node)
      before[l \in 1 .. top] == Before(l, IF l = top THEN Start(walk, top) ELSE before[l + 1], node)
  IN Relinked(before, list[node].next, top)

erase(num) ==
  LET walk == walkSkipList(num)
      node == walk[1]
  IN
    /\ num # Greatest /\ node # head /\ list[node].value = num
    /\ list' = Collected(Unlinked(walk, node))
    /\ size' = size - 1
    /\ result' = Answer("erase", num, TRUE)

\* Nothing to delete; for the least integer the head itself is taken for the
\* node, and the search for the node before it runs off the tail.
eraseMisses(num) ==
  /\ num # Greatest
  /\ LET node == walkSkipList(num)[1] IN
       /\ node = head \/ list[node].value # num
       /\ result' = IF list[node].value = num THEN Threw("erase", num)
                                               ELSE Answer("erase", num, FALSE)
  /\ UNCHANGED <<list, size>>

\* The nodes between head and tail.
Elements ==
  LET nodes[n \in DOMAIN list] == IF n = tail THEN <<>> ELSE <<n>> \o nodes[list[n].next[1]]
  IN nodes[list[head].next[1]]

\* The rows of the table have size columns, and one node more does not fit.
toString ==
  /\ result' = IF Len(Elements) > size THEN Threw("toString", size)
               ELSE Printed([i \in 1 .. Len(Elements) |-> list[Elements[i]].value])
  /\ UNCHANGED <<list, size>>

Next ==
  \/ \E num \in Ints :
       \/ search(num) \/ add(num) \/ erase(num) \/ eraseMisses(num)
       \/ \E call \in {"search", "add", "erase"} : Throw(call, num)
  \/ toString

Spec == Init /\ [][Next]_vars

-----------------------------------------------------------------------------
\* However the values repeat and whatever levels the coin gave them, every call
\* does to the list what it would do to a multiset.
Bag == INSTANCE Multiset WITH
  count <- [v \in Ints |-> Cardinality({n \in DOMAIN list \ {head, tail} : list[n].value = v})]

ImplementsMultiset == Bag!Spec
=============================================================================
