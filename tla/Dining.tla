------------------------------- MODULE Dining -------------------------------
(***************************************************************************)
(* What both programs in dining_philosophers/ promise of eat(): a          *)
(* philosopher starts eating only while neither neighbour eats.            *)
(***************************************************************************)
EXTENDS Integers

CONSTANT N

VARIABLE eating  \* the philosophers inside eat()

Philosophers == 0 .. N-1
Neighbours(i) == {(i + 1) % N, (i - 1) % N} \ {i}

Init == eating = {}

Start(i) ==
  /\ i \notin eating
  /\ Neighbours(i) \cap eating = {}
  /\ eating' = eating \cup {i}

Stop(i) ==
  /\ i \in eating
  /\ eating' = eating \ {i}

Next == \E i \in Philosophers : Start(i) \/ Stop(i)

Spec == Init /\ [][Next]_eating
=============================================================================
