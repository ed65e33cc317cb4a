------------------------------ MODULE RefCount ------------------------------
(***************************************************************************)
(* What the sticky counter of wait_free_counter/counter.cpp promises: a    *)
(* count of references that may die while it is zero, never revives once   *)
(* dead, and names at most one decrement as the one that killed it.        *)
(***************************************************************************)
EXTENDS Naturals

VARIABLES
  refs,  \* outstanding references
  dead,  \* the counter is zero for good
  won    \* some decrement has returned true

rvars == <<refs, dead, won>>

Init == refs = 1 /\ dead = FALSE /\ won = FALSE

Acquire == ~dead /\ refs' = refs + 1 /\ UNCHANGED <<dead, won>>
Release == refs > 0 /\ refs' = refs - 1 /\ UNCHANGED <<dead, won>>
Die     == refs = 0 /\ ~dead /\ dead' = TRUE /\ won' \in BOOLEAN /\ UNCHANGED refs
Win     == dead /\ ~won /\ won' = TRUE /\ UNCHANGED <<refs, dead>>

Next == Acquire \/ Release \/ Die \/ Win

Spec == Init /\ [][Next]_rvars
=============================================================================
