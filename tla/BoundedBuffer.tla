--------------------------- MODULE BoundedBuffer ----------------------------
(***************************************************************************)
(* What producer_consumer/semaphore_imple.c promises: items go in and out  *)
(* one at a time, never more than N of them inside and never one taken     *)
(* from an empty buffer.                                                   *)
(***************************************************************************)
EXTENDS Naturals

CONSTANT N

VARIABLE items  \* items in the buffer

Init == items = 0
Put  == items < N /\ items' = items + 1
Get  == items > 0 /\ items' = items - 1
Next == Put \/ Get
Spec == Init /\ [][Next]_items
=============================================================================
