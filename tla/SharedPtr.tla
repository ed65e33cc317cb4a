----------------------------- MODULE SharedPtr ------------------------------
(***************************************************************************)
(* shared_Pointer/main.cpp: Shared_ptr under any sequence of               *)
(* constructions, copies, assignments and destructions.  A pointer and its *)
(* count are always set together, so an address stands for both the object *)
(* and the count beside it; a deleted address may be handed out again.     *)
(* The user gives each raw pointer to one Shared_ptr, as main does.        *)
(***************************************************************************)
EXTENDS Naturals, FiniteSets

CONSTANTS
  Names,       \* the variables of type Shared_ptr
  MaxAddress,  \* bound: the allocator's addresses are 1 .. MaxAddress
  MaxCount     \* bound on a count

VARIABLES
  ptr,   \* the address each variable holds, Nowhere before and after its life
  size,  \* *count of each address, 0 while the address is free
  lost   \* references to an address that operator= overwrote (history)

ptrVars == <<ptr, size, lost>>

Nowhere   == 0
Addresses == 1 .. MaxAddress

Alive(p)  == ptr[p] # Nowhere
Owners(a) == {p \in Names : ptr[p] = a}

PtrInit ==
  /\ ptr = [p \in Names |-> Nowhere]
  /\ size = [a \in Addresses |-> 0]
  /\ lost = [a \in Addresses |-> 0]

-----------------------------------------------------------------------------
\* Shared_ptr(T *): a new object and a new count.
Construct(p, a) ==
  /\ ~Alive(p) /\ size[a] = 0
  /\ ptr' = [ptr EXCEPT ![p] = a]
  /\ size' = [size EXCEPT ![a] = 1]
  /\ UNCHANGED lost

\* Shared_ptr(const Shared_ptr &other), with and without ++*count.
BadCopy(p, other) ==
  /\ ~Alive(p) /\ Alive(other)
  /\ ptr' = [ptr EXCEPT ![p] = ptr[other]]
  /\ UNCHANGED <<size, lost>>

Copy(p, other) ==
  /\ ~Alive(p) /\ Alive(other) /\ size[ptr[other]] < MaxCount
  /\ ptr' = [ptr EXCEPT ![p] = ptr[other]]
  /\ size' = [size EXCEPT ![ptr[other]] = @ + 1]
  /\ UNCHANGED lost

\* operator=: what p held before is not released, not even when p is other.
Assign(p, other) ==
  /\ Alive(p) /\ Alive(other) /\ size[ptr[other]] < MaxCount
  /\ ptr' = [ptr EXCEPT ![p] = ptr[other]]
  /\ size' = [size EXCEPT ![ptr[other]] = @ + 1]
  /\ lost' = [lost EXCEPT ![ptr[p]] = @ + 1]

\* ~Shared_ptr: at 0 the object and the count are deleted.
Destroy(p) ==
  /\ Alive(p)
  /\ ptr' = [ptr EXCEPT ![p] = Nowhere]
  /\ size' = [size EXCEPT ![ptr[p]] = @ - 1]
  /\ UNCHANGED lost

PtrNext ==
  \E p \in Names :
    \/ \E a \in Addresses : Construct(p, a)
    \/ \E other \in Names : Copy(p, other) \/ Assign(p, other)
    \/ Destroy(p)

PtrSpec == PtrInit /\ [][PtrNext]_ptrVars

-----------------------------------------------------------------------------
(* Properties *)

PtrTypeOK ==
  /\ ptr \in [Names -> Addresses \cup {Nowhere}]
  /\ size \in [Addresses -> Nat]
  /\ lost \in [Addresses -> Nat]

\* A count is the number of the variables that hold the address plus the
\* references that assignments overwrote.  So no variable ever holds a deleted
\* address, and an object nobody holds is still allocated exactly when an
\* assignment has forgotten it: assignment leaks, and nothing else does.
CountsOwnersAndLost ==
  \A a \in Addresses : size[a] = Cardinality(Owners(a)) + lost[a]
=============================================================================
