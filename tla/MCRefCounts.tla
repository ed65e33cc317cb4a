---------------------------- MODULE MCRefCounts -----------------------------
(***************************************************************************)
(* The two reference counts, for one TLC run: StickyCounter, used by many  *)
(* threads, and SharedPtr, used by one.  They share nothing, so a          *)
(* behaviour chooses one of them and the other rests in its initial state. *)
(***************************************************************************)
EXTENDS StickyCounter, SharedPtr

VARIABLE program  \* the one that runs

allVars == <<program, vars, ptrVars>>

MCInit == program \in {"counter", "pointers"} /\ Init /\ PtrInit

RunsCounter  == program = "counter" /\ UNCHANGED <<program, ptrVars>>
RunsPointers == program = "pointers" /\ UNCHANGED <<program, vars>>

\* The end of a program that has leaked every address it could get.
AllLeaked ==
  /\ \A p \in Names : ~Alive(p)
  /\ \A a \in Addresses : size[a] > 0
  /\ UNCHANGED ptrVars

MCNext ==
  \/ RunsCounter /\ Next
  \/ RunsPointers /\ (PtrNext \/ AllLeaked)

\* A thread inside a call of the counter keeps running, as in FairSpec.
MCSpec ==
  /\ MCInit /\ [][MCNext]_allVars
  /\ \A t \in Threads :
       WF_allVars(RunsCounter /\ (SetZero(t) \/ GiveUp(t) \/ Exchange(t) \/ ReadCas(t)))

\* A count that stays without references has a winner in the end.
CounterIsClaimed == program = "counter" => ZeroIsClaimed
=============================================================================
