---------------------------- MODULE MCSplitwise -----------------------------
(***************************************************************************)
(* Splitwise for TLC: users and threads are interchangeable, and a share   *)
(* may be negative.                                                        *)
(***************************************************************************)
EXTENDS Splitwise, TLC

MCPercents == {-100, 0, 50, 100}
MCShares   == {-2, 0, 1, 2}

Symmetry == Permutations(Users) \cup Permutations(Threads)
=============================================================================
