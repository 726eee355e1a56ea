------------------------------ MODULE MCHybrid ------------------------------
(***************************************************************************)
(* Small instances of Hybrid for TLC.                                      *)
(***************************************************************************)
EXTENDS HybridRefinement, TLC

\* Threads, ids and texts are interchangeable.
IdSymmetry == Permutations(Values) \cup Permutations(Requests) \cup Permutations(Customers) \cup Permutations(Addresses)
=============================================================================
