----------------------------- MODULE MCSandbox -----------------------------
(***************************************************************************)
(* Instances of Sandbox for TLC.                                           *)
(***************************************************************************)
EXTENDS Sandbox, TLC

\* Bound on what all turns emit, their ends included.
Bounded == Sent <= 5

Symmetry == Permutations(Queries) \cup Permutations(Replies)
=============================================================================
