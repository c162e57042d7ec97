------------------------------- MODULE MCDinD -------------------------------
(***************************************************************************)
(* Instances of DinD for TLC.                                              *)
(***************************************************************************)
EXTENDS DinDEnvironment, TLC

MCName == [s \in Sessions |-> s]

\* Session ids that are the same up to the length the name is cut at.
MCShortName == [s \in Sessions |-> "agent"]

Symmetry == Permutations(Sessions) \cup Permutations(Ids) \cup Permutations(Callers)
=============================================================================
