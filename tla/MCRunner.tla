------------------------------ MODULE MCRunner ------------------------------
(***************************************************************************)
(* Instances of Runner for TLC.                                            *)
(***************************************************************************)
EXTENDS Runner, TLC

\* Once calls for the one session have overlapped, no property but EventsKept says
\* anything of it: what follows is left to the proofs.  That a session goes stale
\* while a caller works on it changes nothing but what the archive loop lists, which
\* it can as well have listed before the call.
Bounded ==
  /\ crossed = {}
  /\ \A s \in Sessions :
       lastActivity[s] = "stale" /\ Busy(s) # {} => s \in sweep \/ ~At(Loop, "idle")

\* What the properties of the first run depend on: of all the rest, which is the stored
\* events and what the agents remember of them, nothing but itself depends.
WorkView ==
  <<cstate, home, owner, files, working, memVars, pending, sweep, workers, binding,
    snapshot, pc, op, sess, worker, inst, image, turn, life, done, excused, faults,
    countVars>>

Symmetry == Permutations(Ids) \cup Permutations(Callers)
=============================================================================
