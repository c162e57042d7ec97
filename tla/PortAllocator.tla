---------------------------- MODULE PortAllocator ----------------------------
(***************************************************************************)
(* The pool of host ports of the Docker-in-Docker environment              *)
(* (go/execenv/docker/ports.go).  The code keeps the free ports in a slice *)
(* sorted from the lowest up and hands out the first; here the slice is    *)
(* the set of its elements and its head is the least of them.  Each method *)
(* runs under the allocator's own mutex, so each is one step.              *)
(***************************************************************************)
EXTENDS SessionPorts

VARIABLES
  available,  \* the free ports
  allocated   \* session -> the port leased to it, NoPort when it has none

poolVars == <<available, allocated>>

NewPortAllocator ==
  /\ available = Ports
  /\ allocated = [s \in Sessions |-> NoPort]

HasLease(s) == allocated[s] # NoPort

Lowest(P) == CHOOSE p \in P : \A q \in P : p <= q

----------------------------------------------------------------------------
(* The methods.  Exhausted(s) is Allocate's error return.                  *)

Exhausted(s) == ~HasLease(s) /\ available = {}

Allocate(s) ==
  \/ /\ HasLease(s)
     /\ UNCHANGED poolVars
  \/ /\ ~HasLease(s)
     /\ available # {}
     /\ allocated' = [allocated EXCEPT ![s] = Lowest(available)]
     /\ available' = available \ {Lowest(available)}

ReleaseKeepsLease(s) ==       \* mutant: the lease is not deleted
  /\ allocated' = allocated
  /\ available' = IF HasLease(s) THEN available \cup {allocated[s]} ELSE available

Release(s) ==
  \/ /\ HasLease(s)
     /\ available' = available \cup {allocated[s]}
     /\ allocated' = [allocated EXCEPT ![s] = NoPort]
  \/ /\ ~HasLease(s)
     /\ UNCHANGED poolVars

Adopt(s, p) ==
  /\ available' = available \ {p}
  /\ allocated' = [allocated EXCEPT ![s] = p]

\* A process restart builds a fresh allocator over the whole range.
Reset ==
  /\ available' = Ports
  /\ allocated' = [s \in Sessions |-> NoPort]

----------------------------------------------------------------------------
PoolTypeOK ==
  /\ available \subseteq Ports
  /\ allocated \in [Sessions -> Ports \cup {NoPort}]

Leased == {allocated[s] : s \in {t \in Sessions : HasLease(t)}}

(***************************************************************************)
(* Conservation of ports: every port of the range is either free or leased *)
(* and never both, and no port is leased to two sessions.  Two sessions    *)
(* with one port would be two containers behind one address; a port that   *)
(* is neither is lost until the process restarts.                          *)
(***************************************************************************)
FreeOrLeased == available \cup Leased = Ports
FreeNotLeased == available \cap Leased = {}
OneLessee ==
  \A s, t \in Sessions : s # t /\ HasLease(s) => allocated[s] # allocated[t]

PoolPartition == FreeOrLeased /\ FreeNotLeased /\ OneLessee
=============================================================================
