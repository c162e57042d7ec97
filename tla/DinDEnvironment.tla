-------------------------- MODULE DinDEnvironment --------------------------
(***************************************************************************)
(* The Docker-in-Docker environment as an Environment: the refinement      *)
(* mapping from the state of dind.go and of the daemon to the promise.     *)
(***************************************************************************)
EXTENDS DinD

\* The daemon's container states, as the promise names them.
Seen == [none |-> "none", created |-> "created", running |-> "up",
         exited |-> "dead", removed |-> "gone"]

stateBar == [i \in Ids |-> Seen[status[i]]]

\* What the promise still covers of what the Runner was handed.
handedBar == {i \in known : label[i] \notin crossed}

\* The marked entries; the first thing a Destroy does is to mark its own.
askedBar == {i \in Ids : entry[i] = "destroyed" /\ label[i] \notin crossed}

\* Once the host serves again it owes nothing: Recover must have handed
\* out every container that runs.
owedBar ==
  IF mode = "up" THEN {} ELSE {i \in Ids : status[i] = "running"} \ known

Env == INSTANCE Environment
         WITH state <- stateBar, owner <- label, handed <- handedBar,
              asked <- askedBar, owed <- owedBar, waived <- crossed

(***************************************************************************)
(* DinD keeps the promise of an environment, through failing Docker calls, *)
(* deaths and host crashes: a session has one container at a time, what    *)
(* the Runner holds is removed only by a Destroy it asked for, and a       *)
(* restart hands back every container that still runs before the host      *)
(* serves.  A session loses the promise when its calls overlap, until the  *)
(* host restarts: the Runner can then be handed a container that a         *)
(* Provision about to give up removes.  It loses nothing by what happens   *)
(* to the other sessions.                                                  *)
(***************************************************************************)
ImplementsEnvironment == Env!Spec
=============================================================================
