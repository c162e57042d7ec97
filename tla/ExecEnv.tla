------------------------------ MODULE ExecEnv ------------------------------
(***************************************************************************)
(* What the Runner expects of an execution environment                     *)
(* (go/execenv/execenv.go): Provision, Destroy and Snapshot as single      *)
(* steps, one environment per worker.  Of a container it keeps what a turn *)
(* leaves behind: the turns whose work is in its filesystem, and the turns *)
(* its in-image agent remembers.                                           *)
(***************************************************************************)
EXTENDS Integers, FiniteSets

CONSTANTS
  Sessions,
  Workers,    \* the fleet's workers, each with an environment of its own
  Ids,        \* container ids
  MaxSends    \* bound on the turns: turn t is the t-th message sent

VARIABLES
  cstate,   \* id -> "none", "up", "dead" (its process ended) or "gone"
  home,     \* id -> the worker it is on
  owner,    \* id -> the session it was provisioned for
  files,    \* id -> the turns whose work is in its filesystem
  memory,   \* id -> the turns the in-image agent remembers
  working   \* id -> the turn the agent is working on, 0 when it is idle

envVars == <<cstate, home, owner, files, memory, working>>

Turns == 1..MaxSends

ASSUME ExecEnvAssumption == MaxSends \in Nat /\ Sessions # {} /\ Workers # {}

\* home and owner mean nothing before a container is booted.
EnvInit ==
  /\ cstate = [i \in Ids |-> "none"]
  /\ home = [i \in Ids |-> CHOOSE w \in Workers : TRUE]
  /\ owner = [i \in Ids |-> CHOOSE s \in Sessions : TRUE]
  /\ files = [i \in Ids |-> {}]
  /\ memory = [i \in Ids |-> {}]
  /\ working = [i \in Ids |-> 0]

Present(i) == cstate[i] \in {"up", "dead"}

\* The leak guard: the containers a Provision for s on w returns as they are.
Existing(w, s) == {i \in Ids : Present(i) /\ home[i] = w /\ owner[i] = s}

\* A new container boots from an image, the set of turns in its filesystem.
Boot(i, w, s, image) ==
  /\ cstate[i] = "none"
  /\ cstate' = [cstate EXCEPT ![i] = "up"]
  /\ home' = [home EXCEPT ![i] = w]
  /\ owner' = [owner EXCEPT ![i] = s]
  /\ files' = [files EXCEPT ![i] = image]
  /\ UNCHANGED <<memory, working>>

EnvDestroy(i) ==
  /\ cstate' = [cstate EXCEPT ![i] = "gone"]
  /\ working' = [working EXCEPT ![i] = 0]
  /\ UNCHANGED <<home, owner, files, memory>>

\* A Destroy that stops the container, or finds it stopped, and fails to remove it.
EnvStop(i) ==
  /\ cstate' = [cstate EXCEPT ![i] = IF @ = "up" THEN "dead" ELSE @]
  /\ working' = [working EXCEPT ![i] = 0]
  /\ UNCHANGED <<home, owner, files, memory>>

\* POST /sessions/:id/load-conversation replaces the agent's memory.
LoadConversation(i, turns) ==
  /\ memory' = [memory EXCEPT ![i] = turns]
  /\ UNCHANGED <<cstate, home, owner, files, working>>

\* POST query-stream: a turn the session has under way is superseded.
StartTurn(i, t) ==
  /\ working' = [working EXCEPT ![i] = t]
  /\ UNCHANGED <<cstate, home, owner, files, memory>>

\* The agent ends its turn: the work is in the filesystem, the turn is in
\* its memory.
AgentEndsTurn(i) ==
  /\ cstate[i] = "up"
  /\ working[i] # 0
  /\ files' = [files EXCEPT ![i] = @ \cup {working[i]}]
  /\ memory' = [memory EXCEPT ![i] = @ \cup {working[i]}]
  /\ working' = [working EXCEPT ![i] = 0]
  /\ UNCHANGED <<cstate, home, owner>>

ContainerDies(i) ==
  /\ cstate[i] = "up"
  /\ cstate' = [cstate EXCEPT ![i] = "dead"]
  /\ working' = [working EXCEPT ![i] = 0]
  /\ UNCHANGED <<home, owner, files, memory>>

\* Recover, when the host starts: a container found stopped is removed.
Reclaim ==
  /\ cstate' = [i \in Ids |-> IF cstate[i] = "dead" THEN "gone" ELSE cstate[i]]
  /\ UNCHANGED <<home, owner, files, memory, working>>

EnvTypeOK ==
  /\ cstate \in [Ids -> {"none", "up", "dead", "gone"}]
  /\ home \in [Ids -> Workers]
  /\ owner \in [Ids -> Sessions]
  /\ files \in [Ids -> SUBSET Turns]
  /\ memory \in [Ids -> SUBSET Turns]
  /\ working \in [Ids -> Turns \cup {0}]
=============================================================================
