---------------------------- MODULE DockerDaemon ----------------------------
(***************************************************************************)
(* The Docker daemon as the adapters of go/execenv/docker use it through   *)
(* the dockerAPI interface (client.go).  The daemon is not part of the     *)
(* repository: it is modelled from what the adapters rely on.  Container   *)
(* ids are never reused, a container name is unique among the containers   *)
(* that exist, and a container starts only if no running container         *)
(* publishes the host port it asks for.  The daemon and its containers     *)
(* outlive the host process.                                               *)
(***************************************************************************)
EXTENDS SessionPorts

CONSTANTS
  Ids,             \* the container ids the daemon can still hand out
  NoSession,       \* label of an id not yet handed out
  containerName    \* session -> container name; truncation may make two equal

ASSUME DaemonAssumption ==
  /\ NoSession \notin Sessions
  /\ DOMAIN containerName = Sessions

VARIABLES
  status,  \* id -> "none", "created", "running", "exited" or "removed"
  label,   \* id -> the session in its agentkit.session-id label
  bind     \* id -> the host port in its port binding

daemonVars == <<status, label, bind>>

DaemonInit ==
  /\ status = [i \in Ids |-> "none"]
  /\ label = [i \in Ids |-> NoSession]
  /\ bind = [i \in Ids |-> NoPort]

Exists(i) == status[i] \in {"created", "running", "exited"}

NameTaken(s) ==
  \E i \in Ids : Exists(i) /\ containerName[label[i]] = containerName[s]

PortBound(p) == \E i \in Ids : status[i] = "running" /\ bind[i] = p

ContainerCreate(i, s, p) ==
  /\ status[i] = "none"
  /\ ~NameTaken(s)
  /\ status' = [status EXCEPT ![i] = "created"]
  /\ label' = [label EXCEPT ![i] = s]
  /\ bind' = [bind EXCEPT ![i] = p]

ContainerStart(i) ==
  /\ status[i] = "created"
  /\ ~PortBound(bind[i])
  /\ status' = [status EXCEPT ![i] = "running"]
  /\ UNCHANGED <<label, bind>>

\* Stopping a container that is not running is an error the adapters ignore.
ContainerStop(i) ==
  /\ status' = [status EXCEPT ![i] = IF @ = "running" THEN "exited" ELSE @]
  /\ UNCHANGED <<label, bind>>

\* A forced remove; of a container that is gone it is a not-found error.
ContainerRemove(i) ==
  /\ status' = [status EXCEPT ![i] = IF @ = "none" THEN @ ELSE "removed"]
  /\ UNCHANGED <<label, bind>>

\* The agent process ends, or the kernel kills it.
ContainerDies(i) ==
  /\ status[i] = "running"
  /\ status' = [status EXCEPT ![i] = "exited"]
  /\ UNCHANGED <<label, bind>>

DaemonTypeOK ==
  /\ status \in [Ids -> {"none", "created", "running", "exited", "removed"}]
  /\ label \in [Ids -> Sessions \cup {NoSession}]
  /\ bind \in [Ids -> Ports \cup {NoPort}]
=============================================================================
