-------------------------------- MODULE DinD --------------------------------
(***************************************************************************)
(* The Docker-in-Docker execution environment (go/execenv/docker/dind.go): *)
(* Provision, Destroy and Recover, cut at every Docker API call and at     *)
(* every release of a mutex, so that calls of several goroutines           *)
(* interleave as they can in the program.  The host process may crash at   *)
(* any point; it then loses everything but the daemon's containers and     *)
(* runs Recover before it serves again (Runner.Start, cmd/agentd/main.go). *)
(***************************************************************************)
EXTENDS PortAllocator, DockerDaemon, FiniteSets

CONSTANTS
  Callers,     \* goroutines that call the environment
  NoId,        \* "no container"
  MaxFaults,   \* bound on Docker API failures
  MaxCrashes   \* bound on host crashes

ASSUME DinDAssumption ==
  /\ NoId \notin Ids
  /\ MaxFaults \in Nat
  /\ MaxCrashes \in Nat

VARIABLES
  entry,      \* e.containers: id -> "none", "running" or "destroyed"
  pc,         \* caller -> where it is inside its call
  sess,       \* caller -> the session of its call
  port,       \* caller -> the port its Allocate returned
  inst,       \* caller -> the container of its call
  known,      \* ids handed to the Runner by Provision or Recover
  mode,       \* "up", "down" or "recovering"
  listed,     \* id -> its state in Recover's ContainerList, "none" once visited
  abandoned,  \* ids whose best-effort removal failed
  faults,
  crashes,
  crossed     \* history: sessions of which calls have overlapped since the
              \* host started; no action reads it

callVars == <<pc, sess, port, inst>>
hostVars == <<entry, known, mode, listed>>
budget == <<abandoned, faults, crashes>>
vars == <<poolVars, daemonVars, callVars, hostVars, budget, crossed>>

Unlisted == [i \in Ids |-> "none"]

Init ==
  /\ NewPortAllocator
  /\ DaemonInit
  /\ entry = [i \in Ids |-> "none"]
  /\ pc = [c \in Callers |-> "idle"]
  /\ sess = [c \in Callers |-> NoSession]
  /\ port = [c \in Callers |-> NoPort]
  /\ inst = [c \in Callers |-> NoId]
  /\ known = {}
  /\ mode = "up"
  /\ listed = Unlisted
  /\ abandoned = {}
  /\ faults = 0
  /\ crashes = 0
  /\ crossed = {}

----------------------------------------------------------------------------
(* Calls.                                                                  *)

At(c, where) == mode = "up" /\ pc[c] = where

Goto(c, where) ==
  /\ pc' = [pc EXCEPT ![c] = where]
  /\ UNCHANGED <<sess, port, inst>>

Return(c) ==
  /\ pc' = [pc EXCEPT ![c] = "idle"]
  /\ sess' = [sess EXCEPT ![c] = NoSession]
  /\ port' = [port EXCEPT ![c] = NoPort]
  /\ inst' = [inst EXCEPT ![c] = NoId]

Fault ==
  /\ faults < MaxFaults
  /\ faults' = faults + 1
  /\ UNCHANGED <<abandoned, crashes>>

Busy(s) == {c \in Callers : pc[c] # "idle" /\ sess[c] = s}

\* The Runner takes no lock per session: a call for a session may start while
\* others for it are under way, and the history records that it did.
Enters(s) == crossed' = IF Busy(s) = {} THEN crossed ELSE crossed \cup {s}

----------------------------------------------------------------------------
(* Provision.                                                              *)

Tracked(s) == {i \in Ids : entry[i] # "none" /\ label[i] = s}

\* The leak guard finds an entry of the session and returns it.
ProvisionExisting(c, s) ==
  /\ At(c, "idle")
  /\ \E i \in Tracked(s) : known' = known \cup {i}
  /\ Enters(s)
  /\ UNCHANGED <<poolVars, daemonVars, callVars, entry, mode, listed, budget>>

\* Bound: a call starts only while an id is left for its container.
IdLeft ==
  Cardinality({c \in Callers : pc[c] \in {"alloc", "create"}})
    < Cardinality({i \in Ids : status[i] = "none"})

\* It finds none; the mutex is released before the rest of the call.
ProvisionNew(c, s) ==
  /\ At(c, "idle")
  /\ Tracked(s) = {}
  /\ IdLeft
  /\ Enters(s)
  /\ pc' = [pc EXCEPT ![c] = "alloc"]
  /\ sess' = [sess EXCEPT ![c] = s]
  /\ UNCHANGED <<poolVars, daemonVars, port, inst, hostVars, budget>>

AllocatePort(c) ==
  /\ At(c, "alloc")
  /\ \/ /\ Allocate(sess[c])
        /\ port' = [port EXCEPT ![c] = allocated'[sess[c]]]
        /\ pc' = [pc EXCEPT ![c] = "create"]
        /\ UNCHANGED <<sess, inst>>
     \/ /\ Exhausted(sess[c])
        /\ Return(c)
        /\ UNCHANGED poolVars
  /\ UNCHANGED <<daemonVars, hostVars, budget, crossed>>

CreateWaits(c) ==            \* mutant: a taken name is waited for
  /\ At(c, "create")
  /\ \E i \in Ids :
       /\ ContainerCreate(i, sess[c], port[c])
       /\ inst' = [inst EXCEPT ![c] = i]
  /\ pc' = [pc EXCEPT ![c] = "start"]
  /\ UNCHANGED <<sess, port, poolVars, hostVars, budget, crossed>>

\* ensureNetwork and ContainerCreate: if either fails the port is given back.
Create(c) ==
  /\ At(c, "create")
  /\ \/ /\ \E i \in Ids :
             /\ ContainerCreate(i, sess[c], port[c])
             /\ inst' = [inst EXCEPT ![c] = i]
        /\ pc' = [pc EXCEPT ![c] = "start"]
        /\ UNCHANGED <<sess, port, budget>>
     \/ /\ NameTaken(sess[c])
        /\ Goto(c, "giveBack")
        /\ UNCHANGED <<daemonVars, budget>>
     \/ /\ Fault
        /\ Goto(c, "giveBack")
        /\ UNCHANGED daemonVars
  /\ UNCHANGED <<poolVars, hostVars, crossed>>

GiveBackForgotten(c) ==      \* mutant: a failed create keeps the lease
  /\ At(c, "giveBack")
  /\ Return(c)
  /\ UNCHANGED <<poolVars, daemonVars, hostVars, budget, crossed>>

GiveBack(c) ==
  /\ At(c, "giveBack")
  /\ Release(sess[c])
  /\ Return(c)
  /\ UNCHANGED <<daemonVars, hostVars, budget, crossed>>

Start(c) ==
  /\ At(c, "start")
  /\ \/ /\ ContainerStart(inst[c])
        /\ Goto(c, "register")
        /\ UNCHANGED budget
     \/ /\ status[inst[c]] # "created" \/ PortBound(bind[inst[c]])
        /\ Goto(c, "release")
        /\ UNCHANGED <<daemonVars, budget>>
     \/ /\ Fault
        /\ Goto(c, "release")
        /\ UNCHANGED daemonVars
  /\ UNCHANGED <<poolVars, hostVars, crossed>>

\* The entry is visible to other calls before the agent is healthy.
Register(c) ==
  /\ At(c, "register")
  /\ entry' = [entry EXCEPT ![inst[c]] = "running"]
  /\ Goto(c, "health")
  /\ UNCHANGED <<poolVars, daemonVars, known, mode, listed, budget, crossed>>

\* Whatever answers at the instance's address is taken for its agent.
Healthy(c) ==
  /\ At(c, "health")
  /\ PortBound(port[c])
  /\ known' = known \cup {inst[c]}
  /\ Return(c)
  /\ UNCHANGED <<poolVars, daemonVars, entry, mode, listed, budget, crossed>>

\* The retries are spent, or the caller's context ended.
Unhealthy(c) ==
  /\ At(c, "health")
  /\ entry' = [entry EXCEPT ![inst[c]] = "none"]
  /\ Goto(c, "release")
  /\ UNCHANGED <<poolVars, daemonVars, known, mode, listed, budget, crossed>>

\* Both failure paths release the port before they remove the container.
ReleasePort(c) ==
  /\ At(c, "release")
  /\ Release(sess[c])
  /\ Goto(c, "cleanup")
  /\ UNCHANGED <<daemonVars, hostVars, budget, crossed>>

CleanupForgotten(c) ==       \* mutant: the failed container is not removed
  /\ At(c, "cleanup")
  /\ Return(c)
  /\ UNCHANGED <<poolVars, daemonVars, hostVars, budget, crossed>>

\* Best effort: nobody learns of a removal that failed.
Cleanup(c) ==
  /\ At(c, "cleanup")
  /\ \/ /\ ContainerRemove(inst[c])
        /\ UNCHANGED budget
     \/ /\ faults < MaxFaults
        /\ faults' = faults + 1
        /\ abandoned' = abandoned \cup {inst[c]}
        /\ UNCHANGED <<daemonVars, crashes>>
  /\ Return(c)
  /\ UNCHANGED <<poolVars, hostVars, crossed>>

----------------------------------------------------------------------------
(* Destroy, of an instance the Runner was handed.                          *)

\* No entry: already gone.  The call changes nothing, whatever it overlaps.
DestroyGone(c, i) ==
  /\ At(c, "idle")
  /\ entry[i] = "none"
  /\ UNCHANGED vars

DestroyDeletes(c, i) ==      \* mutant: the entry goes before the container
  /\ At(c, "idle")
  /\ entry[i] # "none"
  /\ Enters(label[i])
  /\ entry' = [entry EXCEPT ![i] = "none"]
  /\ pc' = [pc EXCEPT ![c] = "stop"]
  /\ sess' = [sess EXCEPT ![c] = label[i]]
  /\ inst' = [inst EXCEPT ![c] = i]
  /\ UNCHANGED <<poolVars, daemonVars, port, known, mode, listed, budget>>

\* The entry is marked, whatever its state was.
DestroyMark(c, i) ==
  /\ At(c, "idle")
  /\ entry[i] # "none"
  /\ Enters(label[i])
  /\ entry' = [entry EXCEPT ![i] = "destroyed"]
  /\ pc' = [pc EXCEPT ![c] = "stop"]
  /\ sess' = [sess EXCEPT ![c] = label[i]]
  /\ inst' = [inst EXCEPT ![c] = i]
  /\ UNCHANGED <<poolVars, daemonVars, port, known, mode, listed, budget>>

\* An error of ContainerStop is not fatal.
Stop(c) ==
  /\ At(c, "stop")
  /\ \/ ContainerStop(inst[c]) /\ UNCHANGED budget
     \/ Fault /\ UNCHANGED daemonVars
  /\ Goto(c, "remove")
  /\ UNCHANGED <<poolVars, hostVars, crossed>>

\* An error other than not-found ends the call with the entry still marked.
Remove(c) ==
  /\ At(c, "remove")
  /\ \/ /\ ContainerRemove(inst[c])
        /\ Goto(c, "finish")
        /\ UNCHANGED budget
     \/ /\ Fault
        /\ Return(c)
        /\ UNCHANGED daemonVars
  /\ UNCHANGED <<poolVars, hostVars, crossed>>

\* The entry goes and the session's port is released, whatever instance
\* that lease now belongs to.
Finish(c) ==
  /\ At(c, "finish")
  /\ entry' = [entry EXCEPT ![inst[c]] = "none"]
  /\ Release(sess[c])
  /\ Return(c)
  /\ UNCHANGED <<daemonVars, known, mode, listed, budget, crossed>>

----------------------------------------------------------------------------
(* Crash, restart and Recover.                                             *)

\* The process dies with everything it holds in memory.
Crash ==
  /\ mode # "down"
  /\ crashes < MaxCrashes
  /\ crashes' = crashes + 1
  /\ mode' = "down"
  /\ entry' = [i \in Ids |-> "none"]
  /\ known' = {}
  /\ listed' = Unlisted
  /\ pc' = [c \in Callers |-> "idle"]
  /\ sess' = [c \in Callers |-> NoSession]
  /\ port' = [c \in Callers |-> NoPort]
  /\ inst' = [c \in Callers |-> NoId]
  /\ abandoned' = {}
  /\ crossed' = {}
  /\ Reset
  /\ UNCHANGED <<daemonVars, faults>>

\* Recover's ContainerList, of every managed container in any state.
Restart ==
  /\ mode = "down"
  /\ mode' = "recovering"
  /\ listed' = [i \in Ids |-> IF Exists(i) THEN status[i] ELSE "none"]
  /\ UNCHANGED <<poolVars, daemonVars, callVars, entry, known, budget, crossed>>

Visited(i) == listed' = [listed EXCEPT ![i] = "none"]

RecoverRunningNoLease(i) ==  \* mutant: the port is not leased again
  /\ mode = "recovering"
  /\ listed[i] = "running"
  /\ entry' = [entry EXCEPT ![i] = "running"]
  /\ known' = known \cup {i}
  /\ Visited(i)
  /\ UNCHANGED <<poolVars, daemonVars, callVars, mode, budget, crossed>>

\* A container listed as running is adopted with its port.
RecoverRunning(i) ==
  /\ mode = "recovering"
  /\ listed[i] = "running"
  /\ Adopt(label[i], bind[i])
  /\ entry' = [entry EXCEPT ![i] = "running"]
  /\ known' = known \cup {i}
  /\ Visited(i)
  /\ UNCHANGED <<daemonVars, callVars, mode, budget, crossed>>

\* One listed in any other state is removed.  A removal that fails ends
\* Recover with an error and agentd exits: a Crash.
RecoverStopped(i) ==
  /\ mode = "recovering"
  /\ listed[i] \in {"created", "exited"}
  /\ ContainerRemove(i)
  /\ Visited(i)
  /\ UNCHANGED <<poolVars, callVars, entry, known, mode, budget, crossed>>

RecoverDone ==
  /\ mode = "recovering"
  /\ listed = Unlisted
  /\ mode' = "up"
  /\ UNCHANGED <<poolVars, daemonVars, callVars, entry, known, listed, budget, crossed>>

Dies(i) ==
  /\ ContainerDies(i)
  /\ UNCHANGED <<poolVars, callVars, hostVars, budget, crossed>>

----------------------------------------------------------------------------
(* A step of a call that is under way.                                     *)
CallStep(c) ==
  \/ AllocatePort(c) \/ Create(c) \/ GiveBack(c) \/ Start(c) \/ Register(c)
  \/ Healthy(c) \/ Unhealthy(c) \/ ReleasePort(c) \/ Cleanup(c)
  \/ Stop(c) \/ Remove(c) \/ Finish(c)

RecoverStep ==
  \/ \E i \in Ids : RecoverRunning(i) \/ RecoverStopped(i)
  \/ RecoverDone

Next ==
  \/ \E c \in Callers, s \in Sessions : ProvisionExisting(c, s) \/ ProvisionNew(c, s)
  \/ \E c \in Callers, i \in known : DestroyGone(c, i) \/ DestroyMark(c, i)
  \/ \E c \in Callers : CallStep(c)
  \/ Crash \/ Restart \/ RecoverStep
  \/ \E i \in Ids : Dies(i)

\* Goroutines are scheduled and every Docker call returns or times out.
Fairness ==
  /\ \A c \in Callers : WF_vars(CallStep(c))
  /\ WF_vars(Restart)
  /\ WF_vars(RecoverStep)

Spec == Init /\ [][Next]_vars

FairSpec == Spec /\ Fairness

----------------------------------------------------------------------------
(* Properties.                                                             *)

TypeOK ==
  /\ PoolTypeOK
  /\ DaemonTypeOK
  /\ entry \in [Ids -> {"none", "running", "destroyed"}]
  /\ pc \in [Callers -> {"idle", "alloc", "create", "giveBack", "start",
                         "register", "health", "release", "cleanup",
                         "stop", "remove", "finish"}]
  /\ sess \in [Callers -> Sessions \cup {NoSession}]
  /\ port \in [Callers -> Ports \cup {NoPort}]
  /\ inst \in [Callers -> Ids \cup {NoId}]
  /\ known \subseteq Ids
  /\ mode \in {"up", "down", "recovering"}
  /\ listed \in [Ids -> {"none", "created", "running", "exited"}]
  /\ abandoned \subseteq Ids
  /\ faults \in Nat
  /\ crashes \in Nat
  /\ crossed \subseteq Sessions

(***************************************************************************)
(* No container is forgotten: while the host is up, each container that    *)
(* exists is in the map, in the hands of a Provision that is under way, or *)
(* one whose best-effort removal the daemon refused.  A forgotten one      *)
(* keeps its name, its port and its memory until the next restart.         *)
(***************************************************************************)
InProvision(c) == pc[c] \in {"start", "register", "health", "release", "cleanup"}

NoOrphan ==
  mode = "up" =>
    \A i \in Ids : Exists(i) =>
      \/ entry[i] # "none"
      \/ i \in abandoned
      \/ \E c \in Callers : InProvision(c) /\ inst[c] = i

(***************************************************************************)
(* The address an instance is handed out with works because its session    *)
(* leases its port: "the host reaches the agent at http://localhost:<port> *)
(* via a leased host-port mapping" (dind.go:60).  Otherwise another        *)
(* session is given the port of a live container.  It is said of sessions  *)
(* whose own calls have not overlapped since the host started, whatever    *)
(* the calls of the others do: where they have, the Finish of one Destroy  *)
(* releases the lease a Provision just took.                               *)
(***************************************************************************)
LeaseBacksInstance ==
  mode = "up" =>
    \A i \in Ids :
      entry[i] = "running" /\ label[i] \notin crossed => allocated[label[i]] = bind[i]

(***************************************************************************)
(* No port leaks: a lease is held for an instance in the map or by a call  *)
(* of the session that is under way, however calls of it overlap.          *)
(***************************************************************************)
NoLeakedLease ==
  mode = "up" =>
    \A s \in Sessions : HasLease(s) => Tracked(s) # {} \/ Busy(s) # {}

(***************************************************************************)
(* A host restart strands no session (docs/04, "Recovery"): once Recover   *)
(* is done, each running container is in the map, handed to the Runner,    *)
(* and holds the lease of its port, whatever the crash interrupted.        *)
(***************************************************************************)
Adopted(i) == entry[i] = "running" /\ i \in known /\ allocated[label[i]] = bind[i]

RecoveryComplete ==
  [][mode = "recovering" /\ mode' = "up" =>
       \A i \in Ids : status[i] = "running" => Adopted(i)]_vars

(***************************************************************************)
(* While the calls of a session do not overlap, Provision hands the Runner *)
(* one of its instances that is in the map and of whose port the session   *)
(* holds the lease: never one of which another call is still deciding      *)
(* whether to keep it.  It runs, unless a container of a session whose     *)
(* calls overlapped answers the health check on its port.                  *)
(***************************************************************************)
HandedOutReady ==
  [][mode = "up" =>
       \A i \in known' \ known :
         label[i] \notin crossed' =>
           /\ entry[i] = "running" /\ allocated[label[i]] = bind[i]
           /\ crossed = {} => status[i] = "running"]_vars

\* Every call returns: no failure path or interleaving leaves one waiting.
CallsReturn == \A c \in Callers : pc[c] # "idle" ~> pc[c] = "idle"

=============================================================================
