------------------------------- MODULE Runner -------------------------------
(***************************************************************************)
(* The Runner (go/runner.go) over a fleet of per-session environments: the *)
(* calls the host's HTTP handlers make for a session, the archive loop,    *)
(* placement (go/fleet/memory.go), the snapshot, events and bindings the   *)
(* store keeps, and a restart of the host.  Calls are goroutines; each     *)
(* step is one access to the Runner's maps, the store, the fleet, the      *)
(* image registry, an environment or an agent, so that calls interleave    *)
(* wherever the code holds no lock.                                        *)
(***************************************************************************)
EXTENDS ExecEnv

CONSTANTS
  Callers,     \* goroutines serving host calls
  Loop,        \* the archive loop
  NoInst, NoWorker, NoSession,
  MaxFaults, MaxCrashes, MaxLosses, MaxDeaths  \* bounds on what can go wrong

ASSUME RunnerAssumption ==
  /\ Loop \notin Callers
  /\ NoInst \notin Ids /\ NoWorker \notin Workers /\ NoSession \notin Sessions
  /\ MaxFaults \in Nat /\ MaxCrashes \in Nat /\ MaxLosses \in Nat /\ MaxDeaths \in Nat

VARIABLES
  \* the Runner's memory
  instances,        \* session -> its tracked container
  instanceWorkers,  \* session -> the worker of that container
  lastActivity,     \* session -> "none", "fresh", or "stale" past ArchiveTimeout
  creating,         \* session -> its progress entry is an unfinished create
  seq,              \* the query counter
  pending,          \* session -> flushes in flight
  sweep,            \* the idle sessions the archive loop has still to visit
  \* the fleet and the store
  workers,          \* the registered workers
  binding,          \* session -> the worker it is bound to
  snapshot,         \* session -> its snapshot handle: an image
  events,           \* session -> query number -> the turn whose events are stored
  \* calls
  pc, op, sess,     \* caller -> where it is, which call it serves, for which session
  worker, inst, image, turn, query,   \* caller -> its local variables
  \* what a reader of the model wants to know
  life,             \* session -> how far its creation got, or "deleted"
  done,             \* session -> turns whose SendMessage returned without error
  excused,          \* sessions that lost a container or a worker, and the crossed
  crossed,          \* sessions whose calls have overlapped otherwise than MayStart says
  unloaded,         \* sessions whose container may not have been given its conversation
  sends, faults, crashes, losses, deaths

memVars == <<instances, instanceWorkers, lastActivity, creating>>
flowVars == <<seq, pending, sweep>>
storeVars == <<workers, binding, snapshot, events>>
localVars == <<worker, inst, image, turn, query>>
callVars == <<pc, op, sess, localVars>>
countVars == <<sends, crashes, losses, deaths>>
pastVars == <<crossed, unloaded, countVars>>
tailVars == <<life, done, excused, faults, pastVars>>
vars == <<envVars, memVars, flowVars, storeVars, callVars, tailVars>>

\* No handle: no image, as there is no turn 0.
NoImage == {0}

Actors == Callers \cup {Loop}
Queries == 1..MaxSends

Init ==
  /\ EnvInit
  /\ instances = [s \in Sessions |-> NoInst]
  /\ instanceWorkers = [s \in Sessions |-> NoWorker]
  /\ lastActivity = [s \in Sessions |-> "none"]
  /\ creating = [s \in Sessions |-> FALSE]
  /\ seq = 0
  /\ pending = [s \in Sessions |-> 0]
  /\ sweep = {}
  /\ workers = Workers
  /\ binding = [s \in Sessions |-> NoWorker]
  /\ snapshot = [s \in Sessions |-> NoImage]
  /\ events = [s \in Sessions |-> [q \in Queries |-> 0]]
  /\ pc = [c \in Actors |-> "idle"]
  /\ op = [c \in Actors |-> "none"]
  /\ sess = [c \in Actors |-> NoSession]
  /\ worker = [c \in Actors |-> NoWorker]
  /\ inst = [c \in Actors |-> NoInst]
  /\ image = [c \in Actors |-> {}]
  /\ turn = [c \in Actors |-> 0]
  /\ query = [c \in Actors |-> 0]
  /\ life = [s \in Sessions |-> "new"]
  /\ done = [s \in Sessions |-> {}]
  /\ excused = {} /\ crossed = {} /\ unloaded = {}
  /\ sends = 0 /\ faults = 0 /\ crashes = 0 /\ losses = 0 /\ deaths = 0

----------------------------------------------------------------------------
(* The Runner's maps.                                                      *)

track(s, w, i) ==
  /\ instances' = [instances EXCEPT ![s] = i]
  /\ instanceWorkers' = [instanceWorkers EXCEPT ![s] = w]
  /\ lastActivity' = [lastActivity EXCEPT ![s] = "fresh"]

forget(s) ==
  /\ instances' = [instances EXCEPT ![s] = NoInst]
  /\ instanceWorkers' = [instanceWorkers EXCEPT ![s] = NoWorker]
  /\ lastActivity' = [lastActivity EXCEPT ![s] = "none"]

touch(s) == lastActivity' = [lastActivity EXCEPT ![s] = "fresh"]

\* A progress entry other than an unfinished create replaces it or ends it.
Settle(s) == creating' = [creating EXCEPT ![s] = FALSE]

----------------------------------------------------------------------------
(* Calls.                                                                  *)

At(c, where) == pc[c] = where

Goto(c, where) ==
  /\ pc' = [pc EXCEPT ![c] = where]
  /\ UNCHANGED <<op, sess, localVars>>

Return(c) ==
  /\ pc' = [pc EXCEPT ![c] = "idle"]
  /\ op' = [op EXCEPT ![c] = "none"]
  /\ sess' = [sess EXCEPT ![c] = NoSession]
  /\ worker' = [worker EXCEPT ![c] = NoWorker]
  /\ inst' = [inst EXCEPT ![c] = NoInst]
  /\ image' = [image EXCEPT ![c] = {}]
  /\ turn' = [turn EXCEPT ![c] = 0]
  /\ query' = [query EXCEPT ![c] = 0]

Fault ==
  /\ faults < MaxFaults
  /\ faults' = faults + 1
  /\ UNCHANGED pastVars

\* A call that fails returns; a create also ends its progress entry.
Fails(c) ==
  /\ Return(c)
  /\ IF op[c] = "create"
       THEN /\ Settle(sess[c])
            /\ life' = [life EXCEPT ![sess[c]] = IF @ = "deleted" THEN @ ELSE "failed"]
       ELSE UNCHANGED <<creating, life>>
  /\ UNCHANGED <<done, excused>>

Busy(s) == {c \in Actors : pc[c] # "idle" /\ sess[c] = s}

\* The calls that a session is served one after another; but its first message, or
\* a resume, may come while the create it follows is still in the background.
MayStart(s, o) ==
  \/ Busy(s) = {}
  \/ o \in {"send", "resume"} /\ \A c \in Busy(s) : op[c] = "create"

\* The host takes no lock per session: any call may come at any time, of the archive
\* loop too.  What the Runner promises of a session it promises until then.
Crosses(s, o) ==
  IF MayStart(s, o)
    THEN UNCHANGED <<excused, crossed>>
    ELSE crossed' = crossed \cup {s} /\ excused' = excused \cup {s}

Begin(c, s, o, where) ==
  /\ At(c, "idle")
  /\ Crosses(s, o)
  /\ pc' = [pc EXCEPT ![c] = where]
  /\ op' = [op EXCEPT ![c] = o]
  /\ sess' = [sess EXCEPT ![c] = s]

\* The host registers the create, answers, and creates in the background.
MarkCreating(c, s) ==
  /\ life[s] = "new"
  /\ Begin(c, s, "create", "image")
  /\ creating' = [creating EXCEPT ![s] = TRUE]
  /\ life' = [life EXCEPT ![s] = "creating"]
  /\ UNCHANGED <<envVars, instances, instanceWorkers, lastActivity, flowVars,
                 storeVars, localVars, done, faults, unloaded, countVars>>

\* The handlers look at nothing but the id: a deleted session's row stays.
Known(s) == life[s] # "new"

SendMessage(c, s) ==
  /\ Known(s)
  /\ sends < MaxSends
  /\ Begin(c, s, "send", "await")
  /\ sends' = sends + 1
  /\ turn' = [turn EXCEPT ![c] = sends + 1]
  /\ UNCHANGED <<envVars, memVars, flowVars, storeVars, worker, inst, image, query,
                 life, done, faults, unloaded, crashes, losses, deaths>>

Resume(c, s) ==
  /\ Known(s)
  /\ Begin(c, s, "resume", "await")
  /\ UNCHANGED <<envVars, memVars, flowVars, storeVars, localVars,
                 life, done, faults, unloaded, countVars>>

\* Snapshot, and the Archive handler: Snapshot, then Destroy.  Snapshot
\* begins its progress entry before it waits for a create.
Snapshot(c, s, o) ==
  /\ o \in {"snapshot", "archive"}
  /\ Known(s)
  /\ Begin(c, s, o, "await")
  /\ Settle(s)
  /\ UNCHANGED <<envVars, instances, instanceWorkers, lastActivity, flowVars,
                 storeVars, localVars, life, done, faults, unloaded, countVars>>

Destroy(c, s) ==
  /\ Known(s)
  /\ Begin(c, s, "destroy", "destroy")
  /\ life' = [life EXCEPT ![s] = "deleted"]
  /\ UNCHANGED <<envVars, memVars, flowVars, storeVars, localVars,
                 done, faults, unloaded, countVars>>

\* Stop cancels the turn of the tracked container.
Stop(s) ==
  /\ instances[s] # NoInst
  /\ cstate[instances[s]] = "up"
  /\ StartTurn(instances[s], 0)
  /\ UNCHANGED <<memVars, flowVars, storeVars, callVars, tailVars>>

----------------------------------------------------------------------------
(* ensureRunning.                                                          *)

AwaitNothing(c) ==     \* mutant: ensureRunning does not wait for a create
  /\ At(c, "await")
  /\ Goto(c, "place")
  /\ UNCHANGED <<envVars, memVars, flowVars, storeVars, tailVars>>

\* awaitCreateSettled: until the session is tracked or no create is under way.
Await(c) ==
  /\ At(c, "await")
  /\ instances[sess[c]] # NoInst \/ ~creating[sess[c]]
  /\ Goto(c, "place")
  /\ UNCHANGED <<envVars, memVars, flowVars, storeVars, tailVars>>

\* Its caller's context ends first.
GiveUp(c) ==
  /\ At(c, "await")
  /\ instances[sess[c]] = NoInst /\ creating[sess[c]]
  /\ Fails(c)
  /\ UNCHANGED <<envVars, instances, instanceWorkers, lastActivity, flowVars,
                 storeVars, faults, pastVars>>

\* A create goes on to provision, any other call looks at what is tracked.
Placed(c) == IF op[c] = "create" THEN "provision" ELSE "ready"

\* EnsurePresent, the pull of the launch image.
PullImage(c) ==
  /\ At(c, "image")
  /\ \/ /\ Goto(c, "place")
        /\ UNCHANGED <<creating, life, done, excused, faults, pastVars>>
     \/ /\ Fault
        /\ Fails(c)
  /\ UNCHANGED <<envVars, instances, instanceWorkers, lastActivity, flowVars, storeVars>>

\* WorkerForSession, then PlaceForSession: the worker the session is bound
\* to if it is registered, else one of the policy's choice.
PlaceForSession(c) ==
  /\ At(c, "place")
  /\ \/ /\ binding[sess[c]] \in workers
        /\ worker' = [worker EXCEPT ![c] = binding[sess[c]]]
        /\ pc' = [pc EXCEPT ![c] = Placed(c)]
        /\ UNCHANGED <<op, sess, inst, image, turn, query, creating, life, done, excused>>
     \/ /\ binding[sess[c]] \notin workers
        /\ \E w \in workers : worker' = [worker EXCEPT ![c] = w]
        /\ pc' = [pc EXCEPT ![c] = "bind"]
        /\ UNCHANGED <<op, sess, inst, image, turn, query, creating, life, done, excused>>
     \/ /\ binding[sess[c]] \notin workers
        /\ workers = {}
        /\ Fails(c)
  /\ UNCHANGED <<envVars, instances, instanceWorkers, lastActivity, flowVars,
                 storeVars, faults, pastVars>>

SetWorkerBinding(c) ==
  /\ At(c, "bind")
  /\ \/ /\ binding' = [binding EXCEPT ![sess[c]] = worker[c]]
        /\ Goto(c, Placed(c))
        /\ UNCHANGED <<creating, life, done, excused, faults, pastVars>>
     \/ /\ Fault
        /\ Fails(c)
        /\ UNCHANGED binding
  /\ UNCHANGED <<envVars, instances, instanceWorkers, lastActivity, flowVars,
                 workers, snapshot, events>>

\* ensurePerSessionInstance.  A tracked container is taken to be running:
\* the environment is not asked.
Ready(c) ==
  /\ At(c, "ready")
  /\ \/ /\ instanceWorkers[sess[c]] \notin {NoWorker, worker[c]}
        /\ forget(sess[c])
        /\ Goto(c, "restore")
     \/ /\ instanceWorkers[sess[c]] \in {NoWorker, worker[c]}
        /\ instances[sess[c]] # NoInst
        /\ inst' = [inst EXCEPT ![c] = instances[sess[c]]]
        /\ pc' = [pc EXCEPT ![c] = "have"]
        /\ UNCHANGED <<op, sess, worker, image, turn, query, instances,
                       instanceWorkers, lastActivity>>
     \/ /\ instanceWorkers[sess[c]] \in {NoWorker, worker[c]}
        /\ instances[sess[c]] = NoInst
        /\ Goto(c, "restore")
        /\ UNCHANGED <<instances, instanceWorkers, lastActivity>>
  /\ UNCHANGED <<envVars, creating, flowVars, storeVars, tailVars>>

\* restoreToWorker up to Materialize.
Restore(c) ==
  /\ At(c, "restore")
  /\ Settle(sess[c])
  /\ \/ /\ snapshot[sess[c]] # NoImage
        /\ image' = [image EXCEPT ![c] = snapshot[sess[c]]]
        /\ pc' = [pc EXCEPT ![c] = "provision"]
        /\ UNCHANGED <<op, sess, worker, inst, turn, query, faults, pastVars>>
     \/ /\ snapshot[sess[c]] = NoImage
        /\ Return(c)
        /\ UNCHANGED <<faults, pastVars>>
     \/ /\ Fault
        /\ Return(c)
  /\ UNCHANGED <<envVars, instances, instanceWorkers, lastActivity, flowVars,
                 storeVars, life, done, excused>>

\* Out of ids, the environment has no port left for another container.
NoIdLeft == \A i \in Ids : cstate[i] # "none"

Provision(c) ==
  /\ At(c, "provision")
  /\ \/ /\ \E i \in Existing(worker[c], sess[c]) : inst' = [inst EXCEPT ![c] = i]
        /\ pc' = [pc EXCEPT ![c] = "track"]
        /\ UNCHANGED <<op, sess, worker, image, turn, query, envVars, creating,
                       life, done, excused, faults, pastVars>>
     \/ /\ Existing(worker[c], sess[c]) = {}
        /\ \E i \in Ids :
             /\ Boot(i, worker[c], sess[c], image[c])
             /\ inst' = [inst EXCEPT ![c] = i]
        /\ pc' = [pc EXCEPT ![c] = "track"]
        /\ UNCHANGED <<op, sess, worker, image, turn, query, creating,
                       life, done, excused, faults, pastVars>>
     \/ /\ Existing(worker[c], sess[c]) = {}
        /\ Fault \/ (NoIdLeft /\ UNCHANGED <<faults, pastVars>>)
        /\ Fails(c)
        /\ UNCHANGED envVars
  /\ UNCHANGED <<instances, instanceWorkers, lastActivity, flowVars, storeVars>>

Track(c) ==
  /\ At(c, "track")
  /\ track(sess[c], worker[c], inst[c])
  /\ Goto(c, IF op[c] = "create" THEN "boot" ELSE "rehydrate")
  /\ UNCHANGED <<envVars, creating, flowVars, storeVars, tailVars>>

Persisted(s) == {events[s][q] : q \in Queries} \ {0}

RehydrateSkipped(c) ==     \* mutant: the restore ends with Provision
  /\ At(c, "rehydrate")
  /\ Goto(c, "have")
  /\ UNCHANGED <<envVars, memVars, flowVars, storeVars, tailVars>>

\* rehydrateConversation: best effort, whatever happens the restore goes on.
Rehydrate(c) ==
  /\ At(c, "rehydrate")
  /\ \/ /\ cstate[inst[c]] = "up"
        /\ Persisted(sess[c]) # {}
        /\ LoadConversation(inst[c], Persisted(sess[c]))
        /\ unloaded' = unloaded \ {sess[c]}
        /\ UNCHANGED faults
     \/ /\ cstate[inst[c]] # "up" \/ Persisted(sess[c]) = {}
        /\ unloaded' = unloaded \ {sess[c]}
        /\ UNCHANGED <<envVars, faults>>
     \/ /\ faults < MaxFaults /\ faults' = faults + 1
        /\ unloaded' = unloaded \cup {sess[c]}
        /\ UNCHANGED envVars
  /\ Goto(c, "have")
  /\ UNCHANGED <<memVars, flowVars, storeVars, life, done, excused, crossed, countVars>>

\* CreateSession's last call, POST /sessions.  When it fails the container
\* stays tracked.
PostCreateSession(c) ==
  /\ At(c, "boot")
  /\ \/ /\ cstate[inst[c]] = "up"
        /\ Settle(sess[c])
        /\ life' = [life EXCEPT ![sess[c]] = IF @ = "deleted" THEN @ ELSE "created"]
        /\ Return(c)
        /\ UNCHANGED <<done, excused, faults, pastVars>>
     \/ /\ cstate[inst[c]] # "up"
        /\ Fails(c)
        /\ UNCHANGED <<faults, pastVars>>
     \/ /\ Fault
        /\ Fails(c)
  /\ UNCHANGED <<envVars, instances, instanceWorkers, lastActivity, flowVars, storeVars>>

----------------------------------------------------------------------------
(* What the calls do with the instance.                                    *)

Resumed(c) ==
  /\ At(c, "have") /\ op[c] = "resume"
  /\ Return(c)
  /\ UNCHANGED <<envVars, memVars, flowVars, storeVars, tailVars>>

PostReusesId(c) ==     \* mutant: nextQueryID does not count
  /\ At(c, "have") /\ op[c] = "send"
  /\ cstate[inst[c]] = "up"
  /\ touch(sess[c])
  /\ StartTurn(inst[c], turn[c])
  /\ query' = [query EXCEPT ![c] = seq + 1]
  /\ pc' = [pc EXCEPT ![c] = "turn"]
  /\ UNCHANGED <<op, sess, worker, inst, image, turn, instances, instanceWorkers,
                 creating, flowVars, storeVars, tailVars>>

\* nextQueryID, and POST /sessions/:id/query-stream.
Post(c) ==
  /\ At(c, "have") /\ op[c] = "send"
  /\ touch(sess[c])
  /\ seq' = seq + 1
  /\ \/ /\ cstate[inst[c]] = "up"
        /\ StartTurn(inst[c], turn[c])
        /\ query' = [query EXCEPT ![c] = seq + 1]
        /\ pc' = [pc EXCEPT ![c] = "turn"]
        /\ UNCHANGED <<op, sess, worker, inst, image, turn>>
     \/ /\ cstate[inst[c]] # "up"
        /\ Return(c)
        /\ UNCHANGED envVars
  /\ UNCHANGED <<instances, instanceWorkers, creating, pending, sweep, storeVars, tailVars>>

\* The stream ends: the turn ended, was cancelled or superseded, or the
\* container is gone.  What was streamed is persisted whichever it was.
StreamEnds(c) ==
  /\ At(c, "turn")
  /\ working[inst[c]] # turn[c]
  /\ pending' = [pending EXCEPT ![sess[c]] = @ + 1]
  /\ Goto(c, "persist")
  /\ UNCHANGED <<envVars, memVars, seq, sweep, storeVars, tailVars>>

\* The client goes: its context ends the stream, and the persist that is
\* tried with the same context fails.  The agent works on.
Disconnect(c) ==
  /\ At(c, "turn")
  /\ touch(sess[c])
  /\ Return(c)
  /\ UNCHANGED <<envVars, instances, instanceWorkers, creating, flowVars,
                 storeVars, tailVars>>

\* The upsert under the session and the query id.
Persist(c) ==
  /\ At(c, "persist")
  /\ \/ /\ events' = [events EXCEPT ![sess[c]][query[c]] = turn[c]]
        /\ done' = [done EXCEPT ![sess[c]] =
                     IF turn[c] \in files[inst[c]] THEN @ \cup {turn[c]} ELSE @]
        /\ UNCHANGED <<faults, pastVars>>
     \/ /\ Fault
        /\ UNCHANGED <<events, done>>
  /\ pending' = [pending EXCEPT ![sess[c]] = @ - 1]
  /\ touch(sess[c])
  /\ Return(c)
  /\ UNCHANGED <<envVars, instances, instanceWorkers, creating, seq, sweep,
                 workers, binding, snapshot, life, excused>>

\* The worker the session is tracked on by now has the container.
CanCommit(c) ==
  /\ instanceWorkers[sess[c]] \in workers
  /\ Present(inst[c]) /\ home[inst[c]] = instanceWorkers[sess[c]]

\* env.Snapshot, of the environment of the worker the session is tracked on.
Commit(c) ==
  /\ At(c, "have") /\ op[c] \in {"snapshot", "archive"}
  /\ \/ /\ CanCommit(c)
        /\ image' = [image EXCEPT ![c] = files[inst[c]]]
        /\ pc' = [pc EXCEPT ![c] = "store"]
        /\ UNCHANGED <<op, sess, worker, inst, turn, query, creating, life, done,
                       excused, faults, pastVars>>
     \/ /\ ~CanCommit(c)
        /\ Fails(c)
        /\ UNCHANGED <<faults, pastVars>>
     \/ /\ Fault
        /\ Fails(c)
  /\ UNCHANGED <<envVars, instances, instanceWorkers, lastActivity, flowVars, storeVars>>

SetSnapshotHandleOptional(c) ==     \* mutant: its error does not end the archive
  /\ At(c, "store")
  /\ \/ /\ snapshot' = [snapshot EXCEPT ![sess[c]] = image[c]]
        /\ UNCHANGED <<faults, pastVars>>
     \/ /\ Fault
        /\ UNCHANGED snapshot
  /\ IF op[c] = "archive" THEN Goto(c, "destroy") ELSE Return(c)
  /\ UNCHANGED <<envVars, memVars, flowVars, workers, binding, events,
                 life, done, excused>>

\* Registry.Persist and SetSnapshotHandle.
SetSnapshotHandle(c) ==
  /\ At(c, "store")
  /\ \/ /\ snapshot' = [snapshot EXCEPT ![sess[c]] = image[c]]
        /\ IF op[c] = "archive" THEN Goto(c, "destroy") ELSE Return(c)
        /\ UNCHANGED <<faults, pastVars>>
     \/ /\ Fault
        /\ Return(c)
        /\ UNCHANGED snapshot
  /\ UNCHANGED <<envVars, memVars, flowVars, workers, binding, events,
                 life, done, excused>>

DestroyForgetsOnly(c) ==     \* mutant: the environment is not called
  /\ At(c, "destroy")
  /\ Goto(c, "forget")
  /\ UNCHANGED <<envVars, memVars, flowVars, storeVars, tailVars>>

\* Runner.Destroy: the tracked container, if its worker is still registered.
DestroyInstance(c) ==
  /\ At(c, "destroy")
  /\ \/ /\ instances[sess[c]] # NoInst
        /\ instanceWorkers[sess[c]] \in workers
        /\ EnvDestroy(instances[sess[c]])
        /\ Goto(c, "forget")
        /\ UNCHANGED <<faults, pastVars>>
     \/ /\ instances[sess[c]] = NoInst \/ instanceWorkers[sess[c]] \notin workers
        /\ Goto(c, "forget")
        /\ UNCHANGED <<envVars, faults, pastVars>>
     \/ /\ instances[sess[c]] # NoInst
        /\ Fault
        /\ Return(c)
        /\ UNCHANGED envVars \/ EnvStop(instances[sess[c]])
  /\ UNCHANGED <<memVars, flowVars, storeVars, life, done, excused>>

\* Whatever is tracked by now.
Forget(c) ==
  /\ At(c, "forget")
  /\ forget(sess[c])
  /\ Return(c)
  /\ UNCHANGED <<envVars, creating, flowVars, storeVars, tailVars>>

----------------------------------------------------------------------------
(* The archive loop.                                                       *)

IdleSessions ==
  /\ At(Loop, "idle")
  /\ sweep = {}
  /\ sweep' = {s \in Sessions : lastActivity[s] = "stale"}
  /\ UNCHANGED <<envVars, memVars, seq, pending, storeVars, callVars, tailVars>>

\* A session of the list: the flush guard and the check of its worker, then
\* Snapshot and Destroy.  The list is not looked at again.
SweepNext(s) ==
  /\ s \in sweep
  /\ sweep' = sweep \ {s}
  /\ \/ /\ pending[s] = 0
        /\ instanceWorkers[s] \in workers
        /\ Begin(Loop, s, "archive", "await")
        /\ Settle(s)
        /\ UNCHANGED localVars
     \/ /\ pending[s] > 0 \/ instanceWorkers[s] \notin workers
        /\ At(Loop, "idle")
        /\ UNCHANGED <<callVars, creating, excused, crossed>>
  /\ UNCHANGED <<envVars, instances, instanceWorkers, lastActivity, seq, pending,
                 storeVars, life, done, faults, unloaded, countVars>>

\* ArchiveTimeout passes without a touch.
GoesStale(s) ==
  /\ lastActivity[s] = "fresh"
  /\ lastActivity' = [lastActivity EXCEPT ![s] = "stale"]
  /\ UNCHANGED <<envVars, instances, instanceWorkers, creating, flowVars, storeVars,
                 callVars, tailVars>>

----------------------------------------------------------------------------
(* The world around the Runner.                                            *)

AgentWorks(i) ==
  /\ AgentEndsTurn(i)
  /\ UNCHANGED <<memVars, flowVars, storeVars, callVars, tailVars>>

Dies(i) ==
  /\ deaths < MaxDeaths
  /\ deaths' = deaths + 1
  /\ ContainerDies(i)
  /\ excused' = excused \cup {owner[i]}
  /\ UNCHANGED <<memVars, flowVars, storeVars, callVars, life, done, faults,
                 crossed, unloaded, sends, crashes, losses>>

\* Deregister, in either drain mode: the worker leaves the fleet, its
\* containers run on, and so do the calls that have chosen it.
Deregister(w) ==
  /\ losses < MaxLosses
  /\ losses' = losses + 1
  /\ w \in workers
  /\ workers' = workers \ {w}
  /\ excused' = excused \cup {owner[i] : i \in {j \in Ids : Present(j) /\ home[j] = w}}
                        \cup {s \in Sessions : binding[s] = w}
                        \cup {sess[c] : c \in {d \in Actors : worker[d] = w}}
  /\ UNCHANGED <<envVars, memVars, flowVars, binding, snapshot, events, callVars,
                 life, done, faults, crossed, unloaded, sends, crashes, deaths>>

\* The containers of s that Recover hands to Start.
Survivors(s) == {i \in Ids : cstate[i] = "up" /\ owner[i] = s}

\* The sessions of which a container survives that is not the one tracked, or that
\* a restore has still to give the conversation: Start takes it as it is.
Unfinished ==
  {s \in Sessions : \/ \E i \in Survivors(s) : i # instances[s]
                    \/ \E c \in Actors : At(c, "rehydrate") /\ sess[c] = s}

\* The host process's own memory is gone.
LoseMemory ==
  /\ creating' = [s \in Sessions |-> FALSE]
  /\ seq' = 0
  /\ pending' = [s \in Sessions |-> 0]
  /\ sweep' = {}
  /\ workers' = Workers
  /\ pc' = [c \in Actors |-> "idle"]
  /\ op' = [c \in Actors |-> "none"]
  /\ sess' = [c \in Actors |-> NoSession]
  /\ worker' = [c \in Actors |-> NoWorker]
  /\ inst' = [c \in Actors |-> NoInst]
  /\ image' = [c \in Actors |-> {}]
  /\ turn' = [c \in Actors |-> 0]
  /\ query' = [c \in Actors |-> 0]
  /\ life' = [s \in Sessions |-> IF life[s] = "creating" THEN "failed" ELSE life[s]]
  /\ unloaded' = unloaded \cup Unfinished

RestartUntracked ==     \* mutant: Start does not track what Recover returns
  /\ crashes < MaxCrashes
  /\ crashes' = crashes + 1
  /\ Reclaim
  /\ instances' = [s \in Sessions |-> NoInst]
  /\ instanceWorkers' = [s \in Sessions |-> NoWorker]
  /\ lastActivity' = [s \in Sessions |-> "none"]
  /\ LoseMemory
  /\ UNCHANGED <<binding, snapshot, events, done, excused, crossed, faults, sends, losses,
                 deaths>>

\* The host process ends and starts again: Start runs Recover on every
\* worker before a call is served.  Of two survivors of one session the one
\* recovered last stays tracked.
Restart ==
  /\ crashes < MaxCrashes
  /\ crashes' = crashes + 1
  /\ Reclaim
  /\ \E found \in [Sessions -> Ids \cup {NoInst}] :
       /\ \A s \in Sessions :
            IF Survivors(s) = {} THEN found[s] = NoInst ELSE found[s] \in Survivors(s)
       /\ instances' = found
       /\ instanceWorkers' =
            [s \in Sessions |-> IF found[s] = NoInst THEN NoWorker ELSE home[found[s]]]
       /\ lastActivity' =
            [s \in Sessions |-> IF found[s] = NoInst THEN "none" ELSE "fresh"]
  /\ LoseMemory
  /\ UNCHANGED <<binding, snapshot, events, done, excused, crossed, faults, sends, losses,
                 deaths>>

----------------------------------------------------------------------------
CallStep(c) ==
  \/ PullImage(c) \/ Await(c) \/ PlaceForSession(c) \/ SetWorkerBinding(c)
  \/ Ready(c) \/ Restore(c) \/ Provision(c) \/ Track(c) \/ Rehydrate(c)
  \/ PostCreateSession(c) \/ Resumed(c) \/ Post(c) \/ StreamEnds(c)
  \/ Persist(c) \/ Commit(c) \/ SetSnapshotHandle(c) \/ DestroyInstance(c)
  \/ Forget(c)

Start(c, s) ==
  \/ MarkCreating(c, s) \/ SendMessage(c, s) \/ Resume(c, s) \/ Destroy(c, s)
  \/ \E o \in {"snapshot", "archive"} : Snapshot(c, s, o)

Next ==
  \/ \E c \in Callers, s \in Sessions : Start(c, s)
  \/ \E c \in Actors : CallStep(c)
  \/ \E c \in Callers : GiveUp(c) \/ Disconnect(c)
  \/ IdleSessions
  \/ \E s \in Sessions : SweepNext(s) \/ GoesStale(s) \/ Stop(s)
  \/ \E i \in Ids : AgentWorks(i) \/ Dies(i)
  \/ \E w \in Workers : Deregister(w)
  \/ Restart

Spec == Init /\ [][Next]_vars

----------------------------------------------------------------------------
(* Properties.                                                             *)

Places == {"idle", "image", "await", "place", "bind", "ready", "restore", "provision",
           "track", "rehydrate", "boot", "have", "turn", "persist", "store", "destroy",
           "forget"}
Ops == {"none", "create", "send", "resume", "snapshot", "archive", "destroy"}

CallTypeOK ==
  /\ pc \in [Actors -> Places]
  /\ op \in [Actors -> Ops]
  /\ sess \in [Actors -> Sessions \cup {NoSession}]
  /\ worker \in [Actors -> Workers \cup {NoWorker}]
  /\ inst \in [Actors -> Ids \cup {NoInst}]
  /\ image \in [Actors -> SUBSET Turns]
  /\ turn \in [Actors -> Turns \cup {0}]
  /\ query \in [Actors -> Nat]

MemTypeOK ==
  /\ instances \in [Sessions -> Ids \cup {NoInst}]
  /\ instanceWorkers \in [Sessions -> Workers \cup {NoWorker}]
  /\ lastActivity \in [Sessions -> {"none", "fresh", "stale"}]
  /\ creating \in [Sessions -> BOOLEAN]
  /\ seq \in Nat
  /\ pending \in [Sessions -> Int]
  /\ sweep \subseteq Sessions

StoreTypeOK ==
  /\ workers \subseteq Workers
  /\ binding \in [Sessions -> Workers \cup {NoWorker}]
  /\ snapshot \in [Sessions -> (SUBSET Turns) \cup {NoImage}]
  /\ events \in [Sessions -> [Queries -> Turns \cup {0}]]

TailTypeOK ==
  /\ life \in [Sessions -> {"new", "creating", "created", "failed", "deleted"}]
  /\ done \in [Sessions -> SUBSET Turns]
  /\ excused \subseteq Sessions /\ crossed \subseteq Sessions /\ unloaded \subseteq Sessions
  /\ sends \in 0..MaxSends

TypeOK == EnvTypeOK /\ MemTypeOK /\ StoreTypeOK /\ CallTypeOK /\ TailTypeOK

\* Sessions of which the Runner still owes everything it was given: none is excused,
\* of a container or worker lost or of calls that overlapped.
Owed(s) == life[s] # "deleted" /\ s \notin excused

(***************************************************************************)
(* The work of a finished turn is never lost: it is in the filesystem of   *)
(* the session's container, or, when there is none, in the image its       *)
(* snapshot handle names (Snapshot before Destroy, runner.go:623-626).     *)
(***************************************************************************)
WorkKept ==
  \A s \in Sessions :
    Owed(s) => done[s] \subseteq IF instances[s] # NoInst /\ Present(instances[s])
                                   THEN files[instances[s]]
                                   ELSE IF snapshot[s] = NoImage THEN {} ELSE snapshot[s]

(***************************************************************************)
(* The events of every finished turn can be replayed: "loads the persisted *)
(* compacted events from the host" (docs/05, "Late-connect replay").       *)
(***************************************************************************)
EventsKept == \A s \in Sessions : done[s] \subseteq Persisted(s)

(***************************************************************************)
(* A turn starts in a container whose agent remembers every finished turn  *)
(* whose events are stored, restored containers included ("a freshly       *)
(* restored container has no memory of the pre-archive turns", :797).  Not *)
(* so if the load, which is best effort, failed (:803-807), if the host    *)
(* restarted before it, or once calls for the session overlapped: a        *)
(* message may find the restored container tracked and not yet loaded.     *)
(***************************************************************************)
AgentRemembers ==
  \A c \in Actors :
    At(c, "have") /\ op[c] = "send" /\ cstate[inst[c]] = "up"
      /\ sess[c] \notin crossed \cup unloaded
      => done[sess[c]] \cap Persisted(sess[c]) \subseteq memory[inst[c]]

(***************************************************************************)
(* A session that was created is tracked or has a snapshot to be restored  *)
(* from, so that "session must be re-created" is never its end.            *)
(***************************************************************************)
Recoverable ==
  \A s \in Sessions :
    life[s] = "created" /\ Owed(s) => instances[s] # NoInst \/ snapshot[s] # NoImage

(***************************************************************************)
(* A message that meets a create still under way waits for it, and does    *)
(* not fall into a restore that must fail (awaitCreateSettled, :653-659).  *)
(***************************************************************************)
NoSpuriousRestore ==
  \A c \in Actors :
    At(c, "restore") /\ snapshot[sess[c]] = NoImage
      => life[sess[c]] \in {"failed", "deleted"} \/ sess[c] \in excused

(***************************************************************************)
(* No container runs that nobody will ever archive or destroy: each one on *)
(* a registered worker is tracked, or about to be.                         *)
(***************************************************************************)
NoStray ==
  \A i \in Ids :
    cstate[i] = "up" /\ home[i] \in workers /\ owner[i] \notin excused
      => \/ instances[owner[i]] = i
         \/ \E c \in Actors : At(c, "track") /\ inst[c] = i

=============================================================================
