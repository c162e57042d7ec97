---------------------------- MODULE RunnerProofs ----------------------------
(***************************************************************************)
(* Theorems about Runner, for any number of calls at once: whatever fails, *)
(* whenever the host restarts, workers leave and containers die.  The host *)
(* takes no lock per session, so that two calls for one may cross: what is *)
(* promised of a session holds until they have, and of every other session *)
(* after it as before.  Events are kept until the host restarts.           *)
(***************************************************************************)
EXTENDS Runner, FiniteSetTheorems, TLAPS

\* The containers of s, and the image a restore of s boots from.
Running(s) == {i \in Ids : Present(i) /\ owner[i] = s}
Stored(s) == IF snapshot[s] = NoImage THEN {} ELSE snapshot[s]

----------------------------------------------------------------------------
(* The invariant, of what a call is, ...                                   *)

CallShape(c) ==
  /\ pc[c] = "idle" <=> sess[c] = NoSession
  /\ pc[c] = "idle" <=> op[c] = "none"
  /\ pc[c] \in {"image", "boot"} => op[c] = "create"
  /\ op[c] = "create" => pc[c] \in {"image", "place", "bind", "provision", "track", "boot"}
  /\ pc[c] \in {"turn", "persist"} => op[c] = "send"
  /\ pc[c] = "store" => op[c] \in {"snapshot", "archive"}
  /\ pc[c] \in {"destroy", "forget"} => op[c] \in {"archive", "destroy"}
  /\ op[c] = "destroy" => pc[c] \in {"destroy", "forget"}
  /\ pc[c] = "idle" => worker[c] = NoWorker /\ inst[c] = NoInst
  /\ pc[c] = "idle" \/ op[c] = "create" => image[c] = {}
  /\ pc[c] \in {"track", "boot", "rehydrate", "have", "turn", "persist", "store"}
       => inst[c] # NoInst
  /\ pc[c] \in {"bind", "ready", "restore", "provision", "track"} => worker[c] # NoWorker
  /\ inst[c] # NoInst => owner[inst[c]] = sess[c] /\ cstate[inst[c]] # "none"

CallLife(c) ==
  /\ pc[c] # "idle" => life[sess[c]] # "new"
  /\ op[c] = "create" /\ sess[c] \notin crossed => life[sess[c]] = "creating"
  /\ op[c] = "destroy" => life[sess[c]] = "deleted"

\* A call that brings up a container does so for a session that has none, and
\* one that has an instance has the one that is tracked.
Brings(c) ==
  \/ pc[c] \in {"restore", "provision", "track"}
  \/ op[c] = "create" /\ pc[c] # "boot"
Has(c) == pc[c] \in {"boot", "rehydrate", "have", "turn", "persist", "store"}

CallPhase(c) ==
  sess[c] \in Sessions \ excused =>
    /\ pc[c] = "bind" => binding[sess[c]] = NoWorker /\ worker[c] \in workers
    /\ pc[c] \in {"ready", "restore", "provision", "track"} => worker[c] = binding[sess[c]]
    /\ Brings(c) => instances[sess[c]] = NoInst
    /\ Has(c) => instances[sess[c]] = inst[c]
    /\ op[c] = "create" => creating[sess[c]]
    /\ pc[c] = "track" => Present(inst[c])
    /\ pc[c] \in {"turn", "persist"} => cstate[inst[c]] = "up"
    /\ pc[c] = "forget" => Running(sess[c]) = {}

CallDone(c) ==
  sess[c] \in Sessions /\ Owed(sess[c]) =>
    /\ pc[c] = "provision" => image[c] = Stored(sess[c])
    /\ pc[c] = "store" => done[sess[c]] \subseteq image[c]
    /\ op[c] = "archive" /\ pc[c] \in {"destroy", "forget"} =>
         snapshot[sess[c]] # NoImage /\ done[sess[c]] \subseteq snapshot[sess[c]]

\* ... of two calls that did not cross, ...
Serial(c, d) ==
  c # d /\ pc[c] # "idle" /\ sess[c] = sess[d] /\ sess[c] \notin crossed =>
    \/ op[c] = "create" /\ op[d] \in {"send", "resume"}
    \/ op[d] = "create" /\ op[c] \in {"send", "resume"}

\* A call behind a create has waited until its container was tracked.
Waits(c, d) ==
  sess[c] \in Sessions \ excused /\ op[c] = "create"
    /\ c # d /\ sess[d] = sess[c] /\ pc[d] # "await"
  => instances[sess[c]] # NoInst

\* ... and of a session.
Owner(s) ==
  /\ instances[s] = NoInst <=> instanceWorkers[s] = NoWorker
  /\ instances[s] # NoInst => owner[instances[s]] = s /\ cstate[instances[s]] # "none"

Life(s) ==
  /\ s \notin crossed =>
       /\ life[s] = "creating" => \E c \in Actors : op[c] = "create" /\ sess[c] = s
       /\ life[s] \in {"new", "creating"} => snapshot[s] = NoImage
  /\ life[s] = "new" => instances[s] = NoInst /\ Running(s) = {}

\* A session that lost nothing is bound to a registered worker, and what it
\* has is there: one container, the tracked one or one about to be.
Place(s) ==
  s \notin excused =>
    /\ binding[s] # NoWorker => binding[s] \in workers
    /\ instances[s] # NoInst => instanceWorkers[s] = binding[s]
    /\ \A i \in Running(s) :
         /\ home[i] = binding[s]
         /\ instances[s] = i \/ \E c \in Actors : pc[c] = "track" /\ inst[c] = i
    /\ instances[s] # NoInst =>
         instances[s] \in Running(s) \/ \E c \in Actors : pc[c] = "forget" /\ sess[c] = s

\* A container that is stopped and still there is one an archive failed to remove.
Work(s) ==
  Owed(s) =>
    /\ \A i \in Running(s) :
         /\ done[s] \subseteq files[i]
         /\ cstate[i] = "up" \/ (snapshot[s] # NoImage /\ done[s] \subseteq snapshot[s])
    /\ instances[s] \notin Running(s) => done[s] \subseteq Stored(s)
    /\ life[s] = "created" => instances[s] # NoInst \/ snapshot[s] # NoImage

TypeInv ==
  /\ TypeOK
  /\ \A c \in Actors : CallShape(c)
  /\ \A s \in Sessions : Owner(s)

Inv ==
  /\ TypeInv
  /\ crossed \subseteq excused
  /\ \A c \in Actors : CallLife(c) /\ CallPhase(c) /\ CallDone(c)
  /\ \A c, d \in Actors : Serial(c, d) /\ Waits(c, d)
  /\ \A s \in Sessions : Life(s) /\ Place(s) /\ Work(s)

----------------------------------------------------------------------------
(* Types.                                                                  *)

LEMMA ReturnTypes ==
  ASSUME TypeOK, NEW c \in Actors, Return(c)
  PROVE  CallTypeOK'
<1> USE DEF TypeOK, CallTypeOK, Return
<1>1. pc' \in [Actors -> Places] /\ op' \in [Actors -> Ops]
  BY DEF Places, Ops
<1>2. /\ sess' \in [Actors -> Sessions \cup {NoSession}]
      /\ worker' \in [Actors -> Workers \cup {NoWorker}]
      /\ inst' \in [Actors -> Ids \cup {NoInst}]
  OBVIOUS
<1>3. /\ image' \in [Actors -> SUBSET Turns]
      /\ turn' \in [Actors -> Turns \cup {0}]
      /\ query' \in [Actors -> Nat]
  OBVIOUS
<1> QED BY <1>1, <1>2, <1>3

LEMMA GotoTypes ==
  ASSUME TypeOK, NEW c \in Actors, NEW where \in Places, Goto(c, where)
  PROVE  CallTypeOK'
BY DEF TypeOK, CallTypeOK, Goto, localVars

\* Of the variables of calls only pc and one of the local ones changes.
LEMMA LocalTypes ==
  ASSUME TypeOK, NEW c \in Actors, NEW where \in Places,
         pc' = [pc EXCEPT ![c] = where], UNCHANGED <<op, sess, turn>>,
         \/ UNCHANGED <<worker, inst, image>> /\ \E q \in Nat : query' = [query EXCEPT ![c] = q]
         \/ UNCHANGED <<worker, image, query>> /\ \E i \in Ids : inst' = [inst EXCEPT ![c] = i]
         \/ UNCHANGED <<inst, image, query>> /\ \E w \in Workers : worker' = [worker EXCEPT ![c] = w]
         \/ UNCHANGED <<worker, inst, query>>
              /\ \E m \in SUBSET Turns : image' = [image EXCEPT ![c] = m]
  PROVE  CallTypeOK'
<1> USE DEF TypeOK, CallTypeOK
<1>1. pc' \in [Actors -> Places]
  OBVIOUS
<1>2. /\ worker' \in [Actors -> Workers \cup {NoWorker}]
      /\ inst' \in [Actors -> Ids \cup {NoInst}]
      /\ image' \in [Actors -> SUBSET Turns]
      /\ query' \in [Actors -> Nat]
  OBVIOUS
<1> QED BY <1>1, <1>2

LEMMA EnvTypes == ASSUME TypeInv, [Next]_vars PROVE EnvTypeOK'
<1> USE DEF TypeInv, TypeOK, EnvTypeOK, CallTypeOK, MemTypeOK
<1>1. ASSUME NEW c \in Actors, Provision(c) PROVE EnvTypeOK'
  <2>1. worker[c] \in Workers /\ sess[c] \in Sessions /\ image[c] \in SUBSET Turns
    BY <1>1 DEF Provision, At, CallShape, Places
  <2>2. ASSUME NEW i \in Ids, Boot(i, worker[c], sess[c], image[c]) PROVE EnvTypeOK'
    BY <2>1, <2>2 DEF Boot
  <2> QED BY <1>1, <2>2 DEF Provision, envVars
<1>2. ASSUME NEW c \in Actors, Rehydrate(c) PROVE EnvTypeOK'
  <2>1. sess[c] \in Sessions
    BY <1>2 DEF Rehydrate, At, CallShape
  <2>2. Persisted(sess[c]) \in SUBSET Turns
    BY <2>1 DEF Persisted, StoreTypeOK
  <2> QED BY <1>2, <2>2 DEF Rehydrate, LoadConversation, envVars
<1>3. ASSUME NEW c \in Actors, Post(c) PROVE EnvTypeOK'
  BY <1>3 DEF Post, StartTurn, envVars
<1>4. ASSUME NEW c \in Actors, DestroyInstance(c) PROVE EnvTypeOK'
  BY <1>4 DEF DestroyInstance, EnvDestroy, EnvStop, envVars
<1>5. ASSUME NEW s \in Sessions, Stop(s) PROVE EnvTypeOK'
  BY <1>5 DEF Stop, StartTurn
<1>6. ASSUME NEW i \in Ids, AgentWorks(i) \/ Dies(i) PROVE EnvTypeOK'
  <2>1. CASE AgentWorks(i)
    BY <2>1 DEF AgentWorks, AgentEndsTurn
  <2>2. CASE Dies(i)
    BY <2>2 DEF Dies, ContainerDies
  <2> QED BY <1>6, <2>1, <2>2
<1>7. CASE Restart
  BY <1>7 DEF Restart, Reclaim
<1>8. CASE UNCHANGED envVars
  BY <1>8 DEF envVars
<1>9. ASSUME NEW c \in Actors, CallStep(c) PROVE EnvTypeOK'
  <2>1. \/ Provision(c) \/ Rehydrate(c) \/ Post(c) \/ DestroyInstance(c)
        \/ UNCHANGED envVars
    BY <1>9 DEF CallStep, PullImage, Await, PlaceForSession, SetWorkerBinding, Ready, Restore,
       Track, PostCreateSession, Resumed, StreamEnds, Persist, Commit, SetSnapshotHandle, Forget
  <2> QED BY <2>1, <1>1, <1>2, <1>3, <1>4, <1>8
<1>10. ASSUME NEW c \in Callers, NEW s \in Sessions, Start(c, s) PROVE UNCHANGED envVars
  BY <1>10 DEF Start, MarkCreating, SendMessage, Resume, Snapshot, Destroy
<1>11. ASSUME NEW c \in Callers, GiveUp(c) \/ Disconnect(c) PROVE UNCHANGED envVars
  BY <1>11 DEF GiveUp, Disconnect
<1>12. ASSUME NEW s \in Sessions, SweepNext(s) \/ GoesStale(s) PROVE UNCHANGED envVars
  BY <1>12 DEF SweepNext, GoesStale
<1>13. ASSUME NEW w \in Workers, Deregister(w) PROVE UNCHANGED envVars
  BY <1>13 DEF Deregister
<1>14. IdleSessions \/ UNCHANGED vars => UNCHANGED envVars
  BY DEF IdleSessions, vars
<1> QED BY <1>5, <1>6, <1>7, <1>8, <1>9, <1>10, <1>11, <1>12, <1>13, <1>14 DEF Next

LEMMA MemTypes == ASSUME TypeInv, [Next]_vars PROVE MemTypeOK'
<1> USE DEF TypeInv, TypeOK, MemTypeOK
<1>1. ASSUME NEW c \in Actors, NEW s \in Sessions, MarkCreating(c, s)
      PROVE  MemTypeOK'
  BY <1>1 DEF MarkCreating, Snapshot, Settle, flowVars
<1>2. ASSUME NEW c \in Actors, Fails(c) PROVE creating' \in [Sessions -> BOOLEAN]
  BY <1>2 DEF Fails, Settle
<1>3. ASSUME NEW c \in Actors, Ready(c) \/ Forget(c) PROVE MemTypeOK'
  BY <1>3 DEF Ready, Forget, forget, flowVars
<1>4. ASSUME NEW c \in Actors, Track(c) PROVE MemTypeOK'
  <2>1. inst[c] \in Ids \cup {NoInst} /\ worker[c] \in Workers \cup {NoWorker}
    BY DEF CallTypeOK
  <2> QED BY <1>4, <2>1 DEF Track, track, flowVars
<1>5. ASSUME NEW c \in Actors, Post(c) \/ StreamEnds(c) \/ Disconnect(c) \/ Persist(c)
      PROVE  MemTypeOK'
  BY <1>5 DEF Post, StreamEnds, Disconnect, Persist, touch, memVars, flowVars
<1>6. ASSUME NEW c \in Actors, Restore(c) PROVE MemTypeOK'
  BY <1>6 DEF Restore, Settle, flowVars
<1>7. ASSUME NEW c \in Actors,
             PullImage(c) \/ PlaceForSession(c) \/ SetWorkerBinding(c) \/ Provision(c)
             \/ PostCreateSession(c) \/ Commit(c) \/ GiveUp(c)
      PROVE  MemTypeOK'
  <2>1. /\ UNCHANGED <<instances, instanceWorkers, lastActivity, flowVars>>
        /\ Fails(c) \/ UNCHANGED creating \/ Settle(sess[c])
    BY <1>7 DEF PullImage, PlaceForSession, SetWorkerBinding, Provision, PostCreateSession, Commit,
       GiveUp
  <2> QED BY <2>1, <1>2 DEF Settle, flowVars
<1>8. ASSUME NEW s \in Sessions, SweepNext(s) \/ GoesStale(s) PROVE MemTypeOK'
  BY <1>8 DEF SweepNext, GoesStale, Settle, flowVars
<1>9. CASE IdleSessions
  BY <1>9 DEF IdleSessions, memVars
<1>10. CASE Restart
  <2>1. PICK found \in [Sessions -> Ids \cup {NoInst}] :
          /\ instances' = found
          /\ instanceWorkers' =
               [s \in Sessions |-> IF found[s] = NoInst THEN NoWorker ELSE home[found[s]]]
          /\ lastActivity' = [s \in Sessions |-> IF found[s] = NoInst THEN "none" ELSE "fresh"]
    BY <1>10 DEF Restart
  <2>2. instanceWorkers' \in [Sessions -> Workers \cup {NoWorker}]
    BY <2>1 DEF EnvTypeOK
  <2> QED BY <1>10, <2>1, <2>2 DEF Restart, LoseMemory
<1>11. CASE UNCHANGED <<memVars, flowVars>>
  BY <1>11 DEF memVars, flowVars
<1>12. ASSUME NEW c \in Actors,
              Await(c) \/ Rehydrate(c) \/ Resumed(c) \/ SetSnapshotHandle(c) \/ DestroyInstance(c)
       PROVE  UNCHANGED <<memVars, flowVars>>
  BY <1>12 DEF Await, Rehydrate, Resumed, SetSnapshotHandle, DestroyInstance
<1>13. ASSUME NEW c \in Callers, NEW s \in Sessions,
              SendMessage(c, s) \/ Resume(c, s) \/ Destroy(c, s)
       PROVE  UNCHANGED <<memVars, flowVars>>
  BY <1>13 DEF SendMessage, Resume, Destroy
<1>14. ASSUME NEW c \in Callers, NEW s \in Sessions, NEW o, Snapshot(c, s, o) PROVE MemTypeOK'
  BY <1>14 DEF Snapshot, Settle, flowVars
<1>15. ASSUME NEW i \in Ids, AgentWorks(i) \/ Dies(i) PROVE UNCHANGED <<memVars, flowVars>>
  BY <1>15 DEF AgentWorks, Dies
<1>16. ASSUME NEW s \in Sessions, Stop(s) PROVE UNCHANGED <<memVars, flowVars>>
  BY <1>16 DEF Stop
<1>17. ASSUME NEW w \in Workers, Deregister(w) PROVE UNCHANGED <<memVars, flowVars>>
  BY <1>17 DEF Deregister
<1>18. UNCHANGED vars => UNCHANGED <<memVars, flowVars>>
  BY DEF vars
<1>19. ASSUME NEW c \in Actors, CallStep(c) PROVE MemTypeOK'
  BY <1>3, <1>4, <1>5, <1>6, <1>7, <1>11, <1>12, <1>19 DEF CallStep
<1>20. ASSUME NEW c \in Callers, NEW s \in Sessions, Start(c, s) PROVE MemTypeOK'
  BY <1>1, <1>11, <1>13, <1>14, <1>20 DEF Start, Actors
<1> QED BY <1>5, <1>7, <1>8, <1>9, <1>10, <1>11, <1>15, <1>16, <1>17, <1>18, <1>19, <1>20
        DEF Next, Actors

LEMMA StoreTypes == ASSUME TypeInv, [Next]_vars PROVE StoreTypeOK'
<1> USE DEF TypeInv, TypeOK, StoreTypeOK
<1>1. ASSUME NEW c \in Actors, SetWorkerBinding(c) PROVE StoreTypeOK'
  <2>1. worker[c] \in Workers \cup {NoWorker}
    BY DEF CallTypeOK
  <2> QED BY <1>1, <2>1 DEF SetWorkerBinding
<1>2. ASSUME NEW c \in Actors, Persist(c) PROVE StoreTypeOK'
  <2>1. turn[c] \in Turns \cup {0}
    BY DEF CallTypeOK
  <2>2. CASE UNCHANGED events
    BY <1>2, <2>2 DEF Persist
  <2>3. CASE events' = [events EXCEPT ![sess[c]][query[c]] = turn[c]]
    <3>1. events' \in [Sessions -> [Queries -> Turns \cup {0}]]
      BY <2>1, <2>3
    <3> QED BY <1>2, <3>1 DEF Persist
  <2> QED BY <1>2, <2>2, <2>3 DEF Persist
<1>3. ASSUME NEW c \in Actors, SetSnapshotHandle(c) PROVE StoreTypeOK'
  <2>1. image[c] \in SUBSET Turns
    BY DEF CallTypeOK
  <2> QED BY <1>3, <2>1 DEF SetSnapshotHandle
<1>4. ASSUME NEW w \in Workers, Deregister(w) PROVE StoreTypeOK'
  BY <1>4 DEF Deregister
<1>5. CASE Restart
  BY <1>5 DEF Restart, LoseMemory
<1>6. CASE UNCHANGED storeVars
  BY <1>6 DEF storeVars
<1>7. ASSUME NEW c \in Actors, CallStep(c) PROVE StoreTypeOK'
  <2>1. SetWorkerBinding(c) \/ Persist(c) \/ SetSnapshotHandle(c) \/ UNCHANGED storeVars
    BY <1>7 DEF CallStep, PullImage, Await, PlaceForSession, Ready, Restore, Provision, Track,
       Rehydrate, PostCreateSession, Resumed, Post, StreamEnds, Commit, DestroyInstance, Forget
  <2> QED BY <2>1, <1>1, <1>2, <1>3, <1>6
<1>8. ASSUME NEW c \in Callers, NEW s \in Sessions, Start(c, s) PROVE UNCHANGED storeVars
  BY <1>8 DEF Start, MarkCreating, SendMessage, Resume, Snapshot, Destroy
<1>9. ASSUME NEW c \in Callers, GiveUp(c) \/ Disconnect(c) PROVE UNCHANGED storeVars
  BY <1>9 DEF GiveUp, Disconnect
<1>10. ASSUME NEW s \in Sessions, SweepNext(s) \/ GoesStale(s) \/ Stop(s)
       PROVE  UNCHANGED storeVars
  BY <1>10 DEF SweepNext, GoesStale, Stop
<1>11. ASSUME NEW i \in Ids, AgentWorks(i) \/ Dies(i) PROVE UNCHANGED storeVars
  BY <1>11 DEF AgentWorks, Dies
<1>12. IdleSessions \/ UNCHANGED vars => UNCHANGED storeVars
  BY DEF IdleSessions, vars
<1> QED BY <1>4, <1>5, <1>6, <1>7, <1>8, <1>9, <1>10, <1>11, <1>12 DEF Next

LEMMA BeginTypes ==
  ASSUME TypeOK, NEW c \in Actors, NEW s \in Sessions, NEW o \in Ops, NEW where \in Places,
         Begin(c, s, o, where)
  PROVE  pc' \in [Actors -> Places] /\ op' \in [Actors -> Ops]
         /\ sess' \in [Actors -> Sessions \cup {NoSession}]
BY DEF TypeOK, CallTypeOK, Begin

LEMMA CallTypes == ASSUME TypeInv, [Next]_vars PROVE CallTypeOK'
<1> USE DEF TypeInv, TypeOK, CallTypeOK
<1>1. ASSUME NEW c \in Callers, NEW s \in Sessions, Start(c, s) PROVE CallTypeOK'
  <2>1. CASE SendMessage(c, s)
    <3>1. sends + 1 \in Turns
      BY <2>1, ExecEnvAssumption DEF SendMessage, Turns, TailTypeOK
    <3>2. turn' \in [Actors -> Turns \cup {0}]
      BY <2>1, <3>1 DEF SendMessage
    <3> QED BY <2>1, <3>2, BeginTypes DEF SendMessage, Ops, Places, Actors
  <2>2. ASSUME NEW o \in {"snapshot", "archive"}, Snapshot(c, s, o) PROVE CallTypeOK'
    <3>1. Begin(c, s, o, "await") /\ UNCHANGED localVars
      BY <2>2 DEF Snapshot
    <3>2. o \in Ops /\ "await" \in Places /\ c \in Actors
      BY <2>2 DEF Ops, Places, Actors
    <3>3. /\ pc' \in [Actors -> Places] /\ op' \in [Actors -> Ops]
          /\ sess' \in [Actors -> Sessions \cup {NoSession}]
      BY <3>1, <3>2, BeginTypes
    <3> QED BY <3>1, <3>3 DEF localVars
  <2>3. CASE MarkCreating(c, s) \/ Resume(c, s) \/ Destroy(c, s)
    BY <2>3, BeginTypes DEF MarkCreating, Resume, Destroy, Ops, Places, Actors, localVars
  <2> QED BY <1>1, <2>1, <2>2, <2>3 DEF Start
<1>2. ASSUME NEW s \in Sessions, SweepNext(s) PROVE CallTypeOK'
  BY <1>2, BeginTypes DEF SweepNext, Ops, Places, Actors, localVars, callVars
<1>3. ASSUME NEW c \in Actors, Return(c) \/ Fails(c) PROVE CallTypeOK'
  BY <1>3, ReturnTypes DEF Fails
<1>4. ASSUME NEW c \in Actors, NEW where \in Places, Goto(c, where) PROVE CallTypeOK'
  BY <1>4, GotoTypes
<1>5. ASSUME NEW c \in Actors, GiveUp(c) \/ Disconnect(c) \/ Resumed(c) \/ Persist(c)
                               \/ PostCreateSession(c) \/ Forget(c)
      PROVE  CallTypeOK'
  BY <1>3, <1>5 DEF GiveUp, Disconnect, Resumed, Persist, PostCreateSession, Forget
<1>6. ASSUME NEW c \in Actors, Await(c) \/ PullImage(c) \/ SetWorkerBinding(c) \/ Track(c)
                               \/ Rehydrate(c) \/ StreamEnds(c) \/ SetSnapshotHandle(c)
                               \/ DestroyInstance(c)
      PROVE  CallTypeOK'
  <2>1. Return(c) \/ Fails(c) \/ \E where \in Places : Goto(c, where)
    BY <1>6 DEF Await, PullImage, SetWorkerBinding, Track, Rehydrate, StreamEnds,
       SetSnapshotHandle, DestroyInstance, Placed, Places
  <2> QED BY <2>1, <1>3, <1>4
<1>7. ASSUME NEW c \in Actors, PlaceForSession(c) PROVE CallTypeOK'
  <2>1. \A w \in workers : w \in Workers
    BY DEF StoreTypeOK
  <2>2. Placed(c) \in Places /\ "bind" \in Places
    BY DEF Placed, Places
  <2> QED BY <1>3, <1>7, <2>1, <2>2, LocalTypes DEF PlaceForSession
<1>8. ASSUME NEW c \in Actors, Ready(c) PROVE CallTypeOK'
  <2>1. sess[c] \in Sessions /\ "have" \in Places /\ "restore" \in Places
    BY <1>8 DEF Ready, At, CallShape, Places
  <2>2. instances[sess[c]] # NoInst => instances[sess[c]] \in Ids
    BY <2>1 DEF MemTypeOK
  <2> QED BY <1>4, <1>8, <2>1, <2>2, LocalTypes DEF Ready
<1>9. ASSUME NEW c \in Actors, Restore(c) PROVE CallTypeOK'
  <2>1. sess[c] \in Sessions /\ "provision" \in Places
    BY <1>9 DEF Restore, At, CallShape, Places
  <2>2. snapshot[sess[c]] # NoImage => snapshot[sess[c]] \in SUBSET Turns
    BY <2>1 DEF StoreTypeOK
  <2> QED BY <1>3, <1>9, <2>1, <2>2, LocalTypes DEF Restore
<1>10. ASSUME NEW c \in Actors, Provision(c) PROVE CallTypeOK'
  BY <1>3, <1>10, LocalTypes DEF Provision, Existing, Places
<1>11. ASSUME NEW c \in Actors, Post(c) PROVE CallTypeOK'
  <2>1. seq + 1 \in Nat /\ "turn" \in Places
    BY DEF MemTypeOK, Places
  <2> QED BY <1>3, <1>11, <2>1, LocalTypes DEF Post
<1>12. ASSUME NEW c \in Actors, Commit(c) PROVE CallTypeOK'
  <2>1. inst[c] \in Ids /\ "store" \in Places
    BY <1>12 DEF Commit, At, CallShape, Places
  <2>2. files[inst[c]] \in SUBSET Turns
    BY <2>1 DEF EnvTypeOK
  <2> QED BY <1>3, <1>12, <2>1, <2>2, LocalTypes DEF Commit
<1>13. CASE Restart
  BY <1>13 DEF Restart, LoseMemory, Places, Ops
<1>14. CASE UNCHANGED callVars
  BY <1>14 DEF callVars, localVars
<1>15. ASSUME NEW s \in Sessions, GoesStale(s) \/ Stop(s) PROVE UNCHANGED callVars
  BY <1>15 DEF GoesStale, Stop
<1>16. ASSUME NEW i \in Ids, AgentWorks(i) \/ Dies(i) PROVE UNCHANGED callVars
  BY <1>16 DEF AgentWorks, Dies
<1>17. ASSUME NEW w \in Workers, Deregister(w) PROVE UNCHANGED callVars
  BY <1>17 DEF Deregister
<1>18. IdleSessions \/ UNCHANGED vars => UNCHANGED callVars
  BY DEF IdleSessions, vars
<1>19. ASSUME NEW c \in Actors, CallStep(c) PROVE CallTypeOK'
  BY <1>5, <1>6, <1>7, <1>8, <1>9, <1>10, <1>11, <1>12, <1>19 DEF CallStep
<1>20. Callers \subseteq Actors
  BY DEF Actors
<1> QED BY <1>1, <1>2, <1>5, <1>13, <1>14, <1>15, <1>16, <1>17, <1>18, <1>19, <1>20 DEF Next

LEMMA TailTypes == ASSUME TypeInv, [Next]_vars PROVE TailTypeOK'
<1> USE DEF TypeInv, TypeOK, TailTypeOK
<1>1. ASSUME NEW c \in Actors, Fails(c)
      PROVE  /\ life' \in [Sessions -> {"new", "creating", "created", "failed", "deleted"}]
             /\ UNCHANGED <<done, excused>>
  BY <1>1 DEF Fails
<1>2. ASSUME NEW c \in Actors,
             GiveUp(c) \/ PullImage(c) \/ PlaceForSession(c) \/ SetWorkerBinding(c)
             \/ Provision(c) \/ Commit(c)
      PROVE  TailTypeOK'
  <2>1. /\ Fails(c) \/ UNCHANGED <<life, done, excused>>
        /\ UNCHANGED <<crossed, unloaded, sends>>
    BY <1>2 DEF GiveUp, PullImage, PlaceForSession, SetWorkerBinding, Provision, Commit, Fault,
       pastVars, countVars
  <2> QED BY <2>1, <1>1
<1>3. ASSUME NEW c \in Actors, PostCreateSession(c) PROVE TailTypeOK'
  <2>1. UNCHANGED <<done, excused, crossed, unloaded, sends>>
    BY <1>1, <1>3 DEF PostCreateSession, Fault, pastVars, countVars
  <2>2. life' \in [Sessions -> {"new", "creating", "created", "failed", "deleted"}]
    BY <1>1, <1>3 DEF PostCreateSession
  <2> QED BY <2>1, <2>2
<1>4. ASSUME NEW c \in Actors, Persist(c) PROVE TailTypeOK'
  <2>1. sess[c] \in Sessions /\ inst[c] \in Ids
    BY <1>4 DEF Persist, At, CallShape, CallTypeOK
  <2>2. turn[c] \in files[inst[c]] => turn[c] \in Turns
    BY <2>1 DEF EnvTypeOK
  <2>3. done' \in [Sessions -> SUBSET Turns]
    BY <1>4, <2>1, <2>2 DEF Persist
  <2> QED BY <1>4, <2>3 DEF Persist, Fault, pastVars, countVars
<1>5. ASSUME NEW c \in Callers, NEW s \in Sessions, Start(c, s) PROVE TailTypeOK'
  <2>1. excused' \subseteq Sessions /\ crossed' \subseteq Sessions
    BY <1>5 DEF Start, MarkCreating, SendMessage, Resume, Snapshot, Destroy, Begin, Crosses
  <2> QED BY <1>5, <2>1, ExecEnvAssumption
             DEF Start, MarkCreating, SendMessage, Resume, Snapshot, Destroy, countVars
<1>6. ASSUME NEW i \in Ids, AgentWorks(i) \/ Dies(i) PROVE TailTypeOK'
  BY <1>6 DEF AgentWorks, Dies, EnvTypeOK, tailVars, pastVars, countVars
<1>7. ASSUME NEW w \in Workers, Deregister(w) PROVE TailTypeOK'
  <2>1. \A c \in Actors : worker[c] = w => sess[c] \in Sessions
    BY RunnerAssumption DEF CallShape, CallTypeOK
  <2>2. \A i \in Ids : owner[i] \in Sessions
    BY DEF EnvTypeOK
  <2> QED BY <1>7, <2>1, <2>2 DEF Deregister
<1>8. CASE Restart
  BY <1>8 DEF Restart, LoseMemory, Unfinished
<1>9. CASE UNCHANGED <<life, done, excused, crossed, unloaded, sends>>
  BY <1>9
<1>10. ASSUME NEW c \in Actors,
              Await(c) \/ Ready(c) \/ Restore(c) \/ Track(c) \/ Resumed(c)
              \/ Post(c) \/ StreamEnds(c) \/ SetSnapshotHandle(c) \/ DestroyInstance(c)
              \/ Forget(c) \/ Disconnect(c)
       PROVE  UNCHANGED <<life, done, excused, crossed, unloaded, sends>>
  BY <1>10 DEF Await, Ready, Restore, Track, Resumed, Post, StreamEnds,
     SetSnapshotHandle, DestroyInstance, Forget, Disconnect, Fault, tailVars, pastVars, countVars
<1>11. ASSUME NEW s \in Sessions, GoesStale(s) \/ Stop(s)
       PROVE  UNCHANGED <<life, done, excused, crossed, unloaded, sends>>
  BY <1>11 DEF GoesStale, Stop, tailVars, pastVars, countVars
<1>12. IdleSessions \/ UNCHANGED vars => UNCHANGED <<life, done, excused, crossed, unloaded, sends>>
  BY DEF IdleSessions, vars, tailVars, pastVars, countVars
<1>13. ASSUME NEW s \in Sessions, SweepNext(s) PROVE TailTypeOK'
  BY <1>13 DEF SweepNext, Begin, Crosses, countVars
<1>14. ASSUME NEW c \in Actors, Rehydrate(c) PROVE TailTypeOK'
  <2>1. sess[c] \in Sessions
    BY <1>14 DEF Rehydrate, At, CallShape, CallTypeOK
  <2> QED BY <1>14, <2>1 DEF Rehydrate, countVars
<1>15. ASSUME NEW c \in Actors, CallStep(c) PROVE TailTypeOK'
  BY <1>2, <1>3, <1>4, <1>9, <1>10, <1>14, <1>15 DEF CallStep
<1>16. Callers \subseteq Actors
  BY DEF Actors
<1> QED BY <1>2, <1>5, <1>6, <1>7, <1>8, <1>9, <1>10, <1>11, <1>12, <1>13, <1>15, <1>16 DEF Next

LEMMA Owners == ASSUME TypeInv, [Next]_vars PROVE \A s \in Sessions : Owner(s)'
<1> USE DEF TypeInv, TypeOK, EnvTypeOK, MemTypeOK, CallTypeOK, Owner
<1>1. ASSUME NEW c \in Actors, Ready(c) \/ Forget(c) PROVE \A s \in Sessions : Owner(s)'
  BY <1>1 DEF Ready, Forget, forget, envVars
<1>2. ASSUME NEW c \in Actors, Track(c) PROVE \A s \in Sessions : Owner(s)'
  BY <1>2 DEF Track, track, At, CallShape, envVars
<1>3. ASSUME NEW c \in Actors, Provision(c) PROVE \A s \in Sessions : Owner(s)'
  BY <1>3 DEF Provision, Boot, envVars
<1>4. ASSUME NEW c \in Actors, DestroyInstance(c) PROVE \A s \in Sessions : Owner(s)'
  BY <1>4 DEF DestroyInstance, EnvDestroy, EnvStop, envVars, memVars
<1>5. ASSUME NEW i \in Ids, Dies(i) PROVE \A s \in Sessions : Owner(s)'
  BY <1>5 DEF Dies, ContainerDies, memVars
<1>6. CASE Restart
  BY <1>6, RunnerAssumption DEF Restart, Reclaim, Survivors
<1>7. CASE UNCHANGED <<instances, instanceWorkers, owner, cstate>>
  BY <1>7
<1>8. ASSUME NEW c \in Actors, CallStep(c) PROVE \A s \in Sessions : Owner(s)'
  <2>1. \/ Ready(c) \/ Forget(c) \/ Track(c) \/ Provision(c) \/ DestroyInstance(c)
        \/ UNCHANGED <<instances, instanceWorkers, owner, cstate>>
    BY <1>8 DEF CallStep, PullImage, Await, PlaceForSession, SetWorkerBinding, Restore, Rehydrate,
       LoadConversation, PostCreateSession, Resumed, Post, StartTurn, StreamEnds, Persist, Commit,
       SetSnapshotHandle, envVars, memVars
  <2> QED BY <1>1, <1>2, <1>3, <1>4, <1>7, <2>1
<1>9. ASSUME NEW c \in Callers, NEW s \in Sessions, Start(c, s)
      PROVE  UNCHANGED <<instances, instanceWorkers, owner, cstate>>
  BY <1>9 DEF Start, MarkCreating, SendMessage, Resume, Snapshot, Destroy, envVars, memVars
<1>10. ASSUME NEW c \in Callers, GiveUp(c) \/ Disconnect(c)
       PROVE  UNCHANGED <<instances, instanceWorkers, owner, cstate>>
  BY <1>10 DEF GiveUp, Disconnect, envVars
<1>11. ASSUME NEW s \in Sessions, SweepNext(s) \/ GoesStale(s) \/ Stop(s)
       PROVE  UNCHANGED <<instances, instanceWorkers, owner, cstate>>
  BY <1>11 DEF SweepNext, GoesStale, Stop, StartTurn, envVars, memVars
<1>12. ASSUME NEW i \in Ids, AgentWorks(i)
       PROVE  UNCHANGED <<instances, instanceWorkers, owner, cstate>>
  BY <1>12 DEF AgentWorks, AgentEndsTurn, memVars
<1>13. ASSUME NEW w \in Workers, Deregister(w)
       PROVE  UNCHANGED <<instances, instanceWorkers, owner, cstate>>
  BY <1>13 DEF Deregister, envVars, memVars
<1>14. IdleSessions \/ UNCHANGED vars => UNCHANGED <<instances, instanceWorkers, owner, cstate>>
  BY DEF IdleSessions, vars, envVars, memVars
<1> QED BY <1>5, <1>6, <1>7, <1>8, <1>9, <1>10, <1>11, <1>12, <1>13, <1>14 DEF Next

----------------------------------------------------------------------------
(* Calls.                                                                  *)

\* The calls but c stay where they are, with what they have.
Elsewhere(c) ==
  \A d \in Actors : d # c =>
    /\ pc'[d] = pc[d] /\ op'[d] = op[d] /\ sess'[d] = sess[d]
    /\ worker'[d] = worker[d] /\ inst'[d] = inst[d] /\ image'[d] = image[d]

Returned(c) ==
  pc'[c] = "idle" /\ op'[c] = "none" /\ sess'[c] = NoSession /\ worker'[c] = NoWorker
    /\ inst'[c] = NoInst /\ image'[c] = {}

\* c goes on in the same call.
Moved(c, where) == pc'[c] = where /\ op'[c] = op[c] /\ sess'[c] = sess[c]

LEMMA Returning ==
  ASSUME TypeOK, NEW c \in Actors, Return(c) \/ Fails(c)
  PROVE  Elsewhere(c) /\ Returned(c)
BY DEF TypeOK, CallTypeOK, Return, Fails, Elsewhere, Returned

LEMMA Going ==
  ASSUME TypeOK, NEW c \in Actors, NEW where, Goto(c, where)
  PROVE  /\ Elsewhere(c) /\ Moved(c, where)
         /\ worker'[c] = worker[c] /\ inst'[c] = inst[c] /\ image'[c] = image[c]
BY DEF TypeOK, CallTypeOK, Goto, Elsewhere, Moved, localVars

LEMMA ShapeElsewhere ==
  ASSUME NEW c, Elsewhere(c), NEW d \in Actors, d # c, CallShape(d),
         inst[d] # NoInst => owner'[inst[d]] = owner[inst[d]] /\ cstate'[inst[d]] # "none"
  PROVE  CallShape(d)'
BY DEF CallShape, Elsewhere

\* A container that was booted stays what it is, at least as a memory of it.
ContainersKept ==
  \A i \in Ids : cstate[i] # "none" => owner'[i] = owner[i] /\ cstate'[i] # "none"

LEMMA ContainersStay == ASSUME TypeInv, [Next]_vars PROVE ContainersKept
<1> USE DEF TypeInv, TypeOK, EnvTypeOK
<1>1. ASSUME NEW c \in Actors, Provision(c) PROVE ContainersKept
  BY <1>1 DEF ContainersKept, Provision, Boot, envVars
<1>2. ASSUME NEW c \in Actors, DestroyInstance(c) PROVE ContainersKept
  BY <1>2 DEF ContainersKept, DestroyInstance, EnvDestroy, EnvStop, envVars
<1>3. ASSUME NEW i \in Ids, Dies(i) PROVE ContainersKept
  BY <1>3 DEF ContainersKept, Dies, ContainerDies
<1>4. CASE Restart
  BY <1>4 DEF ContainersKept, Restart, Reclaim
<1>5. CASE UNCHANGED <<owner, cstate>>
  BY <1>5 DEF ContainersKept
<1>6. ASSUME NEW c \in Actors, CallStep(c) PROVE ContainersKept
  <2>1. Provision(c) \/ DestroyInstance(c) \/ UNCHANGED <<owner, cstate>>
    BY <1>6 DEF CallStep, PullImage, Await, PlaceForSession, SetWorkerBinding, Ready, Restore,
       Track, Rehydrate, LoadConversation, PostCreateSession, Resumed, Post, StartTurn, StreamEnds,
       Persist, Commit, SetSnapshotHandle, Forget, envVars
  <2> QED BY <1>1, <1>2, <1>5, <2>1
<1>7. ASSUME NEW c \in Callers, NEW s \in Sessions, Start(c, s) PROVE UNCHANGED <<owner, cstate>>
  BY <1>7 DEF Start, MarkCreating, SendMessage, Resume, Snapshot, Destroy, envVars
<1>8. ASSUME NEW c \in Callers, GiveUp(c) \/ Disconnect(c) PROVE UNCHANGED <<owner, cstate>>
  BY <1>8 DEF GiveUp, Disconnect, envVars
<1>9. ASSUME NEW s \in Sessions, SweepNext(s) \/ GoesStale(s) \/ Stop(s)
      PROVE  UNCHANGED <<owner, cstate>>
  BY <1>9 DEF SweepNext, GoesStale, Stop, StartTurn, envVars
<1>10. ASSUME NEW i \in Ids, AgentWorks(i) PROVE UNCHANGED <<owner, cstate>>
  BY <1>10 DEF AgentWorks, AgentEndsTurn
<1>11. ASSUME NEW w \in Workers, Deregister(w) PROVE UNCHANGED <<owner, cstate>>
  BY <1>11 DEF Deregister, envVars
<1>12. IdleSessions \/ UNCHANGED vars => UNCHANGED <<owner, cstate>>
  BY DEF IdleSessions, vars, envVars
<1> QED BY <1>3, <1>4, <1>5, <1>6, <1>7, <1>8, <1>9, <1>10, <1>11, <1>12 DEF Next

\* A call that begins was idle, and crosses no other if none is said to cross.
Began(c, s, o, where) ==
  /\ pc[c] = "idle" /\ (s \notin crossed' => MayStart(s, o))
  /\ pc'[c] = where /\ op'[c] = o /\ sess'[c] = s
  /\ worker'[c] = worker[c] /\ inst'[c] = inst[c] /\ image'[c] = image[c]

LEMMA Beginning ==
  ASSUME TypeOK, NEW c \in Actors, NEW s, NEW o, NEW where, Begin(c, s, o, where),
         UNCHANGED <<worker, inst, image>>
  PROVE  Elsewhere(c) /\ Began(c, s, o, where)
BY DEF TypeOK, CallTypeOK, Begin, Crosses, At, Elsewhere, Began

LEMMA BeginShape ==
  ASSUME TypeInv, NEW c \in Actors, NEW s \in Sessions, NEW o, NEW where, Began(c, s, o, where),
         \/ o = "create" /\ where = "image"
         \/ o \in {"send", "resume", "snapshot", "archive"} /\ where = "await"
         \/ o = "destroy" /\ where = "destroy"
  PROVE  CallShape(c)'
BY RunnerAssumption DEF TypeInv, CallShape, Began

LEMMA StepShape ==
  ASSUME TypeInv, [Next]_vars, NEW c \in Actors, CallStep(c) \/ GiveUp(c) \/ Disconnect(c)
  PROVE  Elsewhere(c) /\ CallShape(c)'
<1> USE DEF TypeInv, At
<1>1. CASE Return(c) \/ Fails(c)
  BY <1>1, Returning DEF CallShape, Returned
<1>2. inst[c] # NoInst => inst[c] \in Ids
  BY DEF TypeOK, CallTypeOK
<1>3. ASSUME inst'[c] = inst[c] PROVE inst'[c] # NoInst => owner'[inst'[c]] = sess[c] /\ cstate'[inst'[c]] # "none"
  BY <1>2, <1>3, ContainersStay DEF CallShape, ContainersKept
<1>4. ASSUME NEW where, Goto(c, where)
      PROVE  /\ Elsewhere(c) /\ Moved(c, where) /\ worker'[c] = worker[c] /\ inst'[c] = inst[c]
             /\ image'[c] = image[c]
             /\ inst'[c] # NoInst => owner'[inst'[c]] = sess[c] /\ cstate'[inst'[c]] # "none"
  BY <1>3, <1>4, Going
<1>5. CASE GiveUp(c) \/ Disconnect(c) \/ Resumed(c) \/ Persist(c) \/ PostCreateSession(c) \/ Forget(c)
  BY <1>1, <1>5 DEF GiveUp, Disconnect, Resumed, Persist, PostCreateSession, Forget
<1>6. CASE Await(c) \/ PullImage(c) \/ SetWorkerBinding(c) \/ Track(c) \/ Rehydrate(c)
           \/ StreamEnds(c) \/ SetSnapshotHandle(c) \/ DestroyInstance(c)
  <2>1. CASE Await(c)
    BY <2>1, <1>4 DEF Await, CallShape, Moved
  <2>2. CASE PullImage(c)
    BY <2>2, <1>1, <1>4 DEF PullImage, CallShape, Moved
  <2>3. CASE SetWorkerBinding(c)
    BY <2>3, <1>1, <1>4 DEF SetWorkerBinding, CallShape, Moved, Placed
  <2>4. CASE Track(c)
    BY <2>4, <1>4 DEF Track, CallShape, Moved
  <2>5. CASE Rehydrate(c)
    BY <2>5, <1>4 DEF Rehydrate, CallShape, Moved
  <2>6. CASE StreamEnds(c)
    BY <2>6, <1>4 DEF StreamEnds, CallShape, Moved
  <2>7. CASE SetSnapshotHandle(c)
    BY <2>7, <1>1, <1>4 DEF SetSnapshotHandle, CallShape, Moved
  <2>8. CASE DestroyInstance(c)
    BY <2>8, <1>1, <1>4 DEF DestroyInstance, CallShape, Moved
  <2> QED BY <1>6, <2>1, <2>2, <2>3, <2>4, <2>5, <2>6, <2>7, <2>8
<1>7. CASE PlaceForSession(c)
  <2>1. CASE Fails(c)
    BY <2>1, <1>1
  <2>2. ASSUME NEW w \in Workers, NEW where \in {"bind", Placed(c)},
               worker' = [worker EXCEPT ![c] = w], pc' = [pc EXCEPT ![c] = where],
               UNCHANGED <<op, sess, inst, image>>
        PROVE  Elsewhere(c) /\ CallShape(c)'
    BY <2>2, <1>3, <1>7, RunnerAssumption
       DEF PlaceForSession, Elsewhere, CallShape, Placed, TypeOK, CallTypeOK
  <2>3. \A w \in workers : w \in Workers
    BY DEF TypeOK, StoreTypeOK
  <2> QED BY <1>7, <2>1, <2>2, <2>3 DEF PlaceForSession
<1>8. CASE Ready(c)
  <2>1. ASSUME Goto(c, "restore") PROVE CallShape(c)'
    BY <1>4, <1>8, <2>1 DEF Ready, CallShape, Moved
  <2>2. ASSUME instances[sess[c]] # NoInst, inst' = [inst EXCEPT ![c] = instances[sess[c]]],
               pc' = [pc EXCEPT ![c] = "have"], UNCHANGED <<op, sess, worker, image>>,
               UNCHANGED envVars
        PROVE  Elsewhere(c) /\ CallShape(c)'
    BY <2>2, <1>8 DEF Ready, Elsewhere, CallShape, Owner, TypeOK, CallTypeOK, envVars
  <2> QED BY <1>4, <1>8, <2>1, <2>2 DEF Ready
<1>9. CASE Restore(c)
  <2>1. ASSUME NEW m, image' = [image EXCEPT ![c] = m], pc' = [pc EXCEPT ![c] = "provision"],
               UNCHANGED <<op, sess, worker, inst>>
        PROVE  Elsewhere(c) /\ CallShape(c)'
    BY <2>1, <1>3, <1>9 DEF Restore, Elsewhere, CallShape, TypeOK, CallTypeOK
  <2> QED BY <1>1, <1>9, <2>1 DEF Restore
<1>10. CASE Provision(c)
  <2>1. ASSUME NEW i \in Ids, inst' = [inst EXCEPT ![c] = i], pc' = [pc EXCEPT ![c] = "track"],
               UNCHANGED <<op, sess, worker, image>>,
               owner'[i] = sess[c], cstate'[i] # "none"
        PROVE  Elsewhere(c) /\ CallShape(c)'
    BY <2>1, <1>10, RunnerAssumption DEF Provision, Elsewhere, CallShape, TypeOK, CallTypeOK
  <2>2. ASSUME NEW i \in Ids, Boot(i, worker[c], sess[c], image[c])
        PROVE  owner'[i] = sess[c] /\ cstate'[i] # "none"
    BY <2>2 DEF Boot, TypeOK, EnvTypeOK
  <2>3. \A i \in Existing(worker[c], sess[c]) :
          UNCHANGED envVars => i \in Ids /\ owner'[i] = sess[c] /\ cstate'[i] # "none"
    BY DEF Existing, Present, envVars
  <2> QED BY <1>1, <1>10, <2>1, <2>2, <2>3 DEF Provision
<1>11. CASE Post(c)
  <2>1. ASSUME UNCHANGED <<op, sess, worker, inst, image>>, pc' = [pc EXCEPT ![c] = "turn"]
        PROVE  Elsewhere(c) /\ CallShape(c)'
    BY <2>1, <1>3, <1>11 DEF Post, Elsewhere, CallShape, TypeOK, CallTypeOK
  <2> QED BY <1>1, <1>11, <2>1 DEF Post
<1>12. CASE Commit(c)
  <2>1. ASSUME NEW m, image' = [image EXCEPT ![c] = m], pc' = [pc EXCEPT ![c] = "store"],
               UNCHANGED <<op, sess, worker, inst>>
        PROVE  Elsewhere(c) /\ CallShape(c)'
    BY <2>1, <1>3, <1>12 DEF Commit, Elsewhere, CallShape, TypeOK, CallTypeOK
  <2> QED BY <1>1, <1>12, <2>1 DEF Commit
<1> QED BY <1>5, <1>6, <1>7, <1>8, <1>9, <1>10, <1>11, <1>12 DEF CallStep

\* Every step is of one call, of none, or a restart.
LEMMA ShapesKept == ASSUME TypeInv, [Next]_vars PROVE \A c \in Actors : CallShape(c)'
<1>1. \A c \in Actors : CallShape(c)
  BY DEF TypeInv
<1>2. \A c \in Actors : inst[c] # NoInst => owner'[inst[c]] = owner[inst[c]] /\ cstate'[inst[c]] # "none"
  BY <1>1, ContainersStay DEF ContainersKept, CallShape, TypeInv, TypeOK, CallTypeOK
<1>3. ASSUME NEW c, Elsewhere(c), CallShape(c)' PROVE \A d \in Actors : CallShape(d)'
  BY <1>1, <1>2, <1>3, ShapeElsewhere
<1>4. ASSUME NEW c \in Callers, NEW s \in Sessions, Start(c, s) PROVE \A d \in Actors : CallShape(d)'
  <2>1. c \in Actors /\ TypeOK
    BY DEF Actors, TypeInv
  <2>2. \E o, where :
          /\ Begin(c, s, o, where) /\ UNCHANGED <<worker, inst, image>>
          /\ \/ o = "create" /\ where = "image"
             \/ o \in {"send", "resume", "snapshot", "archive"} /\ where = "await"
             \/ o = "destroy" /\ where = "destroy"
    BY <1>4 DEF Start, MarkCreating, SendMessage, Resume, Destroy, Snapshot, localVars
  <2> QED BY <1>3, <2>1, <2>2, Beginning, BeginShape
<1>5. ASSUME NEW s \in Sessions, SweepNext(s) PROVE \A d \in Actors : CallShape(d)'
  <2>1. Loop \in Actors /\ TypeOK
    BY DEF Actors, TypeInv
  <2>2. CASE Begin(Loop, s, "archive", "await") /\ UNCHANGED localVars
    BY <1>3, <2>1, <2>2, Beginning, BeginShape DEF localVars
  <2>3. CASE UNCHANGED callVars
    BY <1>1, <1>2, <2>3 DEF callVars, localVars, CallShape
  <2> QED BY <1>5, <2>2, <2>3 DEF SweepNext
<1>6. ASSUME NEW c \in Actors, CallStep(c) \/ GiveUp(c) \/ Disconnect(c)
      PROVE  \A d \in Actors : CallShape(d)'
  BY <1>3, <1>6, StepShape
<1>7. CASE Restart
  BY <1>7 DEF Restart, LoseMemory, CallShape
<1>8. CASE UNCHANGED callVars
  BY <1>1, <1>2, <1>8 DEF callVars, localVars, CallShape
<1>9. ASSUME NEW s \in Sessions, GoesStale(s) \/ Stop(s) PROVE UNCHANGED callVars
  BY <1>9 DEF GoesStale, Stop
<1>10. ASSUME NEW i \in Ids, AgentWorks(i) \/ Dies(i) PROVE UNCHANGED callVars
  BY <1>10 DEF AgentWorks, Dies
<1>11. ASSUME NEW w \in Workers, Deregister(w) PROVE UNCHANGED callVars
  BY <1>11 DEF Deregister
<1>12. IdleSessions \/ UNCHANGED vars => UNCHANGED callVars
  BY DEF IdleSessions, vars
<1>13. Callers \subseteq Actors
  BY DEF Actors
<1> QED BY <1>4, <1>5, <1>6, <1>7, <1>8, <1>9, <1>10, <1>11, <1>12, <1>13 DEF Next

LEMMA TypeStarts == ASSUME Init PROVE TypeInv
<1> USE RunnerAssumption, ExecEnvAssumption DEF Init
<1>1. EnvTypeOK
  <2>1. (CHOOSE w \in Workers : TRUE) \in Workers /\ (CHOOSE s \in Sessions : TRUE) \in Sessions
    BY ExecEnvAssumption
  <2> QED BY <2>1 DEF EnvInit, EnvTypeOK
<1>2. MemTypeOK /\ StoreTypeOK
  BY DEF MemTypeOK, StoreTypeOK
<1>3. CallTypeOK /\ TailTypeOK
  BY DEF CallTypeOK, TailTypeOK, Places, Ops
<1>4. \A c \in Actors : CallShape(c)
  BY DEF CallShape
<1>5. \A s \in Sessions : Owner(s)
  BY DEF Owner
<1> QED BY <1>1, <1>2, <1>3, <1>4, <1>5 DEF TypeInv, TypeOK

LEMMA TypesKept == ASSUME TypeInv, [Next]_vars PROVE TypeInv'
BY EnvTypes, MemTypes, StoreTypes, CallTypes, TailTypes, ShapesKept, Owners DEF TypeInv, TypeOK

(***************************************************************************)
(* Every variable of the Runner, its store and its environments has its    *)
(* type, whatever calls overlap.                                           *)
(***************************************************************************)
THEOREM TypeCorrect == Spec => []TypeOK
<1>1. TypeInv => TypeOK
  BY DEF TypeInv
<1> QED BY <1>1, TypeStarts, TypesKept, PTL DEF Spec

----------------------------------------------------------------------------
(* Calls for one session follow one another, until they cross.             *)

\* The calls that crossed stay crossed, and are excused.
LEMMA CrossedStay ==
  ASSUME TypeInv, [Next]_vars
  PROVE  /\ crossed \subseteq crossed' /\ excused \subseteq excused'
         /\ crossed' \subseteq crossed \cup excused'
<1> DEFINE Kept == /\ crossed \subseteq crossed' /\ excused \subseteq excused'
                   /\ crossed' \subseteq crossed \cup excused'
<1>1. ASSUME NEW c, NEW s, NEW o, NEW where, Begin(c, s, o, where) PROVE Kept
  BY <1>1 DEF Begin, Crosses
<1>2. ASSUME NEW c \in Actors, Fails(c) \/ Fault PROVE UNCHANGED excused \/ UNCHANGED crossed
  BY <1>2 DEF Fails, Fault, pastVars
<1>3. ASSUME NEW c \in Actors, CallStep(c) \/ GiveUp(c) \/ Disconnect(c)
      PROVE  UNCHANGED <<excused, crossed>>
  BY <1>3 DEF CallStep, GiveUp, Disconnect, PullImage, Await, PlaceForSession, SetWorkerBinding,
     Ready, Restore, Provision, Track, Rehydrate, PostCreateSession, Resumed, Post, StreamEnds,
     Persist, Commit, SetSnapshotHandle, DestroyInstance, Forget, Fails, Fault, tailVars, pastVars
<1>4. ASSUME NEW c \in Callers, NEW s \in Sessions, Start(c, s) PROVE Kept
  <2>1. \E o, where : Begin(c, s, o, where)
    BY <1>4 DEF Start, MarkCreating, SendMessage, Resume, Snapshot, Destroy
  <2> QED BY <1>1, <2>1
<1>5. ASSUME NEW s \in Sessions, SweepNext(s) PROVE Kept
  BY <1>1, <1>5 DEF SweepNext
<1>6. ASSUME NEW s \in Sessions, GoesStale(s) \/ Stop(s) PROVE UNCHANGED <<excused, crossed>>
  BY <1>6 DEF GoesStale, Stop, tailVars, pastVars
<1>7. ASSUME NEW i \in Ids, AgentWorks(i) \/ Dies(i) PROVE Kept
  BY <1>7 DEF AgentWorks, Dies, tailVars, pastVars
<1>8. ASSUME NEW w \in Workers, Deregister(w) PROVE Kept
  BY <1>8 DEF Deregister
<1>9. Restart \/ IdleSessions \/ UNCHANGED vars => UNCHANGED <<excused, crossed>>
  BY DEF Restart, IdleSessions, vars, tailVars, pastVars
<1>10. Callers \subseteq Actors
  BY DEF Actors
<1>11. UNCHANGED <<excused, crossed>> => Kept
  OBVIOUS
<1> HIDE DEF Kept
<1>12. Kept
  BY <1>3, <1>4, <1>5, <1>6, <1>7, <1>8, <1>9, <1>10, <1>11 DEF Next
<1> QED BY <1>12 DEF Kept

\* A step of a call ends it, or is one of the same call.
LEMMA StepMoves ==
  ASSUME TypeOK, NEW c \in Actors, CallStep(c) \/ GiveUp(c) \/ Disconnect(c)
  PROVE  Returned(c) \/ (op'[c] = op[c] /\ sess'[c] = sess[c])
<1>1. CASE Return(c) \/ Fails(c)
  BY <1>1, Returning
<1>2. ASSUME NEW where, Goto(c, where) PROVE op'[c] = op[c] /\ sess'[c] = sess[c]
  BY <1>2 DEF Goto
<1>3. Return(c) \/ Fails(c) \/ (\E where : Goto(c, where)) \/ UNCHANGED <<op, sess>>
  BY DEF CallStep, GiveUp, Disconnect, PullImage, Await, PlaceForSession, SetWorkerBinding, Ready,
     Restore, Provision, Track, Rehydrate, PostCreateSession, Resumed, Post, StreamEnds, Persist,
     Commit, SetSnapshotHandle, DestroyInstance, Forget
<1> QED BY <1>1, <1>2, <1>3

\* The calls that begin, and the one the archive loop begins.
LEMMA StartMoves ==
  ASSUME TypeInv, NEW c \in Callers, NEW s \in Sessions, Start(c, s)
  PROVE  /\ c \in Actors /\ Elsewhere(c)
         /\ \E o, where : Began(c, s, o, where)
<1>1. c \in Actors /\ TypeOK
  BY DEF Actors, TypeInv
<1>2. \E o, where : Begin(c, s, o, where) /\ UNCHANGED <<worker, inst, image>>
  BY DEF Start, MarkCreating, SendMessage, Resume, Destroy, Snapshot, localVars
<1> QED BY <1>1, <1>2, Beginning

LEMMA SweepMoves ==
  ASSUME TypeInv, NEW s \in Sessions, SweepNext(s)
  PROVE  /\ Loop \in Actors
         /\ \/ Elsewhere(Loop) /\ Began(Loop, s, "archive", "await")
            \/ UNCHANGED callVars
BY Beginning DEF SweepNext, TypeInv, Actors, localVars

LEMMA SerialKept ==
  ASSUME Inv, [Next]_vars
  PROVE  \A c, d \in Actors : Serial(c, d)'
<1> USE DEF Inv, TypeInv
<1>a. \A s : s \notin crossed' => s \notin crossed
  BY CrossedStay
<1>1. ASSUME NEW c \in Actors, NEW s \in Sessions, NEW o, NEW where,
             Elsewhere(c), Began(c, s, o, where)
      PROVE  \A d, e \in Actors : Serial(d, e)'
  <2>1. \A d \in Actors : d # c /\ sess[d] = s /\ s \notin crossed' =>
          pc[d] # "idle" /\ op[d] = "create" /\ o \in {"send", "resume"}
    BY <1>1, RunnerAssumption DEF Began, MayStart, Busy, CallShape
  <2> QED BY <1>1, <1>a, <2>1 DEF Elsewhere, Began, Serial
<1>2. ASSUME NEW c \in Actors, CallStep(c) \/ GiveUp(c) \/ Disconnect(c)
      PROVE  \A d, e \in Actors : Serial(d, e)'
  <2>1. Elsewhere(c) /\ CallShape(c)' /\ (Returned(c) \/ (op'[c] = op[c] /\ sess'[c] = sess[c]))
    BY <1>2, StepMoves, StepShape
  <2>2. \A d \in Actors : pc'[d] # "idle" =>
          pc[d] # "idle" /\ op'[d] = op[d] /\ sess'[d] = sess[d]
    BY <2>1 DEF Elsewhere, Returned, CallShape
  <2>3. \A d \in Actors : pc'[d] = "idle" => sess'[d] = NoSession
    BY <2>1 DEF Elsewhere, Returned, CallShape
  <2>4. \A d \in Actors : pc[d] # "idle" => sess[d] # NoSession
    BY DEF CallShape
  <2> QED BY <1>a, <2>2, <2>3, <2>4 DEF Serial
<1>3. CASE UNCHANGED callVars
  BY <1>3, <1>a DEF callVars, Serial
<1>4. CASE Restart
  BY <1>4 DEF Restart, LoseMemory, Serial
<1>5. ASSUME NEW s \in Sessions, GoesStale(s) \/ Stop(s) PROVE UNCHANGED callVars
  BY <1>5 DEF GoesStale, Stop
<1>6. ASSUME NEW i \in Ids, AgentWorks(i) \/ Dies(i) PROVE UNCHANGED callVars
  BY <1>6 DEF AgentWorks, Dies
<1>7. ASSUME NEW w \in Workers, Deregister(w) PROVE UNCHANGED callVars
  BY <1>7 DEF Deregister
<1>8. IdleSessions \/ UNCHANGED vars => UNCHANGED callVars
  BY DEF IdleSessions, vars
<1>9. ASSUME NEW s \in Sessions, SweepNext(s) PROVE \A d, e \in Actors : Serial(d, e)'
  BY <1>1, <1>3, <1>9, SweepMoves
<1>10. ASSUME NEW c \in Callers, NEW s \in Sessions, Start(c, s)
       PROVE  \A d, e \in Actors : Serial(d, e)'
  BY <1>1, <1>10, StartMoves
<1>11. Callers \subseteq Actors
  BY DEF Actors
<1> QED BY <1>2, <1>3, <1>4, <1>5, <1>6, <1>7, <1>8, <1>9, <1>10, <1>11 DEF Next

----------------------------------------------------------------------------
(* The lives of sessions.                                                  *)

\* A create that has not ended yet is the only call that can change its life,
\* and a session has no snapshot before it is created.
LEMMA CreateAlone ==
  ASSUME Inv, NEW c \in Actors, op[c] \notin {"none", "create", "send", "resume"},
         sess[c] \notin crossed
  PROVE  life[sess[c]] \notin {"new", "creating"}
<1>1. pc[c] # "idle" /\ sess[c] \in Sessions
  BY DEF Inv, TypeInv, CallShape, TypeOK, CallTypeOK
<1>2. life[sess[c]] # "new"
  BY <1>1 DEF Inv, CallLife
<1>3. ASSUME NEW d \in Actors, op[d] = "create", sess[d] = sess[c] PROVE FALSE
  BY <1>1, <1>3 DEF Inv, Serial
<1> QED BY <1>1, <1>2, <1>3 DEF Inv, Life

\* Two calls have created one session only if they are the same.
LEMMA OneCreate ==
  ASSUME Inv, NEW c \in Actors, NEW d \in Actors, op[c] = "create", op[d] = "create",
         sess[c] = sess[d], sess[c] \notin crossed
  PROVE  c = d
BY DEF Inv, TypeInv, CallShape, Serial

\* Nothing is there of a session that was never created.
LEMMA NewUntouched ==
  ASSUME Inv, [Next]_vars, NEW s \in Sessions, life[s] = "new"
  PROVE  instances'[s] = NoInst /\ Running(s)' = {}
<1> USE DEF Inv, TypeInv, TypeOK, EnvTypeOK, MemTypeOK, CallTypeOK
<1>1. instances[s] = NoInst /\ Running(s) = {}
  BY DEF Life
<1>2. ASSUME NEW c \in Actors, pc[c] # "idle" PROVE sess[c] # s
  BY <1>2 DEF CallLife
<1>3. CASE UNCHANGED <<instances, cstate, owner>>
  BY <1>1, <1>3 DEF Running, Present
<1>4. ASSUME NEW c \in Actors, Ready(c) \/ Track(c) \/ Forget(c)
      PROVE  instances'[s] = NoInst /\ UNCHANGED <<cstate, owner>>
  BY <1>1, <1>2, <1>4 DEF Ready, Track, Forget, forget, track, At, envVars
<1>5. ASSUME NEW c \in Actors, Provision(c)
      PROVE  UNCHANGED instances /\ Running(s)' = {}
  BY <1>1, <1>2, <1>5 DEF Provision, Boot, Running, Present, At, envVars
<1>6. ASSUME NEW c \in Actors, DestroyInstance(c)
      PROVE  UNCHANGED instances /\ Running(s)' = {}
  BY <1>1, <1>6 DEF DestroyInstance, EnvDestroy, EnvStop, Running, Present, envVars, memVars
<1>7. ASSUME NEW i \in Ids, Dies(i)
      PROVE  UNCHANGED instances /\ Running(s)' = {}
  BY <1>1, <1>7 DEF Dies, ContainerDies, Running, Present, memVars
<1>8. CASE Restart
  <2>1. Running(s)' = {}
    BY <1>1, <1>8 DEF Restart, Reclaim, Running, Present
  <2>2. Survivors(s) = {}
    BY <1>1 DEF Survivors, Running, Present
  <2> QED BY <1>8, <2>1, <2>2 DEF Restart
<1>9. ASSUME NEW c \in Actors, CallStep(c) PROVE instances'[s] = NoInst /\ Running(s)' = {}
  <2>1. \/ Ready(c) \/ Track(c) \/ Forget(c) \/ Provision(c) \/ DestroyInstance(c)
        \/ UNCHANGED <<instances, cstate, owner>>
    BY <1>9 DEF CallStep, PullImage, Await, PlaceForSession, SetWorkerBinding, Restore, Rehydrate,
       LoadConversation, PostCreateSession, Resumed, Post, StartTurn, StreamEnds, Persist, Commit,
       SetSnapshotHandle, envVars, memVars
  <2> QED BY <1>1, <1>3, <1>4, <1>5, <1>6, <2>1 DEF Running, Present
<1>10. ASSUME NEW c \in Callers, NEW t \in Sessions, Start(c, t)
       PROVE  UNCHANGED <<instances, cstate, owner>>
  BY <1>10 DEF Start, MarkCreating, SendMessage, Resume, Snapshot, Destroy, envVars, memVars
<1>11. ASSUME NEW c \in Callers, GiveUp(c) \/ Disconnect(c)
       PROVE  UNCHANGED <<instances, cstate, owner>>
  BY <1>11 DEF GiveUp, Disconnect, envVars
<1>12. ASSUME NEW t \in Sessions, SweepNext(t) \/ GoesStale(t) \/ Stop(t)
       PROVE  UNCHANGED <<instances, cstate, owner>>
  BY <1>12 DEF SweepNext, GoesStale, Stop, StartTurn, envVars, memVars
<1>13. ASSUME NEW i \in Ids, AgentWorks(i) PROVE UNCHANGED <<instances, cstate, owner>>
  BY <1>13 DEF AgentWorks, AgentEndsTurn, memVars
<1>14. ASSUME NEW w \in Workers, Deregister(w) PROVE UNCHANGED <<instances, cstate, owner>>
  BY <1>14 DEF Deregister, envVars, memVars
<1>15. IdleSessions \/ UNCHANGED vars => UNCHANGED <<instances, cstate, owner>>
  BY DEF IdleSessions, vars, envVars, memVars
<1>16. UNCHANGED instances => instances'[s] = NoInst
  BY <1>1
<1> QED BY <1>3, <1>7, <1>8, <1>9, <1>10, <1>11, <1>12, <1>13, <1>14, <1>15, <1>16 DEF Next

\* What becomes of the calls and the sessions they have brought to life.
Lives ==
  /\ \A c \in Actors : CallLife(c)'
  /\ \A s \in Sessions :
       /\ s \notin crossed' =>
            /\ life'[s] = "creating" => \E c \in Actors : op'[c] = "create" /\ sess'[c] = s
            /\ life'[s] \in {"new", "creating"} => snapshot'[s] = NoImage
       /\ life'[s] = "new" => life[s] = "new"

LEMMA LivesKept ==
  ASSUME Inv, [Next]_vars
  PROVE  (\A c \in Actors : CallLife(c)') /\ (\A s \in Sessions : Life(s)')
<1> USE DEF Inv, TypeInv
<1>a. \A s : s \notin crossed' => s \notin crossed
  BY CrossedStay
<1>1. ASSUME NEW c \in Actors, Fails(c) \/ (Return(c) /\ op[c] # "create" /\ UNCHANGED life),
             UNCHANGED snapshot
      PROVE  Lives
  BY <1>1, <1>a, Returning, OneCreate
     DEF Elsewhere, Returned, Fails, Lives, CallLife, Life, CallShape, TypeOK, CallTypeOK, TailTypeOK
<1>2. ASSUME UNCHANGED <<op, sess, life, snapshot>> PROVE Lives
  BY <1>2, <1>a, ShapesKept DEF Lives, CallLife, Life, CallShape
<1>3. ASSUME NEW c \in Actors, CallStep(c) \/ GiveUp(c) \/ Disconnect(c),
             ~SetSnapshotHandle(c), ~PostCreateSession(c)
      PROVE  Lives
  <2>1. /\ UNCHANGED snapshot
        /\ \/ Fails(c) \/ (Return(c) /\ op[c] # "create" /\ UNCHANGED life)
           \/ UNCHANGED <<op, sess, life>>
    BY <1>3 DEF CallStep, GiveUp, Disconnect, PullImage, Await, PlaceForSession, SetWorkerBinding,
       Ready, Restore, Provision, Track, Rehydrate, Resumed, Post, StreamEnds, Persist, Commit,
       DestroyInstance, Forget, Goto, At, CallShape, storeVars, tailVars
  <2> QED BY <2>1, <1>1, <1>2
<1>4. ASSUME NEW c \in Actors, PostCreateSession(c) PROVE Lives
  <2>1. CASE Fails(c)
    BY <1>1, <1>4, <2>1 DEF PostCreateSession, storeVars
  <2>2. CASE Return(c) /\ op[c] = "create"
             /\ life' = [life EXCEPT ![sess[c]] = IF @ = "deleted" THEN @ ELSE "created"]
    BY <1>4, <1>a, <2>2, Returning, OneCreate
       DEF PostCreateSession, storeVars, Elsewhere, Returned, Lives, CallLife, Life, CallShape, TypeOK,
           CallTypeOK, TailTypeOK
  <2> QED BY <1>4, <2>1, <2>2 DEF PostCreateSession, At, CallShape
<1>5. ASSUME NEW c \in Actors, SetSnapshotHandle(c) PROVE Lives
  <2>1. op[c] \in {"snapshot", "archive"} /\ UNCHANGED life
    BY <1>5 DEF SetSnapshotHandle, At, CallShape
  <2>2. UNCHANGED snapshot \/ snapshot' = [snapshot EXCEPT ![sess[c]] = image[c]]
    BY <1>5 DEF SetSnapshotHandle
  <2>3. \A s \in Sessions :
          s \notin crossed' /\ life[s] \in {"new", "creating"} => snapshot'[s] = NoImage
    BY <1>a, <2>1, <2>2, CreateAlone DEF Life, TypeOK, StoreTypeOK
  <2>4. CASE Return(c)
    BY <1>a, <2>1, <2>3, <2>4, Returning DEF Elsewhere, Returned, Lives, CallLife, Life, CallShape
  <2>5. CASE UNCHANGED <<op, sess>>
    BY <1>a, <2>1, <2>3, <2>5, ShapesKept DEF Lives, CallLife, Life, CallShape
  <2> QED BY <1>5, <2>4, <2>5 DEF SetSnapshotHandle, Goto
<1>6. ASSUME NEW c \in Callers, NEW s \in Sessions, Start(c, s) PROVE Lives
  <2>1. c \in Actors /\ Elsewhere(c) /\ \E o, where : Began(c, s, o, where)
    BY <1>6, StartMoves
  <2>2. CASE MarkCreating(c, s)
    <3>1. op'[c] = "create" /\ sess'[c] = s /\ life' = [life EXCEPT ![s] = "creating"]
          /\ life[s] = "new" /\ UNCHANGED snapshot
      BY <2>1, <2>2 DEF MarkCreating, Begin, TypeOK, CallTypeOK, storeVars
    <3>2. \A d \in Actors : sess[d] # s
      BY <3>1, RunnerAssumption DEF CallLife, CallShape
    <3>3. life'[s] = "creating" /\ \A t \in Sessions : t # s => life'[t] = life[t]
      BY <3>1 DEF TypeOK, TailTypeOK
    <3>4. \A d \in Actors : CallLife(d)'
      <4>1. CallLife(c)'
        BY <3>1, <3>3 DEF CallLife
      <4>2. ASSUME NEW d \in Actors, d # c PROVE CallLife(d)'
        BY <1>a, <2>1, <3>2, <3>3, <4>2 DEF Elsewhere, CallLife, CallShape, TypeOK, CallTypeOK
      <4> QED BY <4>1, <4>2
    <3>5. \A t \in Sessions : t # s /\ life[t] = "creating" /\ t \notin crossed' =>
            \E d \in Actors : op'[d] = "create" /\ sess'[d] = t
      BY <1>a, <2>1, <2>2 DEF Elsewhere, Life, MarkCreating, Begin, At, CallShape
    <3> QED BY <1>a, <2>1, <3>1, <3>3, <3>4, <3>5 DEF Lives, Life
  <2>3. CASE Destroy(c, s)
    <3>1. op'[c] = "destroy" /\ sess'[c] = s /\ life' = [life EXCEPT ![s] = "deleted"]
          /\ life[s] # "new" /\ UNCHANGED snapshot /\ op[c] = "none"
      BY <2>1, <2>3 DEF Destroy, Begin, Known, At, CallShape, TypeOK, CallTypeOK, storeVars
    <3>2. s \notin crossed' => \A d \in Actors : sess[d] # s
      BY <2>3, RunnerAssumption DEF Destroy, Begin, Crosses, MayStart, Busy, CallShape
    <3> QED BY <1>a, <2>1, <3>1, <3>2
            DEF Elsewhere, Lives, CallLife, Life, CallShape, TypeOK, CallTypeOK, TailTypeOK
  <2>4. CASE SendMessage(c, s) \/ Resume(c, s) \/ \E o \in {"snapshot", "archive"} : Snapshot(c, s, o)
    <3>1. op'[c] \notin {"create", "destroy"} /\ sess'[c] = s /\ UNCHANGED <<life, snapshot>>
          /\ life[s] # "new" /\ op[c] = "none"
      BY <2>1, <2>4 DEF SendMessage, Resume, Snapshot, Begin, Known, At, CallShape, TypeOK,
         CallTypeOK, storeVars, tailVars
    <3> QED BY <1>a, <2>1, <3>1
            DEF Elsewhere, Lives, CallLife, Life, CallShape, TypeOK, CallTypeOK, TailTypeOK
  <2> QED BY <1>6, <2>2, <2>3, <2>4 DEF Start
<1>7. ASSUME NEW s \in Sessions, SweepNext(s) PROVE Lives
  <2>1. CASE UNCHANGED callVars
    BY <1>2, <1>7, <2>1 DEF SweepNext, callVars, storeVars, tailVars
  <2>2. CASE Elsewhere(Loop) /\ Began(Loop, s, "archive", "await")
    <3>1. Loop \in Actors /\ UNCHANGED <<life, snapshot>> /\ op[Loop] = "none"
      BY <1>7, <2>2 DEF SweepNext, Actors, Began, CallShape, storeVars, tailVars
    <3>2. life[s] # "new"
      <4>1. instanceWorkers[s] # NoWorker
        BY <1>7, <2>2, RunnerAssumption
        DEF SweepNext, Began, Begin, TypeOK, StoreTypeOK, CallTypeOK, callVars, Actors, At
      <4> QED BY <4>1 DEF Life, Owner
    <3> QED BY <1>a, <2>2, <3>1, <3>2 DEF Elsewhere, Began, Lives, CallLife, Life, CallShape
  <2> QED BY <1>7, <2>1, <2>2, SweepMoves
<1>8. ASSUME Restart PROVE Lives
  <2>1. UNCHANGED snapshot /\ \A c \in Actors : pc'[c] = "idle" /\ op'[c] = "none"
    BY <1>8 DEF Restart, LoseMemory
  <2>2. \A s \in Sessions : life'[s] = IF life[s] = "creating" THEN "failed" ELSE life[s]
    BY <1>8 DEF Restart, LoseMemory
  <2>3. \A c \in Actors : CallLife(c)'
    BY <2>1 DEF CallLife
  <2>4. \A s \in Sessions : s \notin crossed' /\ life[s] = "new" => snapshot[s] = NoImage
    BY <1>a DEF Life
  <2>5. \A s \in Sessions : life'[s] # "creating" /\ (life'[s] = "new" => life[s] = "new")
    BY <2>2
  <2>6. \A s \in Sessions : s \notin crossed' /\ life'[s] = "new" => snapshot'[s] = NoImage
    BY <2>1, <2>4, <2>5
  <2> QED BY <2>3, <2>5, <2>6, Zenon DEF Lives
<1>9. ASSUME NEW s \in Sessions, GoesStale(s) \/ Stop(s) PROVE UNCHANGED <<op, sess, life, snapshot>>
  BY <1>9 DEF GoesStale, Stop, callVars, storeVars, tailVars
<1>10. ASSUME NEW i \in Ids, AgentWorks(i) \/ Dies(i) PROVE UNCHANGED <<op, sess, life, snapshot>>
  BY <1>10 DEF AgentWorks, Dies, callVars, storeVars, tailVars
<1>11. ASSUME NEW w \in Workers, Deregister(w) PROVE UNCHANGED <<op, sess, life, snapshot>>
  BY <1>11 DEF Deregister, callVars
<1>12. IdleSessions \/ UNCHANGED vars => UNCHANGED <<op, sess, life, snapshot>>
  BY DEF IdleSessions, vars, callVars, storeVars, tailVars
<1>13. Callers \subseteq Actors
  BY DEF Actors
<1>14. ASSUME NEW c \in Actors, CallStep(c) \/ GiveUp(c) \/ Disconnect(c) PROVE Lives
  BY <1>3, <1>4, <1>5, <1>14
<1> HIDE DEF Inv, TypeInv
<1>15. Lives
  BY <1>2, <1>6, <1>7, <1>8, <1>9, <1>10, <1>11, <1>12, <1>13, <1>14 DEF Next
<1> QED BY <1>15, NewUntouched DEF Lives, Life, Inv, TypeInv

----------------------------------------------------------------------------
(* What a step can change of a session: each lemma names the steps that    *)
(* change one thing, all of them of calls for that session.                *)

LEMMA ExcusedStay ==
  ASSUME TypeInv, [Next]_vars
  PROVE  /\ excused \subseteq excused'
         /\ \A s \in Sessions : life[s] = "deleted" => life'[s] = "deleted"
<1> USE DEF TypeInv, TypeOK, TailTypeOK
<1> DEFINE Stays == \A s \in Sessions : life[s] = "deleted" => life'[s] = "deleted"
<1>1. ASSUME NEW c \in Actors, Fails(c) \/ PostCreateSession(c) PROVE Stays
  BY <1>1 DEF Fails, PostCreateSession
<1>2. ASSUME NEW c \in Actors, CallStep(c) \/ GiveUp(c) \/ Disconnect(c)
      PROVE  Fails(c) \/ PostCreateSession(c) \/ UNCHANGED life
  BY <1>2 DEF CallStep, GiveUp, Disconnect, PullImage, Await, PlaceForSession, SetWorkerBinding,
     Ready, Restore, Provision, Track, Rehydrate, Resumed, Post, StreamEnds, Persist, Commit,
     SetSnapshotHandle, DestroyInstance, Forget, tailVars
<1>3. ASSUME NEW c \in Callers, NEW s \in Sessions, Start(c, s) PROVE Stays
  BY <1>3 DEF Start, MarkCreating, SendMessage, Resume, Snapshot, Destroy, tailVars
<1>4. ASSUME NEW s \in Sessions, SweepNext(s) \/ GoesStale(s) \/ Stop(s) PROVE UNCHANGED life
  BY <1>4 DEF SweepNext, GoesStale, Stop, tailVars
<1>5. ASSUME NEW i \in Ids, AgentWorks(i) \/ Dies(i) PROVE UNCHANGED life
  BY <1>5 DEF AgentWorks, Dies, tailVars
<1>6. ASSUME NEW w \in Workers, Deregister(w) PROVE UNCHANGED life
  BY <1>6 DEF Deregister
<1>7. IdleSessions \/ UNCHANGED vars => UNCHANGED life
  BY DEF IdleSessions, vars, tailVars
<1>8. ASSUME Restart PROVE Stays
  BY <1>8 DEF Restart, LoseMemory
<1>9. Callers \subseteq Actors
  BY DEF Actors
<1>10. UNCHANGED life => Stays
  OBVIOUS
<1> HIDE DEF TypeInv, Stays
<1>11. Stays
  BY <1>1, <1>2, <1>3, <1>4, <1>5, <1>6, <1>7, <1>8, <1>9, <1>10 DEF Next
<1> QED BY <1>11, CrossedStay DEF Stays

LEMMA Bindings ==
  ASSUME TypeInv, [Next]_vars, NEW s \in Sessions
  PROVE  \/ binding'[s] = binding[s]
         \/ \E c \in Actors : SetWorkerBinding(c) /\ sess[c] = s /\ binding'[s] = worker[c]
<1> USE DEF TypeInv, TypeOK, StoreTypeOK
<1>1. ASSUME NEW c \in Actors, SetWorkerBinding(c)
      PROVE  binding'[s] = binding[s] \/ (sess[c] = s /\ binding'[s] = worker[c])
  BY <1>1 DEF SetWorkerBinding
<1>2. ASSUME NEW c \in Actors, CallStep(c) \/ GiveUp(c) \/ Disconnect(c), ~SetWorkerBinding(c)
      PROVE  UNCHANGED binding
  BY <1>2 DEF CallStep, GiveUp, Disconnect, PullImage, Await, PlaceForSession, Ready, Restore,
     Provision, Track, Rehydrate, PostCreateSession, Resumed, Post, StreamEnds, Persist, Commit,
     SetSnapshotHandle, DestroyInstance, Forget, storeVars
<1>3. ASSUME NEW c \in Callers, NEW t \in Sessions, Start(c, t) PROVE UNCHANGED binding
  BY <1>3 DEF Start, MarkCreating, SendMessage, Resume, Snapshot, Destroy, storeVars
<1>4. ASSUME NEW t \in Sessions, SweepNext(t) \/ GoesStale(t) \/ Stop(t) PROVE UNCHANGED binding
  BY <1>4 DEF SweepNext, GoesStale, Stop, storeVars
<1>5. ASSUME NEW i \in Ids, AgentWorks(i) \/ Dies(i) PROVE UNCHANGED binding
  BY <1>5 DEF AgentWorks, Dies, storeVars
<1>6. ASSUME NEW w \in Workers, Deregister(w) PROVE UNCHANGED binding
  BY <1>6 DEF Deregister
<1>7. IdleSessions \/ Restart \/ UNCHANGED vars => UNCHANGED binding
  BY DEF IdleSessions, Restart, vars, storeVars
<1>8. Callers \subseteq Actors
  BY DEF Actors
<1> HIDE DEF TypeInv
<1> QED BY <1>1, <1>2, <1>3, <1>4, <1>5, <1>6, <1>7, <1>8 DEF Next

\* A worker stays while a session that keeps its promises relies on it.
LEMMA WorkersStay ==
  ASSUME TypeInv, [Next]_vars, NEW s \in Sessions \ excused', NEW w \in workers,
         binding[s] = w \/ \E c \in Actors : sess[c] = s /\ worker[c] = w
  PROVE  w \in workers'
<1> USE DEF TypeInv, TypeOK, StoreTypeOK
<1>1. ASSUME NEW v \in Workers, Deregister(v) PROVE w \in workers'
  BY <1>1 DEF Deregister
<1>2. ASSUME NEW c \in Actors, CallStep(c) \/ GiveUp(c) \/ Disconnect(c) PROVE UNCHANGED workers
  BY <1>2 DEF CallStep, GiveUp, Disconnect, PullImage, Await, PlaceForSession, SetWorkerBinding,
     Ready, Restore, Provision, Track, Rehydrate, PostCreateSession, Resumed, Post, StreamEnds,
     Persist, Commit, SetSnapshotHandle, DestroyInstance, Forget, storeVars
<1>3. ASSUME NEW c \in Callers, NEW t \in Sessions, Start(c, t) PROVE UNCHANGED workers
  BY <1>3 DEF Start, MarkCreating, SendMessage, Resume, Snapshot, Destroy, storeVars
<1>4. ASSUME NEW t \in Sessions, SweepNext(t) \/ GoesStale(t) \/ Stop(t) PROVE UNCHANGED workers
  BY <1>4 DEF SweepNext, GoesStale, Stop, storeVars
<1>5. ASSUME NEW i \in Ids, AgentWorks(i) \/ Dies(i) PROVE UNCHANGED workers
  BY <1>5 DEF AgentWorks, Dies, storeVars
<1>6. IdleSessions \/ UNCHANGED vars => UNCHANGED workers
  BY DEF IdleSessions, vars, storeVars
<1>7. ASSUME Restart PROVE w \in workers'
  BY <1>7 DEF Restart, LoseMemory
<1>8. Callers \subseteq Actors
  BY DEF Actors
<1> HIDE DEF TypeInv
<1> QED BY <1>1, <1>2, <1>3, <1>4, <1>5, <1>6, <1>7, <1>8 DEF Next

LEMMA Tracking ==
  ASSUME TypeInv, [Next]_vars, ~Restart, NEW s \in Sessions
  PROVE  \/ instances'[s] = instances[s] /\ instanceWorkers'[s] = instanceWorkers[s]
         \/ \E c \in Actors :
              /\ sess[c] = s
              /\ \/ Track(c) /\ instances'[s] = inst[c] /\ instanceWorkers'[s] = worker[c]
                 \/ Forget(c) /\ instances'[s] = NoInst
                 \/ Ready(c) /\ instanceWorkers[s] \notin {NoWorker, worker[c]}
<1> USE DEF TypeInv, TypeOK, MemTypeOK
<1> DEFINE Same == instances'[s] = instances[s] /\ instanceWorkers'[s] = instanceWorkers[s]
<1>1. ASSUME NEW c \in Actors, Track(c)
      PROVE  Same \/ (sess[c] = s /\ instances'[s] = inst[c] /\ instanceWorkers'[s] = worker[c])
  BY <1>1 DEF Track, track
<1>2. ASSUME NEW c \in Actors, Forget(c)
      PROVE  Same \/ (sess[c] = s /\ instances'[s] = NoInst)
  BY <1>2 DEF Forget, forget
<1>3. ASSUME NEW c \in Actors, Ready(c)
      PROVE  Same \/ (sess[c] = s /\ instanceWorkers[s] \notin {NoWorker, worker[c]})
  BY <1>3 DEF Ready, forget
<1>4. ASSUME NEW c \in Actors, CallStep(c) \/ GiveUp(c) \/ Disconnect(c),
             ~Track(c), ~Forget(c), ~Ready(c)
      PROVE  Same
  BY <1>4 DEF CallStep, GiveUp, Disconnect, PullImage, Await, PlaceForSession, SetWorkerBinding,
     Restore, Provision, Rehydrate, PostCreateSession, Resumed, Post, StreamEnds, Persist, Commit,
     SetSnapshotHandle, DestroyInstance, memVars
<1>5. ASSUME NEW c \in Callers, NEW t \in Sessions, Start(c, t) PROVE Same
  BY <1>5 DEF Start, MarkCreating, SendMessage, Resume, Snapshot, Destroy, memVars
<1>6. ASSUME NEW t \in Sessions, SweepNext(t) \/ GoesStale(t) \/ Stop(t) PROVE Same
  BY <1>6 DEF SweepNext, GoesStale, Stop, memVars
<1>7. ASSUME NEW i \in Ids, AgentWorks(i) \/ Dies(i) PROVE Same
  BY <1>7 DEF AgentWorks, Dies, memVars
<1>8. ASSUME NEW w \in Workers, Deregister(w) PROVE Same
  BY <1>8 DEF Deregister, memVars
<1>9. IdleSessions \/ UNCHANGED vars => Same
  BY DEF IdleSessions, vars, memVars
<1>10. Callers \subseteq Actors
  BY DEF Actors
<1> HIDE DEF TypeInv, Same
<1>11. \/ Same
       \/ \E c \in Actors :
            /\ sess[c] = s
            /\ \/ Track(c) /\ instances'[s] = inst[c] /\ instanceWorkers'[s] = worker[c]
               \/ Forget(c) /\ instances'[s] = NoInst
               \/ Ready(c) /\ instanceWorkers[s] \notin {NoWorker, worker[c]}
  BY <1>1, <1>2, <1>3, <1>4, <1>5, <1>6, <1>7, <1>8, <1>9, <1>10 DEF Next
<1> QED BY <1>11 DEF Same

LEMMA Creates ==
  ASSUME TypeInv, [Next]_vars, ~Restart, NEW s \in Sessions \ crossed', creating[s]
  PROVE  \/ creating'[s]
         \/ Busy(s) = {}
         \/ \E c \in Actors : sess[c] = s /\ (Restore(c) \/ (op[c] = "create" /\ Returned(c)))
<1> USE DEF TypeInv, TypeOK, MemTypeOK
<1>1. ASSUME NEW c \in Actors, Fails(c)
      PROVE  creating'[s] \/ (sess[c] = s /\ op[c] = "create" /\ Returned(c))
  BY <1>1, Returning DEF Fails, Settle
<1>2. ASSUME NEW c \in Actors, PostCreateSession(c), ~Fails(c)
      PROVE  creating'[s] \/ (sess[c] = s /\ op[c] = "create" /\ Returned(c))
  BY <1>2, Returning DEF PostCreateSession, Settle, At, CallShape
<1>3. ASSUME NEW c \in Actors, Restore(c) PROVE creating'[s] \/ sess[c] = s
  BY <1>3 DEF Restore, Settle
<1>4. ASSUME NEW c \in Actors, CallStep(c) \/ GiveUp(c) \/ Disconnect(c),
             ~Fails(c), ~PostCreateSession(c), ~Restore(c)
      PROVE  UNCHANGED creating
  BY <1>4 DEF CallStep, GiveUp, Disconnect, PullImage, Await, PlaceForSession, SetWorkerBinding,
     Ready, Provision, Track, Rehydrate, Resumed, Post, StreamEnds, Persist, Commit,
     SetSnapshotHandle, DestroyInstance, Forget, memVars
<1>5. ASSUME NEW c \in Callers, NEW t \in Sessions, MarkCreating(c, t) PROVE creating'[s]
  BY <1>5 DEF MarkCreating
<1>6. ASSUME NEW c \in Actors, NEW t \in Sessions, NEW o \in {"snapshot", "archive"},
             t \notin crossed' => MayStart(t, o), Settle(t)
      PROVE  creating'[s] \/ Busy(s) = {}
  BY <1>6 DEF MayStart, Settle
<1>7. ASSUME NEW c \in Callers, NEW t \in Sessions, Start(c, t)
      PROVE  creating'[s] \/ Busy(s) = {}
  BY <1>5, <1>6, <1>7
     DEF Start, SendMessage, Resume, Destroy, Snapshot, Begin, Crosses, memVars, Actors
<1>8. ASSUME NEW t \in Sessions, SweepNext(t) PROVE creating'[s] \/ Busy(s) = {}
  BY <1>6, <1>8 DEF SweepNext, Begin, Crosses, Actors
<1>9. ASSUME NEW t \in Sessions, GoesStale(t) \/ Stop(t) PROVE UNCHANGED creating
  BY <1>9 DEF GoesStale, Stop, memVars
<1>10. ASSUME NEW i \in Ids, AgentWorks(i) \/ Dies(i) PROVE UNCHANGED creating
  BY <1>10 DEF AgentWorks, Dies, memVars
<1>11. ASSUME NEW w \in Workers, Deregister(w) PROVE UNCHANGED creating
  BY <1>11 DEF Deregister, memVars
<1>12. IdleSessions \/ UNCHANGED vars => UNCHANGED creating
  BY DEF IdleSessions, vars, memVars
<1>13. Callers \subseteq Actors
  BY DEF Actors
<1> HIDE DEF TypeInv
<1> QED BY <1>1, <1>2, <1>3, <1>4, <1>7, <1>8, <1>9, <1>10, <1>11, <1>12, <1>13 DEF Next

\* The containers of a session that loses none by a death; a Destroy that fails
\* may have stopped one.
LEMMA Containers ==
  ASSUME TypeInv, [Next]_vars, ~Restart, NEW s \in Sessions \ excused', NEW i \in Ids
  PROVE  /\ i \in Running(s)' =>
              \/ /\ i \in Running(s) /\ home'[i] = home[i] /\ files[i] \subseteq files'[i]
                 /\ \/ cstate'[i] = cstate[i]
                    \/ \E c \in Actors :
                         DestroyInstance(c) /\ sess[c] = s /\ instances[s] = i /\ Returned(c)
              \/ \E c \in Actors :
                   /\ Provision(c) /\ sess[c] = s /\ pc'[c] = "track" /\ inst'[c] = i
                   /\ cstate'[i] = "up" /\ home'[i] = worker[c] /\ files'[i] = image[c]
                   /\ Existing(worker[c], s) = {}
         /\ i \in Running(s) =>
              \/ i \in Running(s)'
              \/ \E c \in Actors :
                   DestroyInstance(c) /\ sess[c] = s /\ instances[s] = i /\ pc'[c] = "forget"
<1> USE DEF TypeInv, TypeOK, EnvTypeOK
<1> DEFINE Stays == home'[i] = home[i] /\ cstate'[i] = cstate[i] /\ files[i] \subseteq files'[i]
           Here == i \in Running(s) /\ Stays
           Stopped(c) ==
             /\ i \in Running(s) /\ home'[i] = home[i] /\ files[i] \subseteq files'[i]
             /\ DestroyInstance(c) /\ sess[c] = s /\ instances[s] = i /\ Returned(c)
           Gone(c) == DestroyInstance(c) /\ sess[c] = s /\ instances[s] = i /\ pc'[c] = "forget"
           New(c) ==
             /\ Provision(c) /\ sess[c] = s /\ pc'[c] = "track" /\ inst'[c] = i
             /\ cstate'[i] = "up" /\ home'[i] = worker[c] /\ files'[i] = image[c]
             /\ Existing(worker[c], s) = {}
<1>1. ASSUME Stays, owner'[i] = owner[i]
      PROVE  (i \in Running(s)' => Here) /\ (i \in Running(s) => i \in Running(s)')
  BY <1>1 DEF Running, Present
<1>2. ASSUME NEW c \in Actors, Provision(c)
      PROVE  (i \in Running(s)' => Here \/ New(c)) /\ (i \in Running(s) => i \in Running(s)')
  <2>1. CASE UNCHANGED envVars
    BY <1>1, <2>1 DEF envVars
  <2>2. ASSUME NEW j \in Ids, Boot(j, worker[c], sess[c], image[c]), inst' = [inst EXCEPT ![c] = j],
               pc' = [pc EXCEPT ![c] = "track"], Existing(worker[c], sess[c]) = {}
        PROVE  (i \in Running(s)' => Here \/ New(c)) /\ (i \in Running(s) => i \in Running(s)')
    <3>1. CASE i # j
      BY <1>1, <2>2, <3>1 DEF Boot
    <3>2. CASE i = j
      <4>1. i \notin Running(s) /\ owner'[i] = sess[c]
        BY <2>2, <3>2 DEF Boot, Running, Present
      <4>2. inst'[c] = i /\ pc'[c] = "track" /\ cstate'[i] = "up" /\ home'[i] = worker[c]
            /\ files'[i] = image[c]
        BY <2>2, <3>2 DEF Boot, CallTypeOK
      <4>3. i \in Running(s)' => sess[c] = s
        BY <4>1 DEF Running
      <4> QED BY <1>2, <2>2, <4>1, <4>2, <4>3
    <3> QED BY <3>1, <3>2
  <2> QED BY <1>2, <2>1, <2>2 DEF Provision
<1>3. ASSUME NEW c \in Actors, DestroyInstance(c)
      PROVE  /\ i \in Running(s)' => Here \/ Stopped(c)
             /\ i \in Running(s) => i \in Running(s)' \/ Gone(c)
  <2>1. CASE UNCHANGED envVars
    BY <1>1, <2>1 DEF envVars
  <2>2. CASE instances[sess[c]] # NoInst /\ EnvDestroy(instances[sess[c]]) /\ Goto(c, "forget")
    <3>1. CASE i # instances[sess[c]]
      BY <1>1, <2>2, <3>1 DEF EnvDestroy
    <3>2. CASE i = instances[sess[c]]
      <4>1. sess[c] \in Sessions
        BY <1>3 DEF DestroyInstance, At, CallShape, CallTypeOK
      <4>2. owner[i] = sess[c] /\ pc'[c] = "forget" /\ i \notin Running(s)'
        BY <2>2, <3>2, <4>1 DEF Owner, Goto, EnvDestroy, Running, Present, CallTypeOK
      <4> QED BY <1>3, <3>2, <4>2 DEF Running
    <3> QED BY <3>1, <3>2
  <2>3. CASE instances[sess[c]] # NoInst /\ EnvStop(instances[sess[c]]) /\ Return(c)
    <3>1. CASE i # instances[sess[c]]
      BY <1>1, <2>3, <3>1 DEF EnvStop
    <3>2. CASE i = instances[sess[c]]
      <4>1. sess[c] \in Sessions
        BY <1>3 DEF DestroyInstance, At, CallShape, CallTypeOK
      <4>2. owner[i] = sess[c] /\ Returned(c)
        BY <2>3, <3>2, <4>1, Returning DEF Owner
      <4>3. UNCHANGED <<home, owner, files>> /\ (i \in Running(s) <=> i \in Running(s)')
        BY <2>3, <3>2 DEF EnvStop, Running, Present
      <4> QED BY <1>3, <3>2, <4>2, <4>3 DEF Running
    <3> QED BY <3>1, <3>2
  <2> QED BY <1>3, <2>1, <2>2, <2>3 DEF DestroyInstance
<1>4. ASSUME NEW j \in Ids, Dies(j)
      PROVE  (i \in Running(s)' => Here) /\ (i \in Running(s) => i \in Running(s)')
  <2>1. CASE i # j
    BY <1>1, <1>4, <2>1 DEF Dies, ContainerDies
  <2>2. CASE i = j
    BY <1>4, <2>2 DEF Dies, ContainerDies, Running
  <2> QED BY <2>1, <2>2
<1>5. ASSUME NEW j \in Ids, AgentWorks(j) PROVE Stays /\ owner'[i] = owner[i]
  BY <1>5 DEF AgentWorks, AgentEndsTurn
<1>6. ASSUME NEW c \in Actors, CallStep(c) \/ GiveUp(c) \/ Disconnect(c),
             ~Provision(c), ~DestroyInstance(c)
      PROVE  UNCHANGED <<cstate, home, owner, files>>
  BY <1>6 DEF CallStep, GiveUp, Disconnect, PullImage, Await, PlaceForSession, SetWorkerBinding,
     Ready, Restore, Track, Rehydrate, LoadConversation, PostCreateSession, Resumed, Post, StartTurn,
     StreamEnds, Persist, Commit, SetSnapshotHandle, Forget, envVars
<1>7. ASSUME NEW c \in Callers, NEW t \in Sessions, Start(c, t)
      PROVE  UNCHANGED <<cstate, home, owner, files>>
  BY <1>7 DEF Start, MarkCreating, SendMessage, Resume, Snapshot, Destroy, envVars
<1>8. ASSUME NEW t \in Sessions, SweepNext(t) \/ GoesStale(t) \/ Stop(t)
      PROVE  UNCHANGED <<cstate, home, owner, files>>
  BY <1>8 DEF SweepNext, GoesStale, Stop, StartTurn, envVars
<1>9. ASSUME NEW w \in Workers, Deregister(w) PROVE UNCHANGED <<cstate, home, owner, files>>
  BY <1>9 DEF Deregister, envVars
<1>10. IdleSessions \/ UNCHANGED vars => UNCHANGED <<cstate, home, owner, files>>
  BY DEF IdleSessions, vars, envVars
<1>11. Callers \subseteq Actors
  BY DEF Actors
<1>12. UNCHANGED <<cstate, home, owner, files>> => Stays /\ owner'[i] = owner[i]
  OBVIOUS
<1> HIDE DEF TypeInv, Stays, Here, Gone, New, Stopped
<1>13. /\ i \in Running(s)' => Here \/ \E c \in Actors : New(c) \/ Stopped(c)
       /\ i \in Running(s) => i \in Running(s)' \/ \E c \in Actors : Gone(c)
  BY <1>1, <1>2, <1>3, <1>4, <1>5, <1>6, <1>7, <1>8, <1>9, <1>10, <1>11, <1>12 DEF Next
<1> QED BY <1>13, Zenon DEF Stays, Here, Gone, New, Stopped

\* The work done of a session, and its image.
LEMMA Doing ==
  ASSUME TypeInv, [Next]_vars, NEW s \in Sessions
  PROVE  /\ \/ done'[s] = done[s]
            \/ \E c \in Actors : /\ Persist(c) /\ sess[c] = s
                                 /\ done'[s] \subseteq done[s] \cup files[inst[c]]
         /\ \/ snapshot'[s] = snapshot[s]
            \/ \E c \in Actors : /\ SetSnapshotHandle(c) /\ sess[c] = s
                                 /\ snapshot'[s] = image[c] /\ image[c] # NoImage
         /\ life'[s] = "created" =>
              life[s] = "created" \/ \E c \in Actors : PostCreateSession(c) /\ sess[c] = s
<1> USE DEF TypeInv, TypeOK, StoreTypeOK, TailTypeOK
<1> DEFINE Done == done'[s] = done[s]
           Image == snapshot'[s] = snapshot[s]
           Live == life'[s] = "created" => life[s] = "created"
<1>1. ASSUME NEW c \in Actors, Persist(c)
      PROVE  /\ Image /\ Live
             /\ Done \/ (sess[c] = s /\ done'[s] \subseteq done[s] \cup files[inst[c]])
  BY <1>1 DEF Persist
<1>2. ASSUME NEW c \in Actors, SetSnapshotHandle(c)
      PROVE  /\ Done /\ Live
             /\ Image \/ (sess[c] = s /\ snapshot'[s] = image[c] /\ image[c] # NoImage)
  <2>1. image[c] # NoImage
    <3>1. image[c] \subseteq Turns /\ 0 \notin Turns
      BY DEF CallTypeOK, Turns
    <3>2. 0 \in NoImage
      BY DEF NoImage
    <3> QED BY <3>1, <3>2
  <2> QED BY <1>2, <2>1 DEF SetSnapshotHandle
<1>3. ASSUME NEW c \in Actors, Fails(c) PROVE UNCHANGED done /\ Live
  BY <1>3 DEF Fails
<1>4. ASSUME NEW c \in Actors, PostCreateSession(c) PROVE Done /\ Image /\ (Live \/ sess[c] = s)
  BY <1>3, <1>4 DEF PostCreateSession, storeVars
<1>5. ASSUME NEW c \in Actors, CallStep(c) \/ GiveUp(c) \/ Disconnect(c),
             ~Persist(c), ~SetSnapshotHandle(c), ~PostCreateSession(c)
      PROVE  UNCHANGED snapshot /\ (Fails(c) \/ UNCHANGED <<done, life>>)
  BY <1>5 DEF CallStep, GiveUp, Disconnect, PullImage, Await, PlaceForSession, SetWorkerBinding,
     Ready, Restore, Provision, Track, Rehydrate, Resumed, Post, StreamEnds, Commit,
     DestroyInstance, Forget, storeVars, tailVars
<1>6. ASSUME NEW c \in Callers, NEW t \in Sessions, Start(c, t) PROVE Done /\ Image /\ Live
  BY <1>6 DEF Start, MarkCreating, SendMessage, Resume, Snapshot, Destroy, storeVars, tailVars
<1>7. ASSUME NEW t \in Sessions, SweepNext(t) \/ GoesStale(t) \/ Stop(t)
      PROVE  UNCHANGED <<done, life, snapshot>>
  BY <1>7 DEF SweepNext, GoesStale, Stop, storeVars, tailVars
<1>8. ASSUME NEW i \in Ids, AgentWorks(i) \/ Dies(i) PROVE UNCHANGED <<done, life, snapshot>>
  BY <1>8 DEF AgentWorks, Dies, storeVars, tailVars
<1>9. ASSUME NEW w \in Workers, Deregister(w) PROVE UNCHANGED <<done, life, snapshot>>
  BY <1>9 DEF Deregister
<1>10. IdleSessions \/ UNCHANGED vars => UNCHANGED <<done, life, snapshot>>
  BY DEF IdleSessions, vars, storeVars, tailVars
<1>11. ASSUME Restart PROVE Done /\ Image /\ Live
  BY <1>11 DEF Restart, LoseMemory
<1>12. Callers \subseteq Actors
  BY DEF Actors
<1>13. UNCHANGED <<done, life, snapshot>> => Done /\ Image /\ Live
  OBVIOUS
<1>14. ASSUME NEW c \in Actors, CallStep(c) \/ GiveUp(c) \/ Disconnect(c),
              ~Persist(c), ~SetSnapshotHandle(c), ~PostCreateSession(c)
       PROVE  Done /\ Image /\ Live
  BY <1>3, <1>5, <1>14
<1> HIDE DEF TypeInv, Done, Image, Live
<1>15. /\ \/ Done
          \/ \E c \in Actors : /\ Persist(c) /\ sess[c] = s
                               /\ done'[s] \subseteq done[s] \cup files[inst[c]]
       /\ \/ Image
          \/ \E c \in Actors : /\ SetSnapshotHandle(c) /\ sess[c] = s
                               /\ snapshot'[s] = image[c] /\ image[c] # NoImage
       /\ Live \/ \E c \in Actors : PostCreateSession(c) /\ sess[c] = s
  BY <1>1, <1>2, <1>4, <1>6, <1>7, <1>8, <1>9, <1>10, <1>11, <1>12, <1>13, <1>14 DEF Next
<1> QED BY <1>15 DEF Done, Image, Live

\* A call stays as it is, goes on, ends or begins.
Stands(c) ==
  /\ pc'[c] = pc[c] /\ op'[c] = op[c] /\ sess'[c] = sess[c]
  /\ worker'[c] = worker[c] /\ inst'[c] = inst[c] /\ image'[c] = image[c]

Opened(c, s) ==
  \/ Began(c, s, "create", "image") /\ life[s] = "new" /\ creating'[s]
  \/ \E o \in {"send", "resume", "snapshot", "archive"} : Began(c, s, o, "await")
  \/ Began(c, s, "destroy", "destroy") /\ life'[s] = "deleted"

LEMMA EachCall ==
  ASSUME TypeInv, [Next]_vars, ~Restart, NEW c \in Actors
  PROVE  \/ Stands(c)
         \/ CallStep(c)
         \/ Returned(c) /\ pc[c] \in {"await", "turn"}
         \/ \E s \in Sessions : Opened(c, s)
<1> USE DEF TypeInv
<1>1. ASSUME NEW d \in Actors, Elsewhere(d), d # c PROVE Stands(c)
  BY <1>1 DEF Elsewhere, Stands
<1>2. ASSUME UNCHANGED callVars PROVE Stands(c)
  BY <1>2 DEF callVars, localVars, Stands
<1>3. ASSUME NEW d \in Actors, CallStep(d) \/ GiveUp(d) \/ Disconnect(d)
      PROVE  Stands(c) \/ CallStep(c) \/ (Returned(c) /\ pc[c] \in {"await", "turn"})
  <2>1. Elsewhere(d)
    BY <1>3, StepShape
  <2>2. GiveUp(d) \/ Disconnect(d) => Returned(d) /\ pc[d] \in {"await", "turn"}
    BY Returning DEF GiveUp, Disconnect, At
  <2> QED BY <1>1, <1>3, <2>1, <2>2
<1>4. ASSUME NEW d \in Callers, NEW s \in Sessions, Start(d, s) PROVE Stands(c) \/ Opened(c, s)
  <2>1. d \in Actors /\ TypeOK
    BY DEF Actors
  <2>2. ASSUME NEW o, NEW where, Begin(d, s, o, where), UNCHANGED <<worker, inst, image>>
        PROVE  Elsewhere(d) /\ Began(d, s, o, where)
    BY <2>1, <2>2, Beginning
  <2>3. CASE MarkCreating(d, s)
    BY <1>1, <2>1, <2>2, <2>3 DEF MarkCreating, Opened, localVars, TypeOK, MemTypeOK
  <2>4. CASE SendMessage(d, s) \/ Resume(d, s) \/ \E o \in {"snapshot", "archive"} : Snapshot(d, s, o)
    <3>1. \E o \in {"send", "resume", "snapshot", "archive"} :
            Begin(d, s, o, "await") /\ UNCHANGED <<worker, inst, image>>
      BY <2>4 DEF SendMessage, Resume, Snapshot, localVars
    <3> QED BY <1>1, <2>1, <2>2, <3>1 DEF Opened
  <2>5. CASE Destroy(d, s)
    BY <1>1, <2>1, <2>2, <2>5 DEF Destroy, Opened, localVars, TypeOK, TailTypeOK
  <2> QED BY <1>4, <2>3, <2>4, <2>5 DEF Start
<1>5. ASSUME NEW s \in Sessions, SweepNext(s) PROVE Stands(c) \/ Opened(c, s)
  <2>1. CASE UNCHANGED callVars
    BY <1>2, <2>1
  <2>2. CASE Elsewhere(Loop) /\ Began(Loop, s, "archive", "await")
    BY <1>1, <2>2 DEF Opened, Actors
  <2> QED BY <1>5, <2>1, <2>2, SweepMoves
<1>6. ASSUME NEW s \in Sessions, GoesStale(s) \/ Stop(s) PROVE UNCHANGED callVars
  BY <1>6 DEF GoesStale, Stop
<1>7. ASSUME NEW i \in Ids, AgentWorks(i) \/ Dies(i) PROVE UNCHANGED callVars
  BY <1>7 DEF AgentWorks, Dies
<1>8. ASSUME NEW w \in Workers, Deregister(w) PROVE UNCHANGED callVars
  BY <1>8 DEF Deregister
<1>9. IdleSessions \/ UNCHANGED vars => UNCHANGED callVars
  BY DEF IdleSessions, vars
<1>10. Callers \subseteq Actors
  BY DEF Actors
<1> HIDE DEF TypeInv
<1> QED BY <1>2, <1>3, <1>4, <1>5, <1>6, <1>7, <1>8, <1>9, <1>10 DEF Next

----------------------------------------------------------------------------
(* What the invariant says of calls for one session.                       *)

LEMMA Alone ==
  ASSUME Inv, NEW c \in Actors, op[c] \notin {"none", "create", "send", "resume"},
         sess[c] \notin excused, NEW d \in Actors, sess[d] = sess[c]
  PROVE  c = d
BY DEF Inv, TypeInv, CallShape, Serial

\* A session is given a container by one call, when it has none.
LEMMA OneBrings ==
  ASSUME Inv, NEW c \in Actors, NEW d \in Actors, sess[c] \in Sessions \ excused,
         sess[d] = sess[c], Brings(c)
  PROVE  ~Has(d) /\ (Brings(d) => c = d)
<1> USE DEF Inv, TypeInv
<1>1. instances[sess[c]] = NoInst
  BY DEF CallPhase
<1>2. ~Has(d)
  BY <1>1 DEF CallPhase, Has, CallShape
<1>3. ASSUME Brings(d), c # d PROVE FALSE
  <2>1. pc[c] \notin {"idle", "await"} /\ pc[d] \notin {"idle", "await"}
    BY <1>3 DEF Brings, CallShape
  <2>2. op[c] = "create" \/ op[d] = "create"
    BY <1>3, <2>1 DEF Serial
  <2> QED BY <1>1, <1>3, <2>1, <2>2 DEF Waits
<1> QED BY <1>2, <1>3

LEMMA OneContainer ==
  ASSUME Inv, NEW s \in Sessions \ excused, NEW i \in Running(s)
  PROVE  /\ \A j \in Running(s) : i = j
         /\ instances[s] \in {i, NoInst}
         /\ instances[s] = NoInst =>
              \E c \in Actors : pc[c] = "track" /\ inst[c] = i /\ sess[c] = s
<1> USE DEF Inv, TypeInv
<1>1. ASSUME NEW c \in Actors, pc[c] = "track", inst[c] \in Running(s)
      PROVE  sess[c] = s /\ Brings(c) /\ instances[s] = NoInst
  <2>1. sess[c] = s /\ Brings(c)
    BY <1>1, RunnerAssumption DEF Running, CallShape, Brings
  <2> QED BY <2>1 DEF CallPhase
<1>2. \A j \in Running(s) :
        \/ instances[s] = j
        \/ \E c \in Actors : pc[c] = "track" /\ inst[c] = j /\ sess[c] = s /\ Brings(c)
  BY <1>1 DEF Place
<1>3. ASSUME NEW j \in Running(s) PROVE j \in Ids
  BY <1>3 DEF Running
<1>4. NoInst \notin Running(s)
  BY <1>3, RunnerAssumption
<1>5. ASSUME NEW j \in Running(s) PROVE i = j
  <2>1. CASE instances[s] = NoInst
    BY <1>2, <1>4, <1>5, <2>1, OneBrings
  <2>2. CASE instances[s] # NoInst
    BY <1>1, <1>2, <1>5, <2>2
  <2> QED BY <2>1, <2>2
<1> QED BY <1>1, <1>2, <1>4, <1>5

\* A session that lost no worker is not taken from one worker to another, so
\* that what is tracked for it changes by Track and Forget only.
LEMMA TrackedHere ==
  ASSUME Inv, [Next]_vars, ~Restart, NEW s \in Sessions \ excused
  PROVE  \/ instances'[s] = instances[s] /\ instanceWorkers'[s] = instanceWorkers[s]
         \/ \E c \in Actors :
              /\ sess[c] = s
              /\ \/ Track(c) /\ instances'[s] = inst[c] /\ instanceWorkers'[s] = worker[c]
                 \/ Forget(c) /\ instances'[s] = NoInst
<1>1. ASSUME NEW c \in Actors, sess[c] = s, Ready(c) PROVE instanceWorkers[s] \in {NoWorker, worker[c]}
  BY <1>1 DEF Inv, TypeInv, CallPhase, Place, Owner, Ready, At
<1>2. TypeInv
  BY DEF Inv
<1> QED BY <1>1, <1>2, Tracking

----------------------------------------------------------------------------
(* Every call is where its session is.                                     *)

LEMMA PhaseStands ==
  ASSUME Inv, [Next]_vars, ~Restart, NEW c \in Actors, Stands(c),
         NEW s \in Sessions \ excused', sess[c] = s
  PROVE  CallPhase(c)'
<1> USE DEF Inv, TypeInv
<1>1. s \in Sessions \ excused /\ CallPhase(c) /\ CallShape(c) /\ Owner(s) /\ Place(s)
  BY ExcusedStay
<1>2. pc[c] = "bind" => binding'[s] = NoWorker /\ worker[c] \in workers'
  <2>1. ASSUME pc[c] = "bind", NEW d \in Actors, SetWorkerBinding(d), sess[d] = s PROVE FALSE
    <3>1. c # d
      BY <2>1, Going, Returning DEF Stands, SetWorkerBinding, Moved, Placed, Returned
    <3>2. pc[d] = "bind"
      BY <2>1 DEF SetWorkerBinding, At
    <3>3. op[c] = "create" \/ op[d] = "create"
      BY <1>1, <2>1, <3>1 DEF Serial
    <3> QED BY <1>1, <2>1, <3>1, <3>2, <3>3 DEF Waits, CallPhase, Brings
  <2>2. pc[c] = "bind" => worker[c] \in workers'
    BY <1>1, WorkersStay DEF CallPhase
  <2> QED BY <1>1, <2>1, <2>2, Bindings DEF CallPhase
<1>3. pc[c] \in {"ready", "restore", "provision", "track"} => worker[c] = binding'[s]
  <2>1. ASSUME NEW d \in Actors, SetWorkerBinding(d), sess[d] = s
        PROVE  binding[s] = NoWorker
    BY <1>1, <2>1 DEF SetWorkerBinding, At, CallPhase
  <2>2. pc[c] \in {"ready", "restore", "provision", "track"} =>
          worker[c] = binding[s] /\ worker[c] # NoWorker
    BY <1>1 DEF CallPhase, CallShape
  <2> QED BY <2>1, <2>2, Bindings
<1>4. (Brings(c) => instances'[s] = NoInst) /\ (Has(c) => instances'[s] = inst[c])
  <2>1. CASE instances'[s] = instances[s]
    BY <1>1, <2>1 DEF CallPhase
  <2>2. ASSUME NEW d \in Actors, sess[d] = s, Track(d) PROVE ~Brings(c) /\ ~Has(c)
    <3>1. c # d
      BY <2>2, Going DEF Track, Stands, At, Moved
    <3>2. Brings(d)
      BY <2>2 DEF Track, At, Brings
    <3> QED BY <1>1, <2>2, <3>1, <3>2, OneBrings
  <2>3. ASSUME NEW d \in Actors, sess[d] = s, Forget(d) PROVE ~Brings(c) /\ ~Has(c)
    <3>1. c # d
      BY <2>3, Returning DEF Forget, Stands, At, Returned
    <3>2. op[d] \notin {"none", "create", "send", "resume"}
      BY <2>3 DEF Forget, At, CallShape
    <3> QED BY <1>1, <2>3, <3>1, <3>2, Alone
  <2> QED BY <1>1, <2>1, <2>2, <2>3, TrackedHere
<1>5. op[c] = "create" => creating'[s]
  <2>1. op[c] = "create" => creating[s]
    BY <1>1 DEF CallPhase
  <2>2. c \notin Busy(s) => op[c] # "create"
    BY DEF Busy, CallShape
  <2>3. ASSUME op[c] = "create", NEW d \in Actors, sess[d] = s, Restore(d) PROVE FALSE
    <3>1. pc[d] = "restore" /\ Brings(d) /\ op[d] # "create"
      BY <2>3 DEF Restore, At, Brings, CallShape
    <3>2. instances[s] = NoInst
      BY <1>1, <2>3, <3>1 DEF CallPhase
    <3> QED BY <1>1, <2>3, <3>1, <3>2 DEF Waits
  <2>4. ASSUME op[c] = "create", NEW d \in Actors, sess[d] = s, op[d] = "create", Returned(d)
        PROVE  FALSE
    BY <1>1, <2>4, OneCreate DEF Returned, Stands, CallShape
  <2>5. s \notin crossed'
    BY <1>1, CrossedStay
  <2> QED BY <1>1, <2>1, <2>2, <2>3, <2>4, <2>5, Creates
<1>6. pc[c] = "track" => Present(inst[c])'
  <2>1. ASSUME pc[c] = "track" PROVE inst[c] \in Running(s) /\ inst[c] \in Ids
    BY <1>1, <2>1 DEF CallPhase, CallShape, Running, TypeOK, CallTypeOK
  <2>2. ASSUME pc[c] = "track", NEW d \in Actors, DestroyInstance(d), sess[d] = s PROVE FALSE
    <3>1. op[d] \notin {"none", "create", "send", "resume"} /\ c # d
      BY <2>2 DEF DestroyInstance, At, CallShape
    <3> QED BY <1>1, <2>2, <3>1, Alone
  <2>3. pc[c] = "track" => inst[c] \in Running(s)'
    BY <2>1, <2>2, Containers
  <2> QED BY <2>3 DEF Running, Present, Stands
<1>7. pc[c] = "forget" => Running(s)' = {}
  <2>1. pc[c] = "forget" => Running(s) = {}
    BY <1>1 DEF CallPhase
  <2>2. ASSUME pc[c] = "forget", NEW d \in Actors, Provision(d), sess[d] = s PROVE FALSE
    <3>1. op[c] \notin {"none", "create", "send", "resume"} /\ c # d
      BY <2>2 DEF Provision, At, CallShape
    <3> QED BY <1>1, <2>2, <3>1, Alone
  <2>3. \A i \in Running(s)' : i \in Ids
    BY DEF Running
  <2> QED BY <2>1, <2>2, <2>3, Containers
<1>9. pc[c] \in {"turn", "persist"} => cstate'[inst[c]] = "up"
  <2>1. ASSUME pc[c] \in {"turn", "persist"}
        PROVE  inst[c] \in Running(s) /\ inst[c] \in Ids /\ cstate[inst[c]] = "up"
    BY <1>1, <2>1 DEF CallPhase, CallShape, Running, Present, TypeOK, CallTypeOK
  <2>2. ASSUME pc[c] \in {"turn", "persist"}, NEW d \in Actors, DestroyInstance(d), sess[d] = s
        PROVE  FALSE
    <3>1. op[d] \notin {"none", "create", "send", "resume"} /\ c # d
      BY <2>2 DEF DestroyInstance, At, CallShape
    <3> QED BY <1>1, <2>2, <3>1, Alone
  <2>3. ASSUME pc[c] \in {"turn", "persist"} PROVE inst[c] \in Running(s)'
    BY <2>1, <2>2, <2>3, Containers
  <2> QED BY <2>1, <2>2, <2>3, Containers
<1>8. sess'[c] = s /\ pc'[c] = pc[c] /\ op'[c] = op[c] /\ worker'[c] = worker[c] /\ inst'[c] = inst[c]
  BY DEF Stands
<1> HIDE DEF Inv, TypeInv
<1> QED BY <1>2, <1>3, <1>4, <1>5, <1>6, <1>7, <1>8, <1>9 DEF CallPhase, Brings, Has, Running, Present

LEMMA PhaseOpens ==
  ASSUME Inv, [Next]_vars, NEW c \in Actors, NEW s \in Sessions, Opened(c, s)
  PROVE  CallPhase(c)'
<1>1. CASE Began(c, s, "create", "image") /\ life[s] = "new" /\ creating'[s]
  BY <1>1, NewUntouched DEF Began, CallPhase, Brings, Has
<1>2. CASE \E o \in {"send", "resume", "snapshot", "archive"} : Began(c, s, o, "await")
  BY <1>2 DEF Began, CallPhase, Brings, Has
<1>3. CASE Began(c, s, "destroy", "destroy")
  BY <1>3 DEF Began, CallPhase, Brings, Has
<1> QED BY <1>1, <1>2, <1>3 DEF Opened

LEMMA PhaseReturns == ASSUME NEW c \in Actors, Returned(c) PROVE CallPhase(c)'
BY RunnerAssumption DEF Returned, CallPhase

LEMMA PhaseSteps ==
  ASSUME Inv, [Next]_vars, NEW c \in Actors, CallStep(c), NEW s \in Sessions \ excused', sess[c] = s
  PROVE  CallPhase(c)'
<1> USE DEF Inv, TypeInv, TypeOK, CallTypeOK
<1>1. s \in Sessions \ excused /\ CallPhase(c) /\ CallShape(c) /\ Owner(s) /\ Place(s)
  BY ExcusedStay
<1>2. ASSUME Return(c) \/ Fails(c) PROVE CallPhase(c)'
  BY <1>2, Returning, PhaseReturns
<1>3. ASSUME NEW where, Goto(c, where)
      PROVE  Moved(c, where) /\ worker'[c] = worker[c] /\ inst'[c] = inst[c]
  BY <1>3, Going
<1>4. CASE Await(c)
  BY <1>3, <1>4 DEF Await, At, Moved, CallShape, CallPhase, Brings, Has
<1>5. CASE PullImage(c)
  <2>1. CASE Goto(c, "place") /\ UNCHANGED creating
    BY <1>1, <1>3, <1>5, <2>1 DEF PullImage, At, Moved, CallShape, CallPhase, Brings, Has
  <2> QED BY <1>2, <1>5, <2>1 DEF PullImage
<1>6. CASE PlaceForSession(c)
  <2>1. UNCHANGED <<instances, binding, workers>> /\ pc[c] = "place"
    BY <1>6 DEF PlaceForSession, At, storeVars
  <2>2. CASE binding[s] \in workers /\ worker' = [worker EXCEPT ![c] = binding[s]]
             /\ pc' = [pc EXCEPT ![c] = Placed(c)] /\ UNCHANGED <<op, sess, inst, creating>>
    <3>1. worker'[c] = binding'[s] /\ pc'[c] = Placed(c) /\ op'[c] = op[c] /\ sess'[c] = s
      BY <1>1, <2>1, <2>2
    <3> QED BY <1>1, <2>1, <2>2, <3>1 DEF Placed, CallPhase, Brings, Has
  <2>3. ASSUME binding[s] \notin workers, NEW w \in workers, worker' = [worker EXCEPT ![c] = w],
               pc' = [pc EXCEPT ![c] = "bind"], UNCHANGED <<op, sess, inst, creating>>
        PROVE  CallPhase(c)'
    <3>1. worker'[c] = w /\ pc'[c] = "bind" /\ op'[c] = op[c] /\ sess'[c] = s
      BY <1>1, <2>3
    <3>2. binding[s] = NoWorker
      BY <1>1, <2>3 DEF Place
    <3> QED BY <1>1, <2>1, <2>3, <3>1, <3>2 DEF CallPhase, Brings, Has
  <2> QED BY <1>2, <1>6, <2>2, <2>3 DEF PlaceForSession
<1>7. CASE SetWorkerBinding(c)
  <2>1. CASE binding' = [binding EXCEPT ![s] = worker[c]] /\ Goto(c, Placed(c))
             /\ UNCHANGED <<instances, creating>> /\ pc[c] = "bind"
    <3>1. Moved(c, Placed(c)) /\ worker'[c] = binding'[s]
      BY <1>1, <1>3, <2>1 DEF StoreTypeOK
    <3> QED BY <1>1, <2>1, <3>1 DEF Moved, Placed, CallPhase, Brings, Has
  <2> QED BY <1>2, <1>7, <2>1 DEF SetWorkerBinding, At
<1>8. CASE Ready(c)
  <2>1. pc[c] = "ready" /\ worker[c] = binding[s] /\ UNCHANGED <<binding, creating>> /\ op[c] # "create"
    BY <1>1, <1>8 DEF Ready, At, CallPhase, CallShape, storeVars
  <2>2. CASE inst' = [inst EXCEPT ![c] = instances[s]] /\ pc' = [pc EXCEPT ![c] = "have"]
             /\ UNCHANGED <<op, sess, worker, instances>>
    BY <1>1, <2>1, <2>2 DEF CallPhase, Brings, Has
  <2>3. CASE Goto(c, "restore") /\ (forget(s) \/ (UNCHANGED instances /\ instances[s] = NoInst))
    <3>1. instances'[s] = NoInst
      BY <1>1, <2>3 DEF forget, MemTypeOK
    <3> QED BY <1>1, <1>3, <2>1, <2>3, <3>1 DEF Moved, CallPhase, Brings, Has
  <2> QED BY <1>8, <2>2, <2>3 DEF Ready
<1>9. CASE Restore(c)
  <2>1. CASE pc' = [pc EXCEPT ![c] = "provision"] /\ UNCHANGED <<op, sess, worker, inst>>
    BY <1>1, <1>9, <2>1 DEF Restore, At, CallShape, CallPhase, Brings, Has, storeVars
  <2> QED BY <1>2, <1>9, <2>1 DEF Restore
<1>10. CASE Provision(c)
  <2>1. ASSUME NEW i \in Ids, inst' = [inst EXCEPT ![c] = i], pc' = [pc EXCEPT ![c] = "track"],
               UNCHANGED <<op, sess, worker, creating>>, cstate'[i] \in {"up", "dead"}
        PROVE  CallPhase(c)'
    BY <1>1, <1>10, <2>1 DEF Provision, At, CallPhase, Brings, Has, Present, storeVars
  <2>2. ASSUME NEW i \in Ids, Boot(i, worker[c], sess[c], image[c]) PROVE cstate'[i] \in {"up", "dead"}
    BY <2>2 DEF Boot, EnvTypeOK
  <2>3. \A i \in Existing(worker[c], sess[c]) :
          UNCHANGED envVars => i \in Ids /\ cstate'[i] \in {"up", "dead"}
    BY DEF Existing, Present, envVars
  <2> QED BY <1>2, <1>10, <2>1, <2>2, <2>3 DEF Provision
<1>11. CASE Track(c)
  <2>1. instances'[s] = inst[c] /\ UNCHANGED creating
    BY <1>1, <1>11 DEF Track, track, MemTypeOK
  <2> QED BY <1>1, <1>3, <1>11, <2>1 DEF Track, At, Moved, CallPhase, Brings, Has
<1>12. CASE Rehydrate(c)
  <2>1. UNCHANGED <<instances, cstate>> /\ Moved(c, "have") /\ inst'[c] = inst[c]
    BY <1>3, <1>12 DEF Rehydrate, LoadConversation, memVars, envVars
  <2> QED BY <1>1, <1>12, <2>1 DEF Rehydrate, At, Moved, CallShape, CallPhase, Brings, Has
<1>18. CASE StreamEnds(c)
  <2>1. UNCHANGED <<instances, cstate>> /\ Moved(c, "persist") /\ inst'[c] = inst[c]
    BY <1>3, <1>18 DEF StreamEnds, memVars, envVars
  <2> QED BY <1>1, <1>18, <2>1 DEF StreamEnds, At, Moved, CallShape, CallPhase, Brings, Has
<1>13. CASE Post(c)
  <2>1. CASE pc' = [pc EXCEPT ![c] = "turn"] /\ UNCHANGED <<op, sess, worker, inst>>
    <3>1. pc'[c] = "turn" /\ UNCHANGED instances
      BY <1>13, <2>1 DEF Post
    <3>2. ASSUME Return(c) PROVE FALSE
      BY <3>1, <3>2, Returning DEF Returned
    <3>3. cstate[inst[c]] = "up" /\ UNCHANGED cstate
      BY <1>13, <3>2 DEF Post, StartTurn
    <3> QED BY <1>1, <1>13, <2>1, <3>1, <3>3 DEF Post, At, CallPhase, Brings, Has
  <2> QED BY <1>2, <1>13, <2>1 DEF Post
<1>14. CASE Commit(c)
  <2>1. CASE pc' = [pc EXCEPT ![c] = "store"] /\ UNCHANGED <<op, sess, worker, inst>>
    BY <1>1, <1>14, <2>1 DEF Commit, At, CallShape, CallPhase, Brings, Has
  <2> QED BY <1>2, <1>14, <2>1 DEF Commit
<1>15. CASE SetSnapshotHandle(c)
  <2>1. CASE Goto(c, "destroy")
    BY <1>1, <1>3, <1>15, <2>1 DEF SetSnapshotHandle, At, Moved, CallShape, CallPhase, Brings, Has
  <2> QED BY <1>2, <1>15, <2>1 DEF SetSnapshotHandle
<1>16. CASE DestroyInstance(c)
  <2>1. op[c] \notin {"none", "create", "send", "resume"} /\ pc[c] = "destroy"
    BY <1>1, <1>16 DEF DestroyInstance, At, CallShape
  <2>2. \A d \in Actors : sess[d] = s => d = c
    BY <1>1, <2>1, Alone
  <2>3. \A i \in Running(s) : i = instances[s]
    BY <1>1, <2>1, <2>2, OneContainer
  <2>4. CASE instances[s] # NoInst /\ EnvDestroy(instances[s]) /\ Goto(c, "forget")
    <3>1. Running(s)' = {}
      BY <2>3, <2>4 DEF EnvDestroy, Running, Present, EnvTypeOK
    <3> QED BY <1>1, <1>3, <2>1, <2>4, <3>1 DEF Moved, CallPhase, Brings, Has, Running, Present
  <2>5. CASE instances[s] = NoInst /\ Goto(c, "forget") /\ UNCHANGED envVars
    <3>1. Running(s) = {}
      BY <2>3, <2>5, RunnerAssumption DEF Running
    <3>2. Running(s)' = {}
      BY <2>5, <3>1 DEF Running, Present, envVars
    <3> QED BY <1>1, <1>3, <2>1, <2>5, <3>2 DEF Moved, CallPhase, Brings, Has, Running, Present
  <2>6. instances[s] # NoInst => instanceWorkers[s] \in workers
    BY <1>1 DEF Place, Owner
  <2> QED BY <1>2, <1>16, <2>4, <2>5, <2>6 DEF DestroyInstance
<1>17. CASE Resumed(c) \/ Persist(c) \/ PostCreateSession(c) \/ Forget(c)
  BY <1>2, <1>17 DEF Resumed, Persist, PostCreateSession, Forget
<1> HIDE DEF Inv, TypeInv, TypeOK, CallTypeOK
<1> QED BY <1>4, <1>5, <1>6, <1>7, <1>8, <1>9, <1>10, <1>11, <1>12, <1>13, <1>14, <1>15, <1>16,
           <1>17, <1>18 DEF CallStep

LEMMA PhaseKept ==
  ASSUME Inv, [Next]_vars
  PROVE  \A c \in Actors : CallPhase(c)'
<1>1. ASSUME NEW c \in Actors, Restart PROVE CallPhase(c)'
  BY <1>1, RunnerAssumption DEF Restart, LoseMemory, CallPhase
<1>2. ASSUME NEW c \in Actors, ~Restart, Stands(c) PROVE CallPhase(c)'
  <2>1. CASE sess[c] \in Sessions \ excused'
    BY <1>2, <2>1, PhaseStands
  <2>2. CASE sess[c] \notin Sessions \ excused'
    BY <1>2, <2>2 DEF Stands, CallPhase
  <2> QED BY <2>1, <2>2
<1>3. ASSUME NEW c \in Actors, CallStep(c) PROVE CallPhase(c)'
  <2>1. CASE sess[c] \in Sessions \ excused'
    BY <1>3, <2>1, PhaseSteps
  <2>2. CASE sess[c] \notin Sessions \ excused'
    BY <1>3, <2>2, StepMoves, PhaseReturns DEF CallPhase, Inv, TypeInv
  <2> QED BY <2>1, <2>2
<1>4. TypeInv
  BY DEF Inv
<1> QED BY <1>1, <1>2, <1>3, <1>4, EachCall, PhaseReturns, PhaseOpens

\* Only one call moves in a step.
LEMMA OneMoves ==
  ASSUME TypeInv, [Next]_vars, ~Restart, NEW c \in Actors, NEW d \in Actors, c # d
  PROVE  Stands(c) \/ Stands(d)
<1> USE DEF TypeInv
<1>1. ASSUME NEW e, Elsewhere(e) PROVE Stands(c) \/ Stands(d)
  BY <1>1 DEF Elsewhere, Stands
<1>2. ASSUME UNCHANGED callVars PROVE Stands(c) \/ Stands(d)
  BY <1>2 DEF callVars, localVars, Stands
<1>3. ASSUME NEW e \in Actors, CallStep(e) \/ GiveUp(e) \/ Disconnect(e) PROVE Elsewhere(e)
  BY <1>3, StepShape
<1>4. ASSUME NEW e \in Callers, NEW s \in Sessions, Start(e, s) PROVE Elsewhere(e)
  <2>1. \E o, where : Begin(e, s, o, where) /\ UNCHANGED <<worker, inst, image>>
    BY <1>4 DEF Start, MarkCreating, SendMessage, Resume, Destroy, Snapshot, localVars
  <2> QED BY <2>1, Beginning DEF Actors
<1>5. ASSUME NEW s \in Sessions, SweepNext(s) PROVE Elsewhere(Loop) \/ UNCHANGED callVars
  BY <1>5, SweepMoves
<1>6. ASSUME NEW s \in Sessions, GoesStale(s) \/ Stop(s) PROVE UNCHANGED callVars
  BY <1>6 DEF GoesStale, Stop
<1>7. ASSUME NEW i \in Ids, AgentWorks(i) \/ Dies(i) PROVE UNCHANGED callVars
  BY <1>7 DEF AgentWorks, Dies
<1>8. ASSUME NEW w \in Workers, Deregister(w) PROVE UNCHANGED callVars
  BY <1>8 DEF Deregister
<1>9. IdleSessions \/ UNCHANGED vars => UNCHANGED callVars
  BY DEF IdleSessions, vars
<1>10. Callers \subseteq Actors
  BY DEF Actors
<1> HIDE DEF TypeInv
<1> QED BY <1>1, <1>2, <1>3, <1>4, <1>5, <1>6, <1>7, <1>8, <1>9, <1>10 DEF Next

LEMMA WaitsKept ==
  ASSUME Inv, [Next]_vars
  PROVE  \A c, d \in Actors : Waits(c, d)'
<1> USE DEF Inv, TypeInv
<1>1. CASE Restart
  BY <1>1, RunnerAssumption DEF Restart, LoseMemory, Waits
<1>2. ASSUME ~Restart, NEW c \in Actors, NEW d \in Actors, c # d, NEW s \in Sessions \ excused',
             sess'[c] = s, sess'[d] = s, op'[c] = "create", pc'[d] # "await"
      PROVE  instances'[s] # NoInst
  <2>1. s \in Sessions \ excused /\ NoSession \notin Sessions
    BY ExcusedStay, RunnerAssumption
  <2>2. ASSUME op[c] = "create", sess[c] = s, instances[s] # NoInst PROVE instances'[s] # NoInst
    <3>1. ASSUME NEW e \in Actors, Track(e) PROVE inst[e] # NoInst
      BY <3>1 DEF Track, At, CallShape
    <3>2. ASSUME NEW e \in Actors, Forget(e), sess[e] = s PROVE FALSE
      <4>1. op[e] \notin {"none", "create", "send", "resume"}
        BY <3>2 DEF Forget, At, CallShape
      <4> QED BY <2>1, <2>2, <3>2, <4>1, Alone
    <3> QED BY <1>2, <2>1, <2>2, <3>1, <3>2, TrackedHere
  <2>3. CASE Stands(c)
    <3>1. op[c] = "create" /\ sess[c] = s /\ creating[s] /\ life[s] = "creating"
      BY <1>2, <2>1, <2>3 DEF Stands, CallPhase, CallLife
    <3>2. CASE Stands(d)
      BY <1>2, <2>1, <2>2, <3>1, <3>2 DEF Stands, Waits
    <3>3. CASE CallStep(d) /\ ~Returned(d)
      <4>1. sess[d] = s
        BY <1>2, <3>3, StepMoves
      <4>2. CASE pc[d] # "await"
        BY <1>2, <2>1, <2>2, <3>1, <4>1, <4>2 DEF Waits
      <4>3. CASE pc[d] = "await"
        BY <1>2, <2>2, <3>1, <3>3, <4>1, <4>3 DEF CallStep, Await, PullImage, PlaceForSession,
           SetWorkerBinding, Ready, Restore, Provision, Track, Rehydrate, PostCreateSession, Resumed,
           Post, StreamEnds, Persist, Commit, SetSnapshotHandle, DestroyInstance, Forget, At
      <4> QED BY <4>2, <4>3
    <3>4. CASE Returned(d)
      BY <1>2, <2>1, <3>4 DEF Returned
    <3>5. CASE \E t \in Sessions : Opened(d, t)
      <4>1. s \notin crossed'
        BY <1>2, <2>1, CrossedStay
      <4> QED BY <1>2, <3>1, <3>5, <4>1 DEF Opened, Began, MayStart, Busy, CallShape
    <3> QED BY <1>2, <3>2, <3>3, <3>4, <3>5, EachCall
  <2>4. CASE ~Stands(c) /\ Stands(d)
    <3>1. sess[d] = s /\ pc[d] # "await" /\ pc[d] # "idle"
      BY <1>2, <2>1, <2>4 DEF Stands, CallShape
    <3>2. CASE CallStep(c) /\ ~Returned(c)
      <4>1. sess[c] = s /\ op[c] = "create"
        BY <1>2, <3>2, StepMoves
      <4> QED BY <1>2, <2>1, <2>2, <3>1, <4>1 DEF Waits
    <3>3. CASE Returned(c)
      BY <1>2, <3>3 DEF Returned
    <3>4. CASE \E t \in Sessions : Opened(c, t)
      BY <1>2, <3>1, <3>4 DEF Opened, Began, CallLife
    <3> QED BY <1>2, <2>4, <3>2, <3>3, <3>4, EachCall
  <2> QED BY <1>2, <2>3, <2>4, OneMoves
<1>3. ASSUME ~Restart PROVE \A c, d \in Actors : Waits(c, d)'
  BY <1>2, <1>3 DEF Waits
<1> QED BY <1>1, <1>3

----------------------------------------------------------------------------
(* What a session has is where it is bound.                                *)

LEMMA PlaceSteps ==
  ASSUME Inv, [Next]_vars, ~Restart, NEW s \in Sessions \ excused'
  PROVE  Place(s)'
<1> USE DEF Inv, TypeInv
<1>1. s \in Sessions \ excused /\ Place(s) /\ Owner(s)
  BY ExcusedStay
<1>2. ASSUME NEW c \in Actors, SetWorkerBinding(c), sess[c] = s
      PROVE  /\ binding[s] = NoWorker /\ worker[c] \in workers
             /\ UNCHANGED <<instances, instanceWorkers>>
  BY <1>1, <1>2 DEF SetWorkerBinding, At, CallPhase
<1>3. ASSUME NEW c \in Actors, Track(c), sess[c] = s
      PROVE  /\ instances[s] = NoInst /\ worker[c] = binding[s] /\ inst[c] \in Running(s)
             /\ binding'[s] = binding[s] /\ Running(s)' = Running(s)
  BY <1>1, <1>3 DEF Track, At, CallPhase, CallShape, Brings, Running, Present, TypeOK, CallTypeOK,
     storeVars, envVars
<1>4. ASSUME NEW c \in Actors, Forget(c), sess[c] = s PROVE Running(s) = {}
  BY <1>1, <1>4 DEF Forget, At, CallPhase
<1>5. binding'[s] # NoWorker => binding'[s] \in workers'
  <2>1. binding'[s] # NoWorker => binding'[s] \in workers
    BY <1>1, <1>2, Bindings DEF Place
  <2> QED BY <1>1, <1>2, <2>1, Bindings, WorkersStay DEF Place
<1>6. instances'[s] # NoInst => instanceWorkers'[s] = binding'[s]
  <2>1. instances[s] # NoInst => instanceWorkers[s] = binding[s] /\ instanceWorkers[s] # NoWorker
    BY <1>1 DEF Place, Owner
  <2> QED BY <1>1, <1>2, <1>3, <2>1, TrackedHere, Bindings
<1>7. ASSUME NEW i \in Running(s)'
      PROVE  /\ home'[i] = binding'[s]
             /\ instances'[s] = i \/ \E c \in Actors : pc'[c] = "track" /\ inst'[c] = i
  <2>1. i \in Ids
    BY <1>7 DEF Running
  <2>2. CASE i \in Running(s) /\ home'[i] = home[i]
    <3>1. home[i] = binding[s]
      BY <1>1, <2>2 DEF Place
    <3>2. binding[s] # NoWorker
      BY <2>1, <3>1, RunnerAssumption DEF TypeOK, EnvTypeOK
    <3>3. binding'[s] = binding[s]
      BY <1>2, <3>2, Bindings
    <3>4. ASSUME instances[s] = i PROVE instances'[s] = i
      BY <1>1, <1>3, <1>4, <2>1, <2>2, <3>4, TrackedHere, RunnerAssumption
    <3>5. ASSUME NEW c \in Actors, pc[c] = "track", inst[c] = i, sess[c] = s
          PROVE  instances'[s] = i \/ (pc'[c] = "track" /\ inst'[c] = i)
      <4>1. CASE Stands(c)
        BY <3>5, <4>1 DEF Stands
      <4>2. CASE CallStep(c)
        <5>1. Track(c)
          BY <3>5, <4>2 DEF CallStep, Await, PullImage, PlaceForSession, SetWorkerBinding, Ready,
             Restore, Provision, Rehydrate, PostCreateSession, Resumed, Post, StreamEnds, Persist,
             Commit, SetSnapshotHandle, DestroyInstance, Forget, At
        <5> QED BY <3>5, <5>1 DEF Track, track, TypeOK, MemTypeOK
      <4>3. CASE \E t \in Sessions : Opened(c, t)
        BY <3>5, <4>3 DEF Opened, Began
      <4> QED BY <3>5, <4>1, <4>2, <4>3, EachCall
    <3>6. instances[s] = i \/ \E c \in Actors : pc[c] = "track" /\ inst[c] = i /\ sess[c] = s
      BY <1>1, <2>2, OneContainer
    <3> QED BY <2>2, <3>1, <3>3, <3>4, <3>5, <3>6
  <2>3. ASSUME NEW c \in Actors, Provision(c), sess[c] = s, pc'[c] = "track", inst'[c] = i,
               cstate'[i] = "up", home'[i] = worker[c]
        PROVE  home'[i] = binding'[s]
    BY <1>1, <2>3 DEF Provision, At, CallPhase, storeVars
  <2> QED BY <1>7, <2>1, <2>2, <2>3, Containers
<1>8. instances'[s] # NoInst =>
        instances'[s] \in Running(s)' \/ \E c \in Actors : pc'[c] = "forget" /\ sess'[c] = s
  <2>1. ASSUME instances'[s] = instances[s], instances[s] \in Running(s)
        PROVE  instances'[s] \in Running(s)' \/ \E c \in Actors : pc'[c] = "forget" /\ sess'[c] = s
    <3>1. ASSUME NEW c \in Actors, DestroyInstance(c), sess[c] = s, pc'[c] = "forget"
          PROVE  sess'[c] = s
      BY <3>1, StepMoves DEF CallStep, Returned
    <3> QED BY <2>1, <3>1, Containers DEF Running
  <2>2. ASSUME instances'[s] = instances[s], NEW c \in Actors, pc[c] = "forget", sess[c] = s
        PROVE  instances'[s] = NoInst \/ (pc'[c] = "forget" /\ sess'[c] = s)
    <3>1. CASE Stands(c)
      BY <2>2, <3>1 DEF Stands
    <3>2. CASE CallStep(c)
      <4>1. Forget(c)
        BY <2>2, <3>2 DEF CallStep, Await, PullImage, PlaceForSession, SetWorkerBinding, Ready,
           Restore, Provision, Track, Rehydrate, PostCreateSession, Resumed, Post, StreamEnds,
           Persist, Commit, SetSnapshotHandle, DestroyInstance, At
      <4> QED BY <2>2, <4>1 DEF Forget, forget, TypeOK, MemTypeOK
    <3>3. CASE \E t \in Sessions : Opened(c, t)
      BY <2>2, <3>3 DEF Opened, Began
    <3> QED BY <2>2, <3>1, <3>2, <3>3, EachCall
  <2> QED BY <1>1, <1>3, <2>1, <2>2, TrackedHere DEF Place
<1> HIDE DEF Inv, TypeInv
<1> QED BY <1>5, <1>6, <1>7, <1>8 DEF Place

LEMMA PlaceRestarts ==
  ASSUME Inv, Restart, NEW s \in Sessions \ excused'
  PROVE  /\ Place(s)' /\ Running(s)' = {i \in Running(s) : cstate[i] = "up"}
         /\ instances'[s] \notin Running(s)' => Running(s)' = {}
<1> USE DEF Inv, TypeInv, TypeOK
<1>1. s \in Sessions \ excused /\ Place(s)
  BY DEF Restart
<1>2. \A i \in Running(s) : home[i] = binding[s] /\ i \in Ids
  BY <1>1 DEF Place, Running
<1>3. /\ Running(s)' = Survivors(s) /\ Survivors(s) \subseteq Running(s)
      /\ Survivors(s) = {i \in Running(s) : cstate[i] = "up"}
  BY DEF Restart, Reclaim, Running, Present, Survivors, EnvTypeOK
<1>4. PICK found \in [Sessions -> Ids \cup {NoInst}] :
        /\ IF Survivors(s) = {} THEN found[s] = NoInst ELSE found[s] \in Survivors(s)
        /\ instances' = found
        /\ instanceWorkers' =
             [t \in Sessions |-> IF found[t] = NoInst THEN NoWorker ELSE home[found[t]]]
  BY DEF Restart
<1>5. /\ Survivors(s) = {} => instances'[s] = NoInst
      /\ \A i \in Survivors(s) : instances'[s] = i
  BY <1>1, <1>3, <1>4, OneContainer
<1>6. ASSUME instances'[s] # NoInst
      PROVE  instances'[s] \in Survivors(s) /\ instanceWorkers'[s] = binding[s]
  BY <1>2, <1>3, <1>4, <1>5, <1>6
<1>7. UNCHANGED <<binding, home>> /\ workers' = Workers
  BY DEF Restart, Reclaim, LoseMemory
<1>8. binding[s] # NoWorker => binding[s] \in Workers
  BY <1>1 DEF StoreTypeOK
<1> HIDE DEF Inv, TypeInv, TypeOK
<1> QED BY <1>2, <1>3, <1>5, <1>6, <1>7, <1>8 DEF Place

LEMMA PlaceKept ==
  ASSUME Inv, [Next]_vars
  PROVE  \A s \in Sessions : Place(s)'
<1>1. ASSUME NEW s \in Sessions, s \in excused' PROVE Place(s)'
  BY <1>1 DEF Place
<1> QED BY <1>1, PlaceSteps, PlaceRestarts

----------------------------------------------------------------------------
(* The work done for a session is in its container or in its image.        *)

LEMMA HasRunning ==
  ASSUME Inv, NEW s \in Sessions \ excused, NEW c \in Actors, sess[c] = s, Has(c)
  PROVE  inst[c] = instances[s] /\ inst[c] \in Running(s)
<1> USE DEF Inv, TypeInv
<1>1. inst[c] = instances[s] /\ inst[c] # NoInst
  BY DEF CallPhase, Has, CallShape
<1>2. ASSUME NEW d \in Actors, pc[d] = "forget", sess[d] = s PROVE FALSE
  <2>1. op[d] \notin {"none", "create", "send", "resume"}
    BY <1>2 DEF CallShape
  <2> QED BY <1>2, <2>1, Alone DEF Has
<1> QED BY <1>1, <1>2 DEF Place

LEMMA OwedBefore ==
  ASSUME Inv, [Next]_vars, NEW s \in Sessions, Owed(s)'
  PROVE  Owed(s) /\ s \in Sessions \ excused /\ s \in Sessions \ excused'
BY ExcusedStay DEF Inv, Owed

LEMMA WorkSteps ==
  ASSUME Inv, [Next]_vars, ~Restart, NEW s \in Sessions, Owed(s)'
  PROVE  Work(s)'
<1> USE DEF Inv, TypeInv
<1>1. Owed(s) /\ s \in Sessions \ excused /\ s \in Sessions \ excused' /\ Work(s)
  BY OwedBefore
<1>2. ASSUME NEW c \in Actors, Persist(c) \/ SetSnapshotHandle(c) \/ PostCreateSession(c), sess[c] = s
      PROVE  inst[c] = instances[s] /\ inst[c] \in Running(s)
  BY <1>1, <1>2, HasRunning DEF Persist, SetSnapshotHandle, PostCreateSession, At, Has
<1>3. ASSUME NEW c \in Actors, DestroyInstance(c) \/ Forget(c), sess[c] = s
      PROVE  /\ snapshot[s] # NoImage /\ done[s] \subseteq Stored(s)
             /\ UNCHANGED <<snapshot, done>>
  <2>1. op[c] = "archive" /\ pc[c] \in {"destroy", "forget"}
    BY <1>1, <1>3 DEF DestroyInstance, Forget, At, CallShape, CallLife, Owed
  <2> QED BY <1>1, <1>3, <2>1 DEF DestroyInstance, Forget, CallDone, Stored, storeVars, tailVars
<1>4. ASSUME NEW i \in Running(s)'
      PROVE  /\ done'[s] \subseteq files'[i]
             /\ cstate'[i] = "up" \/ (snapshot'[s] # NoImage /\ done'[s] \subseteq snapshot'[s])
  <2>1. i \in Ids
    BY <1>4 DEF Running
  <2>2. ASSUME i \in Running(s), files[i] \subseteq files'[i] PROVE done'[s] \subseteq files'[i]
    <3>1. done[s] \subseteq files[i]
      BY <1>1, <2>2 DEF Work
    <3>2. ASSUME NEW c \in Actors, Persist(c), sess[c] = s PROVE inst[c] = i
      BY <1>1, <1>2, <2>2, <3>2, OneContainer
    <3> QED BY <2>2, <3>1, <3>2, Doing
  <2>3. ASSUME NEW c \in Actors, Provision(c), sess[c] = s, files'[i] = image[c]
        PROVE  done'[s] \subseteq files'[i]
    <3>1. pc[c] = "provision" /\ UNCHANGED done
      BY <2>3 DEF Provision, At, Fails
    <3>2. image[c] = Stored(s) /\ instances[s] = NoInst
      BY <1>1, <2>3, <3>1 DEF CallDone, CallPhase, Brings
    <3>3. instances[s] \notin Running(s)
      BY <3>2, RunnerAssumption DEF Running
    <3> QED BY <1>1, <2>3, <3>1, <3>2, <3>3 DEF Work
  <2>4. ASSUME i \in Running(s), cstate[i] # "up"
        PROVE  snapshot'[s] # NoImage /\ done'[s] \subseteq snapshot'[s]
    <3>1. snapshot[s] # NoImage /\ done[s] \subseteq snapshot[s]
      BY <1>1, <2>4 DEF Work
    <3>2. ASSUME NEW c \in Actors, Persist(c), sess[c] = s PROVE FALSE
      <4>1. inst[c] = i
        BY <1>1, <1>2, <2>4, <3>2, OneContainer
      <4> QED BY <1>1, <2>4, <3>2, <4>1 DEF Persist, At, CallPhase
    <3>3. ASSUME NEW c \in Actors, SetSnapshotHandle(c), sess[c] = s PROVE done[s] \subseteq image[c]
      BY <1>1, <3>3 DEF SetSnapshotHandle, At, CallDone
    <3> QED BY <3>1, <3>2, <3>3, Doing
  <2>5. ASSUME NEW c \in Actors, DestroyInstance(c), sess[c] = s
        PROVE  snapshot'[s] # NoImage /\ done'[s] \subseteq snapshot'[s]
    BY <1>3, <2>5 DEF Stored
  <2> QED BY <1>1, <1>4, <2>1, <2>2, <2>3, <2>4, <2>5, Containers
<1>5. ASSUME instances'[s] \notin Running(s)' PROVE done'[s] \subseteq Stored(s)'
  <2>1. CASE instances[s] \notin Running(s)
    <3>1. done'[s] = done[s] /\ snapshot'[s] = snapshot[s]
      BY <1>2, <2>1, Doing
    <3> QED BY <1>1, <2>1, <3>1 DEF Work, Stored
  <2>2. CASE instances[s] \in Running(s)
    <3>1. ASSUME NEW c \in Actors, Track(c), sess[c] = s PROVE FALSE
      BY <1>1, <2>2, <3>1, RunnerAssumption DEF Track, At, CallPhase, Brings, Running
    <3>2. \E c \in Actors : (DestroyInstance(c) \/ Forget(c)) /\ sess[c] = s
      BY <1>1, <1>5, <2>2, <3>1, TrackedHere, Containers DEF Running
    <3> QED BY <1>3, <3>2 DEF Stored
  <2> QED BY <2>1, <2>2
<1>6. ASSUME life'[s] = "created" PROVE instances'[s] # NoInst \/ snapshot'[s] # NoImage
  <2>1. instances[s] # NoInst \/ snapshot[s] # NoImage
    BY <1>1, <1>2, <1>6, Doing, RunnerAssumption DEF Work, Running
  <2>2. snapshot[s] # NoImage => snapshot'[s] # NoImage
    BY Doing
  <2>3. ASSUME NEW c \in Actors, Track(c) PROVE inst[c] # NoInst
    BY <2>3 DEF Track, At, CallShape
  <2> QED BY <1>1, <1>3, <2>1, <2>2, <2>3, TrackedHere
<1> HIDE DEF Inv, TypeInv
<1> QED BY <1>4, <1>5, <1>6 DEF Work

LEMMA WorkRestarts ==
  ASSUME Inv, Restart, NEW s \in Sessions, Owed(s)'
  PROVE  Work(s)'
<1> USE DEF Inv, TypeInv
<1>1. Owed(s) /\ s \in Sessions \ excused /\ s \in Sessions \ excused' /\ Work(s)
  BY OwedBefore DEF Next
<1>2. UNCHANGED <<files, done, snapshot>> /\ (life'[s] = "created" => life[s] = "created")
  BY DEF Restart, Reclaim, LoseMemory
<1>3. /\ Running(s)' = {i \in Running(s) : cstate[i] = "up"}
      /\ instances'[s] \notin Running(s)' => Running(s)' = {}
  BY <1>1, PlaceRestarts
<1>6. \A i \in Running(s) :
        cstate[i] # "up" => snapshot[s] # NoImage /\ done[s] \subseteq snapshot[s]
  BY <1>1 DEF Work
<1>4. instances'[s] \notin Running(s)' => done[s] \subseteq Stored(s)
  BY <1>1, <1>3, <1>6 DEF Work, Stored
<1>7. \A i \in Running(s)' : done[s] \subseteq files[i] /\ cstate'[i] = "up"
  <2>1. \A i \in Running(s)' : i \in Ids /\ i \in Running(s) /\ cstate[i] = "up"
    BY <1>3 DEF Running
  <2> QED BY <1>1, <2>1 DEF Work, Restart, Reclaim, TypeOK, EnvTypeOK
<1>5. ASSUME life[s] = "created" PROVE instances'[s] # NoInst \/ snapshot[s] # NoImage
  <2>1. instances[s] \in Running(s) => instances'[s] # NoInst \/ snapshot[s] # NoImage
    BY <1>3, <1>6, RunnerAssumption DEF Running
  <2>2. ASSUME NEW c \in Actors, pc[c] = "forget", sess[c] = s PROVE snapshot[s] # NoImage
    BY <1>1, <2>2 DEF CallShape, CallLife, CallDone, Owed
  <2> QED BY <1>1, <1>5, <2>1, <2>2 DEF Work, Place
<1> HIDE DEF Inv, TypeInv
<1> QED BY <1>1, <1>2, <1>4, <1>5, <1>7 DEF Work, Stored

LEMMA DoneSteps ==
  ASSUME Inv, [Next]_vars, ~Restart, NEW s \in Sessions, Owed(s)',
         NEW c \in Actors, sess'[c] = s
  PROVE  CallDone(c)'
<1> USE DEF Inv, TypeInv
<1>1. Owed(s) /\ s \in Sessions \ excused /\ s \in Sessions \ excused' /\ s # NoSession
  BY OwedBefore, RunnerAssumption
<1>2. CASE Stands(c)
  <2>1. sess[c] = s /\ CallDone(c)
    BY <1>2 DEF Stands
  <2>2. ASSUME pc[c] \in {"provision", "store"} \/ (op[c] = "archive" /\ pc[c] \in {"destroy", "forget"}),
               NEW d \in Actors, SetSnapshotHandle(d), sess[d] = s
        PROVE  pc[c] = "store"
    <3>1. op[d] \notin {"none", "create", "send", "resume"} /\ pc[d] = "store"
      BY <2>2 DEF SetSnapshotHandle, At, CallShape
    <3> QED BY <1>1, <2>1, <2>2, <3>1, Alone
  <2>3. ASSUME pc[c] = "store" \/ (op[c] = "archive" /\ pc[c] \in {"destroy", "forget"}),
               NEW d \in Actors, Persist(d), sess[d] = s
        PROVE  FALSE
    <3>1. op[c] \notin {"none", "create", "send", "resume"} /\ pc[d] = "persist"
      BY <2>3 DEF Persist, At, CallShape
    <3> QED BY <1>1, <2>1, <2>3, <3>1, Alone
  <2>4. pc[c] = "provision" => image[c] = Stored(s)'
    BY <1>1, <2>1, <2>2, Doing DEF CallDone, Stored
  <2>5. pc[c] = "store" => done'[s] \subseteq image[c]
    BY <1>1, <2>1, <2>3, Doing DEF CallDone
  <2>6. op[c] = "archive" /\ pc[c] \in {"destroy", "forget"} =>
          snapshot'[s] # NoImage /\ done'[s] \subseteq snapshot'[s]
    BY <1>1, <2>1, <2>2, <2>3, Doing DEF CallDone
  <2> QED BY <1>2, <2>1, <2>4, <2>5, <2>6 DEF Stands, CallDone, Stored
<1>3. CASE CallStep(c)
  <2>1. sess[c] = s /\ ~Returned(c) /\ op'[c] = op[c] /\ CallDone(c) /\ CallShape(c) /\ Elsewhere(c)
    BY <1>1, <1>3, StepMoves, StepShape DEF Returned
  <2>2. ~Return(c) /\ ~Fails(c)
    BY <2>1, Returning
  <2>3. ASSUME NEW where, Goto(c, where) PROVE pc'[c] = where /\ image'[c] = image[c]
    BY <2>3, Going DEF Moved
  <2>4. ASSUME pc'[c] = "provision" PROVE image'[c] = Stored(s)'
    <3>1. CASE Restore(c)
      BY <2>1, <2>2, <3>1 DEF Restore, Stored, storeVars, TypeOK, CallTypeOK
    <3>2. CASE PlaceForSession(c) \/ SetWorkerBinding(c)
      <4>1. op[c] = "create" /\ UNCHANGED snapshot /\ image'[c] = image[c]
        BY <2>2, <2>3, <2>4, <3>2
           DEF PlaceForSession, SetWorkerBinding, Placed, storeVars, TypeOK, CallTypeOK
      <4>2. image[c] = {} /\ snapshot[s] = NoImage
        BY <1>1, <2>1, <4>1 DEF CallShape, CallLife, Life
      <4> QED BY <4>1, <4>2 DEF Stored
    <3> QED BY <1>3, <2>2, <2>3, <2>4, <3>1, <3>2
            DEF CallStep, PullImage, Await, Ready, Provision, Track, Rehydrate, PostCreateSession,
                Resumed, Post, StreamEnds, Persist, Commit, SetSnapshotHandle, DestroyInstance,
                Forget, At, TypeOK, CallTypeOK
  <2>5. ASSUME pc'[c] = "store" PROVE done'[s] \subseteq image'[c]
    <3>1. Commit(c)
      BY <1>3, <2>2, <2>3, <2>5
         DEF CallStep, PullImage, Await, PlaceForSession, SetWorkerBinding, Placed, Ready, Restore,
             Provision, Track, Rehydrate, PostCreateSession, Resumed, Post, StreamEnds, Persist,
             SetSnapshotHandle, DestroyInstance, Forget, At, TypeOK, CallTypeOK
    <3>2. image'[c] = files[inst[c]] /\ UNCHANGED done
      BY <2>2, <3>1 DEF Commit, TypeOK, CallTypeOK
    <3>3. inst[c] \in Running(s)
      BY <1>1, <2>1, <3>1, HasRunning DEF Commit, At, Has
    <3> QED BY <1>1, <3>2, <3>3 DEF Work
  <2>6. ASSUME pc'[c] \in {"destroy", "forget"}, op[c] = "archive"
        PROVE  snapshot'[s] # NoImage /\ done'[s] \subseteq snapshot'[s]
    <3>1. SetSnapshotHandle(c) \/ DestroyInstance(c)
      BY <1>3, <2>2, <2>3, <2>6
         DEF CallStep, PullImage, Await, PlaceForSession, SetWorkerBinding, Placed, Ready, Restore,
             Provision, Track, Rehydrate, PostCreateSession, Resumed, Post, StreamEnds, Persist,
             Commit, Forget, At, TypeOK, CallTypeOK
    <3>2. CASE SetSnapshotHandle(c)
      <4>1. snapshot'[s] = image[c] /\ UNCHANGED done
        BY <2>1, <2>2, <3>2 DEF SetSnapshotHandle, TypeOK, StoreTypeOK
      <4>2. done[s] \subseteq image[c]
        BY <1>1, <2>1, <3>2 DEF SetSnapshotHandle, At, CallDone
      <4>3. image[c] \subseteq Turns /\ 0 \notin Turns /\ 0 \in NoImage
        BY DEF TypeOK, CallTypeOK, Turns, NoImage
      <4> QED BY <4>1, <4>2, <4>3
    <3>3. CASE DestroyInstance(c)
      BY <1>1, <2>1, <2>6, <3>3 DEF DestroyInstance, At, CallDone, storeVars
    <3> QED BY <3>1, <3>2, <3>3
  <2> QED BY <1>1, <2>1, <2>4, <2>5, <2>6 DEF CallDone, Stored
<1>4. CASE Returned(c)
  BY <1>1, <1>4 DEF Returned
<1>5. ASSUME NEW t \in Sessions, Opened(c, t) PROVE CallDone(c)'
  BY <1>5 DEF Opened, Began, CallDone
<1> QED BY <1>2, <1>3, <1>4, <1>5, EachCall

LEMMA WorkKeptOn ==
  ASSUME Inv, [Next]_vars
  PROVE  (\A s \in Sessions : Work(s)') /\ (\A c \in Actors : CallDone(c)')
<1>1. ASSUME NEW s \in Sessions PROVE Work(s)'
  BY WorkSteps, WorkRestarts DEF Work
<1>2. ASSUME NEW c \in Actors PROVE CallDone(c)'
  <2>1. CASE Restart
    BY <2>1, RunnerAssumption DEF Restart, LoseMemory, CallDone
  <2>2. CASE ~Restart
    BY <2>2, DoneSteps DEF CallDone
  <2> QED BY <2>1, <2>2
<1> QED BY <1>1, <1>2

----------------------------------------------------------------------------
(* The theorems.                                                           *)

LEMMA Starts == ASSUME Init PROVE Inv
<1> USE RunnerAssumption DEF Init
<1>1. \A c \in Actors : CallLife(c) /\ CallPhase(c) /\ CallDone(c)
  BY DEF CallLife, CallPhase, CallDone
<1>2. \A c, d \in Actors : Serial(c, d) /\ Waits(c, d)
  BY DEF Serial, Waits
<1>3. \A s \in Sessions : Running(s) = {}
  BY DEF EnvInit, Running, Present
<1>4. \A s \in Sessions : Life(s) /\ Place(s) /\ Work(s)
  BY <1>3 DEF Life, Place, Work
<1> QED BY <1>1, <1>2, <1>4, TypeStarts DEF Inv

LEMMA Kept == ASSUME Inv, [Next]_vars PROVE Inv'
<1>1. TypeInv'
  BY TypesKept DEF Inv
<1>2. (\A c \in Actors : CallLife(c)' /\ CallPhase(c)' /\ CallDone(c)')
      /\ (\A s \in Sessions : Life(s)' /\ Place(s)' /\ Work(s)')
  BY LivesKept, PhaseKept, PlaceKept, WorkKeptOn
<1>3. \A c, d \in Actors : Serial(c, d)' /\ Waits(c, d)'
  BY SerialKept, WaitsKept
<1>4. crossed' \subseteq excused'
  BY CrossedStay, ExcusedStay DEF Inv
<1> QED BY <1>1, <1>2, <1>3, <1>4 DEF Inv

LEMMA Always == Spec => []Inv
BY Starts, Kept, PTL DEF Spec

(***************************************************************************)
(* The work of a finished turn is never lost: it is in the container the   *)
(* Runner tracks or in the image of the snapshot handle, whichever step of *)
(* an archive (Snapshot, then Destroy) or a restore fails or is cut by a   *)
(* restart.                                                                *)
(***************************************************************************)
THEOREM WorkAlwaysKept == Spec => []WorkKept
<1>1. ASSUME Inv PROVE WorkKept
  <2> SUFFICES ASSUME NEW s \in Sessions, Owed(s)
               PROVE  done[s] \subseteq IF instances[s] # NoInst /\ Present(instances[s])
                                          THEN files[instances[s]] ELSE Stored(s)
    BY DEF WorkKept, Stored
  <2>1. Work(s) /\ Owner(s) /\ instances[s] \in Ids \cup {NoInst}
    BY <1>1 DEF Inv, TypeInv, TypeOK, MemTypeOK
  <2>2. instances[s] \in Running(s) <=> instances[s] # NoInst /\ Present(instances[s])
    BY <2>1, RunnerAssumption DEF Owner, Running
  <2> QED BY <2>1, <2>2 DEF Work
<1> QED BY <1>1, Always, PTL

(***************************************************************************)
(* A session that was created is never stranded: ensureRunning finds a     *)
(* container to use or a snapshot handle to restore from.                  *)
(***************************************************************************)
THEOREM AlwaysRecoverable == Spec => []Recoverable
<1>1. Inv => Recoverable
  BY DEF Inv, Work, Recoverable
<1> QED BY <1>1, Always, PTL

(***************************************************************************)
(* A message that meets a create under way waits (awaitCreateSettled) and  *)
(* does not fall into a restore that must fail.                            *)
(***************************************************************************)
THEOREM NeverSpurious == Spec => []NoSpuriousRestore
<1>1. ASSUME Inv, NEW c \in Actors, pc[c] = "restore", snapshot[sess[c]] = NoImage,
             life[sess[c]] \notin {"failed", "deleted"}, sess[c] \notin excused
      PROVE  FALSE
  <2>1. sess[c] \in Sessions \ excused /\ op[c] # "create"
    BY <1>1 DEF Inv, TypeInv, TypeOK, CallTypeOK, CallShape
  <2>2. instances[sess[c]] = NoInst /\ life[sess[c]] # "new"
    BY <1>1, <2>1 DEF Inv, CallPhase, CallLife, Brings
  <2>3. life[sess[c]] # "created"
    BY <1>1, <2>1, <2>2 DEF Inv, Work, Owed
  <2>4. life[sess[c]] # "creating"
    BY <1>1, <2>1, <2>2 DEF Inv, Life, Waits
  <2> QED BY <1>1, <2>1, <2>2, <2>3, <2>4 DEF Inv, TypeInv, TypeOK, TailTypeOK
<1>2. Inv => NoSpuriousRestore
  BY <1>1 DEF NoSpuriousRestore, At
<1> QED BY <1>2, Always, PTL

(***************************************************************************)
(* No container runs that nobody will ever archive or destroy: Start tracks*)
(* what Recover returns, Destroy forgets only what it removed.             *)
(***************************************************************************)
THEOREM NeverStray == Spec => []NoStray
<1>1. Inv => NoStray
  BY DEF Inv, TypeInv, TypeOK, EnvTypeOK, Place, Running, Present, NoStray, At
<1> QED BY <1>1, Always, PTL

----------------------------------------------------------------------------
(* The query counter.  Until the host restarts, which resets it, a query   *)
(* has a number of its own, and the numbers given are no more than the     *)
(* messages sent: a message is posted at most once.                        *)

Streaming(c) == pc[c] \in {"turn", "persist"}

\* The turns of messages that have no query number yet.
ToPost == {turn[c] : c \in {d \in Actors : op[d] = "send" /\ ~Streaming(d)}}

\* Every message is a turn of its own.
Turned ==
  /\ \A c \in Actors : op[c] = "send" => turn[c] \in 1..sends
  /\ \A c, d \in Actors : op[c] = "send" /\ op[d] = "send" /\ c # d => turn[c] # turn[d]

Numbered ==
  /\ Turned
  /\ seq + Cardinality(ToPost) <= sends
  /\ \A c \in Actors : Streaming(c) => query[c] \in 1..seq
  /\ \A c, d \in Actors : Streaming(c) /\ Streaming(d) /\ c # d => query[c] # query[d]
  /\ \A s \in Sessions, q \in Queries : events[s][q] # 0 =>
       q <= seq /\ \A c \in Actors : Streaming(c) => query[c] # q

\* A send that goes on has its turn and its query.
Goes(c) ==
  op'[c] = "send" => /\ op[c] = "send" /\ turn'[c] = turn[c] /\ query'[c] = query[c]
                     /\ Streaming(c)' <=> Streaming(c)

\* What the calls but c have of their own stays.
Apart(c) == \A d \in Actors : d # c => turn'[d] = turn[d] /\ query'[d] = query[d]

\* The restarts only become more.
LEMMA RestartsCounted ==
  ASSUME crashes \in Nat, [Next]_vars
  PROVE  crashes' \in Nat /\ (crashes' = 0 => crashes = 0 /\ ~Restart)
<1>1. ASSUME Restart PROVE crashes' = crashes + 1
  BY <1>1 DEF Restart
<1>2. ASSUME NEW c \in Actors, CallStep(c) \/ GiveUp(c) \/ Disconnect(c) PROVE UNCHANGED crashes
  BY <1>2 DEF CallStep, GiveUp, Disconnect, PullImage, Await, PlaceForSession, SetWorkerBinding,
     Ready, Restore, Provision, Track, Rehydrate, PostCreateSession, Resumed, Post, StreamEnds,
     Persist, Commit, SetSnapshotHandle, DestroyInstance, Forget, Fault, tailVars, pastVars, countVars
<1>3. ASSUME NEW c \in Callers, NEW t \in Sessions, Start(c, t) PROVE UNCHANGED crashes
  BY <1>3 DEF Start, MarkCreating, SendMessage, Resume, Snapshot, Destroy, tailVars, pastVars, countVars
<1>4. ASSUME NEW t \in Sessions, SweepNext(t) \/ GoesStale(t) \/ Stop(t) PROVE UNCHANGED crashes
  BY <1>4 DEF SweepNext, GoesStale, Stop, tailVars, pastVars, countVars
<1>5. ASSUME NEW i \in Ids, AgentWorks(i) \/ Dies(i) PROVE UNCHANGED crashes
  BY <1>5 DEF AgentWorks, Dies, tailVars, pastVars, countVars
<1>6. ASSUME NEW w \in Workers, Deregister(w) PROVE UNCHANGED crashes
  BY <1>6 DEF Deregister
<1>7. IdleSessions \/ UNCHANGED vars => UNCHANGED crashes
  BY DEF IdleSessions, vars, tailVars, pastVars, countVars
<1>8. Callers \subseteq Actors
  BY DEF Actors
<1>9. Restart \/ UNCHANGED crashes
  BY <1>2, <1>3, <1>4, <1>5, <1>6, <1>7, <1>8 DEF Next
<1>10. crashes' = crashes \/ crashes' = crashes + 1
  BY <1>1, <1>9
<1>11. Restart => crashes' # 0
  BY <1>1
<1> QED BY <1>10, <1>11

\* The steps that change numbers, turns or events.
LEMMA Counting ==
  ASSUME TypeInv, [Next]_vars, ~Restart
  PROVE  \/ \E c \in Actors, s \in Sessions : SendMessage(c, s)
         \/ \E c \in Actors : Post(c) \/ Persist(c)
         \/ UNCHANGED <<seq, sends, events, done>> /\ \A d \in Actors : Goes(d)
<1> USE DEF TypeInv, TypeOK, CallTypeOK
<1> DEFINE Calm == UNCHANGED <<seq, sends, events, done>> /\ \A d \in Actors : Goes(d)
           Counts == UNCHANGED <<seq, sends, events, done>>
<1>1. ASSUME NEW c \in Actors, Elsewhere(c), Apart(c), Goes(c) PROVE \A d \in Actors : Goes(d)
  BY <1>1 DEF Elsewhere, Apart, Goes, Streaming
<1>2. ASSUME NEW c \in Actors, Return(c) \/ Fails(c) PROVE Apart(c) /\ Goes(c)
  BY <1>2 DEF Return, Fails, Apart, Goes
<1>3. ASSUME NEW c \in Actors, NEW where, Goto(c, where),
             Streaming(c) <=> where \in {"turn", "persist"}
      PROVE  Apart(c) /\ Goes(c)
  BY <1>3 DEF Goto, Apart, Goes, Streaming, localVars
<1>4. ASSUME NEW c \in Actors, UNCHANGED <<op, turn, query>>, Streaming(c)' <=> Streaming(c)
      PROVE  Apart(c) /\ Goes(c)
  BY <1>4 DEF Apart, Goes
<1>5. ASSUME NEW c \in Actors, Await(c) \/ PullImage(c) \/ SetWorkerBinding(c) \/ Track(c)
                               \/ Rehydrate(c) \/ StreamEnds(c) \/ SetSnapshotHandle(c)
                               \/ DestroyInstance(c)
      PROVE  Apart(c) /\ Goes(c)
  <2>1. Return(c) \/ Fails(c) \/ \E where : Goto(c, where) /\ (Streaming(c) <=> where \in {"turn", "persist"})
    BY <1>5 DEF Await, PullImage, SetWorkerBinding, Track, Rehydrate, StreamEnds,
                SetSnapshotHandle, DestroyInstance, At, Streaming, Placed
  <2> QED BY <2>1, <1>2, <1>3
<1>6. ASSUME NEW c \in Actors, Resumed(c) \/ PostCreateSession(c) \/ Forget(c) \/ GiveUp(c)
                               \/ Disconnect(c)
      PROVE  Apart(c) /\ Goes(c)
  BY <1>2, <1>6 DEF Resumed, PostCreateSession, Forget, GiveUp, Disconnect
<1>7. ASSUME NEW c \in Actors, PlaceForSession(c) \/ Ready(c) \/ Restore(c) \/ Provision(c) \/ Commit(c)
      PROVE  Apart(c) /\ Goes(c)
  <2>1. ASSUME NEW where, pc' = [pc EXCEPT ![c] = where], UNCHANGED <<op, turn, query>>,
               where \notin {"turn", "persist"}, ~Streaming(c)
        PROVE  Apart(c) /\ Goes(c)
    BY <1>4, <2>1 DEF Streaming
  <2>2. ~Streaming(c)
    BY <1>7 DEF PlaceForSession, Ready, Restore, Provision, Commit, At, Streaming
  <2>3. CASE PlaceForSession(c)
    BY <1>2, <2>1, <2>2, <2>3 DEF PlaceForSession, Placed
  <2>4. CASE Ready(c)
    BY <1>3, <2>1, <2>2, <2>4 DEF Ready
  <2>5. CASE Restore(c)
    BY <1>2, <2>1, <2>2, <2>5 DEF Restore
  <2>6. CASE Provision(c)
    BY <1>2, <2>1, <2>2, <2>6 DEF Provision
  <2>7. CASE Commit(c)
    BY <1>2, <2>1, <2>2, <2>7 DEF Commit
  <2> QED BY <1>7, <2>3, <2>4, <2>5, <2>6, <2>7
<1>8. ASSUME NEW c \in Actors, CallStep(c) \/ GiveUp(c) \/ Disconnect(c), ~Post(c), ~Persist(c)
      PROVE  Calm
  <2>1. Apart(c) /\ Goes(c)
    BY <1>5, <1>6, <1>7, <1>8 DEF CallStep
  <2>2. Counts
    BY <1>8 DEF CallStep, GiveUp, Disconnect, PullImage, Await, PlaceForSession, SetWorkerBinding,
       Ready, Restore, Provision, Track, Rehydrate, PostCreateSession, Resumed, StreamEnds,
       Commit, SetSnapshotHandle, DestroyInstance, Forget, Fault, Fails, flowVars, storeVars,
       tailVars, pastVars, countVars
  <2> QED BY <1>1, <1>8, <2>1, <2>2, StepShape
<1>9. ASSUME NEW c \in Actors, NEW s \in Sessions, NEW o, NEW where, Begin(c, s, o, where),
             o # "send", UNCHANGED localVars
      PROVE  \A d \in Actors : Goes(d)
  BY <1>9 DEF Begin, Goes, Streaming, localVars
<1>10. ASSUME NEW c \in Callers, NEW s \in Sessions, Start(c, s), ~SendMessage(c, s) PROVE Calm
  <2>1. c \in Actors
    BY DEF Actors
  <2>2. \E o, where : Begin(c, s, o, where) /\ o # "send" /\ UNCHANGED localVars
    BY <1>10 DEF Start, MarkCreating, Resume, Destroy, Snapshot
  <2>3. Counts
    BY <1>10 DEF Start, MarkCreating, Resume, Destroy, Snapshot, flowVars, storeVars, tailVars,
                 pastVars, countVars
  <2> QED BY <1>9, <2>1, <2>2, <2>3
<1>11. ASSUME UNCHANGED callVars PROVE \A d \in Actors : Goes(d)
  BY <1>11 DEF callVars, localVars, Goes, Streaming
<1>12. ASSUME NEW s \in Sessions, SweepNext(s) PROVE Calm
  <2>1. Loop \in Actors
    BY DEF Actors
  <2>2. \A d \in Actors : Goes(d)
    BY <1>9, <1>11, <1>12, <2>1 DEF SweepNext
  <2>3. Counts
    BY <1>12 DEF SweepNext, storeVars, tailVars, pastVars, countVars
  <2> QED BY <2>2, <2>3
<1>13. ASSUME NEW s \in Sessions, GoesStale(s) \/ Stop(s) PROVE Calm
  BY <1>11, <1>13 DEF GoesStale, Stop, flowVars, storeVars, tailVars, pastVars, countVars
<1>14. ASSUME NEW i \in Ids, AgentWorks(i) \/ Dies(i) PROVE Calm
  BY <1>11, <1>14 DEF AgentWorks, Dies, flowVars, storeVars, tailVars, pastVars, countVars
<1>15. ASSUME NEW w \in Workers, Deregister(w) PROVE Calm
  BY <1>11, <1>15 DEF Deregister, flowVars
<1>16. IdleSessions \/ UNCHANGED vars => Calm
  BY <1>11 DEF IdleSessions, vars, flowVars, storeVars, tailVars, pastVars, countVars
<1>17. Callers \subseteq Actors
  BY DEF Actors
<1> HIDE DEF TypeInv, Calm
<1>18. \/ \E c \in Actors, s \in Sessions : SendMessage(c, s)
       \/ \E c \in Actors : Post(c) \/ Persist(c)
       \/ Calm
  BY <1>8, <1>10, <1>12, <1>13, <1>14, <1>15, <1>16, <1>17 DEF Next
<1> QED BY <1>18 DEF Calm

\* A message is given its turn when it is sent, and keeps it.
LEMMA TurnSends ==
  ASSUME TypeInv, Turned, NEW c \in Actors, NEW s \in Sessions, SendMessage(c, s)
  PROVE  Turned'
<1>1. sends \in Nat /\ op \in [Actors -> Ops] /\ turn \in [Actors -> Turns \cup {0}]
  BY ExecEnvAssumption DEF TypeInv, TypeOK, CallTypeOK, TailTypeOK
<1>2. /\ turn'[c] = sends + 1 /\ sends' = sends + 1
      /\ \A d \in Actors : d # c => op'[d] = op[d] /\ turn'[d] = turn[d]
  BY <1>1 DEF SendMessage, Begin
<1> QED BY <1>1, <1>2 DEF Turned

LEMMA TurnsStay ==
  ASSUME Turned, UNCHANGED sends,
         \A d \in Actors : op'[d] = "send" => op[d] = "send" /\ turn'[d] = turn[d]
  PROVE  Turned'
BY DEF Turned

LEMMA TurnsKept ==
  ASSUME TypeInv, Turned, [Next]_vars
  PROVE  Turned'
<1>1. ASSUME NEW c \in Actors, Post(c)
      PROVE  /\ UNCHANGED sends
             /\ \A d \in Actors : op'[d] = "send" => op[d] = "send" /\ turn'[d] = turn[d]
  BY <1>1 DEF TypeInv, TypeOK, CallTypeOK, Post, Return, tailVars, pastVars, countVars
<1>2. ASSUME NEW c \in Actors, Persist(c)
      PROVE  /\ UNCHANGED sends
             /\ \A d \in Actors : op'[d] = "send" => op[d] = "send" /\ turn'[d] = turn[d]
  BY <1>2 DEF TypeInv, TypeOK, CallTypeOK, Persist, Return, Fault, pastVars, countVars
<1>3. CASE Restart
  BY <1>3 DEF Restart, LoseMemory, Turned
<1> QED BY <1>1, <1>2, <1>3, Counting, TurnSends, TurnsStay DEF Goes

LEMMA FewToPost ==
  ASSUME TypeInv, Numbered
  PROVE  IsFiniteSet(ToPost) /\ Cardinality(ToPost) \in Nat /\ seq <= sends
<1>1. sends \in Nat /\ seq \in Nat
  BY ExecEnvAssumption DEF TypeInv, TypeOK, TailTypeOK, MemTypeOK
<1>2. ToPost \subseteq 1..sends
  BY DEF Numbered, Turned, ToPost
<1>3. IsFiniteSet(1..sends)
  BY <1>1, FS_Interval
<1>4. IsFiniteSet(ToPost) /\ Cardinality(ToPost) \in Nat
  BY <1>2, <1>3, FS_Subset, FS_CardinalityType
<1> QED BY <1>1, <1>4 DEF Numbered

LEMMA NumberSends ==
  ASSUME TypeInv, Numbered, NEW c \in Actors, NEW s \in Sessions, SendMessage(c, s), TypeInv'
  PROVE  Numbered'
<1>1. /\ sends \in Nat /\ seq \in Nat
      /\ pc \in [Actors -> Places] /\ op \in [Actors -> Ops]
      /\ turn \in [Actors -> Turns \cup {0}] /\ query \in [Actors -> Nat]
  BY ExecEnvAssumption DEF TypeInv, TypeOK, CallTypeOK, MemTypeOK, TailTypeOK
<1>a. IsFiniteSet(ToPost) /\ Cardinality(ToPost) \in Nat /\ seq <= sends
  BY FewToPost
<1>b. \A t :
              /\ t \in ToPost <=> \E d \in Actors : op[d] = "send" /\ ~Streaming(d) /\ turn[d] = t
              /\ t \in ToPost' <=> \E d \in Actors : op'[d] = "send" /\ ~Streaming(d)' /\ turn'[d] = t
  BY DEF ToPost
<1>2. /\ op[c] = "none" /\ ~Streaming(c) /\ op'[c] = "send" /\ ~Streaming(c)'
      /\ turn'[c] = sends + 1 /\ sends' = sends + 1 /\ UNCHANGED <<seq, events, query>>
  BY <1>1 DEF TypeInv, SendMessage, Begin, At, CallShape, Streaming, flowVars, storeVars
<1>3. \A d \in Actors : d # c =>
        op'[d] = op[d] /\ turn'[d] = turn[d] /\ (Streaming(d)' <=> Streaming(d))
  BY <1>1 DEF SendMessage, Begin, Streaming
<1>4. ToPost' = ToPost \cup {sends + 1}
  BY <1>b, <1>2, <1>3
<1>5. Cardinality(ToPost') <= Cardinality(ToPost) + 1
  <2>1. Cardinality(ToPost \cup {sends + 1})
          = IF sends + 1 \in ToPost THEN Cardinality(ToPost) ELSE Cardinality(ToPost) + 1
    BY <1>a, FS_AddElement
  <2> QED BY <1>a, <1>4, <2>1
<1>6. IsFiniteSet(ToPost') /\ Cardinality(ToPost') \in Nat
  BY <1>a, <1>4, FS_AddElement, FS_CardinalityType
<1>7. Turned'
  BY TurnSends DEF Numbered
<1>9. seq' + Cardinality(ToPost') <= sends'
  BY <1>a, <1>1, <1>2, <1>5, <1>6 DEF Numbered
<1>10. \A d \in Actors : Streaming(d)' => Streaming(d)
  BY <1>2, <1>3
<1>11. \A t \in Sessions, q \in Queries : events'[t][q] # 0 =>
         q <= seq' /\ \A d \in Actors : Streaming(d)' => query'[d] # q
  BY <1>2, <1>10 DEF Numbered
<1>12. /\ \A d \in Actors : Streaming(d)' => query'[d] \in 1..seq'
       /\ \A d, e \in Actors : Streaming(d)' /\ Streaming(e)' /\ d # e => query'[d] # query'[e]
  BY <1>2, <1>10 DEF Numbered
<1> QED BY <1>7, <1>9, <1>11, <1>12, <1>4 DEF Numbered, ToPost

LEMMA NumberPosts ==
  ASSUME TypeInv, Numbered, NEW c \in Actors, Post(c)
  PROVE  Numbered'
<1>1. /\ sends \in Nat /\ seq \in Nat
      /\ pc \in [Actors -> Places] /\ op \in [Actors -> Ops]
      /\ turn \in [Actors -> Turns \cup {0}] /\ query \in [Actors -> Nat]
  BY ExecEnvAssumption DEF TypeInv, TypeOK, CallTypeOK, MemTypeOK, TailTypeOK
<1>a. IsFiniteSet(ToPost) /\ Cardinality(ToPost) \in Nat /\ seq <= sends
  BY FewToPost
<1>b. \A t :
              /\ t \in ToPost <=> \E d \in Actors : op[d] = "send" /\ ~Streaming(d) /\ turn[d] = t
              /\ t \in ToPost' <=> \E d \in Actors : op'[d] = "send" /\ ~Streaming(d)' /\ turn'[d] = t
  BY DEF ToPost
<1>2. /\ op[c] = "send" /\ ~Streaming(c) /\ seq' = seq + 1 /\ UNCHANGED <<sends, events>>
      /\ \/ op'[c] = "send" /\ Streaming(c)' /\ turn'[c] = turn[c] /\ query'[c] = seq + 1
         \/ op'[c] = "none" /\ ~Streaming(c)'
  BY <1>1 DEF Post, At, Streaming, Return, storeVars, tailVars, pastVars, countVars
<1>3. \A d \in Actors : d # c => /\ op'[d] = op[d] /\ turn'[d] = turn[d] /\ query'[d] = query[d]
                                 /\ Streaming(d)' <=> Streaming(d)
  BY <1>1 DEF Post, Streaming, Return
<1>4. turn[c] \in ToPost
  BY <1>b, <1>2
<1>5. ToPost' \subseteq ToPost \ {turn[c]}
  BY <1>b, <1>2, <1>3 DEF Numbered, Turned
<1>6. /\ IsFiniteSet(ToPost \ {turn[c]})
      /\ Cardinality(ToPost \ {turn[c]}) = Cardinality(ToPost) - 1
  BY <1>a, <1>4, FS_RemoveElement
<1>7. /\ IsFiniteSet(ToPost') /\ Cardinality(ToPost') \in Nat
      /\ Cardinality(ToPost') <= Cardinality(ToPost) - 1
  BY <1>5, <1>6, FS_Subset, FS_CardinalityType
<1>8. \A d \in Actors : op'[d] = "send" => op[d] = "send" /\ turn'[d] = turn[d]
  BY <1>2, <1>3
<1>9. Turned'
  BY <1>2, <1>8, TurnsStay DEF Numbered
<1>11. seq' + Cardinality(ToPost') <= sends'
  BY <1>a, <1>1, <1>2, <1>7 DEF Numbered
<1>12. \A d \in Actors : Streaming(d)' =>
         \/ query'[d] = seq + 1 /\ d = c
         \/ query'[d] \in 1..seq /\ d # c /\ Streaming(d) /\ query'[d] = query[d]
  <2> TAKE d \in Actors
  <2> HAVE Streaming(d)'
  <2>1. CASE d = c
    BY <1>1, <1>2, <2>1
  <2>2. CASE d # c
    <3>1. Streaming(d) /\ query'[d] = query[d]
      BY <1>3, <2>2
    <3>2. query[d] \in 1..seq
      BY <3>1 DEF Numbered
    <3> QED BY <2>2, <3>1, <3>2
  <2> QED BY <2>1, <2>2
<1>13. \A d \in Actors : Streaming(d)' => query'[d] \in 1..seq'
  BY <1>1, <1>2, <1>12
<1>14. \A d, e \in Actors : Streaming(d)' /\ Streaming(e)' /\ d # e => query'[d] # query'[e]
  BY <1>1, <1>12 DEF Numbered
<1>15. \A t \in Sessions, q \in Queries : events'[t][q] # 0 =>
         q <= seq' /\ \A d \in Actors : Streaming(d)' => query'[d] # q
  <2> TAKE t \in Sessions, q \in Queries
  <2> HAVE events'[t][q] # 0
  <2>1. q <= seq /\ q \in Nat /\ \A d \in Actors : Streaming(d) => query[d] # q
    BY <1>2 DEF Numbered, Queries
  <2> QED BY <1>1, <1>2, <1>12, <2>1
<1> QED BY <1>9, <1>11, <1>13, <1>14, <1>15 DEF Numbered, ToPost

LEMMA NumberPersists ==
  ASSUME TypeInv, Numbered, NEW c \in Actors, Persist(c)
  PROVE  /\ Numbered'
         /\ EventsKept => EventsKept'
<1>1. /\ sends \in 0..MaxSends /\ seq \in Nat /\ MaxSends \in Nat
      /\ pc \in [Actors -> Places] /\ op \in [Actors -> Ops]
      /\ turn \in [Actors -> Turns \cup {0}] /\ query \in [Actors -> Nat]
      /\ events \in [Sessions -> [Queries -> Turns \cup {0}]]
      /\ done \in [Sessions -> SUBSET Turns]
  BY ExecEnvAssumption DEF TypeInv, TypeOK, CallTypeOK, MemTypeOK, TailTypeOK, StoreTypeOK, TailTypeOK
<1>a. IsFiniteSet(ToPost) /\ Cardinality(ToPost) \in Nat /\ seq <= sends
  BY FewToPost
<1>b. \A t :
              /\ t \in ToPost <=> \E d \in Actors : op[d] = "send" /\ ~Streaming(d) /\ turn[d] = t
              /\ t \in ToPost' <=> \E d \in Actors : op'[d] = "send" /\ ~Streaming(d)' /\ turn'[d] = t
  BY DEF ToPost
<1>2. /\ Streaming(c) /\ op[c] = "send" /\ op'[c] = "none" /\ ~Streaming(c)'
      /\ UNCHANGED <<seq, sends>> /\ sess[c] \in Sessions
  BY <1>1
  DEF TypeInv, TypeOK, CallTypeOK, Persist, At, Streaming, Return, CallShape, Fault, pastVars,
      countVars
<1>3. \A d \in Actors : d # c => /\ op'[d] = op[d] /\ turn'[d] = turn[d] /\ query'[d] = query[d]
                                 /\ Streaming(d)' <=> Streaming(d)
  BY <1>1 DEF Persist, Streaming, Return
<1>4. ToPost' = ToPost
  <2>1. \A d \in Actors : /\ op'[d] = "send" /\ ~Streaming(d)' <=> op[d] = "send" /\ ~Streaming(d)
                          /\ op[d] = "send" /\ ~Streaming(d) => turn'[d] = turn[d]
    BY <1>2, <1>3
  <2>2. \A t : t \in ToPost' <=> t \in ToPost
    BY <1>b, <2>1, Zenon
  <2> QED BY <2>2
<1>5. \A d \in Actors : Streaming(d)' => d # c /\ Streaming(d) /\ query'[d] = query[d]
  BY <1>2, <1>3
<1>6. query[c] \in 1..seq /\ query[c] \in Queries /\ turn[c] # 0
  BY <1>a, <1>1, <1>2 DEF Numbered, Turned, Queries
<1>7. \/ UNCHANGED <<events, done>>
      \/ /\ events' = [events EXCEPT ![sess[c]][query[c]] = turn[c]]
         /\ done' = [done EXCEPT ![sess[c]] =
                      IF turn[c] \in files[inst[c]] THEN @ \cup {turn[c]} ELSE @]
  BY DEF Persist
<1>8. \A t \in Sessions, q \in Queries :
        \/ events'[t][q] = events[t][q]
        \/ t = sess[c] /\ q = query[c] /\ events'[t][q] = turn[c]
  BY <1>1, <1>7
<1>9. \A t \in Sessions, q \in Queries : events'[t][q] # 0 =>
        q <= seq' /\ \A d \in Actors : Streaming(d)' => query'[d] # q
  <2> TAKE t \in Sessions, q \in Queries
  <2> HAVE events'[t][q] # 0
  <2>1. CASE events[t][q] # 0
    BY <1>2, <1>5, <2>1 DEF Numbered
  <2>2. CASE q = query[c]
    BY <1>1, <1>2, <1>5, <1>6, <2>2 DEF Numbered
  <2> QED BY <1>8, <2>1, <2>2
<1>10. Numbered'
  <2>1. \A d \in Actors : op'[d] = "send" => op[d] = "send" /\ turn'[d] = turn[d]
    BY <1>2, <1>3
  <2>2. Turned'
    BY <1>2, <2>1, TurnsStay DEF Numbered
  <2>3. /\ \A d \in Actors : Streaming(d)' => query'[d] \in 1..seq'
        /\ \A d, e \in Actors : Streaming(d)' /\ Streaming(e)' /\ d # e => query'[d] # query'[e]
    BY <1>2, <1>5 DEF Numbered
  <2>4. seq' + Cardinality(ToPost') <= sends'
    BY <1>2, <1>4 DEF Numbered
  <2> QED BY <1>9, <2>2, <2>3, <2>4 DEF Numbered, ToPost
<1>11. ASSUME EventsKept, NEW s \in Sessions, NEW t \in done'[s] PROVE t \in Persisted(s)'
  <2>1. CASE t \in done[s]
    <3>1. PICK q \in Queries : events[s][q] = t /\ t # 0
      BY <1>11, <2>1 DEF EventsKept, Persisted
    <3>2. q # query[c]
      BY <1>2, <3>1 DEF Numbered
    <3>3. events'[s][q] = t
      BY <1>8, <3>1, <3>2
    <3> QED BY <3>1, <3>3 DEF Persisted
  <2>2. CASE t \notin done[s]
    <3>1. /\ events' = [events EXCEPT ![sess[c]][query[c]] = turn[c]]
          /\ s = sess[c] /\ t = turn[c]
      BY <1>1, <1>7, <1>11, <2>2
    <3>2. events'[s][query[c]] = t
      BY <1>1, <1>2, <1>6, <3>1
    <3> QED BY <1>6, <3>1, <3>2 DEF Persisted
  <2> QED BY <2>1, <2>2
<1> QED BY <1>10, <1>11 DEF EventsKept

LEMMA NumberCalm ==
  ASSUME TypeInv, TypeInv', Numbered, UNCHANGED <<seq, sends, events>>, \A d \in Actors : Goes(d)
  PROVE  Numbered'
<1>1. sends \in Nat /\ seq \in Nat
  BY ExecEnvAssumption DEF TypeInv, TypeOK, TailTypeOK, MemTypeOK
<1>2. \A d \in Actors : op'[d] = "send" => op[d] = "send" /\ turn'[d] = turn[d]
  BY DEF Goes
<1>3. \A d \in Actors : Streaming(d)' => op'[d] = "send"
  BY DEF TypeInv, CallShape, Streaming
<1>4. \A d \in Actors : Streaming(d)' => Streaming(d) /\ query'[d] = query[d]
  BY <1>3 DEF Goes
<1>5. ToPost' \subseteq ToPost
  BY DEF Goes, ToPost
<1>6. Cardinality(ToPost') \in Nat /\ Cardinality(ToPost') <= Cardinality(ToPost)
  BY <1>5, FewToPost, FS_Subset, FS_CardinalityType
<1>7. seq' + Cardinality(ToPost') <= sends'
  BY <1>1, <1>6, FewToPost DEF Numbered
<1>8. Turned'
  BY <1>2, TurnsStay DEF Numbered
<1>9. /\ \A d \in Actors : Streaming(d)' => query'[d] \in 1..seq'
      /\ \A d, e \in Actors : Streaming(d)' /\ Streaming(e)' /\ d # e => query'[d] # query'[e]
  BY <1>4 DEF Numbered
<1>10. \A s \in Sessions, q \in Queries : events'[s][q] # 0 =>
         q <= seq' /\ \A d \in Actors : Streaming(d)' => query'[d] # q
  BY <1>4 DEF Numbered
<1> QED BY <1>7, <1>8, <1>9, <1>10 DEF Numbered, ToPost

LEMMA NumbersKept ==
  ASSUME TypeInv, Numbered, EventsKept, [Next]_vars, ~Restart
  PROVE  Numbered' /\ EventsKept'
<1>1. TypeInv'
  BY TypesKept
<1>2. ASSUME UNCHANGED <<events, done>> PROVE EventsKept'
  BY <1>2 DEF EventsKept, Persisted
<1>3. ASSUME NEW c \in Actors, NEW s \in Sessions, SendMessage(c, s)
      PROVE  Numbered' /\ EventsKept'
  BY <1>1, <1>2, <1>3, NumberSends DEF SendMessage, storeVars
<1>4. ASSUME NEW c \in Actors, Post(c) PROVE Numbered' /\ EventsKept'
  BY <1>2, <1>4, NumberPosts DEF Post, storeVars, tailVars
<1>5. ASSUME NEW c \in Actors, Persist(c) PROVE Numbered' /\ EventsKept'
  BY <1>5, NumberPersists
<1>6. CASE UNCHANGED <<seq, sends, events, done>> /\ \A d \in Actors : Goes(d)
  BY <1>1, <1>2, <1>6, NumberCalm
<1> QED BY <1>3, <1>4, <1>5, <1>6, Counting

(***************************************************************************)
(* The events of every finished turn stay stored, for the replay and for   *)
(* load-conversation, as long as the host does not restart, whatever calls *)
(* overlap: no query overwrites the events another one stored.  A restart  *)
(* resets the counter (query_seq in memory), and the statement ends there. *)
(***************************************************************************)
THEOREM EventsKeptUntilRestart == Spec => [](crashes = 0 => EventsKept)
<1> DEFINE Counted == TypeInv /\ crashes \in Nat /\ (crashes = 0 => Numbered /\ EventsKept)
<1>1. ASSUME Init PROVE Counted
  <2>1. ToPost = {}
    BY <1>1 DEF Init, ToPost
  <2>2. Numbered
    BY <1>1, <2>1, FS_EmptySet DEF Init, Numbered, Turned, Streaming
  <2>3. EventsKept
    BY <1>1 DEF Init, EventsKept
  <2> QED BY <1>1, <2>2, <2>3, TypeStarts DEF Init
<1>2. ASSUME Counted, [Next]_vars PROVE Counted'
  <2>1. TypeInv' /\ crashes' \in Nat
    BY <1>2, TypesKept, RestartsCounted
  <2>2. ASSUME crashes' = 0 PROVE Numbered' /\ EventsKept'
    BY <1>2, <2>2, RestartsCounted, NumbersKept
  <2> QED BY <2>1, <2>2
<1>3. Counted => (crashes = 0 => EventsKept)
  OBVIOUS
<1> QED BY <1>1, <1>2, <1>3, PTL DEF Spec

----------------------------------------------------------------------------
(* The agent's memory.  Of a session whose calls did not cross and whose   *)
(* container was not left without its conversation, a container is used    *)
(* only after its agent was given, or made itself, the turns whose events  *)
(* are stored.                                                             *)

\* The turns some agent has begun, and what became of their work.
Seen(t) ==
  \/ \E i \in Ids : t \in files[i] \/ t = working[i]
  \/ \E c \in Actors : t \in image[c]
  \/ \E s \in Sessions : t \in snapshot[s] \/ t \in done[s]

\* A message that was not posted is new to every agent, and one that was not
\* answered is new to the Runner.
Unseen ==
  /\ \A t : Seen(t) =>
       /\ t \in 0..sends
       /\ \A c \in Actors : op[c] = "send" /\ ~Streaming(c) => turn[c] # t
  /\ \A c \in Actors, s \in Sessions : op[c] = "send" => turn[c] \notin done[s]

\* Until its container is tracked, a create is alone but for calls that wait.
Lone(c) ==
  op[c] = "create" /\ pc[c] # "boot" /\ sess[c] \notin crossed =>
    /\ creating[sess[c]] /\ instances[sess[c]] = NoInst /\ done[sess[c]] = {}
    /\ \A d \in Actors : d # c /\ sess[d] = sess[c] => pc[d] = "await"

\* A call that uses a container uses the one that is tracked.
Holds(c) ==
  pc[c] \in {"rehydrate", "have", "turn", "persist", "store"} /\ sess[c] \notin crossed
    => instances[sess[c]] = inst[c]

\* The work of a turn and the memory of it come together.
Knows(c) ==
  Streaming(c) /\ sess[c] \notin crossed /\ turn[c] \in files[inst[c]]
    => turn[c] \in memory[inst[c]]

\* A tracked container has the memory it needs, or is about to be given it.
Recalls(s) ==
  s \notin crossed \cup unloaded /\ instances[s] # NoInst /\ cstate[instances[s]] = "up" =>
    \/ done[s] \cap Persisted(s) \subseteq memory[instances[s]]
    \/ \E c \in Actors : pc[c] = "rehydrate" /\ sess[c] = s

Remembers ==
  /\ Turned /\ Unseen
  /\ \A c \in Actors : Lone(c) /\ Holds(c) /\ Knows(c)
  /\ \A s \in Sessions : Recalls(s) /\ (life[s] = "new" => done[s] = {})

\* No session becomes new again.
LEMMA NewBefore ==
  ASSUME TypeInv, [Next]_vars, NEW s \in Sessions, life'[s] = "new"
  PROVE  life[s] = "new"
<1> USE DEF TypeInv, TypeOK, TailTypeOK
<1> DEFINE Stays == life'[s] # "new" \/ life[s] = "new"
<1>1. ASSUME NEW c \in Actors, Fails(c) \/ PostCreateSession(c) PROVE Stays
  BY <1>1 DEF Fails, PostCreateSession
<1>2. ASSUME NEW c \in Actors, CallStep(c) \/ GiveUp(c) \/ Disconnect(c)
      PROVE  Fails(c) \/ PostCreateSession(c) \/ UNCHANGED life
  BY <1>2 DEF CallStep, GiveUp, Disconnect, PullImage, Await, PlaceForSession, SetWorkerBinding,
     Ready, Restore, Provision, Track, Rehydrate, Resumed, Post, StreamEnds, Persist, Commit,
     SetSnapshotHandle, DestroyInstance, Forget, tailVars
<1>3. ASSUME NEW c \in Callers, NEW t \in Sessions, Start(c, t) PROVE Stays
  BY <1>3 DEF Start, MarkCreating, SendMessage, Resume, Snapshot, Destroy, tailVars
<1>4. ASSUME NEW t \in Sessions, SweepNext(t) \/ GoesStale(t) \/ Stop(t) PROVE UNCHANGED life
  BY <1>4 DEF SweepNext, GoesStale, Stop, tailVars
<1>5. ASSUME NEW i \in Ids, AgentWorks(i) \/ Dies(i) PROVE UNCHANGED life
  BY <1>5 DEF AgentWorks, Dies, tailVars
<1>6. ASSUME NEW w \in Workers, Deregister(w) PROVE UNCHANGED life
  BY <1>6 DEF Deregister
<1>7. IdleSessions \/ UNCHANGED vars => UNCHANGED life
  BY DEF IdleSessions, vars, tailVars
<1>8. ASSUME Restart PROVE Stays
  BY <1>8 DEF Restart, LoseMemory
<1>9. Callers \subseteq Actors
  BY DEF Actors
<1>10. UNCHANGED life => Stays
  OBVIOUS
<1> HIDE DEF TypeInv, Stays
<1>11. Stays
  BY <1>1, <1>2, <1>3, <1>4, <1>5, <1>6, <1>7, <1>8, <1>9, <1>10 DEF Next
<1> QED BY <1>11 DEF Stays

\* What a step does to the agent of a container and what it works on.
Loads(i) == \E c \in Actors :
  /\ Rehydrate(c) /\ inst[c] = i /\ memory'[i] = Persisted(sess[c])
  /\ cstate'[i] = cstate[i] /\ files'[i] = files[i] /\ working'[i] = working[i]
Boots(i) == \E c \in Actors :
  /\ Provision(c) /\ cstate[i] = "none" /\ files'[i] = image[c] /\ working'[i] = working[i]
Learns(i) ==
  /\ cstate'[i] = cstate[i] /\ files'[i] = files[i] \cup {working[i]}
  /\ memory'[i] = memory[i] \cup {working[i]} /\ working'[i] = 0
Rests(i) ==
  /\ cstate'[i] = "up" => cstate[i] = "up"
  /\ files'[i] = files[i] /\ memory'[i] = memory[i]
  /\ \/ working'[i] \in {working[i], 0}
     \/ \E c \in Actors : Post(c) /\ inst[c] = i /\ working'[i] = turn[c]

LEMMA Agents ==
  ASSUME TypeInv, [Next]_vars, ~Restart, NEW i \in Ids
  PROVE  Loads(i) \/ Boots(i) \/ Learns(i) \/ Rests(i)
<1> USE DEF TypeInv, TypeOK, EnvTypeOK
<1>1. UNCHANGED envVars => Rests(i)
  BY DEF envVars, Rests
<1>2. ASSUME NEW c \in Actors, Provision(c) PROVE Boots(i) \/ Rests(i)
  <2>1. CASE UNCHANGED envVars
    BY <1>1, <2>1
  <2>2. ASSUME NEW j \in Ids, Boot(j, worker[c], sess[c], image[c]) PROVE Boots(i) \/ Rests(i)
    BY <1>2, <2>2 DEF Boot, Boots, Rests
  <2> QED BY <1>2, <2>1, <2>2 DEF Provision
<1>3. ASSUME NEW c \in Actors, Rehydrate(c) PROVE Loads(i) \/ Rests(i)
  <2>1. CASE UNCHANGED envVars
    BY <1>1, <2>1
  <2>2. CASE LoadConversation(inst[c], Persisted(sess[c]))
    BY <1>3, <2>2 DEF LoadConversation, Loads, Rests
  <2> QED BY <1>3, <2>1, <2>2 DEF Rehydrate
<1>4. ASSUME NEW c \in Actors, Post(c) PROVE Rests(i)
  <2>1. CASE UNCHANGED envVars
    BY <1>1, <2>1
  <2>2. CASE StartTurn(inst[c], turn[c])
    BY <1>4, <2>2 DEF StartTurn, Rests
  <2> QED BY <1>4, <2>1, <2>2 DEF Post
<1>5. ASSUME NEW c \in Actors, DestroyInstance(c) PROVE Rests(i)
  BY <1>1, <1>5 DEF DestroyInstance, EnvDestroy, EnvStop, Rests
<1>6. ASSUME NEW s \in Sessions, Stop(s) PROVE Rests(i)
  BY <1>6 DEF Stop, StartTurn, Rests
<1>7. ASSUME NEW j \in Ids, AgentWorks(j) PROVE Learns(i) \/ Rests(i)
  BY <1>7 DEF AgentWorks, AgentEndsTurn, Learns, Rests
<1>8. ASSUME NEW j \in Ids, Dies(j) PROVE Rests(i)
  BY <1>8 DEF Dies, ContainerDies, Rests
<1>9. ASSUME NEW c \in Actors, CallStep(c)
      PROVE  Provision(c) \/ Rehydrate(c) \/ Post(c) \/ DestroyInstance(c) \/ UNCHANGED envVars
  BY <1>9 DEF CallStep, PullImage, Await, PlaceForSession, SetWorkerBinding, Ready, Restore,
     Track, PostCreateSession, Resumed, StreamEnds, Persist, Commit, SetSnapshotHandle, Forget
<1>10. ASSUME NEW c \in Callers, NEW s \in Sessions, Start(c, s) PROVE UNCHANGED envVars
  BY <1>10 DEF Start, MarkCreating, SendMessage, Resume, Snapshot, Destroy
<1>11. ASSUME NEW c \in Callers, GiveUp(c) \/ Disconnect(c) PROVE UNCHANGED envVars
  BY <1>11 DEF GiveUp, Disconnect
<1>12. ASSUME NEW s \in Sessions, SweepNext(s) \/ GoesStale(s) PROVE UNCHANGED envVars
  BY <1>12 DEF SweepNext, GoesStale
<1>13. ASSUME NEW w \in Workers, Deregister(w) PROVE UNCHANGED envVars
  BY <1>13 DEF Deregister
<1>14. IdleSessions \/ UNCHANGED vars => UNCHANGED envVars
  BY DEF IdleSessions, vars
<1> HIDE DEF TypeInv
<1> QED BY <1>1, <1>2, <1>3, <1>4, <1>5, <1>6, <1>7, <1>8, <1>9, <1>10, <1>11, <1>12, <1>13, <1>14
        DEF Next

\* An image comes from the store or from a container.
LEMMA Images ==
  ASSUME TypeInv, [Next]_vars, ~Restart, NEW c \in Actors
  PROVE  \/ image'[c] \in {image[c], {}}
         \/ \E s \in Sessions : image'[c] = snapshot[s]
         \/ \E i \in Ids : image'[c] = files[i]
<1>1. CASE Stands(c)
  BY <1>1 DEF Stands
<1>2. CASE Returned(c)
  BY <1>2 DEF Returned
<1>3. ASSUME NEW s \in Sessions, Opened(c, s) PROVE image'[c] = image[c]
  BY <1>3 DEF Opened, Began
<1>4. CASE Restore(c)
  <2>1. sess[c] \in Sessions
    BY <1>4 DEF TypeInv, TypeOK, CallTypeOK, CallShape, Restore, At
  <2> QED BY <1>4, <2>1 DEF TypeInv, TypeOK, CallTypeOK, Restore, Return
<1>5. CASE Commit(c)
  <2>1. inst[c] \in Ids
    BY <1>5 DEF TypeInv, TypeOK, CallTypeOK, CallShape, Commit, At
  <2> QED BY <1>5, <2>1 DEF TypeInv, TypeOK, CallTypeOK, Commit, Return, Fails
<1>6. ASSUME CallStep(c), ~Restore(c), ~Commit(c) PROVE image'[c] \in {image[c], {}}
  <2>1. ASSUME Return(c) \/ Fails(c) PROVE image'[c] = {}
    BY <2>1 DEF Return, Fails, TypeInv, TypeOK, CallTypeOK
  <2>2. ASSUME NEW where, Goto(c, where) PROVE image'[c] = image[c]
    BY <2>2 DEF Goto, localVars
  <2>3. Return(c) \/ Fails(c) \/ (\E where : Goto(c, where)) \/ UNCHANGED image
    BY <1>6 DEF CallStep, PullImage, Await, PlaceForSession, SetWorkerBinding, Ready, Provision,
       Track, Rehydrate, PostCreateSession, Resumed, Post, StreamEnds, Persist, SetSnapshotHandle,
       DestroyInstance, Forget
  <2> QED BY <2>1, <2>2, <2>3
<1> QED BY <1>1, <1>2, <1>3, <1>4, <1>5, <1>6, EachCall

\* Only a message that is posted makes an agent see a new turn.
LEMMA Seeing ==
  ASSUME TypeInv, [Next]_vars, ~Restart, NEW t, Seen(t)'
  PROVE  Seen(t) \/ t = 0 \/ \E c \in Actors : Post(c) /\ t = turn[c]
<1>1. ASSUME NEW i \in Ids, t \in files'[i] \/ t = working'[i]
      PROVE  Seen(t) \/ t = 0 \/ \E c \in Actors : Post(c) /\ t = turn[c]
  BY <1>1, Agents DEF Seen, Loads, Boots, Learns, Rests
<1>2. ASSUME NEW c \in Actors, t \in image'[c] PROVE Seen(t)
  BY <1>2, Images DEF Seen
<1>3. ASSUME NEW s \in Sessions, t \in snapshot'[s] PROVE Seen(t)
  BY <1>3, Doing DEF Seen
<1>4. ASSUME NEW s \in Sessions, t \in done'[s] PROVE Seen(t)
  <2>1. CASE done'[s] = done[s]
    BY <1>4, <2>1 DEF Seen
  <2>2. ASSUME NEW c \in Actors, Persist(c), done'[s] \subseteq done[s] \cup files[inst[c]]
        PROVE  Seen(t)
    <3>1. inst[c] \in Ids
      BY <2>2 DEF TypeInv, TypeOK, CallTypeOK, CallShape, Persist, At
    <3> QED BY <1>4, <2>2, <3>1 DEF Seen
  <2> QED BY <2>1, <2>2, Doing
<1> QED BY <1>1, <1>2, <1>3, <1>4 DEF Seen

LEMMA UnseenKept ==
  ASSUME TypeInv, Turned, Unseen, [Next]_vars
  PROVE  Unseen'
<1>1. /\ sends \in Nat /\ seq \in Nat
      /\ pc \in [Actors -> Places] /\ op \in [Actors -> Ops]
      /\ turn \in [Actors -> Turns \cup {0}]
      /\ done \in [Sessions -> SUBSET Turns]
  BY ExecEnvAssumption DEF TypeInv, TypeOK, CallTypeOK, MemTypeOK, TailTypeOK
<1>2. ASSUME ~Restart, UNCHANGED seq, NEW t, Seen(t)' PROVE Seen(t) \/ t = 0
  BY <1>1, <1>2, Seeing DEF Post
<1>8. CASE Restart
  <2>1. \A d \in Actors : op'[d] = "none"
    BY <1>8 DEF Restart, LoseMemory
  <2>2. UNCHANGED <<files, working, snapshot, done, sends>> /\ \A d \in Actors : image'[d] = {}
    BY <1>8 DEF Restart, Reclaim, LoseMemory
  <2>3. \A t : Seen(t)' => Seen(t)
    BY <2>2 DEF Seen
  <2> QED BY <2>1, <2>2, <2>3 DEF Unseen
<1>3. ASSUME ~Restart, NEW c \in Actors, NEW s \in Sessions, SendMessage(c, s) PROVE Unseen'
  <2>1. /\ sends' = sends + 1 /\ turn'[c] = sends + 1
        /\ UNCHANGED <<seq, done>>
        /\ \A d \in Actors : d # c => /\ op'[d] = op[d] /\ turn'[d] = turn[d]
                                      /\ Streaming(d)' <=> Streaming(d)
    BY <1>1, <1>3 DEF SendMessage, Begin, Streaming, flowVars
  <2>2. \A t : Seen(t)' => t \in 0..sends
    BY <1>1, <1>2, <1>3, <2>1 DEF Unseen
  <2>3. ASSUME NEW t, Seen(t)', NEW d \in Actors, op'[d] = "send", ~Streaming(d)'
        PROVE  turn'[d] # t
    <3>2. CASE d = c
      BY <1>1, <2>1, <2>2, <2>3, <3>2
    <3>3. CASE d # c
      <4>1. op[d] = "send" /\ ~Streaming(d) /\ turn'[d] = turn[d]
        BY <2>1, <2>3, <3>3
      <4>2. turn[d] # 0 /\ (Seen(t) \/ t = 0)
        BY <1>1, <1>2, <1>3, <2>1, <2>3, <4>1 DEF Turned
      <4> QED BY <4>1, <4>2 DEF Unseen
    <3> QED BY <3>2, <3>3
  <2>4. \A d \in Actors : op'[d] = "send" => \A u \in Sessions : turn'[d] \notin done'[u]
    <3> TAKE d \in Actors
    <3> HAVE op'[d] = "send"
    <3>1. CASE d = c
      <4>1. \A u \in Sessions : \A t \in done[u] : t \in 0..sends
        BY DEF Unseen, Seen
      <4> QED BY <1>1, <2>1, <3>1, <4>1
    <3>2. CASE d # c
      BY <2>1, <3>2 DEF Unseen
    <3> QED BY <3>1, <3>2
  <2>5. \A t : Seen(t)' => t \in 0..sends'
    BY <1>1, <2>1, <2>2
  <2> QED BY <2>3, <2>4, <2>5 DEF Unseen
<1>4. ASSUME ~Restart, NEW c \in Actors, Post(c) PROVE Unseen'
  <2>1. /\ op[c] = "send" /\ ~Streaming(c) /\ UNCHANGED <<sends, done>>
        /\ op'[c] = "send" => Streaming(c)' /\ turn'[c] = turn[c]
    BY <1>1, <1>4 DEF Post, At, Streaming, Return, tailVars, pastVars, countVars
  <2>2. \A d \in Actors : d # c => /\ op'[d] = op[d] /\ turn'[d] = turn[d] /\ pc'[d] = pc[d]
                                   /\ Streaming(d)' <=> Streaming(d)
    BY <1>1, <1>4 DEF Post, Return, Streaming
  <2>3. \A d \in Actors : Post(d) => d = c
    <3>1. ASSUME NEW d \in Actors, Post(d), d # c PROVE FALSE
      <4>1. pc[d] = "have" /\ pc'[d] # "have"
        BY <1>1, <3>1 DEF Post, At, Return
      <4> QED BY <2>2, <3>1, <4>1
    <3> QED BY <3>1
  <2>4. ASSUME NEW t, Seen(t)' PROVE Seen(t) \/ t = 0 \/ t = turn[c]
    BY <1>4, <2>3, <2>4, Seeing
  <2>5. \A t : Seen(t)' => t \in 0..sends'
    BY <1>1, <2>1, <2>4 DEF Unseen, Turned
  <2>6. ASSUME NEW t, Seen(t)', NEW d \in Actors, op'[d] = "send", ~Streaming(d)'
        PROVE  turn'[d] # t
    <3>1. d # c
      BY <2>1, <2>6 DEF Streaming
    <3>2. op[d] = "send" /\ ~Streaming(d) /\ turn'[d] = turn[d]
      BY <2>2, <2>6, <3>1
    <3>3. turn[d] # 0 /\ turn[d] # turn[c]
      BY <1>1, <2>1, <3>1, <3>2 DEF Turned
    <3> QED BY <2>4, <2>6, <3>2, <3>3 DEF Unseen
  <2>7. ASSUME NEW d \in Actors, op'[d] = "send" PROVE op[d] = "send" /\ turn'[d] = turn[d]
    BY <2>1, <2>2, <2>7
  <2>8. \A d \in Actors : op'[d] = "send" => \A u \in Sessions : turn'[d] \notin done'[u]
    BY <2>1, <2>7 DEF Unseen
  <2> QED BY <2>5, <2>6, <2>8 DEF Unseen
<1>5. ASSUME ~Restart, NEW c \in Actors, UNCHANGED <<seq, sends>>,
             op[c] = "send" \/ UNCHANGED done,
             \A u \in Sessions : done'[u] \subseteq done[u] \cup {turn[c]},
             \A d \in Actors : Goes(d) /\ (op'[d] = "send" /\ ~(UNCHANGED done) => d # c)
      PROVE  Unseen'
  <2>1. \A t : Seen(t)' => t \in 0..sends'
    BY <1>1, <1>2, <1>5 DEF Unseen
  <2>2. ASSUME NEW t, Seen(t)', NEW d \in Actors, op'[d] = "send", ~Streaming(d)'
        PROVE  turn'[d] # t
    <3>1. op[d] = "send" /\ ~Streaming(d) /\ turn'[d] = turn[d]
      BY <1>5, <2>2 DEF Goes
    <3>2. turn[d] # 0 /\ (Seen(t) \/ t = 0)
      BY <1>1, <1>2, <1>5, <2>2, <3>1 DEF Turned
    <3> QED BY <3>1, <3>2 DEF Unseen
  <2>3. ASSUME NEW d \in Actors, op'[d] = "send", NEW u \in Sessions PROVE turn'[d] \notin done'[u]
    <3>1. op[d] = "send" /\ turn'[d] = turn[d] /\ turn[d] \notin done[u]
      BY <1>5, <2>3 DEF Goes, Unseen
    <3>2. CASE UNCHANGED done
      BY <3>1, <3>2
    <3>3. CASE ~(UNCHANGED done)
      <4>1. d # c /\ op[c] = "send"
        BY <1>5, <2>3, <3>3
      <4>2. turn[d] # turn[c]
        BY <3>1, <4>1 DEF Turned
      <4> QED BY <1>5, <3>1, <4>2
    <3> QED BY <3>2, <3>3
  <2> QED BY <2>1, <2>2, <2>3 DEF Unseen
<1>6. ASSUME ~Restart, NEW c \in Actors, Persist(c) PROVE Unseen'
  <2>1. op[c] = "send" /\ op'[c] = "none" /\ UNCHANGED <<seq, sends>>
    BY <1>1, <1>6 DEF TypeInv, CallShape, Persist, At, Return, Fault, pastVars, countVars
  <2>2. \A d \in Actors : Goes(d) /\ (op'[d] = "send" => d # c)
    BY <1>1, <1>6, <2>1 DEF Persist, Return, Goes, Streaming
  <2>3. \A u \in Sessions : done'[u] \subseteq done[u] \cup {turn[c]}
    BY <1>1, <1>6 DEF Persist
  <2> QED BY <1>5, <1>6, <2>1, <2>2, <2>3
<1>7. CASE ~Restart /\ UNCHANGED <<seq, sends, events, done>> /\ \A d \in Actors : Goes(d)
  BY <1>5, <1>7 DEF Actors
<1> QED BY <1>3, <1>4, <1>6, <1>7, <1>8, Counting

\* A call that is under way while another one is, has waited for the other
\* one's create and was let go when its container was tracked.
LEMMA Behind ==
  ASSUME Inv, \A e \in Actors : Lone(e), NEW c \in Actors, NEW d \in Actors, c # d,
         op[c] \notin {"none", "create"}, pc[c] # "await", sess[d] = sess[c],
         sess[c] \notin crossed
  PROVE  pc[d] = "boot"
<1>1. pc[c] # "idle"
  BY DEF Inv, TypeInv, CallShape
<1>2. op[d] = "create"
  BY <1>1 DEF Inv, Serial
<1> QED BY <1>2 DEF Lone

LEMMA LoneKept ==
  ASSUME Inv, Inv', [Next]_vars, ~Restart, \A e \in Actors : Lone(e),
         \A s \in Sessions : life[s] = "new" => done[s] = {}, NEW c \in Actors
  PROVE  Lone(c)'
<1> SUFFICES ASSUME op'[c] = "create", pc'[c] # "boot", sess'[c] \notin crossed'
             PROVE  /\ creating'[sess'[c]] /\ instances'[sess'[c]] = NoInst
                    /\ done'[sess'[c]] = {}
                    /\ \A d \in Actors : d # c /\ sess'[d] = sess'[c] => pc'[d] = "await"
  BY DEF Lone
<1>1. TypeInv /\ sess'[c] \in Sessions /\ sess'[c] \notin crossed
  BY CrossedStay DEF Inv, TypeInv, TypeOK, CallTypeOK, CallShape
<1>2. ASSUME NEW s \in Sessions, Opened(c, s)
      PROVE  /\ creating'[sess'[c]] /\ instances'[sess'[c]] = NoInst
             /\ done'[sess'[c]] = {}
             /\ \A d \in Actors : d # c /\ sess'[d] = sess'[c] => pc'[d] = "await"
  <2>1. life[s] = "new" /\ creating'[s] /\ sess'[c] = s /\ pc[c] = "idle" /\ pc'[c] = "image"
    BY <1>2 DEF Opened, Began
  <2>2. \A d \in Actors : sess[d] # s
    BY <2>1, RunnerAssumption DEF Inv, CallLife, TypeInv, CallShape
  <2>3. \A d \in Actors : d # c => sess'[d] # s
    BY <1>1, <2>1, <2>2, OneMoves DEF Stands
  <2>4. instances'[s] = NoInst
    BY <2>1, NewUntouched
  <2>5. done'[s] = {}
    BY <1>1, <2>1, <2>2, Doing
  <2> QED BY <2>1, <2>3, <2>4, <2>5
<1>3. CASE op'[c] = op[c] /\ sess'[c] = sess[c] /\ (Stands(c) \/ CallStep(c))
  <2>1. op[c] = "create" /\ pc[c] # "boot"
    <3>1. CASE Stands(c)
      BY <1>3, <3>1 DEF Stands
    <3>2. CASE CallStep(c) /\ pc[c] = "boot"
      <4>1. PostCreateSession(c)
        BY <3>2 DEF CallStep, PullImage, Await, PlaceForSession, SetWorkerBinding, Ready, Restore,
           Provision, Track, Rehydrate, PostCreateSession, Resumed, Post, StreamEnds, Persist,
           Commit, SetSnapshotHandle, DestroyInstance, Forget, At
      <4>2. Return(c) \/ Fails(c)
        BY <4>1 DEF PostCreateSession
      <4>3. op'[c] = "none"
        BY <1>1, <4>2, Returning DEF Returned, TypeInv
      <4> QED BY <4>3
    <3> QED BY <1>3, <3>1, <3>2
  <2> DEFINE s == sess[c]
  <2>2. /\ s \in Sessions \ crossed' /\ s \notin crossed
        /\ creating[s] /\ instances[s] = NoInst /\ done[s] = {}
        /\ \A d \in Actors : d # c /\ sess[d] = s => pc[d] = "await"
    BY <1>1, <1>3, <2>1 DEF Lone
  <2>3. /\ pc[c] \in {"image", "place", "bind", "provision", "track"} /\ pc[c] # "idle"
        /\ c \in Busy(s)
    BY <2>1 DEF Inv, TypeInv, CallShape, Busy
  <2> HIDE DEF s
  <2>4. creating'[s]
    <3>1. ASSUME NEW d \in Actors, sess[d] = s, Restore(d) PROVE FALSE
      BY <2>2, <2>3, <3>1 DEF Restore, At
    <3>2. ASSUME NEW d \in Actors, sess[d] = s, op[d] = "create", Returned(d) PROVE FALSE
      <4>1. d = c
        BY <2>1, <2>2, <3>2, OneCreate DEF s
      <4> QED BY <3>2, <4>1 DEF Returned
    <3> QED BY <1>1, <2>2, <2>3, <3>1, <3>2, Creates
  <2>5. instances'[s] = NoInst
    <3>1. ASSUME NEW d \in Actors, sess[d] = s, Track(d) PROVE FALSE
      <4>1. d = c
        BY <2>2, <3>1 DEF Track, At
      <4>2. pc'[c] = "boot"
        BY <1>1, <2>1, <3>1, <4>1 DEF Track, Goto, TypeInv, TypeOK, CallTypeOK
      <4> QED BY <4>2
    <3>2. ASSUME NEW d \in Actors, sess[d] = s, Ready(d) PROVE FALSE
      BY <2>2, <2>3, <3>2 DEF Ready, At
    <3> QED BY <1>1, <2>2, <3>1, <3>2, Tracking
  <2>6. done'[s] = {}
    BY <1>1, <2>2, <2>3, Doing DEF Persist, At
  <2>7. ASSUME NEW d \in Actors, d # c, sess'[d] = s PROVE pc'[d] = "await"
    <3>1. op'[d] \in {"send", "resume"}
      <4>1. Serial(d, c)' /\ CallShape(d)'
        BY DEF Inv, TypeInv
      <4>2. pc'[d] # "idle" /\ sess'[c] = s
        BY <1>3, <2>2, <2>7, <4>1, RunnerAssumption DEF CallShape, s
      <4>3. op'[d] # "create"
        BY <2>2, <2>7, <4>1, <4>2 DEF Serial
      <4> QED BY <2>2, <2>7, <4>1, <4>2, <4>3 DEF Serial
    <3>2. CASE Stands(d)
      BY <2>2, <2>7, <3>2 DEF Stands
    <3>3. CASE CallStep(d)
      <4>1. sess[d] = s
        BY <1>1, <2>2, <2>7, <3>3, StepMoves, RunnerAssumption DEF Returned, TypeInv
      <4>2. pc[d] = "await"
        BY <2>2, <2>7, <4>1
      <4>3. Await(d)
        BY <3>3, <4>2 DEF CallStep, PullImage, Await, PlaceForSession, SetWorkerBinding, Ready,
           Restore, Provision, Track, Rehydrate, PostCreateSession, Resumed, Post, StreamEnds,
           Persist, Commit, SetSnapshotHandle, DestroyInstance, Forget, At
      <4> QED BY <2>2, <4>1, <4>3 DEF Await
    <3>4. CASE Returned(d)
      BY <2>2, <2>7, <3>4, RunnerAssumption DEF Returned
    <3>5. ASSUME NEW u \in Sessions, Opened(d, u) PROVE pc'[d] = "await"
      BY <3>1, <3>5 DEF Opened, Began
    <3> QED BY <1>1, <3>2, <3>3, <3>4, <3>5, EachCall
  <2> QED BY <1>3, <2>4, <2>5, <2>6, <2>7 DEF s
<1>4. ~Returned(c)
  BY DEF Returned
<1>5. CallStep(c) => op'[c] = op[c] /\ sess'[c] = sess[c]
  BY <1>1, <1>4, StepMoves DEF TypeInv
<1>6. Stands(c) => op'[c] = op[c] /\ sess'[c] = sess[c]
  BY DEF Stands
<1> QED BY <1>1, <1>2, <1>3, <1>4, <1>5, <1>6, EachCall

Using == {"rehydrate", "have", "turn", "persist", "store"}

\* How a call comes to use a container.
LEMMA Uses ==
  ASSUME TypeInv, [Next]_vars, ~Restart, NEW c \in Actors, pc'[c] \in Using
  PROVE  /\ sess'[c] = sess[c] /\ op'[c] = op[c] /\ sess[c] \in Sessions
         /\ \/ pc[c] \in Using /\ inst'[c] = inst[c] /\ UNCHANGED instances
            \/ pc[c] \in Using /\ Stands(c)
            \/ Track(c) /\ instances'[sess[c]] = inst'[c]
            \/ Ready(c) /\ instances'[sess[c]] = inst'[c]
<1>1. CASE Stands(c)
  BY <1>1 DEF Stands, Using, TypeInv, TypeOK, CallTypeOK, CallShape
<1>2. CASE CallStep(c)
  <2>1. op'[c] = op[c] /\ sess'[c] = sess[c]
    BY <1>2, StepMoves DEF Returned, Using, TypeInv
  <2>2. sess[c] \in Sessions
    <3>1. pc[c] # "idle"
      BY <1>2 DEF CallStep, PullImage, Await, PlaceForSession, SetWorkerBinding, Ready, Restore,
         Provision, Track, Rehydrate, PostCreateSession, Resumed, Post, StreamEnds, Persist,
         Commit, SetSnapshotHandle, DestroyInstance, Forget, At
    <3> QED BY <3>1 DEF TypeInv, TypeOK, CallTypeOK, CallShape
  <2>3. CASE Track(c)
    BY <2>1, <2>2, <2>3 DEF Track, track, Goto, localVars, TypeInv, TypeOK, CallTypeOK, MemTypeOK
  <2>4. CASE Ready(c)
    BY <2>1, <2>2, <2>4 DEF Ready, Goto, Using, TypeInv, TypeOK, CallTypeOK, MemTypeOK
  <2>5. CASE Rehydrate(c) \/ StreamEnds(c)
    BY <2>1, <2>2, <2>5 DEF Rehydrate, StreamEnds, Goto, At, Using, localVars, memVars
  <2>6. CASE Post(c)
    BY <2>1, <2>2, <2>6 DEF Post, Return, At, Using, TypeInv, TypeOK, CallTypeOK
  <2>7. CASE Commit(c)
    <3>1. Fails(c) => pc'[c] = "idle"
      BY DEF Fails, Return, TypeInv, TypeOK, CallTypeOK
    <3> QED BY <2>1, <2>2, <2>7, <3>1 DEF Commit, At, Using
  <2>8. ASSUME ~Track(c), ~Ready(c), ~Rehydrate(c), ~StreamEnds(c), ~Post(c), ~Commit(c)
        PROVE  FALSE
    <3>1. Return(c) \/ Fails(c) => pc'[c] = "idle"
      BY DEF Fails, Return, TypeInv, TypeOK, CallTypeOK
    <3>2. ASSUME NEW where \in Places \ Using,
                 Goto(c, where) \/ pc' = [pc EXCEPT ![c] = where]
          PROVE  pc'[c] \notin Using
      BY <3>2 DEF Goto, TypeInv, TypeOK, CallTypeOK
    <3>3. Return(c) \/ Fails(c) \/ \E where \in Places \ Using :
            Goto(c, where) \/ pc' = [pc EXCEPT ![c] = where]
      BY <1>2, <2>8 DEF CallStep, PullImage, Await, PlaceForSession, SetWorkerBinding, Restore,
         Provision, PostCreateSession, Resumed, Persist, SetSnapshotHandle, DestroyInstance,
         Forget, Placed, Places, Using
    <3> QED BY <3>1, <3>2, <3>3 DEF Using
  <2> QED BY <2>3, <2>4, <2>5, <2>6, <2>7, <2>8, <2>1, <2>2
<1>3. CASE Returned(c)
  BY <1>3 DEF Returned, Using
<1>4. ASSUME NEW s \in Sessions, Opened(c, s) PROVE FALSE
  BY <1>4 DEF Opened, Began, Using
<1> QED BY <1>1, <1>2, <1>3, <1>4, EachCall

LEMMA HoldsKept ==
  ASSUME Inv, [Next]_vars, ~Restart, \A e \in Actors : Lone(e) /\ Holds(e), NEW c \in Actors
  PROVE  Holds(c)'
<1> SUFFICES ASSUME pc'[c] \in Using, sess'[c] \notin crossed'
             PROVE  instances'[sess'[c]] = inst'[c]
  BY DEF Holds, Using
<1>1. TypeInv
  BY DEF Inv
<1>4. sess[c] \notin crossed
  BY <1>1, Uses, CrossedStay
<1>2. CASE pc[c] \in Using /\ inst'[c] = inst[c] /\ UNCHANGED instances
  BY <1>1, <1>2, <1>4, Uses DEF Holds, Using
<1>3. CASE pc[c] \in Using /\ Stands(c)
  <2>1. instances[sess[c]] = inst[c] /\ inst'[c] = inst[c] /\ sess'[c] = sess[c]
    BY <1>3, <1>4 DEF Holds, Using, Stands
  <2>2. sess[c] \in Sessions
    BY <1>1, Uses
  <2>3. ASSUME NEW d \in Actors, sess[d] = sess[c], Track(d) \/ Forget(d) \/ Ready(d) PROVE FALSE
    <3>1. pc[d] \in {"track", "forget", "ready"}
      BY <2>3 DEF Track, Forget, Ready, At
    <3>2. d # c /\ pc[c] # "await" /\ op[c] \notin {"none", "create"}
      BY <1>1, <1>3, <3>1 DEF Using, TypeInv, CallShape
    <3> QED BY <1>4, <2>3, <3>1, <3>2, Behind
  <2> QED BY <1>1, <2>1, <2>2, <2>3, Tracking
<1> QED BY <1>1, <1>2, <1>3, Uses

\* A turn under way went on or was posted.
LEMMA Streams ==
  ASSUME TypeInv, TypeInv', [Next]_vars, ~Restart, NEW c \in Actors, Streaming(c)'
  PROVE  /\ inst'[c] = inst[c] /\ turn'[c] = turn[c] /\ inst[c] \in Ids
         /\ Streaming(c) \/ (Post(c) /\ op[c] = "send" /\ ~Streaming(c))
<1>1. pc'[c] \in Using /\ op'[c] = "send"
  BY DEF Streaming, Using, TypeInv, CallShape
<1>2. inst'[c] = inst[c] /\ pc[c] \in {"have", "turn", "persist", "rehydrate", "store"}
  BY <1>1, Uses DEF Stands, Using, Track, Ready, Goto, Streaming, TypeInv, TypeOK, CallTypeOK
<1>3. inst[c] \in Ids
  BY <1>2 DEF TypeInv, TypeOK, CallTypeOK, CallShape
<1>4. ASSUME NEW d \in Actors, NEW s \in Sessions, SendMessage(d, s)
      PROVE  turn'[c] = turn[c] /\ Streaming(c)
  BY <1>2, <1>4 DEF SendMessage, Begin, At, Streaming, TypeInv, TypeOK, CallTypeOK
<1>5. ASSUME NEW d \in Actors, Post(d)
      PROVE  turn'[c] = turn[c] /\ (Streaming(c) \/ (Post(c) /\ op[c] = "send" /\ ~Streaming(c)))
  BY <1>5 DEF Post, Return, At, Streaming, TypeInv, TypeOK, CallTypeOK
<1>6. ASSUME NEW d \in Actors, Persist(d) PROVE turn'[c] = turn[c] /\ Streaming(c)
  BY <1>6 DEF Persist, Return, At, Streaming, TypeInv, TypeOK, CallTypeOK
<1>7. CASE \A d \in Actors : Goes(d)
  BY <1>1, <1>2, <1>3, <1>7 DEF Goes, Streaming
<1> QED BY <1>2, <1>3, <1>4, <1>5, <1>6, <1>7, Counting

LEMMA KnowsKept ==
  ASSUME Inv, TypeInv', [Next]_vars, ~Restart, Unseen,
         \A e \in Actors : Lone(e) /\ Knows(e), NEW c \in Actors
  PROVE  Knows(c)'
<1> SUFFICES ASSUME Streaming(c)', sess'[c] \notin crossed', turn'[c] \in files'[inst'[c]]
             PROVE  turn'[c] \in memory'[inst'[c]]
  BY DEF Knows
<1>1. TypeInv
  BY DEF Inv
<1> DEFINE i == inst[c]
           t == turn[c]
<1>2. /\ inst'[c] = i /\ turn'[c] = t /\ i \in Ids /\ t \in files'[i]
      /\ Streaming(c) \/ (Post(c) /\ op[c] = "send" /\ ~Streaming(c))
  BY <1>1, Streams
<1>3. pc[c] \in {"have", "turn", "persist"} /\ op[c] = "send"
  BY <1>1, <1>2 DEF Streaming, Post, At, TypeInv, CallShape
<1>4. sess[c] = owner[i] /\ cstate[i] # "none"
  BY <1>1, <1>2, RunnerAssumption DEF TypeInv, CallShape
<1>9. sess[c] \notin crossed
  BY <1>1, Uses, CrossedStay DEF Streaming, Using
<1>5. ASSUME t \in files[i] PROVE t \in memory[i]
  <2>1. Streaming(c)
    BY <1>2, <1>5 DEF Unseen, Seen
  <2> QED BY <1>5, <1>9, <2>1 DEF Knows
<1>6. ~Loads(i)
  <2>1. ASSUME NEW d \in Actors, Rehydrate(d), inst[d] = i PROVE FALSE
    <3>1. pc[d] = "rehydrate" /\ sess[d] = sess[c]
      BY <1>1, <1>2, <1>4, <2>1, RunnerAssumption DEF Rehydrate, At, TypeInv, CallShape
    <3> QED BY <1>3, <1>9, <3>1, Behind
  <2> QED BY <2>1 DEF Loads
<1>7. ~Boots(i)
  BY <1>4 DEF Boots
<1> HIDE DEF i, t
<1>8. t \in memory'[i]
  BY <1>1, <1>2, <1>5, <1>6, <1>7, Agents DEF Learns, Rests
<1> QED BY <1>2, <1>8

\* What is done and stored grows by the turn a call persists.
LEMMA Answers ==
  ASSUME Inv, [Next]_vars, ~Restart, Unseen, \A e \in Actors : Holds(e) /\ Knows(e),
         NEW s \in Sessions \ crossed, NEW t \in done'[s] \cap Persisted(s)'
  PROVE  \/ t \in done[s] \cap Persisted(s)
         \/ UNCHANGED envVars /\ t \in memory[instances[s]]
<1>1. TypeInv
  BY DEF Inv
<1>2. CASE UNCHANGED <<events, done>>
  BY <1>2 DEF Persisted
<1>3. ASSUME NEW c \in Actors, Persist(c)
      PROVE  \/ t \in done[s] \cap Persisted(s)
             \/ UNCHANGED envVars /\ t \in memory[instances[s]]
  <2>1. /\ sess[c] \in Sessions /\ pc[c] = "persist" /\ op[c] = "send" /\ inst[c] \in Ids
        /\ events \in [Sessions -> [Queries -> Turns \cup {0}]]
        /\ done \in [Sessions -> SUBSET Turns]
    BY <1>1, <1>3 DEF Persist, At, TypeInv, TypeOK, CallTypeOK, StoreTypeOK, TailTypeOK, CallShape
  <2>2. \/ UNCHANGED <<events, done>>
        \/ /\ events' = [events EXCEPT ![sess[c]][query[c]] = turn[c]]
           /\ done' = [done EXCEPT ![sess[c]] =
                        IF turn[c] \in files[inst[c]] THEN @ \cup {turn[c]} ELSE @]
    BY <1>3 DEF Persist
  <2>3. CASE s # sess[c]
    BY <1>2, <2>1, <2>2, <2>3 DEF Persisted
  <2>4. CASE s = sess[c] /\ t = turn[c] /\ ~(UNCHANGED <<events, done>>)
    <3>1. t \notin done[s]
      BY <2>1, <2>4 DEF Unseen
    <3>2. t \in files[inst[c]]
      BY <2>1, <2>2, <2>4, <3>1
    <3>3. t \in memory[inst[c]] /\ instances[s] = inst[c]
      BY <2>1, <2>4, <3>2 DEF Knows, Holds, Streaming
    <3> QED BY <1>3, <3>3 DEF Persist
  <2>5. CASE s = sess[c] /\ t # turn[c] /\ ~(UNCHANGED <<events, done>>)
    <3>1. t \in done[s]
      BY <2>1, <2>2, <2>5
    <3>2. PICK q \in Queries : events'[s][q] = t /\ t # 0
      BY DEF Persisted
    <3>3. events[s][q] = t
      BY <2>1, <2>2, <2>5, <3>2
    <3> QED BY <3>1, <3>2, <3>3 DEF Persisted
  <2> QED BY <1>2, <2>3, <2>4, <2>5
<1>4. (\E c \in Actors, u \in Sessions : SendMessage(c, u)) \/ (\E c \in Actors : Post(c))
        => UNCHANGED <<events, done>>
  BY DEF SendMessage, Post, storeVars, tailVars
<1> QED BY <1>1, <1>2, <1>3, <1>4, Counting

\* A container is given its conversation by a Rehydrate only.
LEMMA Loading ==
  ASSUME TypeInv, [Next]_vars, NEW s \in unloaded, s \notin unloaded'
  PROVE  \E c \in Actors : Rehydrate(c) /\ sess[c] = s
<1>1. ASSUME NEW c \in Actors, CallStep(c) \/ GiveUp(c) \/ Disconnect(c), ~Rehydrate(c)
      PROVE  UNCHANGED unloaded
  BY <1>1 DEF CallStep, GiveUp, Disconnect, PullImage, Await, PlaceForSession, SetWorkerBinding,
     Ready, Restore, Provision, Track, PostCreateSession, Resumed, Post, StreamEnds, Persist,
     Commit, SetSnapshotHandle, DestroyInstance, Forget, Fault, tailVars, pastVars
<1>2. ASSUME NEW c \in Actors, Rehydrate(c), sess[c] # s PROVE s \in unloaded'
  BY <1>2 DEF Rehydrate
<1>3. ASSUME NEW c \in Callers, NEW t \in Sessions, Start(c, t) PROVE UNCHANGED unloaded
  BY <1>3 DEF Start, MarkCreating, SendMessage, Resume, Snapshot, Destroy
<1>4. ASSUME NEW t \in Sessions, SweepNext(t) \/ GoesStale(t) \/ Stop(t) PROVE UNCHANGED unloaded
  BY <1>4 DEF SweepNext, GoesStale, Stop, tailVars, pastVars
<1>5. ASSUME NEW i \in Ids, AgentWorks(i) \/ Dies(i) PROVE UNCHANGED unloaded
  BY <1>5 DEF AgentWorks, Dies, tailVars, pastVars
<1>6. ASSUME NEW w \in Workers, Deregister(w) PROVE UNCHANGED unloaded
  BY <1>6 DEF Deregister
<1>7. IdleSessions \/ UNCHANGED vars => UNCHANGED unloaded
  BY DEF IdleSessions, vars, tailVars, pastVars
<1>8. ASSUME Restart PROVE s \in unloaded'
  BY <1>8 DEF Restart, LoseMemory
<1>9. Callers \subseteq Actors
  BY DEF Actors
<1> QED BY <1>1, <1>2, <1>3, <1>4, <1>5, <1>6, <1>7, <1>8, <1>9 DEF Next

LEMMA RecallsKept ==
  ASSUME Inv, [Next]_vars, ~Restart, Unseen,
         \A e \in Actors : Lone(e) /\ Holds(e) /\ Knows(e),
         NEW s \in Sessions, Recalls(s)
  PROVE  Recalls(s)'
<1> DEFINE i == instances'[s]
<1> SUFFICES ASSUME s \notin crossed' \cup unloaded', i # NoInst, cstate'[i] = "up",
                    ~\E c \in Actors : pc'[c] = "rehydrate" /\ sess'[c] = s
             PROVE  done'[s] \cap Persisted(s)' \subseteq memory'[i]
  BY DEF Recalls
<1>1. /\ TypeInv
      /\ instances \in [Sessions -> Ids \cup {NoInst}]
      /\ pc \in [Actors -> Places] /\ op \in [Actors -> Ops]
      /\ sess \in [Actors -> Sessions \cup {NoSession}]
      /\ inst \in [Actors -> Ids \cup {NoInst}]
      /\ cstate \in [Ids -> {"none", "up", "dead", "gone"}]
      /\ memory \in [Ids -> SUBSET Turns]
  BY DEF Inv, TypeInv, TypeOK, CallTypeOK, MemTypeOK, EnvTypeOK
<1>5. s \notin crossed
  BY <1>1, CrossedStay
<1>2. CASE instances'[s] = instances[s]
  <2>1. i = instances[s] /\ i \in Ids /\ owner[i] = s /\ cstate[i] # "none"
    BY <1>1, <1>2 DEF TypeInv, Owner
  <2>2. cstate[i] = "up" /\ ~Boots(i)
    BY <1>1, <2>1, Agents DEF Boots, Loads, Learns, Rests
  <2>3. ASSUME NEW c \in Actors, Rehydrate(c), sess[c] = s
        PROVE  done'[s] \cap Persisted(s)' \subseteq memory'[i]
    <3>1. inst[c] = i /\ UNCHANGED <<events, done>>
      BY <1>5, <2>1, <2>3 DEF Rehydrate, At, Holds, storeVars
    <3>2. ~(unloaded' = unloaded \cup {sess[c]})
      BY <2>3
    <3>3. Persisted(s) \subseteq memory'[i]
      BY <1>1, <2>1, <2>2, <2>3, <3>1, <3>2 DEF Rehydrate, LoadConversation
    <3> QED BY <3>1, <3>3 DEF Persisted
  <2>4. ASSUME NEW c \in Actors, pc[c] = "rehydrate", sess[c] = s PROVE Rehydrate(c)
    <3>1. ~Stands(c)
      BY <2>4 DEF Stands
    <3>2. CallStep(c)
      BY <1>1, <2>4, <3>1, EachCall DEF Opened, Began
    <3> QED BY <2>4, <3>2 DEF CallStep, PullImage, Await, PlaceForSession, SetWorkerBinding, Ready,
         Restore, Provision, Track, PostCreateSession, Resumed, Post, StreamEnds, Persist,
         Commit, SetSnapshotHandle, DestroyInstance, Forget, At
  <2>5. CASE done[s] \cap Persisted(s) \subseteq memory[i] /\ ~\E c \in Actors : Rehydrate(c) /\ sess[c] = s
    <3>1. ~Loads(i)
      BY <1>1, <2>1, <2>5, RunnerAssumption DEF Loads, TypeInv, CallShape
    <3>2. memory[i] \subseteq memory'[i]
      BY <1>1, <2>1, <2>2, <3>1, Agents DEF Learns, Rests
    <3>3. ASSUME NEW t \in done'[s] \cap Persisted(s)' PROVE t \in memory[i]
      BY <1>5, <2>1, <2>5, <3>3, Answers
    <3> QED BY <3>2, <3>3
  <2>7. ASSUME ~\E c \in Actors : Rehydrate(c) /\ sess[c] = s PROVE s \notin unloaded
    BY <1>1, <2>7, Loading
  <2>6. \/ s \in unloaded \/ done[s] \cap Persisted(s) \subseteq memory[i]
        \/ \E c \in Actors : pc[c] = "rehydrate" /\ sess[c] = s
    BY <1>5, <2>1, <2>2 DEF Recalls
  <2> QED BY <2>3, <2>4, <2>5, <2>6, <2>7
<1>3. ASSUME NEW c \in Actors, sess[c] = s, Track(c), instances'[s] = inst[c]
      PROVE  done'[s] \cap Persisted(s)' \subseteq memory'[i]
  <2>1. op[c] = "create"
    BY <1>1, <1>3 DEF Track, Goto
  <2>2. done[s] = {} /\ UNCHANGED done
    BY <1>3, <1>5, <2>1 DEF Lone, Track, At, tailVars
  <2> QED BY <2>2
<1>4. ASSUME NEW c \in Actors, sess[c] = s, Ready(c), instances'[s] # instances[s] PROVE FALSE
  BY <1>1, <1>4 DEF Ready, forget
<1> QED BY <1>1, <1>2, <1>3, <1>4, Tracking

\* Start keeps the container that was tracked, and its agent what it remembers.
LEMMA RecallsAgain ==
  ASSUME Inv, Restart, NEW s \in Sessions, Recalls(s)
  PROVE  Recalls(s)'
<1> SUFFICES ASSUME s \notin crossed' \cup unloaded', instances'[s] # NoInst
             PROVE  done'[s] \cap Persisted(s)' \subseteq memory'[instances'[s]]
  BY DEF Recalls
<1>1. UNCHANGED <<crossed, done, events, memory>> /\ unloaded' = unloaded \cup Unfinished
  BY DEF Restart, Reclaim, LoseMemory
<1>2. s \notin crossed \cup unloaded /\ s \notin Unfinished
  BY <1>1
<1>3. instances'[s] \in Survivors(s)
  BY DEF Restart
<1>4. instances'[s] = instances[s] /\ ~\E c \in Actors : pc[c] = "rehydrate" /\ sess[c] = s
  BY <1>2, <1>3 DEF Unfinished, At
<1>5. cstate[instances[s]] = "up"
  BY <1>3, <1>4 DEF Survivors
<1>6. done[s] \cap Persisted(s) \subseteq memory[instances[s]]
  BY <1>2, <1>4, <1>5 DEF Recalls
<1> QED BY <1>1, <1>4, <1>6 DEF Persisted

LEMMA RemembersKept ==
  ASSUME Inv, Remembers, [Next]_vars
  PROVE  Remembers'
<1>1. Inv' /\ TypeInv /\ TypeInv'
  BY Kept DEF Inv
<1>2. Turned' /\ Unseen'
  BY <1>1, TurnsKept, UnseenKept DEF Remembers
<1>3. ASSUME NEW c \in Actors PROVE Lone(c)' /\ Holds(c)' /\ Knows(c)'
  <2>1. CASE ~Restart
    BY <1>1, <2>1, LoneKept, HoldsKept, KnowsKept DEF Remembers
  <2>2. CASE Restart
    BY <2>2 DEF Restart, LoseMemory, Lone, Holds, Knows, Streaming
  <2> QED BY <2>1, <2>2
<1>4. ASSUME NEW s \in Sessions PROVE Recalls(s)'
  BY RecallsKept, RecallsAgain DEF Remembers
<1>5. ASSUME NEW s \in Sessions, life'[s] = "new" PROVE done'[s] = {}
  <2>1. life[s] = "new" /\ done[s] = {}
    BY <1>1, <1>5, NewBefore DEF Remembers
  <2>2. ASSUME NEW c \in Actors, Persist(c), sess[c] = s PROVE FALSE
    BY <2>1, <2>2 DEF Persist, At, Inv, CallLife
  <2> QED BY <1>1, <2>1, <2>2, Doing
<1> QED BY <1>2, <1>3, <1>4, <1>5 DEF Remembers

(***************************************************************************)
(* A message is given to an agent that remembers every finished turn whose *)
(* events are stored: awaitCreateSettled, rehydrateConversation before a   *)
(* restored container is used, and the map's one container per session see *)
(* to it, whatever workers leave, containers die, steps fail and however   *)
(* often the host restarts.  Not so of a session whose calls have crossed, *)
(* or whose container was left without its conversation by a load that     *)
(* failed or a host that restarted before it, until it is loaded again.    *)
(***************************************************************************)
THEOREM AgentAlwaysRemembers == Spec => []AgentRemembers
<1>1. ASSUME Init PROVE Inv /\ Remembers
  <2>1. Turned
    BY <1>1 DEF Init, Turned
  <2>2. Unseen
    BY <1>1 DEF Init, EnvInit, Unseen, Seen, NoImage
  <2>3. \A c \in Actors : Lone(c) /\ Holds(c) /\ Knows(c)
    BY <1>1 DEF Init, Lone, Holds, Knows, Streaming
  <2>4. \A s \in Sessions : Recalls(s) /\ (life[s] = "new" => done[s] = {})
    BY <1>1 DEF Init, Recalls
  <2> QED BY <1>1, <2>1, <2>2, <2>3, <2>4, Starts DEF Remembers
<1>2. Inv /\ Remembers /\ [Next]_vars => (Inv /\ Remembers)'
  BY Kept, RemembersKept
<1>3. ASSUME Inv, Remembers PROVE AgentRemembers
  <2> SUFFICES ASSUME NEW c \in Actors, pc[c] = "have", op[c] = "send", cstate[inst[c]] = "up",
                      sess[c] \notin crossed \cup unloaded
               PROVE  done[sess[c]] \cap Persisted(sess[c]) \subseteq memory[inst[c]]
    BY DEF AgentRemembers, At
  <2>1. Inv /\ (\A e \in Actors : Lone(e)) /\ Holds(c) /\ \A s \in Sessions : Recalls(s)
    BY <1>3 DEF Remembers
  <2>2. sess[c] \in Sessions /\ instances[sess[c]] = inst[c] /\ inst[c] # NoInst
    BY <2>1 DEF Inv, TypeInv, TypeOK, CallTypeOK, CallShape, Holds
  <2>3. ASSUME NEW d \in Actors, pc[d] = "rehydrate", sess[d] = sess[c] PROVE FALSE
    BY <2>1, <2>3, Behind
  <2> QED BY <2>1, <2>2, <2>3 DEF Recalls
<1> QED BY <1>1, <1>2, <1>3, PTL DEF Spec

=============================================================================
