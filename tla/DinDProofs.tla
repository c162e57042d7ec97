------------------------------ MODULE DinDProofs ------------------------------
(***************************************************************************)
(* Proofs about DinD, for any number of sessions, ports, containers and    *)
(* callers.  First what the methods of the port pool preserve, for any     *)
(* port range: what follows cites these lemmas and never expands a method. *)
(* Then what holds of every session whatever calls overlap.  Last, of the  *)
(* sessions whose own calls have not overlapped, whatever those of others  *)
(* do: leases belong to the instances they back, and DinD implements       *)
(* Environment.                                                            *)
(***************************************************************************)
EXTENDS DinDEnvironment, WellFoundedInduction, TLAPS

----------------------------------------------------------------------------
(* The port pool.                                                          *)

\* A port of the pool, and a pool that conserves its ports.
PoolInv == PoolTypeOK /\ PoolPartition

Less == OpToRel(<, Nat)

LEMMA LessContains == \A x, y \in Nat : x < y => <<x, y>> \in Less
  BY DEF Less, OpToRel

\* The head of a non-empty slice is a port of the slice.
LEMMA LowestIsFree ==
  ASSUME NEW P \in SUBSET Nat, P # {}
  PROVE  Lowest(P) \in P
<1>1. PICK x \in P : \A y \in P : ~(<<y, x>> \in Less)
  BY WFMin, NatLessThanWellFounded, Zenon DEF Less
<1>2. ASSUME NEW y \in P PROVE x <= y
  <2>1. x \in Nat /\ y \in Nat
    OBVIOUS
  <2>2. ~(y < x)
    BY <1>1, <2>1, LessContains, Zenon
  <2> QED BY <2>1, <2>2
<1> QED BY <1>2 DEF Lowest

----------------------------------------------------------------------------
LEMMA InitialPool == NewPortAllocator => PoolInv
<1> SUFFICES ASSUME NewPortAllocator PROVE PoolInv
  OBVIOUS
<1> QED
  BY PortsAssumption DEF NewPortAllocator, PoolInv, PoolTypeOK, PoolPartition,
     FreeOrLeased, FreeNotLeased, OneLessee, Leased, HasLease

LEMMA ResetPool == Reset => PoolInv'
<1> SUFFICES ASSUME Reset PROVE PoolInv'
  OBVIOUS
<1> QED
  BY PortsAssumption DEF Reset, PoolInv, PoolTypeOK, PoolPartition,
     FreeOrLeased, FreeNotLeased, OneLessee, Leased, HasLease

LEMMA PoolUnchanged == PoolInv /\ UNCHANGED poolVars => PoolInv'
  BY DEF PoolInv, PoolTypeOK, PoolPartition, FreeOrLeased, FreeNotLeased,
     OneLessee, Leased, HasLease, poolVars

\* Allocate leases a free port, or returns the lease the session has.
LEMMA AllocateLeases ==
  ASSUME PoolInv, NEW s \in Sessions, Allocate(s)
  PROVE  PoolInv' /\ allocated'[s] \in Ports
<1>1. CASE HasLease(s) /\ UNCHANGED poolVars
  BY <1>1, PoolUnchanged DEF PoolInv, PoolTypeOK, HasLease, poolVars
<1>2. CASE /\ ~HasLease(s)
           /\ available # {}
           /\ allocated' = [allocated EXCEPT ![s] = Lowest(available)]
           /\ available' = available \ {Lowest(available)}
  <2> DEFINE p == Lowest(available)
  <2>1. p \in available /\ p \in Ports
    BY <1>2, LowestIsFree, PortsAssumption DEF PoolInv, PoolTypeOK
  <2>2. p # NoPort
    BY <2>1, PortsAssumption
  <2> HIDE DEF p
  <2>3. allocated' = [allocated EXCEPT ![s] = p] /\ available' = available \ {p}
    BY <1>2 DEF p
  <2>4. PoolTypeOK'
    BY <2>1, <2>3 DEF PoolInv, PoolTypeOK
  <2>5. \A t \in Sessions : allocated'[t] = IF t = s THEN p ELSE allocated[t]
    BY <2>3 DEF PoolInv, PoolTypeOK
  <2>6. Leased' = Leased \cup {p}
    BY <1>2, <2>2, <2>5 DEF Leased, HasLease
  <2>7. p \notin Leased
    BY <2>1 DEF PoolInv, PoolPartition, FreeNotLeased
  <2>8. OneLessee'
    BY <2>5, <2>7 DEF PoolInv, PoolPartition, OneLessee, HasLease, Leased
  <2>9. FreeOrLeased' /\ FreeNotLeased'
    BY <2>1, <2>3, <2>6, <2>7
    DEF PoolInv, PoolPartition, FreeOrLeased, FreeNotLeased
  <2> QED BY <2>1, <2>4, <2>5, <2>8, <2>9 DEF PoolInv, PoolPartition
<1> QED BY <1>1, <1>2 DEF Allocate

LEMMA ReleaseFrees ==
  ASSUME PoolInv, NEW s \in Sessions, Release(s)
  PROVE  PoolInv'
<1>1. CASE HasLease(s) /\ available' = available \cup {allocated[s]}
           /\ allocated' = [allocated EXCEPT ![s] = NoPort]
  <2> DEFINE p == allocated[s]
  <2>1. p \in Ports /\ p \in Leased
    BY <1>1 DEF PoolInv, PoolTypeOK, HasLease, Leased
  <2>2. \A t \in Sessions : allocated'[t] = IF t = s THEN NoPort ELSE allocated[t]
    BY <1>1 DEF PoolInv, PoolTypeOK
  <2>3. \A t \in Sessions : t # s /\ HasLease(t) => allocated[t] # p
    BY <1>1 DEF PoolInv, PoolPartition, OneLessee
  <2>4. Leased' = Leased \ {p}
    BY <1>1, <2>2, <2>3 DEF Leased, HasLease
  <2>5. PoolTypeOK'
    BY <1>1, <2>1 DEF PoolInv, PoolTypeOK
  <2>6. OneLessee'
    BY <2>2 DEF PoolInv, PoolPartition, OneLessee, HasLease
  <2>7. FreeOrLeased' /\ FreeNotLeased'
    BY <1>1, <2>1, <2>4 DEF PoolInv, PoolPartition, FreeOrLeased, FreeNotLeased
  <2> QED BY <2>5, <2>6, <2>7 DEF PoolInv, PoolPartition
<1>2. CASE ~HasLease(s) /\ UNCHANGED poolVars
  BY <1>2, PoolUnchanged
<1> QED BY <1>1, <1>2 DEF Release

\* Adopt conserves the ports when the session has no lease and the port is
\* free: on a session that has one, its old port would be lost.
LEMMA AdoptLeases ==
  ASSUME PoolInv, NEW s \in Sessions, NEW p \in available, ~HasLease(s), Adopt(s, p)
  PROVE  PoolInv'
<1>1. p \in Ports /\ p # NoPort /\ p \notin Leased
  BY PortsAssumption DEF PoolInv, PoolTypeOK, PoolPartition, FreeNotLeased
<1>2. \A t \in Sessions : allocated'[t] = IF t = s THEN p ELSE allocated[t]
  BY DEF Adopt, PoolInv, PoolTypeOK
<1>3. Leased' = Leased \cup {p}
  BY <1>1, <1>2 DEF Leased, HasLease
<1>4. PoolTypeOK'
  BY <1>1 DEF Adopt, PoolInv, PoolTypeOK
<1>5. OneLessee'
  BY <1>1, <1>2 DEF PoolInv, PoolPartition, OneLessee, HasLease, Leased
<1>6. FreeOrLeased' /\ FreeNotLeased'
  BY <1>1, <1>3 DEF Adopt, PoolInv, PoolPartition, FreeOrLeased, FreeNotLeased
<1> QED BY <1>4, <1>5, <1>6 DEF PoolInv, PoolPartition

----------------------------------------------------------------------------
(* The inductive invariant.                                                *)

\* Where a call holds a session, and where it holds a container.
HoldsSession == {"alloc", "create", "giveBack", "start", "register", "health",
                 "release", "cleanup", "stop", "remove", "finish"}
HoldsContainer == {"start", "register", "health", "release", "cleanup",
                   "stop", "remove", "finish"}

CallInv ==
  \A c \in Callers :
    /\ pc[c] \in HoldsSession => mode = "up" /\ sess[c] \in Sessions
    /\ pc[c] = "create" => port[c] \in Ports
    /\ pc[c] \in HoldsContainer => inst[c] \in Ids /\ status[inst[c]] # "none"

\* What the daemon guarantees: no two containers of one session, no two
\* running containers on one port.
DaemonInv ==
  /\ \A i \in Ids : status[i] # "none" => label[i] \in Sessions /\ bind[i] \in Ports
  /\ \A i, j \in Ids : i # j /\ Exists(i) /\ Exists(j) => label[i] # label[j]
  /\ \A i, j \in Ids :
       i # j /\ status[i] = "running" /\ status[j] = "running" => bind[i] # bind[j]

\* The host only knows containers that were created.
MapInv ==
  /\ \A i \in Ids : entry[i] # "none" => status[i] # "none"
  /\ \A i \in known : status[i] # "none"

\* While Recover works through its list, the containers still to be visited
\* have their ports free and their sessions without a lease.
RecoverInv ==
  /\ mode = "down" =>
       /\ available = Ports
       /\ allocated = [s \in Sessions |-> NoPort]
  /\ mode = "recovering" =>
       /\ \A i \in Ids : listed[i] # "none" => Exists(i)
       /\ \A i \in Ids :
            listed[i] = "running" =>
              allocated[label[i]] = NoPort /\ bind[i] \in available
       /\ \A i, j \in Ids :
            i # j /\ listed[i] = "running" /\ listed[j] = "running"
              => bind[i] # bind[j]
       /\ \A i \in Ids :
            status[i] = "running" => listed[i] = "running" \/ Adopted(i)

\* The history is of the calls since the host started.
CrossedInv == mode # "up" => crossed = {}

IInv ==
  TypeOK /\ PoolPartition /\ CallInv /\ DaemonInv /\ MapInv /\ RecoverInv
    /\ CrossedInv

----------------------------------------------------------------------------
(* Every action that changes the pool conserves its ports.                 *)
LEMMA PoolStep == IInv /\ [Next]_vars => PoolInv'
<1> SUFFICES ASSUME IInv, [Next]_vars PROVE PoolInv'
  OBVIOUS
<1> USE DEF IInv
<1>0. PoolInv
  BY DEF PoolInv, TypeOK
<1>1. ASSUME NEW c \in Callers, AllocatePort(c) PROVE PoolInv'
  <2>1. sess[c] \in Sessions
    BY <1>1 DEF AllocatePort, At, CallInv, HoldsSession
  <2> QED BY <1>0, <1>1, <2>1, AllocateLeases, PoolUnchanged DEF AllocatePort
<1>2. ASSUME NEW c \in Callers, GiveBack(c) \/ ReleasePort(c) \/ Finish(c)
      PROVE  PoolInv'
  <2>1. sess[c] \in Sessions /\ Release(sess[c])
    BY <1>2 DEF GiveBack, ReleasePort, Finish, At, CallInv, HoldsSession
  <2> QED BY <1>0, <2>1, ReleaseFrees
<1>3. CASE Crash
  BY <1>3, ResetPool DEF Crash
<1>4. ASSUME NEW i \in Ids, RecoverRunning(i) PROVE PoolInv'
  <2>1. label[i] \in Sessions /\ ~HasLease(label[i]) /\ bind[i] \in available
    BY <1>4 DEF RecoverRunning, RecoverInv, DaemonInv, Exists, HasLease
  <2>2. Adopt(label[i], bind[i])
    BY <1>4 DEF RecoverRunning
  <2> QED BY <1>0, <2>1, <2>2, AdoptLeases
<1>5. CASE UNCHANGED poolVars
  BY <1>0, <1>5, PoolUnchanged
<1>6. ASSUME NEW c \in Callers,
             \/ Create(c) \/ Start(c) \/ Register(c) \/ Healthy(c) \/ Unhealthy(c)
             \/ Cleanup(c) \/ Stop(c) \/ Remove(c)
      PROVE  UNCHANGED poolVars
  BY <1>6 DEF Create, Start, Register, Healthy, Unhealthy, Cleanup, Stop, Remove
<1>7. ASSUME NEW c \in Callers, NEW s \in Sessions,
             ProvisionExisting(c, s) \/ ProvisionNew(c, s)
      PROVE  UNCHANGED poolVars
  BY <1>7 DEF ProvisionExisting, ProvisionNew
<1>8. ASSUME NEW c \in Callers, NEW i \in Ids, DestroyGone(c, i) \/ DestroyMark(c, i)
      PROVE  UNCHANGED poolVars
  BY <1>8 DEF DestroyGone, DestroyMark, vars
<1>9. ASSUME NEW i \in Ids, RecoverStopped(i) \/ Dies(i) PROVE UNCHANGED poolVars
  BY <1>9 DEF RecoverStopped, Dies
<1>10. Restart \/ RecoverDone => UNCHANGED poolVars
  BY DEF Restart, RecoverDone
<1>11. known \subseteq Ids
  BY DEF TypeOK
<1> QED
  BY <1>1, <1>2, <1>3, <1>4, <1>5, <1>6, <1>7, <1>8, <1>9, <1>10, <1>11
  DEF Next, CallStep, RecoverStep, vars

\* Only a call that starts, and the crash that ends all calls, touch the
\* history.
LEMMA HistoryStep ==
  IInv /\ [Next]_vars => crossed' \subseteq Sessions /\ CrossedInv'
<1> SUFFICES ASSUME IInv, [Next]_vars PROVE crossed' \subseteq Sessions /\ CrossedInv'
  OBVIOUS
<1> USE DEF IInv, TypeOK, CrossedInv, At
<1>1. ASSUME NEW c \in Callers, CallStep(c) PROVE mode' = "up" /\ crossed' = crossed
  BY <1>1
  DEF CallStep, AllocatePort, Create, GiveBack, Start, Register, Healthy, Unhealthy,
      ReleasePort, Cleanup, Stop, Remove, Finish, hostVars
<1>2. ASSUME NEW c \in Callers, NEW s \in Sessions,
             ProvisionExisting(c, s) \/ ProvisionNew(c, s)
      PROVE  mode' = "up" /\ crossed' \subseteq Sessions
  BY <1>2 DEF ProvisionExisting, ProvisionNew, Enters, hostVars
<1>3. ASSUME NEW c \in Callers, NEW i \in known, DestroyMark(c, i)
      PROVE  mode' = "up" /\ crossed' \subseteq Sessions
  <2>1. label[i] \in Sessions
    BY DEF MapInv, DaemonInv
  <2> QED BY <1>3, <2>1 DEF DestroyMark, Enters
<1>4. ASSUME NEW c \in Callers, NEW i \in known, DestroyGone(c, i)
      PROVE  UNCHANGED <<mode, crossed>>
  BY <1>4 DEF DestroyGone, vars, hostVars
<1>5. CASE Crash \/ Restart \/ RecoverDone
  BY <1>5 DEF Crash, Restart, RecoverDone
<1>6. ASSUME NEW i \in Ids, RecoverRunning(i) \/ RecoverStopped(i) \/ Dies(i)
      PROVE  UNCHANGED <<mode, crossed>>
  BY <1>6 DEF RecoverRunning, RecoverStopped, Dies, hostVars
<1>7. CASE UNCHANGED vars
  BY <1>7 DEF vars, hostVars
<1> QED
  BY <1>1, <1>2, <1>3, <1>4, <1>5, <1>6, <1>7 DEF Next, RecoverStep

LEMMA TypeStep == IInv /\ [Next]_vars => TypeOK'
<1> SUFFICES ASSUME IInv, [Next]_vars PROVE TypeOK'
  OBVIOUS
<1> USE DEF IInv, TypeOK, DaemonTypeOK, CallInv, HoldsSession, HoldsContainer,
            At, Return, Goto, Fault, callVars, hostVars, budget, daemonVars
<1>0. PoolTypeOK' /\ crossed' \subseteq Sessions
  BY PoolStep, HistoryStep DEF PoolInv
<1>1. ASSUME NEW c \in Callers, AllocatePort(c) PROVE TypeOK'
  BY <1>0, <1>1, AllocateLeases DEF AllocatePort, PoolInv
<1>2. ASSUME NEW c \in Callers, GiveBack(c) \/ ReleasePort(c) \/ Finish(c)
      PROVE  TypeOK'
  BY <1>0, <1>2 DEF GiveBack, ReleasePort, Finish
<1>3. ASSUME NEW c \in Callers, Create(c) \/ Start(c) PROVE TypeOK'
  BY <1>0, <1>3 DEF Create, ContainerCreate, Start, ContainerStart
<1>4. ASSUME NEW c \in Callers, Register(c) \/ Healthy(c) \/ Unhealthy(c)
      PROVE  TypeOK'
  BY <1>0, <1>4 DEF Register, Healthy, Unhealthy
<1>5. ASSUME NEW c \in Callers, Cleanup(c) \/ Stop(c) \/ Remove(c)
      PROVE  TypeOK'
  BY <1>0, <1>5 DEF Cleanup, Stop, Remove, ContainerRemove, ContainerStop
<1>6. ASSUME NEW c \in Callers, NEW s \in Sessions,
             ProvisionExisting(c, s) \/ ProvisionNew(c, s)
      PROVE  TypeOK'
  BY <1>0, <1>6 DEF ProvisionExisting, ProvisionNew, Tracked
<1>7. ASSUME NEW c \in Callers, NEW i \in known, DestroyGone(c, i) \/ DestroyMark(c, i)
      PROVE  TypeOK'
  BY <1>0, <1>7 DEF DestroyGone, DestroyMark, vars, MapInv, DaemonInv
<1>8. CASE Crash \/ Restart \/ RecoverDone
  BY <1>0, <1>8 DEF Crash, Restart, RecoverDone, Unlisted, Exists
<1>9. ASSUME NEW i \in Ids, RecoverRunning(i) \/ RecoverStopped(i) \/ Dies(i)
      PROVE  TypeOK'
  BY <1>0, <1>9 DEF RecoverRunning, RecoverStopped, Visited, Dies, ContainerDies,
     ContainerRemove
<1>10. CASE UNCHANGED vars
  BY <1>0, <1>10 DEF vars
<1> QED
  BY <1>1, <1>2, <1>3, <1>4, <1>5, <1>6, <1>7, <1>8, <1>9, <1>10
  DEF Next, CallStep, RecoverStep

LEMMA DaemonStep == IInv /\ [Next]_vars => DaemonInv'
<1> SUFFICES ASSUME IInv, [Next]_vars PROVE DaemonInv'
  OBVIOUS
<1> USE DEF IInv, TypeOK, DaemonTypeOK, DaemonInv, Exists, daemonVars
<1>1. ASSUME NEW c \in Callers, NEW i \in Ids, At(c, "create"),
             ContainerCreate(i, sess[c], port[c])
      PROVE  DaemonInv'
  <2>1. sess[c] \in Sessions /\ port[c] \in Ports
    BY <1>1 DEF At, CallInv, HoldsSession
  <2>2. \A j \in Ids : Exists(j) => label[j] # sess[c]
    BY <1>1 DEF ContainerCreate, NameTaken
  <2> QED BY <1>1, <2>1, <2>2 DEF ContainerCreate
<1>2. ASSUME NEW i \in Ids, ContainerStart(i) PROVE DaemonInv'
  BY <1>2 DEF ContainerStart, PortBound
<1>3. ASSUME NEW i \in Ids, ContainerStop(i) \/ ContainerRemove(i) \/ ContainerDies(i)
      PROVE  DaemonInv'
  BY <1>3 DEF ContainerStop, ContainerRemove, ContainerDies
<1>4. CASE UNCHANGED daemonVars
  BY <1>4
<1> USE DEF CallInv, HoldsSession, HoldsContainer, At
<1>5. ASSUME NEW c \in Callers, CallStep(c) PROVE DaemonInv'
  <2>1. CASE Create(c)
    BY <1>1, <1>4, <2>1 DEF Create
  <2>2. CASE Start(c)
    BY <1>2, <1>4, <2>2 DEF Start
  <2>3. CASE Cleanup(c) \/ Stop(c) \/ Remove(c)
    BY <1>3, <1>4, <2>3 DEF Cleanup, Stop, Remove
  <2>4. CASE \/ AllocatePort(c) \/ GiveBack(c) \/ Register(c) \/ Healthy(c)
             \/ Unhealthy(c) \/ ReleasePort(c) \/ Finish(c)
    BY <1>4, <2>4
    DEF AllocatePort, GiveBack, Register, Healthy, Unhealthy, ReleasePort, Finish
  <2> QED BY <1>5, <2>1, <2>2, <2>3, <2>4 DEF CallStep
<1>6. ASSUME NEW i \in Ids, RecoverRunning(i) \/ RecoverStopped(i) \/ Dies(i)
      PROVE  DaemonInv'
  BY <1>3, <1>4, <1>6 DEF RecoverRunning, RecoverStopped, Dies
<1>7. ASSUME NEW c \in Callers, NEW s \in Sessions,
             ProvisionExisting(c, s) \/ ProvisionNew(c, s)
      PROVE  UNCHANGED daemonVars
  BY <1>7 DEF ProvisionExisting, ProvisionNew
<1>8. ASSUME NEW c \in Callers, NEW i \in known, DestroyGone(c, i) \/ DestroyMark(c, i)
      PROVE  UNCHANGED daemonVars
  BY <1>8 DEF DestroyGone, DestroyMark, vars
<1>9. Crash \/ Restart \/ RecoverDone => UNCHANGED daemonVars
  BY DEF Crash, Restart, RecoverDone
<1> QED
  BY <1>4, <1>5, <1>6, <1>7, <1>8, <1>9 DEF Next, RecoverStep, vars

LEMMA CallsStep == IInv /\ [Next]_vars => CallInv'
<1> SUFFICES ASSUME IInv, [Next]_vars PROVE CallInv'
  OBVIOUS
<1> USE DEF IInv, TypeOK, DaemonTypeOK, CallInv, HoldsSession, HoldsContainer,
            At, Return, Goto, Fault, callVars, hostVars, budget, daemonVars
<1>1. ASSUME NEW c \in Callers, AllocatePort(c) PROVE CallInv'
  BY <1>1, AllocateLeases DEF AllocatePort, PoolInv
<1>2. ASSUME NEW c \in Callers, GiveBack(c) \/ ReleasePort(c) \/ Finish(c)
      PROVE  CallInv'
  BY <1>2 DEF GiveBack, ReleasePort, Finish
<1>3. ASSUME NEW c \in Callers, Create(c) \/ Start(c) PROVE CallInv'
  BY <1>3 DEF Create, ContainerCreate, Start, ContainerStart
<1>4. ASSUME NEW c \in Callers, Register(c) \/ Healthy(c) \/ Unhealthy(c)
      PROVE  CallInv'
  BY <1>4 DEF Register, Healthy, Unhealthy
<1>5. ASSUME NEW c \in Callers, Cleanup(c) \/ Stop(c) \/ Remove(c)
      PROVE  CallInv'
  BY <1>5 DEF Cleanup, Stop, Remove, ContainerRemove, ContainerStop
<1>6. ASSUME NEW c \in Callers, NEW s \in Sessions,
             ProvisionExisting(c, s) \/ ProvisionNew(c, s)
      PROVE  CallInv'
  BY <1>6 DEF ProvisionExisting, ProvisionNew
<1>7. ASSUME NEW c \in Callers, NEW i \in known, DestroyGone(c, i) \/ DestroyMark(c, i)
      PROVE  CallInv'
  BY <1>7 DEF DestroyGone, DestroyMark, vars, MapInv, DaemonInv
<1>8. CASE Crash \/ Restart \/ RecoverDone
  BY <1>8 DEF Crash, Restart, RecoverDone
<1>9. ASSUME NEW i \in Ids, RecoverRunning(i) \/ RecoverStopped(i) \/ Dies(i)
      PROVE  CallInv'
  BY <1>9 DEF RecoverRunning, RecoverStopped, Dies, ContainerDies, ContainerRemove
<1>10. CASE UNCHANGED vars
  BY <1>10 DEF vars
<1> QED
  BY <1>1, <1>2, <1>3, <1>4, <1>5, <1>6, <1>7, <1>8, <1>9, <1>10
  DEF Next, CallStep, RecoverStep

LEMMA MapStep == IInv /\ [Next]_vars => MapInv'
<1> SUFFICES ASSUME IInv, [Next]_vars PROVE MapInv'
  OBVIOUS
<1> USE DEF IInv, TypeOK, DaemonTypeOK, CallInv, HoldsSession, HoldsContainer,
            MapInv, At, Return, Goto, Fault, callVars, hostVars, budget, daemonVars
<1>1. ASSUME NEW c \in Callers,
             AllocatePort(c) \/ GiveBack(c) \/ ReleasePort(c) \/ Finish(c)
      PROVE  MapInv'
  BY <1>1 DEF AllocatePort, GiveBack, ReleasePort, Finish
<1>2. ASSUME NEW c \in Callers, Create(c) \/ Start(c) PROVE MapInv'
  BY <1>2 DEF Create, ContainerCreate, Start, ContainerStart
<1>3. ASSUME NEW c \in Callers, Register(c) \/ Healthy(c) \/ Unhealthy(c)
      PROVE  MapInv'
  BY <1>3 DEF Register, Healthy, Unhealthy
<1>4. ASSUME NEW c \in Callers, Cleanup(c) \/ Stop(c) \/ Remove(c)
      PROVE  MapInv'
  BY <1>4 DEF Cleanup, Stop, Remove, ContainerRemove, ContainerStop
<1>5. ASSUME NEW c \in Callers, NEW s \in Sessions,
             ProvisionExisting(c, s) \/ ProvisionNew(c, s)
      PROVE  MapInv'
  BY <1>5 DEF ProvisionExisting, ProvisionNew, Tracked
<1>6. ASSUME NEW c \in Callers, NEW i \in known, DestroyGone(c, i) \/ DestroyMark(c, i)
      PROVE  MapInv'
  BY <1>6 DEF DestroyGone, DestroyMark, vars
<1>7. CASE Crash \/ Restart \/ RecoverDone
  BY <1>7 DEF Crash, Restart, RecoverDone
<1>8. ASSUME NEW i \in Ids, RecoverRunning(i) \/ RecoverStopped(i) \/ Dies(i)
      PROVE  MapInv'
  BY <1>8 DEF RecoverRunning, RecoverStopped, Dies, ContainerDies, ContainerRemove,
     RecoverInv, Exists
<1>9. CASE UNCHANGED vars
  BY <1>9 DEF vars
<1> QED
  BY <1>1, <1>2, <1>3, <1>4, <1>5, <1>6, <1>7, <1>8, <1>9
  DEF Next, CallStep, RecoverStep

\* Only a crash, the restart and the steps of Recover touch what RecoverInv
\* speaks of: no call runs before Recover is done.
LEMMA RecoveryStep == IInv /\ [Next]_vars => RecoverInv'
<1> SUFFICES ASSUME IInv, [Next]_vars PROVE RecoverInv'
  OBVIOUS
<1> USE DEF IInv, TypeOK, DaemonTypeOK, RecoverInv, Exists, Adopted, daemonVars,
            poolVars, hostVars
<1>1. CASE Crash
  BY <1>1 DEF Crash, Reset
<1>2. CASE Restart
  BY <1>2 DEF Restart, DaemonInv
<1>3. ASSUME NEW i \in Ids, RecoverRunning(i) PROVE RecoverInv'
  <2>1. mode = "recovering" /\ listed[i] = "running" /\ mode' = mode
    BY <1>3 DEF RecoverRunning
  <2>2. \A j \in Ids :
          /\ allocated'[label[j]] = IF label[j] = label[i] THEN bind[i]
                                                          ELSE allocated[label[j]]
          /\ entry'[j] = IF j = i THEN "running" ELSE entry[j]
          /\ listed'[j] = IF j = i THEN "none" ELSE listed[j]
    BY <1>3, <2>1 DEF RecoverRunning, Adopt, Visited, PoolTypeOK, DaemonInv
  <2>3. known' = known \cup {i} /\ available' = available \ {bind[i]}
    BY <1>3 DEF RecoverRunning, Adopt
  <2>4. \A j \in Ids : j # i /\ Exists(j) => label[j] # label[i]
    BY <2>1 DEF DaemonInv
  <2>5. status' = status /\ label' = label /\ bind' = bind
    BY <1>3 DEF RecoverRunning
  <2> QED BY <2>1, <2>2, <2>3, <2>4, <2>5
<1>4. ASSUME NEW i \in Ids, RecoverStopped(i) PROVE RecoverInv'
  BY <1>4 DEF RecoverStopped, ContainerRemove, Visited
<1>5. ASSUME NEW i \in Ids, Dies(i) PROVE RecoverInv'
  BY <1>5 DEF Dies, ContainerDies
<1>6. ASSUME mode' = "up" PROVE RecoverInv'
  BY <1>6
<1>7. ASSUME NEW c \in Callers, CallStep(c) PROVE mode' = "up"
  BY <1>7
  DEF CallStep, At, Create, Start, Register, Healthy, Unhealthy, Cleanup, Stop,
      Remove, AllocatePort, GiveBack, ReleasePort, Finish
<1>8. ASSUME NEW c \in Callers, NEW s \in Sessions,
             ProvisionExisting(c, s) \/ ProvisionNew(c, s)
      PROVE  mode' = "up"
  BY <1>8 DEF ProvisionExisting, ProvisionNew, At
<1>9. ASSUME NEW c \in Callers, NEW i \in known, DestroyGone(c, i) \/ DestroyMark(c, i)
      PROVE  mode' = "up"
  BY <1>9 DEF DestroyGone, DestroyMark, At, vars
<1>10. RecoverDone => mode' = "up"
  BY DEF RecoverDone
<1>11. CASE UNCHANGED vars
  BY <1>11 DEF vars
<1> QED
  BY <1>1, <1>2, <1>3, <1>4, <1>5, <1>6, <1>7, <1>8, <1>9, <1>10, <1>11
  DEF Next, RecoverStep

LEMMA Initial == Init => IInv
<1> SUFFICES ASSUME Init PROVE IInv
  OBVIOUS
<1>1. PoolInv
  BY InitialPool DEF Init
<1>2. TypeOK
  BY <1>1 DEF Init, TypeOK, DaemonInit, DaemonTypeOK, Unlisted, PoolInv
<1>3. CallInv /\ DaemonInv /\ MapInv /\ RecoverInv /\ CrossedInv
  BY DEF Init, DaemonInit, CallInv, HoldsSession, HoldsContainer, DaemonInv,
     MapInv, RecoverInv, Exists, CrossedInv
<1> QED BY <1>1, <1>2, <1>3 DEF IInv, PoolInv

LEMMA Invariant == Spec => []IInv
<1>1. IInv /\ [Next]_vars => IInv'
  BY PoolStep, HistoryStep, TypeStep, DaemonStep, CallsStep, MapStep, RecoveryStep
  DEF IInv, PoolInv
<1> QED BY <1>1, Initial, PTL DEF Spec

----------------------------------------------------------------------------
(* Every reachable state is well typed: a call past its first step holds   *)
(* the session, port and container its code goes on to use.                *)
THEOREM TypeCorrect == Spec => []TypeOK
<1>1. IInv => TypeOK
  BY DEF IInv
<1> QED BY <1>1, Invariant, PTL

(***************************************************************************)
(* Ports are conserved whatever calls overlap, fail or are cut short by a  *)
(* crash: the methods of ports.go guarantee it alone, except that Adopt    *)
(* needs what Recover relies on, that the daemon's containers are of       *)
(* different sessions and its running ones on different ports.             *)
(***************************************************************************)
THEOREM PortsConserved == Spec => []PoolPartition
<1>1. IInv => PoolPartition
  BY DEF IInv
<1> QED BY <1>1, Invariant, PTL

(***************************************************************************)
(* When Recover is done every running container is in the map, known to    *)
(* the Runner and covered by its session's lease, for every state a crash  *)
(* can leave behind, further crashes during Recover included.              *)
(***************************************************************************)
THEOREM RecoveryIsComplete == Spec => RecoveryComplete
<1>1. ASSUME IInv, [Next]_vars, mode = "recovering", mode' = "up"
      PROVE  \A i \in Ids : status[i] = "running" => Adopted(i)
  <2>1. RecoverDone
    BY <1>1
    DEF Next, CallStep, RecoverStep, ProvisionExisting, ProvisionNew, DestroyGone,
        DestroyMark, At, Create, Start, Register, Healthy, Unhealthy, Cleanup, Stop,
        Remove, AllocatePort, GiveBack, ReleasePort, Finish, Crash, Restart,
        RecoverRunning, RecoverStopped, Dies, vars, hostVars
  <2>2. \A i \in Ids : listed[i] = "none"
    BY <2>1 DEF RecoverDone, Unlisted
  <2> QED BY <1>1, <2>2 DEF IInv, RecoverInv
<1> QED BY <1>1, Invariant, PTL DEF Spec, RecoveryComplete

----------------------------------------------------------------------------
(* Why no container is forgotten.  A container leaves the map only when it *)
(* was removed, or back into the hands of the Provision that put it there; *)
(* and each Provision works on a container of its own.                     *)
OrphanInv ==
  /\ NoOrphan
  /\ \A c \in Callers : pc[c] = "finish" => ~Exists(inst[c])
  /\ \A c \in Callers :
       pc[c] = "health" => entry[inst[c]] # "none" \/ ~Exists(inst[c])
  /\ \A c, d \in Callers : c # d /\ InProvision(c) /\ InProvision(d) => inst[c] # inst[d]
  /\ mode = "recovering" =>
       \A i \in Ids : Exists(i) => listed[i] # "none" \/ entry[i] # "none"

LEMMA OrphanStep == IInv /\ OrphanInv /\ [Next]_vars => OrphanInv'
<1> SUFFICES ASSUME IInv, OrphanInv, [Next]_vars PROVE OrphanInv'
  OBVIOUS
<1> USE DEF IInv, TypeOK, DaemonTypeOK, CallInv, HoldsSession, HoldsContainer,
            OrphanInv, NoOrphan, InProvision, Exists,
            At, Return, Goto, Fault, callVars, hostVars, budget, daemonVars
<1>1. ASSUME NEW c \in Callers, AllocatePort(c) \/ GiveBack(c) \/ ReleasePort(c)
      PROVE  OrphanInv'
  BY <1>1 DEF AllocatePort, GiveBack, ReleasePort
<1>2. ASSUME NEW c \in Callers, Create(c) PROVE OrphanInv'
  BY <1>2 DEF Create, ContainerCreate
<1>3. ASSUME NEW c \in Callers, Start(c) PROVE OrphanInv'
  BY <1>3 DEF Start, ContainerStart
<1>4. ASSUME NEW c \in Callers, Register(c) \/ Healthy(c) PROVE OrphanInv'
  BY <1>4 DEF Register, Healthy
<1>5. ASSUME NEW c \in Callers, Unhealthy(c) PROVE OrphanInv'
  BY <1>5 DEF Unhealthy
<1>6. ASSUME NEW c \in Callers, Cleanup(c) \/ Stop(c) \/ Remove(c)
      PROVE  OrphanInv'
  BY <1>6 DEF Cleanup, Stop, Remove, ContainerRemove, ContainerStop
<1>7. ASSUME NEW c \in Callers, Finish(c) PROVE OrphanInv'
  BY <1>7 DEF Finish
<1>8. ASSUME NEW c \in Callers, NEW s \in Sessions,
             ProvisionExisting(c, s) \/ ProvisionNew(c, s)
      PROVE  OrphanInv'
  BY <1>8 DEF ProvisionExisting, ProvisionNew
<1>9. ASSUME NEW c \in Callers, NEW i \in known, DestroyGone(c, i) \/ DestroyMark(c, i)
      PROVE  OrphanInv'
  BY <1>9 DEF DestroyGone, DestroyMark, vars
<1>10. CASE Crash \/ Restart \/ RecoverDone
  BY <1>10 DEF Crash, Restart, RecoverDone, Unlisted
<1>11. ASSUME NEW i \in Ids, RecoverRunning(i) \/ RecoverStopped(i) \/ Dies(i)
       PROVE  OrphanInv'
  BY <1>11 DEF RecoverRunning, RecoverStopped, Visited, Dies, ContainerDies,
     ContainerRemove
<1>12. CASE UNCHANGED vars
  BY <1>12 DEF vars
<1> QED
  BY <1>1, <1>2, <1>3, <1>4, <1>5, <1>6, <1>7, <1>8, <1>9, <1>10, <1>11, <1>12
  DEF Next, CallStep, RecoverStep

(***************************************************************************)
(* No container is forgotten, whatever calls overlap, fail or crash.       *)
(***************************************************************************)
THEOREM NothingOrphaned == Spec => []NoOrphan
<1>1. Init => OrphanInv
  BY DEF Init, DaemonInit, OrphanInv, NoOrphan, InProvision, Exists
<1>2. OrphanInv => NoOrphan
  BY DEF OrphanInv
<1> QED BY <1>1, <1>2, OrphanStep, Invariant, PTL DEF Spec

----------------------------------------------------------------------------
(* Sessions whose calls have not overlapped.                               *)

InFlight == {"start", "register", "health", "release", "cleanup"}
Destroying == {"stop", "remove", "finish"}

\* A call that is under way has its session to itself, and its container is
\* of its session.
OneCall ==
  /\ \A c, d \in Callers :
       c # d /\ pc[c] \in HoldsSession /\ pc[d] \in HoldsSession /\ sess[c] \notin crossed
         => sess[c] # sess[d]
  /\ \A c \in Callers : pc[c] \in HoldsContainer => label[inst[c]] = sess[c]

\* A Provision keeps its container to itself until it returns it, a Destroy
\* works on one that the Runner holds and that is marked.
OwnContainer ==
  \A c \in Callers :
    sess[c] \notin crossed =>
      /\ pc[c] \in InFlight =>
           /\ inst[c] \notin known
           /\ entry[inst[c]] = IF pc[c] = "health" THEN "running" ELSE "none"
      /\ pc[c] \in {"register", "health"} => status[inst[c]] \in {"running", "exited"}
      /\ pc[c] \in Destroying => entry[inst[c]] = "destroyed"
      /\ pc[c] = "finish" => status[inst[c]] = "removed"

\* What the map and the Runner hold outside of calls.
Held ==
  /\ \A i \in Ids :
       label[i] \notin crossed =>
         /\ entry[i] # "none" =>
              i \in known \/ \E c \in Callers : pc[c] = "health" /\ inst[c] = i
         /\ entry[i] = "destroyed" => i \in known
         /\ i \in known => status[i] \in {"running", "exited", "removed"}
  /\ mode # "up" => \A i \in Ids : entry[i] # "destroyed"
  /\ mode = "down" => known = {}
  /\ mode = "recovering" =>
       \A i \in Ids :
         /\ listed[i] = "running" => status[i] \in {"running", "exited"}
         /\ listed[i] # "none" => i \notin known

SerialInv == OneCall /\ OwnContainer /\ Held

----------------------------------------------------------------------------
LEMMA SerialInit == Init => SerialInv
BY DEF Init, DaemonInit, SerialInv, OneCall, OwnContainer, Held, HoldsSession,
   HoldsContainer, InFlight, Destroying

\* A call of a session whose calls still do not overlap starts alone.
LEMMA Alone ==
  ASSUME TypeOK, NEW s \in Sessions, Enters(s)
  PROVE  /\ crossed \subseteq crossed' /\ crossed' \subseteq crossed \cup {s}
         /\ s \notin crossed' =>
              /\ crossed' = crossed
              /\ \A c \in Callers : pc[c] \in HoldsSession => sess[c] # s
BY DEF Enters, Busy, HoldsSession, TypeOK

\* Create touches no container but a new one, which nobody has heard of.
LEMMA Creates ==
  ASSUME IInv, NEW c \in Callers, Create(c)
  PROVE  /\ pc[c] = "create" /\ mode = "up"
         /\ UNCHANGED <<poolVars, entry, known, mode, listed, sess, port, crossed>>
         /\ \A d \in Callers : d # c => pc'[d] = pc[d] /\ inst'[d] = inst[d]
         /\ \/ pc'[c] = "giveBack" /\ inst' = inst
            \/ /\ pc'[c] = "start" /\ inst'[c] \in Ids /\ status[inst'[c]] = "none"
               /\ bind'[inst'[c]] = port[c] /\ label'[inst'[c]] = sess[c]
         /\ \A j \in Ids :
              IF status[j] # "none"
                THEN status'[j] = status[j] /\ label'[j] = label[j] /\ bind'[j] = bind[j]
                ELSE entry[j] = "none" /\ j \notin known
BY DEF Create, ContainerCreate, IInv, TypeOK, DaemonTypeOK, MapInv, At, Goto, Fault,
       callVars, hostVars, budget, daemonVars, poolVars

LEMMA OneCallStep ==
  IInv /\ SerialInv /\ [Next]_vars => OneCall'
<1> SUFFICES ASSUME IInv, SerialInv, [Next]_vars PROVE OneCall'
  OBVIOUS
<1> USE DEF IInv, TypeOK, DaemonTypeOK, CallInv, HoldsSession, HoldsContainer,
            SerialInv, OneCall, OwnContainer, Held, InFlight, Destroying,
            At, Return, Goto, Fault, callVars, hostVars, budget, daemonVars
<1>1. ASSUME NEW c \in Callers, AllocatePort(c) \/ GiveBack(c) \/ ReleasePort(c)
      PROVE  OneCall'
  BY <1>1 DEF AllocatePort, GiveBack, ReleasePort
<1>2. ASSUME NEW c \in Callers, Create(c) PROVE OneCall'
  BY <1>2 DEF Create, ContainerCreate
<1>3. ASSUME NEW c \in Callers, Start(c) PROVE OneCall'
  BY <1>3 DEF Start, ContainerStart
<1>4. ASSUME NEW c \in Callers, Register(c) \/ Healthy(c) PROVE OneCall'
  BY <1>4 DEF Register, Healthy
<1>5. ASSUME NEW c \in Callers, Unhealthy(c) PROVE OneCall'
  BY <1>5 DEF Unhealthy
<1>6. ASSUME NEW c \in Callers, Cleanup(c) PROVE OneCall'
  BY <1>6 DEF Cleanup, ContainerRemove
<1>7. ASSUME NEW c \in Callers, Stop(c) PROVE OneCall'
  BY <1>7 DEF Stop, ContainerStop
<1>8. ASSUME NEW c \in Callers, Remove(c) PROVE OneCall'
  BY <1>8 DEF Remove, ContainerRemove
<1>9. ASSUME NEW c \in Callers, Finish(c) PROVE OneCall'
  BY <1>9 DEF Finish
<1>10. ASSUME NEW c \in Callers, NEW s \in Sessions, ProvisionExisting(c, s)
       PROVE  OneCall'
  BY <1>10, Alone DEF ProvisionExisting, Tracked
<1>11. ASSUME NEW c \in Callers, NEW s \in Sessions, ProvisionNew(c, s)
       PROVE  OneCall'
  BY <1>11, Alone DEF ProvisionNew
<1>12. ASSUME NEW c \in Callers, NEW i \in known, DestroyGone(c, i) \/ DestroyMark(c, i)
       PROVE  OneCall'
  <2>1. i \in Ids /\ label[i] \in Sessions
    BY DEF MapInv, DaemonInv
  <2> QED BY <1>12, <2>1, Alone DEF DestroyGone, DestroyMark, vars
<1>13. CASE Crash
  BY <1>13 DEF Crash
<1>14. CASE Restart \/ RecoverDone
  BY <1>14 DEF Restart, RecoverDone, Unlisted, Exists
<1>15. ASSUME NEW i \in Ids, RecoverRunning(i) PROVE OneCall'
  BY <1>15 DEF RecoverRunning, Visited
<1>16. ASSUME NEW i \in Ids, RecoverStopped(i) PROVE OneCall'
  BY <1>16 DEF RecoverStopped, ContainerRemove, Visited
<1>17. ASSUME NEW i \in Ids, Dies(i) PROVE OneCall'
  BY <1>17 DEF Dies, ContainerDies
<1>18. CASE UNCHANGED vars
  BY <1>18 DEF vars
<1> QED
  BY <1>1, <1>2, <1>3, <1>4, <1>5, <1>6, <1>7, <1>8, <1>9, <1>10, <1>11, <1>12,
     <1>13, <1>14, <1>15, <1>16, <1>17, <1>18
  DEF Next, CallStep, RecoverStep

LEMMA OwnContainerStep ==
  IInv /\ SerialInv /\ [Next]_vars => OwnContainer'
<1> SUFFICES ASSUME IInv, SerialInv, [Next]_vars PROVE OwnContainer'
  OBVIOUS
<1> USE DEF IInv, TypeOK, DaemonTypeOK, CallInv, HoldsSession, HoldsContainer,
            SerialInv, OneCall, OwnContainer, Held, InFlight, Destroying,
            At, Return, Goto, Fault, callVars, hostVars, budget, daemonVars
<1>1. ASSUME NEW c \in Callers, AllocatePort(c) \/ GiveBack(c) \/ ReleasePort(c)
      PROVE  OwnContainer'
  BY <1>1 DEF AllocatePort, GiveBack, ReleasePort
<1>2. ASSUME NEW c \in Callers, Create(c) PROVE OwnContainer'
  BY <1>2, Creates
<1>3. ASSUME NEW c \in Callers, Start(c) PROVE OwnContainer'
  BY <1>3 DEF Start, ContainerStart
<1>4. ASSUME NEW c \in Callers, Register(c) \/ Healthy(c) PROVE OwnContainer'
  BY <1>4 DEF Register, Healthy
<1>5. ASSUME NEW c \in Callers, Unhealthy(c) PROVE OwnContainer'
  BY <1>5 DEF Unhealthy
<1>6. ASSUME NEW c \in Callers, Cleanup(c) PROVE OwnContainer'
  BY <1>6 DEF Cleanup, ContainerRemove
<1>7. ASSUME NEW c \in Callers, Stop(c) PROVE OwnContainer'
  BY <1>7 DEF Stop, ContainerStop
<1>8. ASSUME NEW c \in Callers, Remove(c) PROVE OwnContainer'
  BY <1>8 DEF Remove, ContainerRemove
<1>9. ASSUME NEW c \in Callers, Finish(c) PROVE OwnContainer'
  BY <1>9 DEF Finish
<1>10. ASSUME NEW c \in Callers, NEW s \in Sessions, ProvisionExisting(c, s)
       PROVE  OwnContainer'
  BY <1>10, Alone DEF ProvisionExisting, Tracked
<1>11. ASSUME NEW c \in Callers, NEW s \in Sessions, ProvisionNew(c, s)
       PROVE  OwnContainer'
  BY <1>11, Alone DEF ProvisionNew
<1>12. ASSUME NEW c \in Callers, NEW i \in known, DestroyGone(c, i) \/ DestroyMark(c, i)
       PROVE  OwnContainer'
  <2>1. i \in Ids /\ label[i] \in Sessions
    BY DEF MapInv, DaemonInv
  <2> QED BY <1>12, <2>1, Alone DEF DestroyGone, DestroyMark, vars
<1>13. CASE Crash
  BY <1>13 DEF Crash
<1>14. CASE Restart \/ RecoverDone
  BY <1>14 DEF Restart, RecoverDone, Unlisted, Exists
<1>15. ASSUME NEW i \in Ids, RecoverRunning(i) PROVE OwnContainer'
  BY <1>15 DEF RecoverRunning, Visited
<1>16. ASSUME NEW i \in Ids, RecoverStopped(i) PROVE OwnContainer'
  BY <1>16 DEF RecoverStopped, ContainerRemove, Visited
<1>17. ASSUME NEW i \in Ids, Dies(i) PROVE OwnContainer'
  BY <1>17 DEF Dies, ContainerDies
<1>18. CASE UNCHANGED vars
  BY <1>18 DEF vars
<1> QED
  BY <1>1, <1>2, <1>3, <1>4, <1>5, <1>6, <1>7, <1>8, <1>9, <1>10, <1>11, <1>12,
     <1>13, <1>14, <1>15, <1>16, <1>17, <1>18
  DEF Next, CallStep, RecoverStep

LEMMA HeldStep ==
  IInv /\ SerialInv /\ [Next]_vars => Held'
<1> SUFFICES ASSUME IInv, SerialInv, [Next]_vars PROVE Held'
  OBVIOUS
<1> USE DEF IInv, TypeOK, DaemonTypeOK, CallInv, HoldsSession, HoldsContainer,
            SerialInv, OneCall, OwnContainer, Held, InFlight, Destroying,
            At, Return, Goto, Fault, callVars, hostVars, budget, daemonVars
<1>1. ASSUME NEW c \in Callers, AllocatePort(c) \/ GiveBack(c) \/ ReleasePort(c)
      PROVE  Held'
  BY <1>1 DEF AllocatePort, GiveBack, ReleasePort
<1>2. ASSUME NEW c \in Callers, Create(c) PROVE Held'
  BY <1>2, Creates
<1>3. ASSUME NEW c \in Callers, Start(c) PROVE Held'
  BY <1>3 DEF Start, ContainerStart
<1>4. ASSUME NEW c \in Callers, Register(c) \/ Healthy(c) PROVE Held'
  BY <1>4 DEF Register, Healthy
<1>5. ASSUME NEW c \in Callers, Unhealthy(c) PROVE Held'
  BY <1>5 DEF Unhealthy
<1>6. ASSUME NEW c \in Callers, Cleanup(c) PROVE Held'
  BY <1>6 DEF Cleanup, ContainerRemove
<1>7. ASSUME NEW c \in Callers, Stop(c) PROVE Held'
  BY <1>7 DEF Stop, ContainerStop
<1>8. ASSUME NEW c \in Callers, Remove(c) PROVE Held'
  BY <1>8 DEF Remove, ContainerRemove
<1>9. ASSUME NEW c \in Callers, Finish(c) PROVE Held'
  BY <1>9 DEF Finish
<1>10. ASSUME NEW c \in Callers, NEW s \in Sessions, ProvisionExisting(c, s)
       PROVE  Held'
  BY <1>10, Alone DEF ProvisionExisting, Tracked
<1>11. ASSUME NEW c \in Callers, NEW s \in Sessions, ProvisionNew(c, s)
       PROVE  Held'
  BY <1>11, Alone DEF ProvisionNew
<1>12. ASSUME NEW c \in Callers, NEW i \in known, DestroyGone(c, i) \/ DestroyMark(c, i)
       PROVE  Held'
  <2>1. i \in Ids /\ label[i] \in Sessions
    BY DEF MapInv, DaemonInv
  <2>2. CASE DestroyGone(c, i)
    BY <2>2 DEF DestroyGone, vars
  <2>3. CASE DestroyMark(c, i)
    <3>1. /\ pc[c] = "idle" /\ mode = "up"
          /\ UNCHANGED <<known, status, label, mode, listed>>
          /\ pc' = [pc EXCEPT ![c] = "stop"] /\ inst' = [inst EXCEPT ![c] = i]
          /\ entry' = [entry EXCEPT ![i] = "destroyed"] /\ Enters(label[i])
      BY <2>3 DEF DestroyMark
    <3>2. crossed \subseteq crossed'
      BY <2>1, <3>1, Alone
    <3> QED BY <2>1, <3>1, <3>2
  <2> QED BY <1>12, <2>2, <2>3
<1>13. CASE Crash
  BY <1>13 DEF Crash
<1>14. CASE Restart \/ RecoverDone
  BY <1>14 DEF Restart, RecoverDone, Unlisted, Exists
<1>15. ASSUME NEW i \in Ids, RecoverRunning(i) PROVE Held'
  BY <1>15 DEF RecoverRunning, Visited
<1>16. ASSUME NEW i \in Ids, RecoverStopped(i) PROVE Held'
  BY <1>16 DEF RecoverStopped, ContainerRemove, Visited
<1>17. ASSUME NEW i \in Ids, Dies(i) PROVE Held'
  BY <1>17 DEF Dies, ContainerDies
<1>18. CASE UNCHANGED vars
  BY <1>18 DEF vars
<1> QED
  BY <1>1, <1>2, <1>3, <1>4, <1>5, <1>6, <1>7, <1>8, <1>9, <1>10, <1>11, <1>12,
     <1>13, <1>14, <1>15, <1>16, <1>17, <1>18
  DEF Next, CallStep, RecoverStep

LEMMA SerialInvariant ==
  Spec => [](IInv /\ SerialInv)
<1>1. IInv /\ SerialInv /\ [Next]_vars => SerialInv'
  BY OneCallStep, OwnContainerStep, HeldStep DEF SerialInv
<1> QED BY <1>1, SerialInit, Invariant, PTL DEF Spec

----------------------------------------------------------------------------
(* Leases.                                                                 *)

HoldsLease == {"create", "giveBack", "start", "register", "health", "release"}
BeforeEntry == {"alloc", "create", "giveBack", "start", "register", "release", "cleanup"}

\* A Provision that has its port leases it, and no entry of its session is
\* in the map but the one it makes.
CallLease ==
  \A c \in Callers :
    sess[c] \notin crossed =>
      /\ pc[c] \in HoldsLease => allocated[sess[c]] = port[c] /\ port[c] \in Ports
      /\ pc[c] \in {"start", "register", "health", "release"} => bind[inst[c]] = port[c]
      /\ pc[c] = "cleanup" => allocated[sess[c]] = NoPort
      /\ pc[c] \in BeforeEntry => Tracked(sess[c]) = {}

\* A session has one entry.
OneEntry ==
  /\ \A i, j \in Ids :
       i # j /\ entry[i] # "none" /\ entry[j] # "none" /\ label[i] \notin crossed
         => label[i] # label[j]
  /\ mode # "up" => \A i \in Ids : entry[i] # "none" => Exists(i)

EntryLease ==
  \A i \in Ids :
    entry[i] = "running" /\ label[i] \notin crossed => allocated[label[i]] = bind[i]

\* While no calls overlapped, nothing else answers on the port of a container
\* that was started.
AloneOnPort ==
  crossed = {} =>
    \A c \in Callers, i \in Ids :
      pc[c] \in {"register", "health"} /\ i # inst[c] /\ bind[i] = port[c]
        => status[i] # "running"

LeaseInv == CallLease /\ OneEntry /\ EntryLease /\ AloneOnPort

LEMMA LeaseInit == Init => LeaseInv
BY DEF Init, DaemonInit, NewPortAllocator, LeaseInv, CallLease, OneEntry, EntryLease,
   AloneOnPort, HoldsLease, BeforeEntry, HasLease

LEMMA CallLeaseStep ==
  IInv /\ SerialInv /\ LeaseInv /\ [Next]_vars => CallLease'
<1> SUFFICES ASSUME IInv, SerialInv, LeaseInv, [Next]_vars
             PROVE  CallLease'
  OBVIOUS
<1> USE DEF IInv, TypeOK, PoolTypeOK, DaemonTypeOK, CallInv, HoldsSession,
            HoldsContainer, SerialInv, OneCall, OwnContainer, Held, InFlight, Destroying,
            LeaseInv, CallLease, HoldsLease, BeforeEntry, Tracked, HasLease, OneEntry,
            At, Return, Goto, Fault, poolVars, callVars, hostVars, budget, daemonVars
<1>1. ASSUME NEW c \in Callers, AllocatePort(c) PROVE CallLease'
  <2>1. pc[c] = "alloc" /\ sess[c] \in Sessions
    BY <1>1 DEF AllocatePort
  <2>2. CASE Exhausted(sess[c]) /\ Return(c) /\ UNCHANGED poolVars
    BY <1>1, <2>1, <2>2 DEF AllocatePort, Exhausted
  <2>3. CASE /\ Allocate(sess[c])
             /\ port' = [port EXCEPT ![c] = allocated'[sess[c]]]
             /\ pc' = [pc EXCEPT ![c] = "create"]
             /\ UNCHANGED <<sess, inst>>
    <3>1. allocated'[sess[c]] \in Ports
      BY <2>1, <2>3, AllocateLeases DEF PoolInv
    <3>2. \A s \in Sessions : s # sess[c] => allocated'[s] = allocated[s]
      BY <2>1, <2>3 DEF Allocate
    <3> QED BY <1>1, <2>1, <2>3, <3>1, <3>2 DEF AllocatePort
  <2> QED BY <1>1, <2>2, <2>3 DEF AllocatePort
<1>2. ASSUME NEW c \in Callers, GiveBack(c) \/ ReleasePort(c) PROVE CallLease'
  BY <1>2 DEF GiveBack, ReleasePort, Release
<1>3. ASSUME NEW c \in Callers, Create(c) PROVE CallLease'
  BY <1>3, Creates
<1>4. ASSUME NEW c \in Callers, Start(c) PROVE CallLease'
  BY <1>4 DEF Start, ContainerStart
<1>5. ASSUME NEW c \in Callers, Register(c) \/ Healthy(c) PROVE CallLease'
  BY <1>5 DEF Register, Healthy
<1>6. ASSUME NEW c \in Callers, Unhealthy(c) PROVE CallLease'
  BY <1>6 DEF Unhealthy
<1>7. ASSUME NEW c \in Callers, Cleanup(c) PROVE CallLease'
  BY <1>7 DEF Cleanup, ContainerRemove
<1>8. ASSUME NEW c \in Callers, Stop(c) PROVE CallLease'
  BY <1>8 DEF Stop, ContainerStop
<1>9. ASSUME NEW c \in Callers, Remove(c) PROVE CallLease'
  BY <1>9 DEF Remove, ContainerRemove
<1>10. ASSUME NEW c \in Callers, Finish(c) PROVE CallLease'
  BY <1>10 DEF Finish, Release
<1>11. ASSUME NEW c \in Callers, NEW s \in Sessions, ProvisionExisting(c, s)
       PROVE  CallLease'
  BY <1>11, Alone DEF ProvisionExisting
<1>12. ASSUME NEW c \in Callers, NEW s \in Sessions, ProvisionNew(c, s)
       PROVE  CallLease'
  BY <1>12, Alone DEF ProvisionNew
<1>13. ASSUME NEW c \in Callers, NEW i \in known, DestroyGone(c, i) \/ DestroyMark(c, i)
       PROVE  CallLease'
  <2>1. i \in Ids /\ label[i] \in Sessions
    BY DEF MapInv, DaemonInv
  <2> QED BY <1>13, <2>1, Alone DEF DestroyGone, DestroyMark, vars
<1>14. CASE Crash
  BY <1>14 DEF Crash, Reset
<1>15. CASE Restart \/ RecoverDone
  BY <1>15 DEF Restart, RecoverDone
<1>16. ASSUME NEW i \in Ids, RecoverRunning(i) PROVE CallLease'
  BY <1>16 DEF RecoverRunning, Adopt, Visited, DaemonInv, RecoverInv, Exists
<1>17. ASSUME NEW i \in Ids, RecoverStopped(i) PROVE CallLease'
  BY <1>17 DEF RecoverStopped, ContainerRemove, Visited
<1>18. ASSUME NEW i \in Ids, Dies(i) PROVE CallLease'
  BY <1>18 DEF Dies, ContainerDies
<1>19. CASE UNCHANGED vars
  BY <1>19 DEF vars
<1> QED
  BY <1>1, <1>2, <1>3, <1>4, <1>5, <1>6, <1>7, <1>8, <1>9, <1>10, <1>11, <1>12,
     <1>13, <1>14, <1>15, <1>16, <1>17, <1>18, <1>19
  DEF Next, CallStep, RecoverStep

LEMMA OneEntryStep ==
  IInv /\ SerialInv /\ LeaseInv /\ [Next]_vars => OneEntry'
<1> SUFFICES ASSUME IInv, SerialInv, LeaseInv, [Next]_vars
             PROVE  OneEntry'
  OBVIOUS
<1> USE DEF IInv, TypeOK, PoolTypeOK, DaemonTypeOK, CallInv, HoldsSession,
            HoldsContainer, SerialInv, OneCall, OwnContainer, Held, InFlight, Destroying,
            LeaseInv, OneEntry, CallLease, BeforeEntry, Tracked, Exists,
            At, Return, Goto, Fault, poolVars, callVars, hostVars, budget, daemonVars
<1>1. ASSUME NEW c \in Callers, AllocatePort(c) PROVE OneEntry'
  BY <1>1 DEF AllocatePort, Allocate, Exhausted
<1>2. ASSUME NEW c \in Callers, GiveBack(c) \/ ReleasePort(c) PROVE OneEntry'
  BY <1>2 DEF GiveBack, ReleasePort, Release
<1>3. ASSUME NEW c \in Callers, Create(c) PROVE OneEntry'
  BY <1>3, Creates
<1>4. ASSUME NEW c \in Callers, Start(c) PROVE OneEntry'
  BY <1>4 DEF Start, ContainerStart
<1>5. ASSUME NEW c \in Callers, Register(c) \/ Healthy(c) PROVE OneEntry'
  BY <1>5 DEF Register, Healthy
<1>6. ASSUME NEW c \in Callers, Unhealthy(c) PROVE OneEntry'
  BY <1>6 DEF Unhealthy
<1>7. ASSUME NEW c \in Callers, Cleanup(c) PROVE OneEntry'
  BY <1>7 DEF Cleanup, ContainerRemove
<1>8. ASSUME NEW c \in Callers, Stop(c) PROVE OneEntry'
  BY <1>8 DEF Stop, ContainerStop
<1>9. ASSUME NEW c \in Callers, Remove(c) PROVE OneEntry'
  BY <1>9 DEF Remove, ContainerRemove
<1>10. ASSUME NEW c \in Callers, Finish(c) PROVE OneEntry'
  BY <1>10 DEF Finish, Release
<1>11. ASSUME NEW c \in Callers, NEW s \in Sessions, ProvisionExisting(c, s)
       PROVE  OneEntry'
  BY <1>11, Alone DEF ProvisionExisting
<1>12. ASSUME NEW c \in Callers, NEW s \in Sessions, ProvisionNew(c, s)
       PROVE  OneEntry'
  BY <1>12, Alone DEF ProvisionNew
<1>13. ASSUME NEW c \in Callers, NEW i \in known, DestroyGone(c, i) \/ DestroyMark(c, i)
       PROVE  OneEntry'
  <2>1. i \in Ids /\ label[i] \in Sessions
    BY DEF MapInv, DaemonInv
  <2> QED BY <1>13, <2>1, Alone DEF DestroyGone, DestroyMark, vars
<1>14. CASE Crash
  BY <1>14 DEF Crash, Reset
<1>15. CASE Restart \/ RecoverDone
  BY <1>15 DEF Restart, RecoverDone
<1>16. ASSUME NEW i \in Ids, RecoverRunning(i) PROVE OneEntry'
  <2>1. Exists(i) /\ entry' = [entry EXCEPT ![i] = "running"]
        /\ UNCHANGED <<status, label, mode, crossed>>
    BY <1>16 DEF RecoverRunning, RecoverInv
  <2>2. \A j \in Ids : entry'[j] # "none" => Exists(j)
    BY <1>16, <2>1 DEF RecoverRunning
  <2>3. \A j, k \in Ids : j # k /\ Exists(j) /\ Exists(k) => label[j] # label[k]
    BY DEF DaemonInv
  <2> QED BY <2>1, <2>2, <2>3
<1>17. ASSUME NEW i \in Ids, RecoverStopped(i) PROVE OneEntry'
  BY <1>17 DEF RecoverStopped, ContainerRemove, Visited, CrossedInv
<1>18. ASSUME NEW i \in Ids, Dies(i) PROVE OneEntry'
  BY <1>18 DEF Dies, ContainerDies
<1>19. CASE UNCHANGED vars
  BY <1>19 DEF vars
<1> QED
  BY <1>1, <1>2, <1>3, <1>4, <1>5, <1>6, <1>7, <1>8, <1>9, <1>10, <1>11, <1>12,
     <1>13, <1>14, <1>15, <1>16, <1>17, <1>18, <1>19
  DEF Next, CallStep, RecoverStep

LEMMA EntryLeaseStep ==
  IInv /\ SerialInv /\ LeaseInv /\ [Next]_vars => EntryLease'
<1> SUFFICES ASSUME IInv, SerialInv, LeaseInv, [Next]_vars
             PROVE  EntryLease'
  OBVIOUS
<1> USE DEF IInv, TypeOK, PoolTypeOK, DaemonTypeOK, CallInv, HoldsSession,
            HoldsContainer, SerialInv, OneCall, OwnContainer, Held, InFlight, Destroying,
            LeaseInv, EntryLease, OneEntry, CallLease, HoldsLease, BeforeEntry,
            Tracked, HasLease, At, Return, Goto, Fault, poolVars, callVars, hostVars, budget, daemonVars
<1>1. ASSUME NEW c \in Callers, AllocatePort(c) PROVE EntryLease'
  <2>1. pc[c] = "alloc" /\ sess[c] \in Sessions /\ UNCHANGED <<entry, label, bind, crossed>>
    BY <1>1 DEF AllocatePort
  <2>2. CASE UNCHANGED poolVars
    BY <2>1, <2>2
  <2>3. CASE Allocate(sess[c])
    <3>1. \A s \in Sessions : s # sess[c] => allocated'[s] = allocated[s]
      BY <2>1, <2>3 DEF Allocate
    <3>2. \A i \in Ids : entry[i] = "running" /\ label[i] \notin crossed =>
            label[i] # sess[c] /\ label[i] \in Sessions
      BY <2>1 DEF MapInv, DaemonInv
    <3> QED BY <2>1, <3>1, <3>2
  <2> QED BY <1>1, <2>2, <2>3 DEF AllocatePort
<1>2. ASSUME NEW c \in Callers, GiveBack(c) \/ ReleasePort(c) PROVE EntryLease'
  <2>1. pc[c] \in BeforeEntry /\ sess[c] \in Sessions /\ Release(sess[c])
        /\ UNCHANGED <<entry, label, bind, crossed>>
    BY <1>2 DEF GiveBack, ReleasePort
  <2>2. \A s \in Sessions : s # sess[c] => allocated'[s] = allocated[s]
    BY <2>1 DEF Release
  <2>3. \A i \in Ids : entry[i] = "running" /\ label[i] \notin crossed =>
          label[i] # sess[c] /\ label[i] \in Sessions
    BY <2>1 DEF MapInv, DaemonInv
  <2> QED BY <2>1, <2>2, <2>3
<1>3. ASSUME NEW c \in Callers, Create(c) PROVE EntryLease'
  BY <1>3, Creates
<1>4. ASSUME NEW c \in Callers, Start(c) PROVE EntryLease'
  BY <1>4 DEF Start, ContainerStart
<1>5. ASSUME NEW c \in Callers, Register(c) PROVE EntryLease'
  <2>1. /\ UNCHANGED <<allocated, label, bind, crossed>>
        /\ inst[c] \in Ids /\ label[inst[c]] = sess[c]
        /\ sess[c] \notin crossed =>
             allocated[sess[c]] = port[c] /\ bind[inst[c]] = port[c]
        /\ entry' = [entry EXCEPT ![inst[c]] = "running"]
    BY <1>5 DEF Register
  <2> QED BY <2>1
<1>6. ASSUME NEW c \in Callers, Healthy(c) \/ Unhealthy(c) PROVE EntryLease'
  BY <1>6 DEF Healthy, Unhealthy
<1>7. ASSUME NEW c \in Callers, Cleanup(c) PROVE EntryLease'
  BY <1>7 DEF Cleanup, ContainerRemove
<1>8. ASSUME NEW c \in Callers, Stop(c) PROVE EntryLease'
  BY <1>8 DEF Stop, ContainerStop
<1>9. ASSUME NEW c \in Callers, Remove(c) PROVE EntryLease'
  BY <1>9 DEF Remove, ContainerRemove
<1>10. ASSUME NEW c \in Callers, Finish(c) PROVE EntryLease'
  <2>1. /\ pc[c] = "finish" /\ sess[c] \in Sessions /\ Release(sess[c])
        /\ inst[c] \in Ids /\ label[inst[c]] = sess[c]
        /\ UNCHANGED <<label, bind, crossed>> /\ entry' = [entry EXCEPT ![inst[c]] = "none"]
    BY <1>10 DEF Finish
  <2>2. \A s \in Sessions : s # sess[c] => allocated'[s] = allocated[s]
    BY <2>1 DEF Release
  <2>3. sess[c] \notin crossed => entry[inst[c]] = "destroyed"
    BY <2>1
  <2>4. \A i \in Ids : entry[i] = "running" /\ label[i] \notin crossed =>
          label[i] # sess[c] /\ label[i] \in Sessions
    BY <2>1, <2>3 DEF MapInv, DaemonInv
  <2> QED BY <2>1, <2>2, <2>4
<1>11. ASSUME NEW c \in Callers, NEW s \in Sessions, ProvisionExisting(c, s)
       PROVE  EntryLease'
  BY <1>11, Alone DEF ProvisionExisting
<1>12. ASSUME NEW c \in Callers, NEW s \in Sessions, ProvisionNew(c, s)
       PROVE  EntryLease'
  BY <1>12, Alone DEF ProvisionNew
<1>13. ASSUME NEW c \in Callers, NEW i \in known, DestroyGone(c, i) \/ DestroyMark(c, i)
       PROVE  EntryLease'
  <2>1. i \in Ids /\ label[i] \in Sessions
    BY DEF MapInv, DaemonInv
  <2> QED BY <1>13, <2>1, Alone DEF DestroyGone, DestroyMark, vars
<1>14. CASE Crash
  BY <1>14 DEF Crash, Reset
<1>15. CASE Restart \/ RecoverDone
  BY <1>15 DEF Restart, RecoverDone
<1>16. ASSUME NEW i \in Ids, RecoverRunning(i) PROVE EntryLease'
  BY <1>16 DEF RecoverRunning, Adopt, Visited, DaemonInv, RecoverInv, Exists
<1>17. ASSUME NEW i \in Ids, RecoverStopped(i) PROVE EntryLease'
  BY <1>17 DEF RecoverStopped, ContainerRemove, Visited
<1>18. ASSUME NEW i \in Ids, Dies(i) PROVE EntryLease'
  BY <1>18 DEF Dies, ContainerDies
<1>19. CASE UNCHANGED vars
  BY <1>19 DEF vars
<1> QED
  BY <1>1, <1>2, <1>3, <1>4, <1>5, <1>6, <1>7, <1>8, <1>9, <1>10, <1>11, <1>12,
     <1>13, <1>14, <1>15, <1>16, <1>17, <1>18, <1>19
  DEF Next, CallStep, RecoverStep

LEMMA AloneOnPortStep ==
  IInv /\ SerialInv /\ LeaseInv /\ [Next]_vars => AloneOnPort'
<1> SUFFICES ASSUME IInv, SerialInv, LeaseInv, [Next]_vars
             PROVE  AloneOnPort'
  OBVIOUS
<1> USE DEF IInv, TypeOK, PoolTypeOK, DaemonTypeOK, CallInv, HoldsSession,
            HoldsContainer, SerialInv, OneCall, OwnContainer, Held, InFlight, Destroying,
            LeaseInv, AloneOnPort, CallLease, HoldsLease, HasLease,
            At, Return, Goto, Fault, poolVars, callVars, hostVars, budget, daemonVars
<1>1. ASSUME NEW c \in Callers, AllocatePort(c) PROVE AloneOnPort'
  BY <1>1 DEF AllocatePort, Allocate, Exhausted
<1>2. ASSUME NEW c \in Callers, GiveBack(c) \/ ReleasePort(c) PROVE AloneOnPort'
  BY <1>2 DEF GiveBack, ReleasePort, Release
<1>3. ASSUME NEW c \in Callers, Create(c) PROVE AloneOnPort'
  <2>1. \A i \in Ids, d \in Callers :
          /\ pc'[d] \in {"register", "health"} /\ i # inst'[d] /\ bind'[i] = port'[d]
          /\ status'[i] = "running"
          => pc[d] = pc'[d] /\ inst[d] = inst'[d] /\ bind[i] = port[d] /\ status[i] = "running"
    BY <1>3 DEF Create, ContainerCreate
  <2>2. crossed' = crossed
    BY <1>3 DEF Create
  <2> QED BY <2>1, <2>2
<1>4. ASSUME NEW c \in Callers, Start(c) PROVE AloneOnPort'
  <2>1. CASE crossed # {}
    BY <1>4, <2>1 DEF Start
  <2>2. CASE crossed = {}
    <3>1. pc[c] = "start" /\ inst[c] \in Ids /\ sess[c] \in Sessions
          /\ bind[inst[c]] = allocated[sess[c]] /\ allocated[sess[c]] \in Ports
          /\ bind[inst[c]] = port[c] /\ UNCHANGED <<inst, port, bind, crossed>>
      BY <1>4, <2>2 DEF Start, ContainerStart
    <3>2. ASSUME NEW d \in Callers, d # c, pc[d] \in {"register", "health"}
          PROVE  port[d] # bind[inst[c]]
      BY <2>2, <3>1, <3>2, PortsAssumption DEF PoolPartition, OneLessee
    <3>3. CASE ContainerStart(inst[c]) /\ pc' = [pc EXCEPT ![c] = "register"]
      BY <1>4, <2>2, <3>1, <3>2, <3>3 DEF Start, ContainerStart, PortBound
    <3>4. CASE UNCHANGED daemonVars /\ pc' = [pc EXCEPT ![c] = "release"]
      BY <2>2, <3>1, <3>4
    <3> QED BY <1>4, <3>3, <3>4 DEF Start
  <2> QED BY <2>1, <2>2
<1>5. ASSUME NEW c \in Callers, Register(c) \/ Healthy(c) PROVE AloneOnPort'
  BY <1>5 DEF Register, Healthy
<1>6. ASSUME NEW c \in Callers, Unhealthy(c) PROVE AloneOnPort'
  BY <1>6 DEF Unhealthy
<1>7. ASSUME NEW c \in Callers, Cleanup(c) PROVE AloneOnPort'
  BY <1>7 DEF Cleanup, ContainerRemove
<1>8. ASSUME NEW c \in Callers, Stop(c) PROVE AloneOnPort'
  BY <1>8 DEF Stop, ContainerStop
<1>9. ASSUME NEW c \in Callers, Remove(c) PROVE AloneOnPort'
  BY <1>9 DEF Remove, ContainerRemove
<1>10. ASSUME NEW c \in Callers, Finish(c) PROVE AloneOnPort'
  BY <1>10 DEF Finish, Release
<1>11. ASSUME NEW c \in Callers, NEW s \in Sessions, ProvisionExisting(c, s)
       PROVE  AloneOnPort'
  BY <1>11, Alone DEF ProvisionExisting
<1>12. ASSUME NEW c \in Callers, NEW s \in Sessions, ProvisionNew(c, s)
       PROVE  AloneOnPort'
  BY <1>12, Alone DEF ProvisionNew
<1>13. ASSUME NEW c \in Callers, NEW i \in known, DestroyGone(c, i) \/ DestroyMark(c, i)
       PROVE  AloneOnPort'
  <2>1. i \in Ids /\ label[i] \in Sessions
    BY DEF MapInv, DaemonInv
  <2> QED BY <1>13, <2>1, Alone DEF DestroyGone, DestroyMark, vars
<1>14. CASE Crash
  BY <1>14 DEF Crash, Reset
<1>15. CASE Restart \/ RecoverDone
  BY <1>15 DEF Restart, RecoverDone
<1>16. ASSUME NEW i \in Ids, RecoverRunning(i) PROVE AloneOnPort'
  BY <1>16 DEF RecoverRunning, Adopt, Visited, DaemonInv, RecoverInv, Exists
<1>17. ASSUME NEW i \in Ids, RecoverStopped(i) PROVE AloneOnPort'
  BY <1>17 DEF RecoverStopped, ContainerRemove, Visited
<1>18. ASSUME NEW i \in Ids, Dies(i) PROVE AloneOnPort'
  BY <1>18 DEF Dies, ContainerDies
<1>19. CASE UNCHANGED vars
  BY <1>19 DEF vars
<1> QED
  BY <1>1, <1>2, <1>3, <1>4, <1>5, <1>6, <1>7, <1>8, <1>9, <1>10, <1>11, <1>12,
     <1>13, <1>14, <1>15, <1>16, <1>17, <1>18, <1>19
  DEF Next, CallStep, RecoverStep

LEMMA LeaseInvariant ==
  Spec => [](IInv /\ SerialInv /\ LeaseInv)
<1>1. IInv /\ SerialInv /\ LeaseInv /\ [Next]_vars => LeaseInv'
  BY CallLeaseStep, OneEntryStep, EntryLeaseStep, AloneOnPortStep DEF LeaseInv
<1> QED BY <1>1, LeaseInit, SerialInvariant, PTL DEF Spec

(***************************************************************************)
(* A session whose calls have not overlapped since the host started leases *)
(* the port its instance answers on, whatever the other sessions do.       *)
(***************************************************************************)
THEOREM LeasesBackInstances ==
  Spec => []LeaseBacksInstance
<1>1. LeaseInv => LeaseBacksInstance
  BY DEF LeaseInv, EntryLease, LeaseBacksInstance
<1> QED BY <1>1, LeaseInvariant, PTL

\* A call holds a lease for its session until it registers an entry or gives
\* the lease back.
GivesBack == {"create", "giveBack", "start", "register", "release"}

LeaseHeld ==
  \A s \in Sessions :
    HasLease(s) =>
      \/ \E i \in Ids : entry[i] # "none" /\ label[i] = s
      \/ \E c \in Callers : pc[c] \in GivesBack /\ sess[c] = s

LEMMA LeaseHeldStep ==
  IInv /\ OneCall /\ LeaseHeld /\ [Next]_vars => LeaseHeld'
<1> SUFFICES ASSUME IInv, OneCall, LeaseHeld, [Next]_vars PROVE LeaseHeld'
  OBVIOUS
<1> USE DEF IInv, TypeOK, PoolTypeOK, DaemonTypeOK, CallInv, HoldsSession,
            HoldsContainer, OneCall, LeaseHeld, GivesBack, HasLease,
            At, Return, Goto, Fault, poolVars, callVars, hostVars, budget, daemonVars
<1>1. ASSUME NEW c \in Callers, AllocatePort(c) PROVE LeaseHeld'
  BY <1>1 DEF AllocatePort, Allocate, Exhausted
<1>2. ASSUME NEW c \in Callers, Create(c) PROVE LeaseHeld'
  BY <1>2, Creates
<1>3. ASSUME NEW c \in Callers, GiveBack(c) \/ ReleasePort(c) PROVE LeaseHeld'
  BY <1>3 DEF GiveBack, ReleasePort, Release
<1>4. ASSUME NEW c \in Callers, Start(c) PROVE LeaseHeld'
  BY <1>4 DEF Start, ContainerStart
<1>5. ASSUME NEW c \in Callers, Register(c) PROVE LeaseHeld'
  BY <1>5 DEF Register
<1>6. ASSUME NEW c \in Callers, Healthy(c) PROVE LeaseHeld'
  BY <1>6 DEF Healthy
<1>7. ASSUME NEW c \in Callers, Unhealthy(c) PROVE LeaseHeld'
  BY <1>7 DEF Unhealthy
<1>8. ASSUME NEW c \in Callers, Cleanup(c) \/ Stop(c) \/ Remove(c) PROVE LeaseHeld'
  BY <1>8 DEF Cleanup, Stop, Remove, ContainerRemove, ContainerStop
<1>9. ASSUME NEW c \in Callers, Finish(c) PROVE LeaseHeld'
  BY <1>9 DEF Finish, Release
<1>10. ASSUME NEW c \in Callers, NEW s \in Sessions,
              ProvisionExisting(c, s) \/ ProvisionNew(c, s)
       PROVE  LeaseHeld'
  BY <1>10 DEF ProvisionExisting, ProvisionNew
<1>11. ASSUME NEW c \in Callers, NEW i \in known, DestroyGone(c, i) \/ DestroyMark(c, i)
       PROVE  LeaseHeld'
  BY <1>11 DEF DestroyGone, DestroyMark, vars
<1>12. CASE Crash
  BY <1>12 DEF Crash, Reset
<1>13. CASE Restart \/ RecoverDone
  BY <1>13 DEF Restart, RecoverDone
<1>14. ASSUME NEW i \in Ids, RecoverRunning(i) PROVE LeaseHeld'
  BY <1>14 DEF RecoverRunning, Adopt, Visited
<1>15. ASSUME NEW i \in Ids, RecoverStopped(i) \/ Dies(i) PROVE LeaseHeld'
  BY <1>15 DEF RecoverStopped, Dies, ContainerDies, ContainerRemove, Visited
<1>16. CASE UNCHANGED vars
  BY <1>16 DEF vars
<1> QED
  BY <1>1, <1>2, <1>3, <1>4, <1>5, <1>6, <1>7, <1>8, <1>9, <1>10, <1>11, <1>12,
     <1>13, <1>14, <1>15, <1>16
  DEF Next, CallStep, RecoverStep

(***************************************************************************)
(* No failure path, crash, recovery or overlap of calls leaves a lease     *)
(* without an instance or a call that answers for it.                      *)
(***************************************************************************)
THEOREM NoLeaseLeaks ==
  Spec => []NoLeakedLease
<1>1. Init => LeaseHeld
  BY DEF Init, NewPortAllocator, LeaseHeld, HasLease
<1>2. LeaseHeld => NoLeakedLease
  BY DEF LeaseHeld, NoLeakedLease, Tracked, Busy, GivesBack
<1>3. SerialInv => OneCall
  BY DEF SerialInv
<1> QED BY <1>1, <1>2, <1>3, LeaseHeldStep, SerialInvariant, PTL DEF Spec

(***************************************************************************)
(* What Provision returns to a session whose calls did not overlap is in   *)
(* the map, on the port the session leases, and while no calls overlapped  *)
(* it runs: although the health check takes whatever answers at the        *)
(* address for the agent, nothing else can answer there.                   *)
(***************************************************************************)
THEOREM OnlyReadyHandedOut ==
  Spec => HandedOutReady
<1>1. ASSUME IInv, SerialInv, LeaseInv, [Next]_vars, mode = "up",
             NEW i \in known' \ known, label[i] \notin crossed'
      PROVE  /\ entry[i] = "running" /\ allocated[label[i]] = bind[i]
             /\ crossed = {} => status[i] = "running"
  <2>1. PICK c \in Callers : Healthy(c) /\ i = inst[c]
    <3>1. ASSUME NEW c \in Callers, NEW s \in Sessions, ProvisionExisting(c, s)
          PROVE  FALSE
      BY <1>1, <3>1, Alone
      DEF ProvisionExisting, Tracked, IInv, SerialInv, Held, OneCall, OwnContainer,
          HoldsSession, HoldsContainer, InFlight
    <3> QED BY <1>1, <3>1
      DEF Next, CallStep, RecoverStep, ProvisionNew, DestroyGone, DestroyMark, AllocatePort,
          Create, GiveBack, Start, Register, Healthy, Unhealthy, ReleasePort, Cleanup, Stop,
          Remove, Finish, Crash, Restart, RecoverRunning, RecoverStopped, RecoverDone, Dies,
          hostVars, vars
  <2>2. /\ pc[c] = "health" /\ PortBound(port[c]) /\ i \in Ids
        /\ label[i] = sess[c] /\ crossed' = crossed
    BY <1>1, <2>1 DEF Healthy, At, IInv, CallInv, SerialInv, OneCall, HoldsContainer
  <2>3. bind[i] = port[c] /\ allocated[sess[c]] = port[c] /\ entry[i] = "running"
    BY <1>1, <2>1, <2>2
    DEF SerialInv, OwnContainer, LeaseInv, CallLease, InFlight, HoldsLease
  <2>4. crossed = {} => status[i] = "running"
    BY <1>1, <2>1, <2>2, <2>3 DEF PortBound, LeaseInv, AloneOnPort
  <2> QED BY <2>2, <2>3, <2>4
<1>2. IInv /\ SerialInv /\ LeaseInv /\ [Next]_vars =>
        (mode = "up" =>
           \A i \in known' \ known :
             label[i] \notin crossed' =>
               /\ entry[i] = "running" /\ allocated[label[i]] = bind[i]
               /\ crossed = {} => status[i] = "running")
  BY <1>1
<1> QED BY <1>2, LeaseInvariant, PTL DEF Spec, HandedOutReady

----------------------------------------------------------------------------
(* The steps of DinD, seen through the mapping.                            *)

LEMMA EnvInitial == Init => Env!Init
BY DEF Init, DaemonInit, Env!Init, stateBar, Seen, askedBar, owedBar, handedBar

\* A container is seen in one state, and seen to change when it changes.
LEMMA SeenAs ==
  ASSUME DaemonTypeOK, NEW i \in Ids
  PROVE  /\ stateBar[i] = "none" <=> status[i] = "none"
         /\ stateBar[i] = "created" <=> status[i] = "created"
         /\ stateBar[i] = "up" <=> status[i] = "running"
         /\ stateBar[i] = "dead" <=> status[i] = "exited"
         /\ stateBar[i] = "gone" <=> status[i] = "removed"
BY DEF stateBar, Seen, DaemonTypeOK

LEMMA SeenSteps ==
  ASSUME DaemonTypeOK, NEW i \in Ids
  PROVE  /\ status' = [status EXCEPT ![i] = "created"]
              => stateBar' = [stateBar EXCEPT ![i] = "created"]
         /\ status' = [status EXCEPT ![i] = "running"]
              => stateBar' = [stateBar EXCEPT ![i] = "up"]
         /\ status' = [status EXCEPT ![i] = "exited"]
              => stateBar' = [stateBar EXCEPT ![i] = "dead"]
         /\ status' = [status EXCEPT ![i] = "removed"]
              => stateBar' = [stateBar EXCEPT ![i] = "gone"]
<1>1. ASSUME NEW st, status' = [status EXCEPT ![i] = st]
      PROVE  stateBar' = [stateBar EXCEPT ![i] = Seen[st]]
  BY <1>1 DEF stateBar, DaemonTypeOK
<1>2. /\ Seen["created"] = "created" /\ Seen["running"] = "up"
      /\ Seen["exited"] = "dead" /\ Seen["removed"] = "gone"
  BY DEF Seen
<1> QED BY <1>1, <1>2

\* What the mapped state reads is all the promise is about.
LEMMA Stutter ==
  ASSUME UNCHANGED <<status, label, entry, known, mode, crossed>>
  PROVE  UNCHANGED Env!vars
BY DEF Env!vars, stateBar, handedBar, askedBar, owedBar

\* A call that overlaps another of its session waives the promise to it.
LEMMA Waives ==
  ASSUME TypeOK, mode = "up", NEW s \in Sessions, crossed' = crossed \cup {s},
         UNCHANGED <<status, label, mode>>,
         \A i \in Ids :
           label[i] # s => (i \in known' <=> i \in known) /\ entry'[i] = entry[i],
         known' \subseteq Ids
  PROVE  Env!Waive(s)
<1>1. UNCHANGED <<stateBar, owedBar>>
  BY DEF stateBar, owedBar
<1>2. handedBar' = {i \in handedBar : label[i] # s}
  BY DEF handedBar, TypeOK
<1>3. askedBar' = {i \in askedBar : label[i] # s}
  BY DEF askedBar
<1> QED BY <1>1, <1>2, <1>3 DEF Env!Waive

LEMMA EnvStep ==
  IInv /\ SerialInv /\ [Next]_vars => [Env!Next]_(Env!vars)
<1> SUFFICES ASSUME IInv, SerialInv, [Next]_vars
             PROVE  [Env!Next]_(Env!vars)
  OBVIOUS
<1> USE DEF IInv, TypeOK, DaemonTypeOK, CallInv, HoldsSession, HoldsContainer,
            SerialInv, OneCall, OwnContainer, Held, InFlight, Destroying,
            At, Return, Goto, Fault, callVars, hostVars, budget, daemonVars
<1>0. \A i \in Ids :
        /\ stateBar[i] = "none" <=> status[i] = "none"
        /\ stateBar[i] = "created" <=> status[i] = "created"
        /\ stateBar[i] = "up" <=> status[i] = "running"
        /\ stateBar[i] = "dead" <=> status[i] = "exited"
        /\ stateBar[i] = "gone" <=> status[i] = "removed"
  BY SeenAs
<1>a. UNCHANGED status => UNCHANGED stateBar
  BY DEF stateBar
<1>b. UNCHANGED mode /\ mode = "up" => UNCHANGED owedBar
  BY DEF owedBar
<1>c. UNCHANGED <<label, entry, known, crossed>> => UNCHANGED <<handedBar, askedBar>>
  BY DEF handedBar, askedBar
<1>1. ASSUME NEW c \in Callers,
             AllocatePort(c) \/ GiveBack(c) \/ ReleasePort(c)
      PROVE  UNCHANGED Env!vars
  BY <1>1, Stutter DEF AllocatePort, GiveBack, ReleasePort
<1>2. ASSUME NEW c \in Callers, Create(c) PROVE [Env!Next]_(Env!vars)
  <2>1. ASSUME NEW i \in Ids, ContainerCreate(i, sess[c], port[c])
        PROVE  Env!Create(i, sess[c])
    <3>1. stateBar' = [stateBar EXCEPT ![i] = "created"]
      BY <2>1, SeenSteps DEF ContainerCreate
    <3>2. stateBar[i] = "none" /\ label' = [label EXCEPT ![i] = sess[c]]
      BY <1>0, <2>1 DEF ContainerCreate
    <3>3. \A j \in Ids : Env!Present(j) => label[j] # sess[c]
      BY <1>0, <2>1 DEF ContainerCreate, NameTaken, Exists, Env!Present
    <3>4. entry[i] = "none" /\ i \notin known
      BY <1>2, <2>1, Creates DEF ContainerCreate
    <3>5. UNCHANGED <<entry, known, mode, crossed>> /\ mode = "up"
      BY <1>2 DEF Create
    <3>6. UNCHANGED <<handedBar, askedBar, owedBar>>
      BY <1>b, <3>2, <3>4, <3>5 DEF handedBar, askedBar
    <3> QED BY <3>1, <3>2, <3>3, <3>5, <3>6 DEF Env!Create
  <2>2. sess[c] \in Sessions
    BY <1>2 DEF Create
  <2>3. CASE UNCHANGED daemonVars
    BY <1>2, <2>3, Stutter DEF Create
  <2>4. \/ UNCHANGED daemonVars
        \/ \E i \in Ids : ContainerCreate(i, sess[c], port[c])
    BY <1>2 DEF Create
  <2> QED BY <2>1, <2>2, <2>3, <2>4 DEF Env!Next
<1>3. ASSUME NEW c \in Callers, Start(c) PROVE [Env!Next]_(Env!vars)
  <2>1. inst[c] \in Ids /\ UNCHANGED <<entry, known, mode, crossed>> /\ mode = "up"
    BY <1>3 DEF Start
  <2>2. ASSUME ContainerStart(inst[c]) PROVE Env!Boot(inst[c])
    <3>1. UNCHANGED <<label, handedBar, askedBar, owedBar>>
      BY <1>b, <1>c, <2>1, <2>2 DEF ContainerStart
    <3> QED BY <1>0, <2>1, <2>2, <3>1, SeenSteps DEF ContainerStart, Env!Boot
  <2>3. CASE UNCHANGED daemonVars
    BY <1>3, <2>3, Stutter DEF Start
  <2> QED BY <1>3, <2>1, <2>2, <2>3 DEF Start, Env!Next
<1>4. ASSUME NEW c \in Callers, Register(c) \/ Unhealthy(c) PROVE UNCHANGED Env!vars
  <2>1. /\ UNCHANGED <<status, label, known, mode, crossed>> /\ mode = "up"
        /\ inst[c] \in Ids /\ label[inst[c]] = sess[c]
        /\ \E w \in {"running", "none"} : entry' = [entry EXCEPT ![inst[c]] = w]
        /\ sess[c] \notin crossed => entry[inst[c]] # "destroyed"
    BY <1>4 DEF Register, Unhealthy
  <2>2. UNCHANGED <<handedBar, askedBar>>
    BY <2>1 DEF handedBar, askedBar
  <2> QED BY <1>a, <1>b, <2>1, <2>2 DEF Env!vars
<1>5. ASSUME NEW c \in Callers, Healthy(c) PROVE [Env!Next]_(Env!vars)
  <2>1. /\ inst[c] \in Ids /\ label[inst[c]] = sess[c] /\ pc[c] = "health"
        /\ known' = known \cup {inst[c]}
        /\ UNCHANGED <<status, label, entry, mode, crossed>> /\ mode = "up"
    BY <1>5 DEF Healthy
  <2>2. UNCHANGED <<stateBar, askedBar>> /\ owedBar = {} /\ owedBar' = {}
    BY <1>a, <2>1 DEF askedBar, owedBar
  <2>3. CASE sess[c] \in crossed
    <3>1. UNCHANGED handedBar
      BY <2>1, <2>3 DEF handedBar
    <3> QED BY <2>1, <2>2, <3>1 DEF Env!vars
  <2>4. CASE sess[c] \notin crossed
    <3>1. handedBar' = handedBar \cup {inst[c]}
      BY <2>1, <2>4 DEF handedBar
    <3>2. stateBar[inst[c]] \in {"up", "dead"}
      BY <1>0, <2>1, <2>4
    <3> QED BY <2>1, <2>2, <2>4, <3>1, <3>2 DEF Env!HandOut, Env!Next
  <2> QED BY <2>3, <2>4
<1>6. ASSUME NEW c \in Callers, NEW i \in Ids, mode = "up", pc[c] \in {"cleanup", "remove"},
             inst[c] = i, ContainerRemove(i), UNCHANGED <<entry, known, mode, crossed>>
      PROVE  [Env!Next]_(Env!vars)
  <2>1. CASE status[i] = "removed"
    BY <1>6, <2>1, Stutter DEF ContainerRemove
  <2>2. ASSUME status[i] # "removed" PROVE Env!Remove(i)
    <3>1. status' = [status EXCEPT ![i] = "removed"] /\ status[i] # "none"
      BY <1>6 DEF ContainerRemove
    <3>2. stateBar' = [stateBar EXCEPT ![i] = "gone"]
      BY <3>1, SeenSteps
    <3>3. Env!Present(i)
      BY <1>0, <2>2, <3>1 DEF Env!Present
    <3>4. label[i] = sess[c]
      BY <1>6
    <3>5. i \in handedBar => i \in askedBar
      BY <1>6, <3>4 DEF handedBar, askedBar
    <3>6. UNCHANGED <<label, handedBar, askedBar, owedBar, crossed>> /\ i \notin owedBar
      BY <1>6, <1>b, <1>c DEF ContainerRemove, owedBar
    <3> QED BY <3>2, <3>3, <3>5, <3>6 DEF Env!Remove
  <2> QED BY <2>1, <2>2 DEF Env!Next
<1>7. ASSUME NEW c \in Callers, Cleanup(c) \/ Remove(c) PROVE [Env!Next]_(Env!vars)
  <2>1. CASE UNCHANGED daemonVars
    BY <1>7, <2>1, Stutter DEF Cleanup, Remove
  <2>2. CASE ContainerRemove(inst[c])
    BY <1>6, <1>7, <2>2 DEF Cleanup, Remove
  <2> QED BY <1>7, <2>1, <2>2 DEF Cleanup, Remove
<1>8. ASSUME NEW i \in Ids, status[i] = "running",
             status' = [status EXCEPT ![i] = "exited"],
             UNCHANGED <<label, entry, known, mode, crossed>>
      PROVE  Env!Halt(i)
  <2>1. stateBar[i] = "up" /\ stateBar' = [stateBar EXCEPT ![i] = "dead"]
    BY <1>0, <1>8, SeenSteps
  <2>2. UNCHANGED <<handedBar, askedBar>> /\ owedBar' = owedBar \ {i}
    BY <1>8, <1>c DEF owedBar
  <2> QED BY <1>8, <2>1, <2>2 DEF Env!Halt
<1>9. ASSUME NEW c \in Callers, Stop(c) PROVE [Env!Next]_(Env!vars)
  <2>1. CASE UNCHANGED status
    BY <1>9, <2>1, Stutter DEF Stop, ContainerStop
  <2>2. CASE status[inst[c]] = "running" /\ ContainerStop(inst[c])
    BY <1>8, <1>9, <2>2 DEF Stop, ContainerStop, Env!Next
  <2> QED BY <1>9, <2>1, <2>2 DEF Stop, ContainerStop
<1>10. ASSUME NEW c \in Callers, Finish(c) PROVE [Env!Next]_(Env!vars)
  <2>1. /\ inst[c] \in Ids /\ label[inst[c]] = sess[c] /\ pc[c] = "finish"
        /\ entry' = [entry EXCEPT ![inst[c]] = "none"]
        /\ UNCHANGED <<status, label, known, mode, crossed>> /\ mode = "up"
    BY <1>10 DEF Finish
  <2>2. UNCHANGED <<stateBar, handedBar, owedBar>>
    BY <1>a, <1>b, <2>1 DEF handedBar
  <2>3. CASE sess[c] \in crossed
    <3>1. UNCHANGED askedBar
      BY <2>1, <2>3 DEF askedBar
    <3> QED BY <2>1, <2>2, <3>1 DEF Env!vars
  <2>4. CASE sess[c] \notin crossed
    <3>1. inst[c] \in askedBar /\ stateBar[inst[c]] = "gone"
      BY <1>0, <2>1, <2>4 DEF askedBar
    <3>2. askedBar' = askedBar \ {inst[c]}
      BY <2>1 DEF askedBar
    <3> QED BY <2>1, <2>2, <3>1, <3>2 DEF Env!Destroyed, Env!Next
  <2> QED BY <2>3, <2>4
<1>11. ASSUME NEW c \in Callers, NEW s \in Sessions,
              ProvisionExisting(c, s) \/ ProvisionNew(c, s)
       PROVE  [Env!Next]_(Env!vars)
  <2>1. /\ UNCHANGED <<status, label, entry, mode>> /\ mode = "up" /\ Enters(s)
        /\ \/ UNCHANGED known
           \/ \E i \in Tracked(s) : known' = known \cup {i}
    BY <1>11 DEF ProvisionExisting, ProvisionNew
  <2>2. CASE crossed' = crossed \cup {s}
    <3>1. known' \subseteq Ids /\ \A i \in Ids : label[i] # s => (i \in known' <=> i \in known)
      BY <2>1 DEF Tracked
    <3>2. Env!Waive(s)
      BY <2>1, <2>2, <3>1, Waives
    <3> QED BY <3>2 DEF Env!Next
  <2>3. CASE s \notin crossed'
    <3>1. crossed' = crossed /\ \A d \in Callers : pc[d] \in HoldsSession => sess[d] # s
      BY <2>1, <2>3, Alone
    <3>2. ASSUME NEW i \in Tracked(s) PROVE i \in known
      <4>1. i \in Ids /\ entry[i] # "none" /\ label[i] = s
        BY DEF Tracked
      <4>2. ASSUME NEW d \in Callers, pc[d] = "health", inst[d] = i PROVE FALSE
        BY <3>1, <4>1, <4>2
      <4> QED BY <2>3, <3>1, <4>1, <4>2
    <3>3. \A i \in Tracked(s) : known \cup {i} = known
      BY <3>2
    <3>4. UNCHANGED known
      BY <2>1, <3>3, Zenon
    <3> QED BY <2>1, <3>1, <3>4, Stutter
  <2> QED BY <2>1, <2>2, <2>3 DEF Enters
<1>12. ASSUME NEW c \in Callers, NEW i \in known, DestroyMark(c, i)
       PROVE  [Env!Next]_(Env!vars)
  <2>1. i \in Ids /\ label[i] \in Sessions
    BY DEF MapInv, DaemonInv
  <2>2. /\ UNCHANGED <<status, label, known, mode>> /\ mode = "up" /\ Enters(label[i])
        /\ entry' = [entry EXCEPT ![i] = "destroyed"]
    BY <1>12 DEF DestroyMark
  <2>3. CASE crossed' = crossed \cup {label[i]}
    <3>1. Env!Waive(label[i])
      BY <2>1, <2>2, <2>3, Waives
    <3> QED BY <2>1, <3>1 DEF Env!Next
  <2>4. CASE label[i] \notin crossed'
    <3>1. crossed' = crossed
      BY <2>1, <2>2, <2>4, Alone
    <3>2. i \in handedBar
      BY <2>4, <3>1 DEF handedBar
    <3>3. \A j \in Ids : entry'[j] = IF j = i THEN "destroyed" ELSE entry[j]
      BY <2>1, <2>2
    <3>4. askedBar' = askedBar \cup {i}
      BY <2>1, <2>2, <2>4, <3>1, <3>3 DEF askedBar
    <3>5. UNCHANGED <<stateBar, handedBar, owedBar>>
      BY <1>a, <1>b, <2>2, <3>1 DEF handedBar
    <3> QED BY <2>1, <2>2, <3>1, <3>2, <3>4, <3>5 DEF Env!Ask, Env!Next
  <2> QED BY <2>2, <2>3, <2>4 DEF Enters
<1>13. ASSUME NEW c \in Callers, NEW i \in known, DestroyGone(c, i)
       PROVE  UNCHANGED Env!vars
  BY <1>13, Stutter DEF DestroyGone, vars
<1>14. CASE Crash
  <2>1. /\ handedBar' = {} /\ askedBar' = {} /\ crossed' = {} /\ UNCHANGED <<stateBar, label>>
        /\ owedBar' = {i \in Ids : status[i] = "running"}
    BY <1>14, <1>a DEF Crash, handedBar, askedBar, owedBar
  <2> QED BY <1>0, <2>1 DEF Env!HostStops, Env!Next
<1>15. CASE Restart
  <2>1. UNCHANGED <<status, label, handedBar, askedBar, owedBar, crossed>>
    BY <1>15 DEF Restart, handedBar, askedBar, owedBar
  <2> QED BY <1>a, <2>1 DEF Env!vars
<1>16. CASE RecoverDone
  <2>1. \A i \in Ids : status[i] = "running" => i \in known
    BY <1>16 DEF RecoverDone, Unlisted, RecoverInv, Adopted
  <2>2. UNCHANGED <<status, label, handedBar, askedBar, owedBar, crossed>>
    BY <1>16, <2>1 DEF RecoverDone, handedBar, askedBar, owedBar
  <2> QED BY <1>a, <2>2 DEF Env!vars
<1>17. ASSUME NEW i \in Ids, RecoverRunning(i) PROVE Env!HandOut(i)
  <2>1. crossed = {} /\ crossed' = {} /\ stateBar[i] \in {"up", "dead"}
    BY <1>0, <1>17 DEF RecoverRunning, CrossedInv
  <2>2. /\ handedBar' = handedBar \cup {i} /\ UNCHANGED <<stateBar, label, askedBar>>
        /\ owedBar' = owedBar \ {i}
    BY <1>17, <1>a, <2>1 DEF RecoverRunning, handedBar, askedBar, owedBar
  <2> QED BY <2>1, <2>2 DEF Env!HandOut
<1>18. ASSUME NEW i \in Ids, RecoverStopped(i) PROVE Env!Remove(i)
  <2>1. status[i] \in {"created", "exited"} /\ i \notin known
    BY <1>18 DEF RecoverStopped, RecoverInv, Adopted, Exists
  <2>2. stateBar' = [stateBar EXCEPT ![i] = "gone"]
    BY <1>18, <2>1, SeenSteps DEF RecoverStopped, ContainerRemove
  <2>3. UNCHANGED <<label, handedBar, askedBar, owedBar, crossed>>
        /\ i \notin owedBar /\ i \notin handedBar
    BY <1>18, <2>1 DEF RecoverStopped, ContainerRemove, handedBar, askedBar, owedBar
  <2> QED BY <1>0, <2>1, <2>2, <2>3 DEF Env!Remove, Env!Present
<1>19. ASSUME NEW i \in Ids, Dies(i) PROVE Env!Halt(i)
  BY <1>8, <1>19 DEF Dies, ContainerDies
<1>20. CASE UNCHANGED vars
  BY <1>20, Stutter DEF vars
<1> QED
  BY <1>1, <1>2, <1>3, <1>4, <1>5, <1>7, <1>9, <1>10, <1>11, <1>12, <1>13,
     <1>14, <1>15, <1>16, <1>17, <1>18, <1>19, <1>20
  DEF Next, CallStep, RecoverStep, Env!Next

(***************************************************************************)
(* DinD keeps the promise of an environment for any number of sessions,    *)
(* ports, containers, callers, failures and crashes, to each session until *)
(* its own calls overlap.                                                  *)
(***************************************************************************)
THEOREM EnvironmentKept ==
  Spec => ImplementsEnvironment
<1>1. IInv /\ SerialInv /\ [Next]_vars => [Env!Next]_(Env!vars)
  BY EnvStep
<1> QED BY <1>1, EnvInitial, SerialInvariant, PTL DEF Spec, ImplementsEnvironment, Env!Spec

=============================================================================
