---------------------------- MODULE Environment ----------------------------
(***************************************************************************)
(* What an execution environment promises the Runner                       *)
(* (go/execenv/execenv.go, ExecutionEnvironment), without ports, calls or  *)
(* failures: when a container may come, be handed to the Runner, and go.   *)
(***************************************************************************)
CONSTANTS Sessions, Ids, NoSession

VARIABLES
  state,   \* id -> "none", "created", "up", "dead" or "gone"
  owner,   \* id -> the session it was created for
  handed,  \* ids that Provision or Recover returned since the host started
  asked,   \* ids of which a Destroy is under way, or failed
  owed,    \* ids that ran when the host went down and are not handed out again
  waived   \* sessions whose calls the Runner let overlap since the host started

vars == <<state, owner, handed, asked, owed, waived>>

Init ==
  /\ state = [i \in Ids |-> "none"]
  /\ owner = [i \in Ids |-> NoSession]
  /\ handed = {} /\ asked = {} /\ owed = {} /\ waived = {}

Present(i) == state[i] \in {"created", "up", "dead"}

\* A session has one container at a time.
Create(i, s) ==
  /\ state[i] = "none"
  /\ \A j \in Ids : Present(j) => owner[j] # s
  /\ state' = [state EXCEPT ![i] = "created"]
  /\ owner' = [owner EXCEPT ![i] = s]
  /\ UNCHANGED <<handed, asked, owed, waived>>

Boot(i) ==
  /\ state[i] = "created"
  /\ state' = [state EXCEPT ![i] = "up"]
  /\ UNCHANGED <<owner, handed, asked, owed, waived>>

\* Its agent ends, or a Destroy stops it.
Halt(i) ==
  /\ state[i] = "up"
  /\ state' = [state EXCEPT ![i] = "dead"]
  /\ owed' = owed \ {i}
  /\ UNCHANGED <<owner, handed, asked, waived>>

\* Only a container that was booted and is not removed.
HandOut(i) ==
  /\ owner[i] \notin waived
  /\ state[i] \in {"up", "dead"}
  /\ handed' = handed \cup {i}
  /\ owed' = owed \ {i}
  /\ UNCHANGED <<state, owner, asked, waived>>

Ask(i) ==
  /\ i \in handed
  /\ asked' = asked \cup {i}
  /\ UNCHANGED <<state, owner, handed, owed, waived>>

\* What the Runner holds goes only when it asked, and what it is owed stays.
Remove(i) ==
  /\ Present(i)
  /\ i \in handed => i \in asked
  /\ i \notin owed
  /\ state' = [state EXCEPT ![i] = "gone"]
  /\ UNCHANGED <<owner, handed, asked, owed, waived>>

\* A Destroy that succeeds has removed its container.
Destroyed(i) ==
  /\ i \in asked
  /\ state[i] = "gone"
  /\ asked' = asked \ {i}
  /\ UNCHANGED <<state, owner, handed, owed, waived>>

\* Of a session whose calls overlap nothing more is promised.
Waive(s) ==
  /\ waived' = waived \cup {s}
  /\ handed' = {i \in handed : owner[i] # s}
  /\ asked' = {i \in asked : owner[i] # s}
  /\ UNCHANGED <<state, owner, owed>>

HostStops ==
  /\ handed' = {} /\ asked' = {} /\ waived' = {}
  /\ owed' = {i \in Ids : state[i] = "up"}
  /\ UNCHANGED <<state, owner>>

Next ==
  \/ \E i \in Ids :
       \/ \E s \in Sessions : Create(i, s)
       \/ Boot(i) \/ Halt(i) \/ HandOut(i) \/ Ask(i) \/ Remove(i) \/ Destroyed(i)
  \/ \E s \in Sessions : Waive(s)
  \/ HostStops

Spec == Init /\ [][Next]_vars
=============================================================================
