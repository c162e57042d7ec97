----------------------------- MODULE SessionList -----------------------------
(***************************************************************************)
(* The list of sessions of the chat UI, and the poll of the status of the  *)
(* session opened last (web/src/useAgentSession.ts), against the progress  *)
(* entries and the status handler of the host (go/progress.go, go/runner.go*)
(* and go/httpapi).                                                        *)
(*                                                                         *)
(* The poll's timer, session and cadence are variables of the module,      *)
(* shared by every closure: an answer of a poll that is not of the session *)
(* polled still acts on them.                                              *)
(*                                                                         *)
(* The route of the list answers an array (go/httpapi/history.go:119), the *)
(* hook reads its field sessions (useAgentSession.ts:928), as a route that *)
(* an application puts in its place may have it: the host has one of them. *)
(*                                                                         *)
(* Left out: filters by user, what the rows say but the container's state  *)
(* and the progress, bytes; that a row moves to the front of the host's    *)
(* list when it is written.                                                *)
(***************************************************************************)
EXTENDS Naturals, Sequences, FiniteSets, SequencesExt

CONSTANTS
  Sessions,
  NoSession,
  Old,               \* sequence: the sessions the host lists at first, newest first
  SESSION_PAGE_SIZE,
  MaxHostOps,        \* bounds: operations of the host,
  MaxUserOps,        \*   of the user,
  MaxInFlight        \*   and status requests at once (a cadence of 2 s, a timeout of 3 s)

ASSUME OldAssumption ==
  /\ NoSession \notin Sessions
  /\ Old \in Seq(Sessions) /\ \A i, j \in DOMAIN Old : Old[i] = Old[j] => i = j

ASSUME PageAssumption == SESSION_PAGE_SIZE \in Nat

VARIABLES
  op,              \* the host: session -> its entry of the progress store,
  inst,            \*   the state of its instance,
  hosted,          \*   the sessions it lists, newest first,
  creating,        \*   those whose creation has not ended,
  wrapped,         \*   whether its list comes as {sessions}, not as an array
  sessionList,     \* the rows shown
  hasMore,
  timer,           \* _containerPollTimer: the session whose closure it calls,
  polled,          \*   _containerPollSessionId,
  fast,            \*   _containerPollInterval is 750
  lastNotified,    \*   _lastNotifiedOp: the number of an entry
  polls,           \* status requests under way, in order
  calls,           \* other requests under way
  opened,          \* the session opened last
  began, asked,    \* how many of each so far
  crossed,         \* an answer for another session than the one opened came,
  overlapped       \*   or a poll of the session was asked with one to be answered

host == <<op, inst, hosted, creating, wrapped>>
pollVars == <<timer, polled, fast>>
listVars == <<sessionList, hasMore>>
ghosts == <<crossed, overlapped>>
vars == <<host, pollVars, listVars, lastNotified, polls, calls, opened,
          began, asked, ghosts>>

NoOp == [n |-> 0, kind |-> "none", phase |-> "none", seen |-> TRUE]
Active(p) == p.phase = "active"

Stable == {"running", "snapshotted", "destroyed"}    \* STABLE_CONTAINER_STATES

\* What a row says of its session's state in the drawer: a chip for the container's,
\* one for the operation while it goes on.
Chips(row) == {row.state} \cup (IF row.progress = "active" THEN {"progress"} ELSE {})

Row(s, state) == [id |-> s, state |-> state, progress |-> "none"]
Listed(rows) == {rows[i].id : i \in DOMAIN rows}

\* Array.filter: the one sequence of what seq has at the positions P, in its order.
Filter(seq, P) ==
  {[k \in 1..Cardinality(P) |-> seq[p[k]]] :
     p \in {p \in [1..Cardinality(P) -> P] : \A i, j \in DOMAIN p : i < j => p[i] < p[j]}}

Init ==
  /\ op = [s \in Sessions |-> NoOp]
  /\ inst \in [Sessions -> {"destroyed", "running"}]
  /\ \A s \in Sessions : inst[s] = "running" => s \in ToSet(Old)
  /\ hosted = Old /\ creating = {} /\ wrapped \in BOOLEAN
  /\ sessionList = <<>> /\ hasMore = FALSE
  /\ timer = NoSession /\ polled = NoSession /\ fast = FALSE
  /\ lastNotified = 0 /\ polls = <<>> /\ calls = {}
  /\ opened = NoSession
  /\ began = 0 /\ asked = 0
  /\ crossed = FALSE /\ overlapped = FALSE

----------------------------------------------------------------------------
(* The host.                                                               *)

\* begin: a new entry.
Begins(s, kind) ==
  /\ began < MaxHostOps
  /\ began' = began + 1
  /\ op' = [op EXCEPT ![s] = [n |-> began', kind |-> kind, phase |-> "active", seen |-> FALSE]]

uiUnchanged == UNCHANGED <<pollVars, listVars, lastNotified, polls, opened, asked>>

acceptUnmarked(c) ==         \* mutant: MarkCreating is missing
  /\ c.op = "create" /\ ~c.served
  /\ \E s \in Sessions \ ToSet(hosted) :
       /\ hosted' = <<s>> \o hosted
       /\ creating' = creating \cup {s}
       /\ calls' = (calls \ {c}) \cup {[c EXCEPT !.s = s, !.served = TRUE]}
       /\ UNCHANGED <<op, began>>
  /\ uiUnchanged /\ UNCHANGED <<inst, wrapped, ghosts>>

\* The handler CreateSession up to its answer: the row, and MarkCreating.  What it
\* starts goes on in the background: Tracked and Ends.
Accept(c) ==
  /\ c.op = "create" /\ ~c.served
  /\ \E s \in Sessions \ ToSet(hosted) :
       /\ hosted' = <<s>> \o hosted
       /\ creating' = creating \cup {s}
       /\ calls' = (calls \ {c}) \cup {[c EXCEPT !.s = s, !.served = TRUE]}
       /\ Begins(s, "create")
  /\ uiUnchanged /\ UNCHANGED <<inst, wrapped, ghosts>>

\* A restore, by the eager one or a message's, or a snapshot begins.
Starts(s) ==
  /\ ~Active(op[s]) /\ s \in ToSet(hosted)
  /\ Begins(s, IF inst[s] = "running" THEN "snapshot" ELSE "restore")
  /\ uiUnchanged /\ UNCHANGED <<inst, hosted, creating, wrapped, calls, ghosts>>

\* The instance that a create or restore provisions is tracked.
Tracked(s) ==
  /\ Active(op[s]) /\ op[s].kind # "snapshot" /\ inst[s] # "running"
  /\ inst' = [inst EXCEPT ![s] = "running"]
  /\ uiUnchanged /\ UNCHANGED <<op, hosted, creating, wrapped, calls, began, ghosts>>

\* finish: done if it is tracked, which a snapshot's is; or failed, which a
\* create may although its instance was tracked.
Ends(s) ==
  /\ Active(op[s])
  /\ \E phase \in {"done", "failed"} :
       /\ phase = "done" => inst[s] = "running"
       /\ op' = [op EXCEPT ![s].phase = phase, ![s].seen = FALSE]
  /\ creating' = creating \ {s}
  /\ uiUnchanged /\ UNCHANGED <<inst, hosted, wrapped, calls, began, ghosts>>

\* The session is archived.
Stops(s) ==
  /\ inst[s] = "running" /\ ~Active(op[s])
  /\ inst' = [inst EXCEPT ![s] = "destroyed"]
  /\ uiUnchanged /\ UNCHANGED <<op, hosted, creating, wrapped, calls, began, ghosts>>

\* get, ttl after the end: 10 seconds, in which a poll of the session has been
\* served.
Purge(s) ==
  /\ op[s].phase \in {"done", "failed"}
  /\ op[s].seen \/ polled # s
  /\ op' = [op EXCEPT ![s] = NoOp]
  /\ uiUnchanged /\ UNCHANGED <<inst, hosted, creating, wrapped, calls, began, ghosts>>

\* Status reads the entry first, when the request comes, then the instance.
ReadState(i) ==
  /\ ~polls[i].served
  /\ polls' = [polls EXCEPT ![i].served = TRUE, ![i].state = inst[polls[i].of]]
  /\ UNCHANGED <<host, pollVars, listVars, lastNotified, calls, opened,
                 began, asked, ghosts>>

----------------------------------------------------------------------------
(* The poll.                                                               *)

Poll(s) ==
  /\ polls' = Append(polls, [of |-> s, served |-> FALSE, progress |-> [n |-> op[s].n, phase |-> op[s].phase], state |-> "none"])
  /\ op' = [op EXCEPT ![s].seen = TRUE]
  /\ overlapped' = (overlapped \/ \E i \in DOMAIN polls : polls[i].of = s)

startContainerStatePoll(s) ==
  /\ timer' = s /\ polled' = s /\ fast' = FALSE
  /\ Poll(s)

\* The timer's closure: of the session polled, or it returns.
Tick ==
  /\ timer # NoSession /\ timer = polled
  /\ Len(polls) < MaxInFlight
  /\ Poll(timer)
  /\ UNCHANGED <<inst, hosted, creating, wrapped, pollVars, listVars, lastNotified, calls,
                 opened, began, asked, crossed>>

Fail(i) ==
  /\ polls' = RemoveAt(polls, i)
  /\ UNCHANGED <<host, pollVars, listVars, lastNotified, calls, opened,
                 began, asked, ghosts>>

rowKeepsProgress(p) ==       \* mutant: snapshot_progress is kept if there is none
  sessionList' = [i \in DOMAIN sessionList |->
    IF sessionList[i].id # p.of THEN sessionList[i]
    ELSE [sessionList[i] EXCEPT !.state = p.state,
                                !.progress = IF p.progress.phase = "none" THEN @ ELSE p.progress.phase]]

\* The row of the session, if it is in the list.
RowFollows(p) ==
  sessionList' = [i \in DOMAIN sessionList |->
    IF sessionList[i].id # p.of THEN sessionList[i]
    ELSE [sessionList[i] EXCEPT !.state = p.state, !.progress = p.progress.phase]]

\* The rest of poll: the callback, once for each entry in a row, the cadence, which
\* changes the timer to this closure's, and the end.
Answer(i) ==
  LET p == polls[i]
      ends == p.progress.phase \in {"done", "failed"}
  IN /\ p.served
     /\ polls' = RemoveAt(polls, i)
     /\ RowFollows(p)
     /\ IF ends /\ lastNotified # p.progress.n
          THEN lastNotified' = p.progress.n    \* onSnapshotComplete
          ELSE UNCHANGED lastNotified
     /\ fast' = Active(p.progress)
     /\ IF ~Active(p.progress) /\ p.state \in Stable
          THEN timer' = NoSession /\ polled' = NoSession
          ELSE /\ timer' = IF fast' # fast /\ timer # NoSession THEN p.of ELSE timer
               /\ UNCHANGED polled
     /\ crossed' = (crossed \/ p.of # opened)
     /\ UNCHANGED <<host, hasMore, calls, opened, began, asked, overlapped>>

----------------------------------------------------------------------------
(* The user's operations, and the answers to them.                         *)

Ask(c) ==
  /\ asked < MaxUserOps
  /\ asked' = asked + 1
  /\ calls' = calls \cup {c}
  /\ UNCHANGED <<host, listVars, lastNotified, polls, began, ghosts>>

Call(kind, s) == [op |-> kind, s |-> s, served |-> FALSE, offset |-> 0, page |-> <<>>]

createSession ==
  /\ Cardinality(ToSet(hosted)) < Cardinality(Sessions)
  /\ ~\E c \in calls : c.op = "create"
  /\ Ask(Call("create", NoSession))
  /\ UNCHANGED <<pollVars, opened>>

createdTwice(c) ==           \* mutant: the row is inserted unchecked
  /\ c.op = "create" /\ c.served
  /\ sessionList' = <<Row(c.s, "starting")>> \o sessionList
  /\ startContainerStatePoll(c.s)
  /\ opened' = c.s
  /\ calls' = calls \ {c}
  /\ UNCHANGED <<inst, hosted, creating, wrapped, hasMore, lastNotified, began, asked,
                 crossed>>

Created(c) ==
  /\ c.op = "create" /\ c.served
  /\ sessionList' = IF c.s \in Listed(sessionList) THEN sessionList
                    ELSE <<Row(c.s, "starting")>> \o sessionList
  /\ startContainerStatePoll(c.s)
  /\ opened' = c.s
  /\ calls' = calls \ {c}
  /\ UNCHANGED <<inst, hosted, creating, wrapped, hasMore, lastNotified, began, asked,
                 crossed>>

\* resumeSession of a row: its requests, the poll, and if there is a snapshot a
\* restore, after which the poll starts again, whatever was opened meanwhile.
Resume(s) ==
  /\ Ask(Call("resume", s))
  /\ opened' = s
  /\ UNCHANGED pollVars

resumeSession(s) == s \in Listed(sessionList) /\ Resume(s)

Resumed(c) ==
  /\ c.op \in {"resume", "restore"}
  /\ startContainerStatePoll(c.s)
  /\ \/ calls' = calls \ {c}
     \/ c.op = "resume" /\ calls' = (calls \ {c}) \cup {[c EXCEPT !.op = "restore"]}
  /\ crossed' = (crossed \/ c.s # opened)
  /\ UNCHANGED <<inst, hosted, creating, wrapped, listVars, lastNotified, opened, began,
                 asked>>

\* clearSession stops the poll.
clearSession ==
  /\ opened # NoSession
  /\ asked < MaxUserOps
  /\ asked' = asked + 1
  /\ timer' = NoSession /\ polled' = NoSession
  /\ opened' = NoSession
  /\ UNCHANGED <<host, fast, listVars, lastNotified, polls, calls,
                 began, ghosts>>

listSessions ==
  /\ Ask(Call("list", NoSession))
  /\ UNCHANGED <<pollVars, opened>>

\* The button, with the length of the list shown.
loadMoreSessions ==
  /\ hasMore
  /\ Ask([Call("more", NoSession) EXCEPT !.offset = Len(sessionList)])
  /\ UNCHANGED <<pollVars, opened>>

\* The handler ListSessions: a page of the host's list.
Serve(c) ==
  /\ c.op \in {"list", "more"} /\ ~c.served
  /\ LET last == IF c.offset + SESSION_PAGE_SIZE < Len(hosted)
                   THEN c.offset + SESSION_PAGE_SIZE ELSE Len(hosted)
         page == [i \in 1..(last - c.offset) |->
                    Row(hosted[c.offset + i], "listed")]
     IN calls' = (calls \ {c}) \cup {[c EXCEPT !.served = TRUE, !.page = page]}
  /\ uiUnchanged /\ UNCHANGED <<host, began, ghosts>>

\* data.sessions || []: what the hook has of an answer.
Read(c) == IF wrapped THEN c.page ELSE <<>>

\* A list of up to a page is replaced; of a longer one the rows that are in the
\* page are, and new ones go before it.
Fresh(c) ==
  LET page == Read(c)
  IN /\ c.op = "list" /\ c.served
     /\ calls' = calls \ {c}
     /\ IF Len(sessionList) <= SESSION_PAGE_SIZE
          THEN /\ sessionList' = page
               /\ hasMore' = (Len(page) >= SESSION_PAGE_SIZE)
          ELSE /\ LET updated == [i \in DOMAIN sessionList |->
                        IF sessionList[i].id \in Listed(page)
                          THEN CHOOSE r \in ToSet(page) : r.id = sessionList[i].id
                          ELSE sessionList[i]]
                      unlisted == {i \in DOMAIN page : page[i].id \notin Listed(sessionList)}
                  IN \E new \in Filter(page, unlisted) : sessionList' = new \o updated
               /\ UNCHANGED hasMore
     /\ UNCHANGED <<host, pollVars, lastNotified, polls, opened, began, asked, ghosts>>

More(c) ==
  /\ c.op = "more" /\ c.served
  /\ calls' = calls \ {c}
  /\ sessionList' = sessionList \o Read(c)
  /\ hasMore' = (Len(Read(c)) >= SESSION_PAGE_SIZE)
  /\ UNCHANGED <<host, pollVars, lastNotified, polls, opened, began, asked,
                 ghosts>>

----------------------------------------------------------------------------

Host ==
  \/ \E c \in calls : Accept(c) \/ Serve(c)
  \/ \E s \in Sessions : Starts(s) \/ Tracked(s) \/ Ends(s) \/ Stops(s) \/ Purge(s)

User ==
  \/ createSession \/ clearSession \/ listSessions \/ loadMoreSessions
  \/ \E s \in Sessions : resumeSession(s)

Answers == \E c \in calls : Created(c) \/ Resumed(c) \/ Fresh(c) \/ More(c)

Polls == \E i \in DOMAIN polls : ReadState(i) \/ Answer(i)

Next == Host \/ User \/ Answers \/ Polls \/ Tick \/ \E i \in DOMAIN polls : Fail(i)

Spec == Init /\ [][Next]_vars

----------------------------------------------------------------------------
(* Properties.                                                             *)

(***************************************************************************)
(* A session that is being created is polled until that has ended, and is  *)
(* not taken as settled for want of an instance (go/runner.go:106-112): as *)
(* long as no answer for a session opened before it comes late.            *)
(***************************************************************************)
CreateFollowed ==
  /\ ~crossed /\ opened \in creating
  /\ ~\E c \in calls : c.s = opened /\ c.op = "resume"
  => polled = opened /\ timer = opened

(***************************************************************************)
(* When the poll has ended, by itself or not, and no two requests of it    *)
(* overlapped, the row of the session does not say that it is being        *)
(* created, restored or saved.                                             *)
(***************************************************************************)
RowSettles ==
  ~crossed /\ ~overlapped /\ polled = NoSession /\ opened # NoSession /\ polls = <<>>
    /\ ~(\E c \in calls : c.s = opened)
    => \A i \in DOMAIN sessionList :
         sessionList[i].id = opened => Chips(sessionList[i]) \cap {"starting", "progress"} = {}

(***************************************************************************)
(* A create and refreshes never list a session twice, in whatever order    *)
(* the host takes them and their answers come.  (A request for more does:  *)
(* its offset is stale if the host's list has grown.  Of a host that       *)
(* answers an array, a list has only the rows of creates, and the next     *)
(* refresh takes them away.)                                               *)
(***************************************************************************)
Once == \A i, j \in DOMAIN sessionList : sessionList[i].id = sessionList[j].id => i = j
ListOnce == [][Once /\ ~(\E c \in calls : More(c)) => Once']_vars
=============================================================================
