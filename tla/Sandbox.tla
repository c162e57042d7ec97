------------------------------- MODULE Sandbox -------------------------------
(***************************************************************************)
(* The in-image control server: the session manager, the session routes    *)
(* and the turns of the Claude Agent SDK harness                           *)
(* (sandbox/src/services/session-manager.ts, sandbox/src/routes/           *)
(* sessions.ts, sandbox/src/harness/claude-agent-sdk.ts) over the stream   *)
(* service.  A step is what Node runs without interruption: a handler, a   *)
(* timer's callback, a close event, or a turn from one await to the next.  *)
(***************************************************************************)
EXTENDS StreamService, FiniteSetsExt

CONSTANTS
  Sessions, NoSession,
  Queries, NoQuery,    \* query ids, drawn fresh by each turn
  MaxSent              \* bound: no turn emits more once all have emitted these

ASSUME SandboxAssumption ==
  /\ NoSession \notin Sessions
  /\ NoQuery \notin Queries
  /\ MaxSent \in Nat

VARIABLES
  exists,    \* the sessions of the manager
  turns,     \* session -> the queries of its turn map
  pc,        \* query -> where its turn is
  owner,     \* query -> its session
  aborted,   \* queries whose AbortController was aborted
  stopped,   \* queries of which the SDK was told
  key,       \* query -> what the stream service keeps for it
  at,        \* reply -> the query it streams
  line       \* reply -> "new", "open", "ended" by the server, or "closed"

vars == <<exists, turns, pc, owner, aborted, stopped, key, at, line>>
turnVars == <<pc, owner, aborted, stopped>>
replyVars == <<at, line>>

Init ==
  /\ exists = {}
  /\ turns = [s \in Sessions |-> {}]
  /\ pc = [q \in Queries |-> "none"]
  /\ owner = [q \in Queries |-> NoSession]
  /\ aborted = {}
  /\ stopped = {}
  /\ key = [q \in Queries |-> NoKey]
  /\ at = [r \in Replies |-> NoQuery]
  /\ line = [r \in Replies |-> "new"]

----------------------------------------------------------------------------
(* Turns and their abort signals.                                          *)

\* Inside the SDK's messages: "loop" before a result, "drain" where the last
\* event was the query_complete of one, "spoke" where others came after it.
InLoop == {"loop", "drain", "spoke"}

UnderWay(q) == pc[q] \in {"attach", "proxy"} \cup InLoop

\* The harness listens for the abort from here on.
Listens(q) == pc[q] \in {"proxy"} \cup InLoop

abort(qs) ==
  /\ aborted' = aborted \cup qs
  /\ stopped' = stopped \cup {q \in qs \ aborted : Listens(q)}

----------------------------------------------------------------------------
(* The session manager.                                                    *)

destroy(s) ==
  /\ abort(turns[s])
  /\ turns' = [turns EXCEPT ![s] = {}]
  /\ exists' = exists \ {s}
  /\ key' = [q \in Queries |-> IF owner[q] = s THEN closeKey(key[q]) ELSE key[q]]
  /\ line' = [r \in Replies |->
                IF \E q \in Queries : owner[q] = s /\ r \in key[q].streams
                  THEN "ended" ELSE line[r]]
  /\ UNCHANGED <<pc, owner, at>>

\* POST /sessions with the one harness there is: idempotent.
Create(s) ==
  /\ exists' = exists \cup {s}
  /\ UNCHANGED <<turns, turnVars, key, replyVars>>

\* POST /sessions with another harness: the session is destroyed, then the
\* name is looked up and the call fails.
CreateUnknown(s) ==
  /\ s \in exists
  /\ destroy(s)

\* DELETE /sessions/:sessionId.
Delete(s) ==
  /\ s \in exists
  /\ destroy(s)

startTurnKeeps(s, q) ==      \* mutant: superseded turns are only forgotten
  /\ turns' = [turns EXCEPT ![s] = {q}]
  /\ UNCHANGED <<aborted, stopped>>

\* One active turn per session: the others are aborted and forgotten.
startTurn(s, q) ==
  /\ abort(turns[s])
  /\ turns' = [turns EXCEPT ![s] = {q}]

\* POST cancel, of one turn or of all.
Cancel(s, qs) ==
  /\ qs \subseteq turns[s]
  /\ abort(qs)
  /\ turns' = [turns EXCEPT ![s] = @ \ qs]
  /\ UNCHANGED <<exists, pc, owner, key, replyVars>>

----------------------------------------------------------------------------
(* A turn.                                                                 *)

\* POST query-stream: the session is created if need be, the reply is
\* registered before the turn starts, and the turn runs to its first await:
\* its attachments, or else the start of its proxy, or the SDK's messages.
QueryStream(s, q, r) ==
  /\ pc[q] = "none"
  /\ line[r] = "new"
  /\ exists' = exists \cup {s}
  /\ startTurn(s, q)
  /\ owner' = [owner EXCEPT ![q] = s]
  /\ key' = [key EXCEPT ![q] = sendEvent(addStream(@, r), "content")]
  /\ at' = [at EXCEPT ![r] = q]
  /\ line' = [line EXCEPT ![r] = "open"]
  /\ \E where \in {"attach", "proxy", "loop"} : pc' = [pc EXCEPT ![q] = where]

Step(q, from, to) ==
  /\ pc[q] = from
  /\ pc' = [pc EXCEPT ![q] = to]
  /\ UNCHANGED <<exists, owner, aborted, replyVars>>

\* The attachments are in place; the abort listener is added.  A signal
\* that was aborted before does not fire again.
Attached(q) ==
  /\ Step(q, "attach", "proxy") \/ Step(q, "attach", "loop")
  /\ UNCHANGED <<turns, stopped, key>>

ProxyStarted(q) ==
  /\ Step(q, "proxy", "loop")
  /\ UNCHANGED <<turns, stopped, key>>

Sent == MapThenSumSet(LAMBDA q : key[q].sent, Queries)

\* A message of the SDK other than a result, or a hook it calls, before or
\* after a result; before the SDK is called, the progress of the attachments
\* and what they contain.
Message(q, kind) ==
  /\ Sent < MaxSent
  /\ \/ Step(q, "loop", "loop")
     \/ Step(q, "drain", "spoke")
     \/ Step(q, "spoke", "spoke")
     \/ kind = "content" /\ Step(q, "attach", "attach")
  /\ key' = [key EXCEPT ![q] = sendEvent(@, kind)]
  /\ UNCHANGED <<turns, stopped>>

\* A result, of whatever kind: message_end, then query_complete.
Result(q) ==
  /\ \E from \in InLoop :
       /\ Step(q, from, "drain")
       /\ from = "loop" \/ Sent < MaxSent
  /\ key' = [key EXCEPT ![q] = endQuery(sendEvent(@, "boundary"))]
  /\ UNCHANGED <<turns, stopped>>

endTurn(q) == turns' = [turns EXCEPT ![owner[q]] = @ \ {q}]

\* The SDK's messages end, with a result or without one; endTurn follows in
\* the same tick.  Only a result has told anyone: a turn whose last event is
\* not a query_complete is cut.
Drained(q) ==
  /\ Step(q, "drain", "over") \/ Step(q, "loop", "cut") \/ Step(q, "spoke", "cut")
  /\ endTurn(q)
  /\ UNCHANGED <<stopped, key>>

ThrowsSilently(q) ==         \* mutant: the catch does not end the query
  /\ pc[q] \in {"attach"} \cup InLoop
  /\ Step(q, pc[q], "over")
  /\ endTurn(q)
  /\ key' = [key EXCEPT ![q] = sendEvent(@, "content")]
  /\ UNCHANGED stopped

\* It throws, because it was stopped or for a reason of its own: error, then
\* query_complete, even where the result has been sent.
Throws(q) ==
  /\ pc[q] \in {"attach"} \cup InLoop
  /\ Step(q, pc[q], "over")
  /\ endTurn(q)
  /\ key' = [key EXCEPT ![q] = endQuery(sendEvent(@, "content"))]
  /\ UNCHANGED stopped

\* The timer of the key's input deltas.
FlushTimer(q) ==
  /\ key[q].delta # <<>>
  /\ key' = [key EXCEPT ![q] = flushInputDelta(@)]
  /\ UNCHANGED <<exists, turns, turnVars, replyVars>>

----------------------------------------------------------------------------
(* Replies.                                                                *)

\* GET stream/:queryId, of a query some client has learned of.
Stream(q, r) ==
  /\ pc[q] # "none"
  /\ line[r] = "new"
  /\ key' = [key EXCEPT ![q] = addStream(@, r)]
  /\ at' = [at EXCEPT ![r] = q]
  /\ line' = [line EXCEPT ![r] = "open"]
  /\ UNCHANGED <<exists, turns, turnVars>>

\* The close event, of a client that left or of a reply the server ended.
\* The turn goes on.
Close(r) ==
  /\ line[r] \in {"open", "ended"}
  /\ line' = [line EXCEPT ![r] = "closed"]
  /\ key' = [key EXCEPT ![at[r]] = removeStream(@, r)]
  /\ UNCHANGED <<exists, turns, turnVars, at>>

\* A reply's heartbeat, which stops with its close event.
Heartbeat(r) ==
  /\ line[r] \in {"open", "ended"}
  /\ key' = [key EXCEPT ![at[r]] = sendHeartbeat(@)]
  /\ UNCHANGED <<exists, turns, turnVars, replyVars>>

----------------------------------------------------------------------------
TurnStep(q) ==
  \/ Attached(q) \/ ProxyStarted(q) \/ Result(q) \/ Drained(q) \/ Throws(q)

Next ==
  \/ \E s \in Sessions : Create(s) \/ CreateUnknown(s) \/ Delete(s)
  \/ \E s \in Sessions, q \in Queries, r \in Replies : QueryStream(s, q, r)
  \/ \E s \in Sessions, qs \in SUBSET Queries : Cancel(s, qs)
  \/ \E q \in Queries : TurnStep(q) \/ FlushTimer(q)
  \/ \E q \in Queries, kind \in {"content", "input", "boundary"} : Message(q, kind)
  \/ \E q \in Queries, r \in Replies : Stream(q, r)
  \/ \E r \in Replies : Close(r) \/ Heartbeat(r)

Spec == Init /\ [][Next]_vars

----------------------------------------------------------------------------
(* Properties.                                                             *)

TypeOK ==
  /\ exists \subseteq Sessions
  /\ turns \in [Sessions -> SUBSET Queries]
  /\ pc \in [Queries -> {"none", "attach", "proxy", "over", "cut"} \cup InLoop]
  /\ owner \in [Queries -> Sessions \cup {NoSession}]
  /\ aborted \subseteq Queries
  /\ stopped \subseteq aborted
  /\ key \in [Queries -> Keys]
  /\ at \in [Replies -> Queries \cup {NoQuery}]
  /\ line \in [Replies -> {"new", "open", "ended", "closed"}]

(***************************************************************************)
(* "ONE ACTIVE TURN PER SESSION" (session-manager.ts:138), as the manager  *)
(* keeps it: a session has at most one registered turn, which is under way,*)
(* and every other turn under way was aborted, however starts, cancels and *)
(* deletes of its session overlap it.  One that was not could no longer be *)
(* cancelled by anybody.                                                   *)
(***************************************************************************)
OthersAborted ==
  /\ \A s \in Sessions : \A p, q \in turns[s] : p = q /\ UnderWay(p) /\ owner[p] = s
  /\ \A q \in Queries : UnderWay(q) => q \in turns[owner[q]] \cup aborted

InEvents(events) == UNION {Numbers(events[j]) : j \in DOMAIN events}

Written(k) == UNION {InEvents(k.wrote[r]) : r \in Replies}

Kept(k) == InEvents(k.buffer) \cup {k.delta[j] : j \in DOMAIN k.delta}

(***************************************************************************)
(* "Buffers events when no streams are connected to prevent event loss"    *)
(* (stream-service.ts:8): while a registered turn runs, each of its events *)
(* was written to a reply, or waits to be, or was evicted from a full      *)
(* buffer, and just one of these, however replies come and go.             *)
(***************************************************************************)
NothingLost ==
  \A q \in Queries :
    LET k == key[q] IN
    pc[q] \in {"attach", "proxy", "loop"} /\ q \in turns[owner[q]] =>
      /\ 1..k.sent = Written(k) \cup Kept(k) \cup k.lost
      /\ Written(k) \cap Kept(k) = {}
      /\ k.lost \cap (Written(k) \cup Kept(k)) = {}

Before(e, f) == \A m \in Numbers(e), n \in Numbers(f) : m < n

(***************************************************************************)
(* A reply gets its events in the order they were emitted, each once, but  *)
(* that input deltas may come after content they preceded, and never after *)
(* a boundary event they preceded ("Flush pending input deltas on boundary *)
(* events", stream-service.ts:171), whatever part came from the buffer.    *)
(***************************************************************************)
InOrder ==
  \A q \in Queries, r \in Replies :
    LET got == key[q].wrote[r] IN
    \A j \in DOMAIN got : \A i \in 1..(j - 1) :
      (got[i].kind = "content" /\ got[j].kind = "input") \/ Before(got[i], got[j])

(***************************************************************************)
(* query_complete ends the stream: a reply that heard of a turn and is     *)
(* still attached when it is over was told so, and nothing after it.  This *)
(* is said of a turn that threw or whose last message was a result,        *)
(* however often it was ended; the SDK's messages may also end without a   *)
(* result, or with others after it, and such a turn (cut) tells nobody.    *)
(***************************************************************************)
CompleteIsLast ==
  \A q \in Queries : \A r \in key[q].streams :
    LET got == key[q].wrote[r] IN
    pc[q] = "over" /\ InEvents(got) # {} => got[Len(got)].kind = "complete"

(***************************************************************************)
(* "buffer eviction on DELETE /sessions/:id" and at the end of a query     *)
(* (docs/91:176): the service keeps no event of a turn that threw or whose *)
(* last message was a result, not even of one that outlived its session.   *)
(* Of a turn that was cut it keeps what no reply was there to take, until  *)
(* one is or the session is deleted.                                       *)
(***************************************************************************)
MemoryFreed == \A q \in Queries : pc[q] = "over" => Kept(key[q]) = {}

=============================================================================
