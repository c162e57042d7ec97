---------------------------- MODULE ChatSession ----------------------------
(***************************************************************************)
(* The session hook of the chat UI (web/src/useAgentSession.ts): what it   *)
(* displays, and its asynchronous operations, which interleave wherever    *)
(* the code awaits an answer.                                              *)
(*                                                                         *)
(* Of the data displayed, the model keeps whose they are: a field is the   *)
(* set of the sessions with data in it (EventReducer has the data).  What  *)
(* the host answers is free: a query may be active or over, a request fail *)
(* or succeed, a stream end, break, or go on.  Left out: texts of errors,  *)
(* titles, the model selected, personas, plugin events, the search.        *)
(***************************************************************************)
EXTENDS Naturals, FiniteSets

CONSTANTS
  Sessions,
  Stored,          \* those the host has at first
  NoSession,
  MAX_RECONNECT_ATTEMPTS,
  MaxOps,          \* bounds: operations of the user,
  MaxChunks        \*   events that streams bring

ASSUME SessionsAssumption == NoSession \notin Sessions /\ Stored \subseteq Sessions

VARIABLES
  session,         \* React state: the session shown,
  data,            \*   whose data each field shows,
  isStreaming,
  activity,        \*   whether an activity is shown
  st,              \* eventStateRef: whose data the event state has,
  streaming,       \*   its isStreaming,
  active,          \*   whether it has an activity
  sessionIdRef,
  abortControllerRef,   \* the call whose request it aborts
  stuckTimer,      \* whether stuck detection runs
  calls,           \* operations under way, each at an await
  exists,          \* the sessions the host has
  ops, chunks,     \* how many so far
  overlapped,      \* some operation began while another was under way
  cut              \* a stream that resumeSession attached to broke

shown == <<session, data, isStreaming, activity>>
eventState == <<st, streaming, active>>
refs == <<eventState, sessionIdRef, abortControllerRef, stuckTimer>>
counts == <<ops, chunks, overlapped, cut, exists>>
vars == <<shown, refs, calls, counts>>

Fields == {"messages", "questions", "tables", "todos", "artifacts"}

Empty == [f \in Fields |-> {}]

\* An operation: of session s, awaiting "at"; the depth of reconnects, whether
\* query_complete has come, and the session whose state it asked for.
Call(op, s, at) ==
  [n |-> ops', op |-> op, s |-> s, at |-> at, depth |-> 0, done |-> FALSE, of |-> NoSession]

Init ==
  /\ session = NoSession /\ data = Empty
  /\ isStreaming = FALSE /\ activity = FALSE
  /\ st = Empty /\ streaming = FALSE /\ active = FALSE
  /\ sessionIdRef = NoSession /\ abortControllerRef = 0 /\ stuckTimer = FALSE
  /\ calls = {} /\ exists = Stored
  /\ ops = 0 /\ chunks = 0 /\ overlapped = FALSE /\ cut = FALSE

----------------------------------------------------------------------------
(* What several operations do.                                             *)

syncNotMessages(fields) ==    \* mutant: messages are not set
  data' = [f \in Fields |-> IF f \in fields \ {"messages"} THEN st'[f] ELSE data[f]]

\* Fields of React state set to what the event state has.
Sync(fields) == data' = [f \in Fields |-> IF f \in fields THEN st'[f] ELSE data[f]]

\* resetEventState.
Reset == st' = Empty /\ streaming' = FALSE /\ active' = FALSE

\* The interval that tells a silent stream from a working one.
startStuckDetection == stuckTimer' = TRUE
stopStuckDetection == stuckTimer' = FALSE

idleStreams ==               \* mutant: setIsStreaming(false) is missing
  /\ UNCHANGED <<isStreaming, streaming>>
  /\ activity' = FALSE /\ active' = FALSE
  /\ stopStuckDetection

idleWatched ==               \* mutant: stopStuckDetection is missing
  /\ isStreaming' = FALSE /\ streaming' = FALSE
  /\ activity' = FALSE /\ active' = FALSE
  /\ UNCHANGED stuckTimer

Idle ==
  /\ isStreaming' = FALSE /\ streaming' = FALSE
  /\ activity' = FALSE /\ active' = FALSE
  /\ stopStuckDetection

\* loadArtifacts of a session, if there is one.  Its requests that are under way
\* at once are one.
Loading(id) ==
  IF id = NoSession THEN {}
  ELSE {[n |-> 0, op |-> "artifacts", s |-> id, at |-> "answer",
         depth |-> 0, done |-> FALSE, of |-> id]}

\* An operation of the user begins.
Begin ==
  /\ ops < MaxOps
  /\ ops' = ops + 1
  /\ overlapped' = (overlapped \/ calls # {})
  /\ UNCHANGED <<chunks, cut, exists>>

\* The call goes on at another await, or is over and starts others.
Goes(c, next) == calls' = (calls \ {c}) \cup {next}
Over(c, more) == calls' = (calls \ {c}) \cup more

\* The end of sendMessage, with its result or an error, and of resumeSession.
Finish(c) ==
  /\ Idle
  /\ Over(c, Loading(sessionIdRef))
  /\ UNCHANGED <<session, data, st, sessionIdRef, abortControllerRef>>

\* abort() ends the request of a sendMessage: its POST, or the stream that the
\* POST answered; not the stream of a reconnect, nor one of resumeSession.
Abortable(c) == /\ c.n = abortControllerRef /\ c.op = "send"
                /\ c.at \in {"post", "read"} /\ c.depth = 0

Aborted == {c \in calls : Abortable(c)}

\* What is left, with what the aborted ones load.
AfterAbort == (calls \ Aborted) \cup (IF Aborted = {} THEN {} ELSE Loading(sessionIdRef))

----------------------------------------------------------------------------
(* createSession and clearSession.                                         *)

createLeavesTables ==        \* mutant: tables are not reset
  /\ Begin
  /\ Reset
  /\ Sync({"messages", "artifacts", "questions"})
  /\ calls' = calls \cup {Call("create", NoSession, "answer")}
  /\ UNCHANGED <<session, isStreaming, activity, sessionIdRef, abortControllerRef, stuckTimer>>

createSession ==
  /\ Begin
  /\ Reset
  /\ Sync(Fields \ {"todos"})
  /\ calls' = calls \cup {Call("create", NoSession, "answer")}
  /\ UNCHANGED <<session, isStreaming, activity, sessionIdRef, abortControllerRef, stuckTimer>>

\* The host's answer: a new session, or none.
Created(c) ==
  /\ c.op = "create"
  /\ Over(c, {})
  /\ \/ \E s \in Sessions \ exists :
          session' = s /\ sessionIdRef' = s /\ exists' = exists \cup {s}
     \/ UNCHANGED <<session, sessionIdRef, exists>>
  /\ UNCHANGED <<data, isStreaming, activity, eventState, abortControllerRef, stuckTimer,
                 ops, chunks, overlapped, cut>>

clearSession ==
  /\ Begin
  /\ calls' = calls \ Aborted
  /\ st' = Empty
  /\ Sync(Fields \ {"tables"})
  /\ session' = NoSession
  /\ sessionIdRef' = NoSession
  /\ Idle
  /\ UNCHANGED abortControllerRef

----------------------------------------------------------------------------
(* Sending.                                                                *)

\* sendMessage, of a render with session s.
SendMessage(s, n, others) ==
  /\ st' = [st EXCEPT !["messages"] = @ \cup {s}]
  /\ Sync({"messages"})
  /\ isStreaming' = TRUE /\ streaming' = TRUE
  /\ startStuckDetection
  /\ abortControllerRef' = n
  /\ calls' = others \cup {[n |-> n, op |-> "send", s |-> s, at |-> "post",
                            depth |-> 0, done |-> FALSE, of |-> NoSession]}
  /\ UNCHANGED <<session, activity, active, sessionIdRef>>

\* The composer and the cards of questions send only while nothing streams.
Send ==
  /\ session # NoSession /\ ~isStreaming
  /\ Begin
  /\ SendMessage(session, ops', calls)

\* With attachments it uploads them first: what the render had is what is sent.
SubmitUploads ==
  /\ session # NoSession /\ ~isStreaming
  /\ Begin
  /\ calls' = calls \cup {Call("upload", session, "answer")}
  /\ UNCHANGED <<shown, refs>>

Uploaded(c) ==
  /\ c.op = "upload"
  /\ SendMessage(c.s, c.n, calls \ {c})
  /\ UNCHANGED counts

----------------------------------------------------------------------------
(* Streams: readSSEStream.                                                 *)

\* The check before a read: the stream of a session that was left is dropped.
Kept(c) == sessionIdRef = c.s

\* A response with a stream begins to be read.
Attached(c, depth) ==
  IF Kept(c)
    THEN /\ Goes(c, [c EXCEPT !.at = "read", !.depth = depth])
         /\ UNCHANGED <<shown, refs, counts>>
    ELSE Finish(c) /\ UNCHANGED counts

\* The answer to the POST of a message.
Posted(c) ==
  /\ c.op = "send" /\ c.at = "post"
  /\ \/ Attached(c, 0)
     \/ /\ Idle                                       \* refused
        /\ Over(c, {})
        /\ UNCHANGED <<session, data, st, sessionIdRef, abortControllerRef, counts>>

\* What an event adds to the event state, and so to the display.
Reduce(c, fields) ==
  /\ st' = [f \in Fields |-> st[f] \cup IF f \in fields THEN {c.s} ELSE {}]
  /\ Sync(fields)

\* A chunk of events is handled whatever session is shown by then: events of
\* all kinds, or heartbeats and artifacts_updated.  Then comes the next read,
\* if the session is still shown.
Chunk(c) ==
  /\ c.at = "read" /\ ~c.done
  /\ chunks < MaxChunks
  /\ chunks' = chunks + 1
  /\ \E fields \in {{}, Fields} :
       /\ Reduce(c, fields)
       /\ IF Kept(c)
            THEN /\ calls' = calls \cup Loading(sessionIdRef)
                 /\ active' = (active \/ fields # {}) /\ activity' = (activity \/ fields # {})
                 /\ UNCHANGED <<isStreaming, streaming, stuckTimer>>
            ELSE Idle /\ Over(c, Loading(sessionIdRef))
  /\ UNCHANGED <<session, sessionIdRef, abortControllerRef, ops, overlapped, cut, exists>>

\* query_complete.  React state follows what changes of the event state.
Complete(c) ==
  /\ c.at = "read" /\ ~c.done
  /\ IF Kept(c)
       THEN /\ Over(c, {[c EXCEPT !.done = TRUE]} \cup Loading(sessionIdRef))
            /\ isStreaming' = (isStreaming /\ ~streaming) /\ streaming' = FALSE
            /\ activity' = (activity /\ ~active) /\ active' = FALSE
            /\ UNCHANGED stuckTimer
       ELSE Idle /\ Over(c, Loading(sessionIdRef))
  /\ UNCHANGED <<session, data, st, sessionIdRef, abortControllerRef, counts>>

\* Asks for what is stored of the session shown now.
Fallback(c) ==
  /\ calls' = (calls \ {c}) \cup {[c EXCEPT !.at = "restore", !.of = sessionIdRef]}
                \cup Loading(sessionIdRef)
  /\ UNCHANGED <<shown, refs, counts>>

\* The stream ends: complete, dropped, or to be found again.
Eof(c) ==
  /\ c.at = "read"
  /\ IF c.done \/ ~Kept(c) THEN Finish(c) /\ UNCHANGED counts
     ELSE IF c.depth < MAX_RECONNECT_ATTEMPTS
       THEN /\ Goes(c, [c EXCEPT !.at = "check"])
            /\ UNCHANGED <<shown, refs, counts>>
     ELSE Fallback(c)

\* checkSessionStatus: a query is active, or the answer is no, or none.
Checked(c) ==
  /\ c.at = "check"
  /\ \/ Goes(c, [c EXCEPT !.at = "reattach"]) /\ UNCHANGED <<shown, refs, counts>>
     \/ Fallback(c)

\* attemptReconnect.
Reattached(c) ==
  /\ c.at = "reattach"
  /\ Attached(c, c.depth + 1) \/ Fallback(c)

\* What is stored replaces what is displayed; without stored events, the
\* messages of the session shown now are asked for.
Restored(c) ==
  /\ c.at \in {"restore", "legacy"}
  /\ \/ /\ c.of # NoSession
        /\ st' = [f \in Fields |-> {c.of}]
        /\ Sync(Fields)
        /\ Over(c, Loading(sessionIdRef))
        /\ Idle
        /\ UNCHANGED <<session, sessionIdRef, abortControllerRef, counts>>
     \/ /\ c.at = "restore"
        /\ Goes(c, [c EXCEPT !.at = "legacy", !.of = sessionIdRef])
        /\ UNCHANGED <<shown, refs, counts>>
     \/ c.at = "legacy" /\ Finish(c) /\ UNCHANGED counts

\* A read fails: the connection broke, or its time is over.  sendMessage ends;
\* resumeSession only reports it.
Broken(c) ==
  /\ c.at = "read"
  /\ IF c.op = "send" THEN Finish(c) /\ UNCHANGED counts
     ELSE /\ Over(c, {})
          /\ cut' = TRUE
          /\ UNCHANGED <<shown, refs, ops, chunks, overlapped, exists>>

----------------------------------------------------------------------------
(* cancelSession, nudgeAgent and deleteSession.                            *)

\* Each aborts at once, and goes on when the host has answered.
AbortAnd(op) ==
  /\ session # NoSession
  /\ Begin
  /\ calls' = AfterAbort \cup {Call(op, session, "answer")}
  /\ IF Aborted = {} THEN UNCHANGED <<isStreaming, streaming, activity, active, stuckTimer>>
     ELSE Idle
  /\ UNCHANGED <<session, data, st, sessionIdRef, abortControllerRef>>

cancelSession == isStreaming /\ AbortAnd("cancel")
nudgeAgent == isStreaming /\ AbortAnd("nudge")
deleteSession == AbortAnd("delete")

Cancelled(c) ==
  /\ c.op = "cancel"
  /\ Idle
  /\ Over(c, {})
  /\ UNCHANGED <<session, data, st, sessionIdRef, abortControllerRef, counts>>

\* A nudge goes on to send a message.
Nudged(c) ==
  /\ c.op = "nudge"
  /\ st' = [st EXCEPT !["messages"] = @ \cup {c.s}]
  /\ Sync({"messages"})
  /\ isStreaming' = TRUE /\ streaming' = TRUE
  /\ activity' = FALSE /\ active' = FALSE
  /\ startStuckDetection
  /\ abortControllerRef' = c.n
  /\ Goes(c, [c EXCEPT !.op = "send", !.at = "post"])
  /\ UNCHANGED <<session, sessionIdRef, counts>>

\* Only the messages of the display go; sessionIdRef stays.
Deleted(c) ==
  /\ c.op = "delete"
  /\ Over(c, {})
  /\ \/ /\ Reset
        /\ session' = NoSession
        /\ Sync({"messages"})
        /\ isStreaming' = FALSE
     \/ UNCHANGED <<session, data, eventState, isStreaming>>
  /\ UNCHANGED <<activity, sessionIdRef, abortControllerRef, stuckTimer, counts>>

----------------------------------------------------------------------------
(* resumeSession.                                                          *)

resumeSession(s) ==
  /\ Begin
  /\ Reset
  /\ Sync({"messages", "artifacts", "questions"})
  /\ calls' = calls \cup {Call("resume", s, "load")}
  /\ UNCHANGED <<session, isStreaming, activity, sessionIdRef, abortControllerRef, stuckTimer>>

\* Its answers come: the session is shown, whichever was asked for last.  A
\* snapshot is restored first; then an active session is looked at.
Loaded(c) ==
  /\ c.op = "resume" /\ c.at = "load"
  /\ \/ /\ st' = [f \in Fields |-> {c.s}]
        /\ Sync(Fields)
        /\ session' = c.s
        /\ sessionIdRef' = c.s
        /\ \/ /\ Over(c, {[c EXCEPT !.at = "wake"]} \cup Loading(c.s))
              /\ activity' = TRUE
           \/ /\ \/ Over(c, {[c EXCEPT !.at = "status"]} \cup Loading(c.s))
                 \/ Over(c, Loading(c.s))
              /\ UNCHANGED activity
     \/ Over(c, {}) /\ UNCHANGED <<session, data, st, sessionIdRef, activity>>
  /\ UNCHANGED <<isStreaming, streaming, active, abortControllerRef, stuckTimer, counts>>

Woken(c) ==
  /\ c.at = "wake"
  /\ activity' = FALSE
  /\ Goes(c, [c EXCEPT !.at = "status"]) \/ Over(c, {})
  /\ UNCHANGED <<session, data, isStreaming, refs, counts>>

\* A query is active: its stream is attached to.
Found(c) ==
  /\ c.at = "status"
  /\ \/ /\ isStreaming' = TRUE /\ streaming' = TRUE /\ activity' = TRUE /\ startStuckDetection
        /\ abortControllerRef' = c.n
        /\ Goes(c, [c EXCEPT !.at = "attach"])
     \/ /\ Over(c, {})
        /\ UNCHANGED <<isStreaming, streaming, activity, stuckTimer, abortControllerRef>>
  /\ UNCHANGED <<session, data, st, active, sessionIdRef, counts>>

ResumeAttached(c) ==
  /\ c.at = "attach"
  /\ Attached(c, 0) \/ (Finish(c) /\ UNCHANGED counts)

\* loadArtifacts: what the host has, and live ones that events registered.
ArtifactsLoaded(c) ==
  /\ c.op = "artifacts"
  /\ Over(c, {})
  /\ \/ /\ \E live \in {{}, st["artifacts"]} : st' = [st EXCEPT !["artifacts"] = {c.s} \cup live]
        /\ Sync({"artifacts"})
     \/ UNCHANGED <<st, data>>
  /\ UNCHANGED <<session, isStreaming, streaming, activity, active,
                 sessionIdRef, abortControllerRef, stuckTimer, counts>>

----------------------------------------------------------------------------
User == createSession \/ clearSession \/ Send \/ SubmitUploads
          \/ cancelSession \/ nudgeAgent \/ deleteSession
          \/ \E s \in exists : resumeSession(s)

\* An await of a call ends.
Step(c) ==
  \/ Created(c) \/ Uploaded(c) \/ Posted(c)
  \/ Eof(c) \/ Checked(c) \/ Reattached(c) \/ Restored(c) \/ Broken(c)
  \/ Cancelled(c) \/ Nudged(c) \/ Deleted(c)
  \/ Loaded(c) \/ Woken(c) \/ Found(c) \/ ResumeAttached(c) \/ ArtifactsLoaded(c)

Answer == \E c \in calls : Step(c)

Next == User \/ Answer \/ \E c \in calls : Chunk(c) \/ Complete(c)

\* Every request has its answer or its timeout, and every stream its end.
Spec == Init /\ [][Next]_vars /\ WF_vars(Answer)

----------------------------------------------------------------------------
(* Properties.                                                             *)

TypeOK ==
  /\ session \in Sessions \cup {NoSession} /\ sessionIdRef \in Sessions \cup {NoSession}
  /\ data \in [Fields -> SUBSET Sessions] /\ st \in [Fields -> SUBSET Sessions]
  /\ isStreaming \in BOOLEAN /\ streaming \in BOOLEAN /\ active \in BOOLEAN /\ activity \in BOOLEAN /\ stuckTimer \in BOOLEAN
  /\ ops \in Nat /\ chunks \in Nat /\ overlapped \in BOOLEAN /\ cut \in BOOLEAN
  /\ abortControllerRef \in Nat
  /\ \A c \in calls : c.s \in Sessions \cup {NoSession} /\ c.of \in Sessions \cup {NoSession}

(***************************************************************************)
(* When nothing is under way, nothing is shown as streaming or active and  *)
(* no timer runs: no order of cancels, deletes, switches and ends leaves   *)
(* the input disabled.  (Except for a stream that resumeSession attached   *)
(* to and that broke.)                                                     *)
(***************************************************************************)
Settled == calls = {} /\ ~cut => ~isStreaming /\ ~activity /\ ~stuckTimer

(***************************************************************************)
(* What is displayed and what the next event is applied to do not diverge: *)
(* messages are those of the event state, and another field may at most    *)
(* still show what was there when the event state was emptied.             *)
(***************************************************************************)
InSync ==
  /\ data["messages"] = st["messages"]
  /\ \A f \in Fields : data[f] = st[f] \/ st[f] = {}

(***************************************************************************)
(* If operations never overlap, a session shows no data of another.  (Of   *)
(* todos, createSession keeps those of the session before.)                *)
(***************************************************************************)
OneSession ==
  ~overlapped /\ session # NoSession /\ calls = {} =>
    \A f \in Fields \ {"todos"} : data[f] \subseteq {session}

(***************************************************************************)
(* What is shown as streaming stops being so, as far as resumed streams do *)
(* not break.                                                              *)
(***************************************************************************)
StreamingEnds == isStreaming ~> (~isStreaming \/ cut)

=============================================================================
