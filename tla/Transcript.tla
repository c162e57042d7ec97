----------------------------- MODULE Transcript -----------------------------
(***************************************************************************)
(* A conversation from the agent's SDK to the display: the harness makes   *)
(* events of the SDK's messages and tool hooks (runTurn of                 *)
(* claude-agent-sdk.ts), the reducer shows them live, the pipeline stores  *)
(* their compaction, and Replay shows a session again from what is stored. *)
(*                                                                         *)
(* Delivery is in order (InOrder of Sandbox); turns do not overlap.  What  *)
(* comes after query_complete is neither delivered nor stored, as the      *)
(* pipeline stops there.                                                   *)
(***************************************************************************)
EXTENDS Replay

CONSTANTS
  Tools,           \* tool calls
  Instances        \* bounds: see Limits

\* What one behaviour may do: the kind of each tool call, "unused" for none;
\* whether messages require a plan; how many messages, deltas of text and
\* thinking, events beside the text and reconnects; how many rows, of a session
\* older than event storage (it then does nothing else); and, for ChatView, the
\* render plugins of the host and how many clicks.
Limits(i) ==
  /\ DOMAIN i = {"kind", "plan", "turns", "pieces", "asides", "reconnects", "rows",
                 "plugins", "clicks"}
  /\ DOMAIN i.kind = Tools

ASSUME InstancesAssumption == \A i \in Instances : Limits(i)

VARIABLES
  ui,              \* what the client displays
  row,             \* the compaction of the turn's events
  rows,            \* the rows stored of earlier turns
  legacy,          \* the rows of a session older than event storage
  phase,           \* "idle", "sent", "loop"; "legacy" for an old session
  turn,            \* messages sent
  limit,           \* the instance
  call,            \* how far each call is, as the SDK sees it
  failed,          \* the calls with an error as result
  pending,         \* pendingToolCalls
  msg,             \* messageId, a fresh one is the next number
  registered,      \* registeredPaths
  plan,            \* planMode, and whether a plan was made
  pieces,          \* deltas so far
  asides,
  reconnects

turnVars == <<pending, msg, registered, plan>>
sdkVars == <<limit, call, failed, pieces, asides>>
vars == <<ui, row, rows, legacy, phase, turn, turnVars, sdkVars, reconnects>>

kind == limit.kind

C == INSTANCE Compact WITH Wide <- {}, MaxText <- 0

Transient == {"heartbeat", "tool_progress", "tool_input_delta", "activity_update",
              "system_status", "hook_event", "connected"}

\* The event as compaction sees it.
Wrapped(e) ==
  [type |-> CASE e.type = "content_delta"  -> "content"
              [] e.type = "thinking_delta" -> "thinking"
              [] e.type = "user_message"   -> "user"
              [] e.type \in Transient      -> "transient"
              [] OTHER                     -> "other",
   text |-> e.text, event |-> e]

Unwrapped(stored) == [j \in DOMAIN stored |-> [stored[j].event EXCEPT !.text = stored[j].text]]

Compacted(stored, events) ==
  LET out[n \in 0..Len(events)] ==
        IF n = 0 THEN stored ELSE C!merge(out[n - 1], Wrapped(events[n]))
  IN out[Len(events)]

Init ==
  /\ ui = initialAgentEventState
  /\ row = <<>> /\ rows = <<>> /\ legacy = <<>>
  /\ limit \in Instances
  /\ phase = IF limit.rows > 0 THEN "legacy" ELSE "idle"
  /\ turn = 0
  /\ call = [t \in Tools |-> "none"]
  /\ failed = {}
  /\ pending = <<>> /\ msg = 0 /\ registered = {}
  /\ plan = [required |-> FALSE, made |-> FALSE]
  /\ pieces = 0 /\ asides = 0 /\ reconnects = 0

\* The harness emits events, which reach the display and the pipeline.
Emit(events) ==
  /\ ui' = Reduced(ui, events)
  /\ row' = Compacted(row, events)
  /\ UNCHANGED <<rows, legacy, turn, reconnects>>

Say(type, fields) == <<Event(type, <<>>, fields)>>
Activity(p) == Say("activity_update", [phase |-> p])

----------------------------------------------------------------------------
(* The user.                                                               *)

SendLeavesQuestions(text) == \* mutant: open questions are not marked
  /\ phase = "idle"
  /\ turn < limit.turns
  /\ turn' = turn + 1
  /\ LET id == <<"user", turn', 0>>
     IN /\ ui' = [ui EXCEPT !.isStreaming = TRUE, !.error = FALSE,
                            !.messages = Append(@, Message(id, "user", text))]
        /\ row' = Compacted(<<>>, <<Event("user_message", text, [id |-> id])>>)
  /\ rows' = IF row = <<>> THEN rows ELSE Append(rows, row)
  /\ phase' = "sent"
  /\ plan' = [required |-> limit.plan, made |-> FALSE]
  /\ UNCHANGED <<legacy, sdkVars, pending, msg, registered, reconnects>>

\* sendMessage: open questions are answered by it, and the host puts the
\* message before the events of the turn.
Send(text) ==
  /\ phase = "idle"
  /\ turn < limit.turns
  /\ turn' = turn + 1
  /\ LET id == <<"user", turn', 0>>
     IN /\ ui' = [ui EXCEPT !.isStreaming = TRUE, !.error = FALSE,
                            !.questions = [t \in DOMAIN @ |-> TRUE],
                            !.messages = Append(@, Message(id, "user", text))]
        /\ row' = Compacted(<<>>, <<Event("user_message", text, [id |-> id])>>)
  /\ rows' = IF row = <<>> THEN rows ELSE Append(rows, row)
  /\ phase' = "sent"
  /\ plan' = [required |-> limit.plan, made |-> FALSE]
  /\ UNCHANGED <<legacy, sdkVars, pending, msg, registered, reconnects>>

\* The client loses the stream of a turn and attaches again: the buffered
\* events of the turn come once more.  (They do to what is displayed what
\* their compaction does.)
Reconnect ==
  /\ phase = "loop"
  /\ reconnects < limit.reconnects
  /\ reconnects' = reconnects + 1
  /\ ui' = Reduced(ui, SelectSeq(Unwrapped(row), LAMBDA e : e.type # "user_message"))
  /\ UNCHANGED <<row, rows, legacy, phase, turn, turnVars, sdkVars>>

----------------------------------------------------------------------------
(* The turn begins.                                                        *)

Slide == "slide"

SlideEvents(slides) ==
  IF slides = 0 THEN <<>>
  ELSE Activity("processing") \o Say("artifact_registered", [path |-> Slide, kind |-> "image"])

\* The first message starts; slides of attachments are artifacts.
StartTurn(slides) ==
  /\ phase = "sent"
  /\ asides + slides <= limit.asides
  /\ asides' = asides + slides
  /\ phase' = "loop"
  /\ msg' = msg + 1
  /\ pending' = <<>> /\ registered' = {}
  /\ Emit(Say("message_start", [id |-> Reply(msg')]) \o SlideEvents(slides))
  /\ UNCHANGED <<plan, limit, call, failed, pieces>>

\* A hook ran ahead of the message that announces its call, which is next.
Ahead == \E t \in Tools : call[t] \in {"ahead", "aheadDenied"}

\* The for-await loop takes a message of the SDK.
Loop == phase = "loop" /\ ~Ahead

----------------------------------------------------------------------------
(* Text.                                                                   *)

Delta(type) ==
  /\ Loop
  /\ pieces < limit.pieces
  /\ pieces' = pieces + 1
  /\ Emit(<<Event(type, <<pieces'>>, <<>>)>>)
  /\ UNCHANGED <<phase, turnVars, limit, call, failed, asides>>

\* Deltas of a tool's input, the starts and ends of blocks, progress and
\* status: what they change is gone at the end of the turn.
Passing(e) ==
  /\ Loop
  /\ asides < limit.asides
  /\ asides' = asides + 1
  /\ Emit(e)
  /\ UNCHANGED <<phase, turnVars, limit, call, failed, pieces>>

Block == \E p \in {"preparing_tool", "writing", "thinking"} : Passing(Activity(p))
InputDelta == Passing(<<Event("tool_input_delta", <<0>>, <<>>)>>)
Status == \E st \in {"compacting", "ready", "auth"} :
            Passing(Say("system_status", [status |-> st]))
HookResponse == \E h \in {"notification", "hook_response"} :
            Passing(Say("hook_event", [hook |-> h, tool |-> Slide]))
SystemInit == Passing(Say("session_info", <<>>))
Progress(t) == call[t] = "ready" /\ Passing(Say("tool_progress", [tool |-> t]))

SubagentStart(typed) == Passing(Say("subagent_event", [event |-> "start", typed |-> typed]))
SubagentStop == Passing(Say("subagent_event", [event |-> "stop", typed |-> FALSE]))

----------------------------------------------------------------------------
(* Tool calls.                                                             *)

Pending(t) == \E j \in DOMAIN pending : pending[j] = t
Start(t) == Say("tool_use_start", [tool |-> t, name |-> kind[t]])
End(t, isError, marked) ==
  Say("tool_use_end", [tool |-> t, isError |-> isError, marked |-> marked])

\* An assistant message with the call: announced whether or not a hook did.
Assistant(t) ==
  /\ phase = "loop"
  /\ \/ call[t] = "none" /\ kind[t] # "unused" /\ ~Ahead
        /\ call' = [call EXCEPT ![t] = "shown"]
     \/ call[t] = "ahead" /\ call' = [call EXCEPT ![t] = "ready"]
     \/ call[t] = "aheadDenied" /\ call' = [call EXCEPT ![t] = "denied"]
  /\ pending' = Append(pending, t)
  /\ Emit(Start(t))
  /\ UNCHANGED <<phase, msg, registered, plan, limit, failed, pieces, asides>>

\* The hook denies servers, and execution before the plan that is required.
Denied(t) == \/ kind[t] = "server"
             \/ kind[t] \in {"build", "script"} /\ plan.required /\ ~plan.made

\* The hook before a call may run ahead of the call's message.
PreToolUse(t) ==
  /\ phase = "loop"
  /\ \/ call[t] = "none" /\ kind[t] # "unused" /\ ~Ahead
        /\ call' = [call EXCEPT ![t] = IF Denied(t) THEN "aheadDenied" ELSE "ahead"]
     \/ call[t] = "shown"
        /\ call' = [call EXCEPT ![t] = IF Denied(t) THEN "denied" ELSE "ready"]
  /\ pending' = IF Pending(t) THEN pending ELSE Append(pending, t)
  /\ Emit((IF Pending(t) THEN <<>> ELSE Start(t))
            \o (IF Denied(t) THEN <<>>
                ELSE Say("hook_event", [hook |-> "pre_tool", tool |-> t])))
  /\ UNCHANGED <<phase, msg, registered, plan, limit, failed, pieces, asides>>

\* The event a marker in the output of a tool of this kind is turned into,
\* and the artifacts that are registered without one.
Path(t) == IF kind[t] = "build" THEN "dist" ELSE IF kind[t] = "script" THEN "script" ELSE "file"

Marker(t) ==
  CASE kind[t] = "table" -> Say("table_rendered", [id |-> <<"event", t>>, tool |-> t])
    [] kind[t] = "chart" -> Say("chart_rendered", [id |-> <<"event", t>>, tool |-> t])
    [] kind[t] = "ask"   -> Say("ask_user", [tool |-> t])
    [] kind[t] = "dashboard" -> Say("dashboard_created", [id |-> t, tool |-> t])
    [] kind[t] = "artifact" -> Say("artifact_registered", [path |-> Path(t), kind |-> "file"])
    [] kind[t] = "build" /\ Path(t) \notin registered ->
         Say("artifact_registered", [path |-> Path(t), kind |-> "webapp"])
    [] kind[t] = "script" /\ Path(t) \notin registered ->
         Say("artifact_registered", [path |-> Path(t), kind |-> "code"])
    [] OTHER -> <<>>

\* pendingToolCalls.splice: the first entry goes.
Spliced(t) == IF Pending(t) THEN RemoveAt(pending, SelectInSeq(pending, LAMBDA x : x = t))
              ELSE pending

PostToolUse(t, isError) ==
  /\ phase = "loop"
  /\ call[t] = "ready"
  /\ call' = [call EXCEPT ![t] = "ran"]
  /\ failed' = IF isError THEN failed \cup {t} ELSE failed
  /\ pending' = Spliced(t)
  /\ plan' = [plan EXCEPT !.made = @ \/ kind[t] = "todo"]
  /\ registered' = registered \cup
       IF ~isError /\ kind[t] \in {"artifact", "build", "script"} THEN {Path(t)} ELSE {}
  /\ Emit(Say("hook_event", [hook |-> "post_tool", tool |-> t]) \o End(t, isError, TRUE)
            \o (IF isError THEN <<>> ELSE Marker(t)))
  /\ UNCHANGED <<phase, msg, limit, pieces, asides>>

\* A user message with the result: it ends a call that no hook has ended, and
\* the messages change.  A call that never ran has an error as result.
User(t) ==
  /\ Loop
  /\ call[t] \in {"shown", "denied", "ready", "ran"}
  /\ failed' = IF call[t] = "ran" THEN failed ELSE failed \cup {t}
  /\ call' = [call EXCEPT ![t] = "settled"]
  /\ pending' = Spliced(t)
  /\ msg' = msg + 1
  /\ Emit((IF Pending(t) THEN End(t, t \in failed', FALSE) ELSE <<>>)
            \o Say("message_end", <<>>) \o Say("message_start", [id |-> Reply(msg')]))
  /\ UNCHANGED <<phase, registered, plan, limit, pieces, asides>>

----------------------------------------------------------------------------
(* The turn ends.  A call without a result has lost its turn: nothing ends *)
(* it any more.                                                            *)

Stopped ==
  /\ call' = [t \in Tools |->
       IF call[t] \in {"none", "settled"} THEN call[t]
       ELSE IF call[t] = "ran" THEN "settled" ELSE "left"]
  /\ UNCHANGED <<turnVars, limit, failed, pieces, asides>>

Complete(text) == <<Event("query_complete", text, [id |-> <<"result", turn, 0>>])>>

\* The SDK's result: a success with its text, or an error.
Result(text) ==
  /\ Loop
  /\ phase' = "idle"
  /\ Emit(Say("message_end", <<>>) \o Complete(text))
  /\ Stopped

\* The SDK throws: aborted, or failed.
Throws ==
  /\ phase = "loop"
  /\ phase' = "idle"
  /\ Emit(Say("error", <<>>) \o Complete(<<>>))
  /\ Stopped

----------------------------------------------------------------------------
(* A session older than event storage: rows, as it was stored then.        *)

LegacyRows ==
  LET fields == [tool |-> Slide, name |-> "plain", isError |-> FALSE, fields |-> <<>>,
                 special |-> ""]
      text == <<Len(legacy) + 1>>
  IN {[role |-> r, text |-> text, thinking |-> <<>>] @@ fields : r \in {"user", "assistant"}}
     \cup {[role |-> "assistant", text |-> <<>>, thinking |-> text] @@ fields}
     \cup {[role |-> r, text |-> <<>>, thinking |-> <<>>] @@ fields : r \in Calls}
     \cup {[role |-> "tool_result", text |-> <<>>, thinking |-> <<>>, special |-> sp] @@ fields :
             sp \in {"session_info", "unknown"}}

LegacyRow ==
  /\ phase = "legacy"
  /\ Len(legacy) < limit.rows
  /\ \E r \in LegacyRows : legacy' = Append(legacy, r)
  /\ ui' = replayFromPersistedMessages(legacy')
  /\ UNCHANGED <<row, rows, phase, turn, turnVars, sdkVars, reconnects>>

----------------------------------------------------------------------------
Next ==
  \/ Send(<<0>>)
  \/ Reconnect
  \/ \E slides \in 0..1 : StartTurn(slides)
  \/ \E type \in {"content_delta", "thinking_delta"} : Delta(type)
  \/ Block \/ InputDelta \/ Status \/ HookResponse \/ SystemInit
  \/ \E t \in Tools : Progress(t)
  \/ \E typed \in BOOLEAN : SubagentStart(typed)
  \/ SubagentStop
  \/ \E t \in Tools : Assistant(t) \/ PreToolUse(t) \/ User(t)
  \/ \E t \in Tools, isError \in BOOLEAN : PostToolUse(t, isError)
  \/ \E text \in {<<>>, <<0>>} : Result(text)
  \/ Throws
  \/ LegacyRow

Spec == Init /\ [][Next]_vars

----------------------------------------------------------------------------
(* Properties.                                                             *)

\* What is on display between turns: the messages as they are split, and the
\* Alert of an error (AgentChat.tsx:541-545).
Displayed(s) ==
  <<[j \in DOMAIN s.messages |->
       LET m == s.messages[j] IN <<m.role, m.text, m.thinking, m.tools, m.paths>>],
    {r.tool : r \in s.tables}, {r.tool : r \in s.charts}, s.questions, s.dashboards,
    s.artifacts, s.todos, s.sessionInfo, s.subagents, s.error>>

Stored == FlattenSeq([j \in DOMAIN rows |-> Unwrapped(rows[j])]) \o Unwrapped(row)

\* resumeSession takes all of the replay over but its error.
Resumed == [replayEvents(Stored) EXCEPT !.error = FALSE]

\* What lasts of a live display: its fragments fused, and no error.
Lasting(s) == [mergeAssistantFragments(s) EXCEPT !.error = FALSE]

(***************************************************************************)
(* "a single pure reducer that renders live and replayed sessions          *)
(* identically" (README.md:43).  They are not identical in two ways: only  *)
(* a restore fuses the fragments of an answer (replayEvents.ts:48), and it *)
(* never shows the error of a failed turn (useAgentSession.ts:799,         *)
(* 848-865).  But for these, what is restored between turns is what was    *)
(* displayed live, questions that wait for an answer included.             *)
(***************************************************************************)
LastingRestored == phase = "idle" => Displayed(Resumed) = Displayed(Lasting(ui))

\* The pieces that a field of the agent's messages shows, each at its place.
Shown(s, field) ==
  UNION {{<<j, k, s.messages[j][field][k]>> : k \in DOMAIN s.messages[j][field]} :
           j \in {i \in DOMAIN s.messages : s.messages[i].role = "assistant"}}

Before(p, q) == p[1] < q[1] \/ (p[1] = q[1] /\ p[2] < q[2])
Ascending(places) == \A p, q \in places : Before(p, q) => p[3] < q[3]

Spoken(s) == {p \in Shown(s, "text") : p[3] # 0}
Thought(s) == Shown(s, "thinking")

(***************************************************************************)
(* The display shows every piece of text and thinking of the agent once    *)
(* and in order, wherever messages were split, merged or restarted by tool *)
(* results (or, of an old session, by its rows).                           *)
(***************************************************************************)
TextInOrder ==
  LET all == {p[3] : p \in Spoken(ui) \cup Thought(ui)}
  IN /\ Ascending(Spoken(ui)) /\ Ascending(Thought(ui))
     /\ phase # "legacy" => all = 1..pieces
     /\ phase = "legacy" => all = {j \in DOMAIN legacy : legacy[j].role = "assistant"}

Announced(t) == call[t] # "none"

\* The places where a call is shown.
Entries(t) == UNION {{<<i, k>> : k \in {j \in DOMAIN ui.messages[i].tools :
                                          ui.messages[i].tools[j].id = t}}
                     : i \in DOMAIN ui.messages}

(***************************************************************************)
(* A tool call is shown once, from its announcement on, as running until   *)
(* it has its result and never after, whichever of hook and message comes  *)
(* first and though the results of parallel calls come in other messages.  *)
(***************************************************************************)
CallsShownOnce ==
  phase \in {"loop", "idle"} => \A t \in Tools :
    /\ Cardinality(Entries(t)) = IF Announced(t) THEN 1 ELSE 0
    /\ \A p \in Entries(t) :
         ui.messages[p[1]].tools[p[2]].status =
           CASE call[t] \in {"ran", "settled"} -> IF t \in failed THEN "error" ELSE "complete"
             [] OTHER -> "running"

(***************************************************************************)
(* A call that rendered a table or a chart shows it once, though the       *)
(* reducer finds it in the output and in an event of its own, and at last  *)
(* as the event's, which is authoritative.                                 *)
(***************************************************************************)
RenderedOnce ==
  \A t \in Tools : \A rendered \in {ui.tables, ui.charts} :
    {r \in rendered : r.tool = t} \subseteq {[id |-> <<"event", t>>, tool |-> t]}
=============================================================================
