---------------------------- MODULE EventReducer ----------------------------
(***************************************************************************)
(* The reducer of the chat UI (web/src/agentEventReducer.ts): what is      *)
(* displayed of a session is a fold of it over the session's events, live  *)
(* and replayed alike.                                                     *)
(*                                                                         *)
(* An event is a record with its type, its text (a sequence of pieces, so  *)
(* that lost, doubled or moved text shows) and the fields of its type.     *)
(* Maps of the code are functions, or sequences where the order of         *)
(* insertion is displayed.  Left out: labels, timestamps, and what hook    *)
(* events and progress add to the details of a tool call.                  *)
(***************************************************************************)
EXTENDS Naturals, Sequences, SequencesExt, TLC

\* Ids of messages: what made them, a number, the number of the continuation.
NoId == <<"none", 0, 0>>
Reply(n) == <<"reply", n, 0>>
Continuation(id, k) == <<id[1], id[2], k>>

Event(type, text, fields) ==
  [f \in DOMAIN fields \cup {"type", "text"} |->
     IF f = "type" THEN type ELSE IF f = "text" THEN text ELSE fields[f]]

initialAgentEventState ==
  [messages |-> <<>>, isStreaming |-> FALSE, error |-> FALSE, artifacts |-> <<>>,
   currentMessage |-> [id |-> NoId, text |-> <<>>],
   toolCalls |-> <<>>, tables |-> {}, charts |-> {}, questions |-> <<>>, dashboards |-> <<>>,
   hasActiveToolCalls |-> FALSE, original |-> NoId, continuationCount |-> 0,
   activity |-> "none", toolInput |-> <<>>, pageTool |-> <<>>, settings |-> <<>>,
   todos |-> <<>>, sessionInfo |-> FALSE, subagents |-> <<>>, skills |-> <<>>]

Message(id, role, text) ==
  [id |-> id, role |-> role, text |-> text, thinking |-> <<>>, tools |-> <<>>, paths |-> <<>>]

HasMessage(s, id) == \E j \in DOMAIN s.messages : s.messages[j].id = id

\* messages.find(m => m.id === id)
Find(s, id) == s.messages[SelectInSeq(s.messages, LAMBDA m : m.id = id)]

Open(s) == s.currentMessage.id # NoId

\* messages.map(m => m.id === id ? Change(m) : m)
OnMessage(s, id, Change(_)) ==
  [s EXCEPT !.messages = [j \in DOMAIN @ |-> IF @[j].id = id THEN Change(@[j]) ELSE @[j]]]

\* Map.set: an entry keeps its place.
SetById(list, entry) ==
  IF \E j \in DOMAIN list : list[j].id = entry.id
    THEN [j \in DOMAIN list |-> IF list[j].id = entry.id THEN entry ELSE list[j]]
    ELSE Append(list, entry)

\* Map.set, where the order of the entries is not displayed.
Put(map, key, value) == [k \in DOMAIN map \cup {key} |-> IF k = key THEN value ELSE map[k]]

HasTool(s, tool) == \E j \in DOMAIN s.toolCalls : s.toolCalls[j].id = tool
ToolCall(s, tool) == s.toolCalls[CHOOSE j \in DOMAIN s.toolCalls : s.toolCalls[j].id = tool]

updateToolCallsOnMessages(s) ==
  IF Open(s) THEN OnMessage(s, s.currentMessage.id, LAMBDA m : [m EXCEPT !.tools = s.toolCalls]) ELSE s

WithStatus(m, tool, status) ==
  [m EXCEPT !.tools = [k \in DOMAIN @ |->
     IF @[k].id = tool THEN [@[k] EXCEPT !.status = status] ELSE @[k]]]

updateToolInMessages(s, tool, status) ==
  [s EXCEPT !.messages = [j \in DOMAIN @ |-> WithStatus(@[j], tool, status)]]

----------------------------------------------------------------------------
(* Messages.                                                               *)

message_start(s, e) ==
  LET t == [s EXCEPT !.currentMessage = [id |-> e.id, text |-> <<>>], !.toolCalls = <<>>,
                     !.hasActiveToolCalls = FALSE, !.original = e.id,
                     !.continuationCount = 0, !.activity = "thinking"]
  IN IF HasMessage(s, e.id) THEN t
     ELSE [t EXCEPT !.messages = Append(@, Message(e.id, "assistant", <<>>))]

splitStays(s, e) ==          \* mutant: what follows goes on in the old message
  LET id == Continuation(s.original, s.continuationCount + 1)
  IN [s EXCEPT !.activity = "writing", !.continuationCount = @ + 1,
               !.toolCalls = <<>>, !.hasActiveToolCalls = FALSE,
               !.messages = Append(@, Message(id, "assistant", e.text))]

\* Text after a tool call begins a continuation message.
Split(s, e) ==
  LET id == Continuation(s.original, s.continuationCount + 1)
  IN [s EXCEPT !.activity = "writing", !.continuationCount = @ + 1,
               !.currentMessage = [id |-> id, text |-> e.text],
               !.toolCalls = <<>>, !.hasActiveToolCalls = FALSE,
               !.messages = Append(@, Message(id, "assistant", e.text))]

content_delta(s, e) ==
  IF ~Open(s) THEN s
  ELSE IF s.hasActiveToolCalls THEN Split(s, e)
  ELSE LET content == s.currentMessage.text \o e.text
       IN OnMessage([s EXCEPT !.activity = "writing", !.currentMessage.text = content],
                    s.currentMessage.id, LAMBDA m : [m EXCEPT !.text = content])

\* The thinking of the first message with the id is the base of them all.
thinking_delta(s, e) ==
  IF ~Open(s) THEN s
  ELSE LET id == s.currentMessage.id
           before == IF HasMessage(s, id) THEN Find(s, id).thinking ELSE <<>>
       IN OnMessage([s EXCEPT !.activity = "thinking"], id,
                    LAMBDA m : [m EXCEPT !.thinking = before \o e.text])

message_end(s) == [s EXCEPT !.currentMessage = [id |-> NoId, text |-> <<>>]]

user_message(s, e) ==
  IF HasMessage(s, e.id) THEN s
  ELSE [s EXCEPT !.messages = Append(@, Message(e.id, "user", e.text))]

----------------------------------------------------------------------------
(* Tool calls.                                                             *)

tool_use_start(s, e) ==
  updateToolCallsOnMessages(
    [s EXCEPT !.hasActiveToolCalls = TRUE, !.toolInput = <<>>, !.activity = "tool",
              !.toolCalls = SetById(@, [id |-> e.tool, name |-> e.name, status |-> "running"])])

\* A table or chart found in a tool's output, unless its event came first.
Parsed(rendered, tool) ==
  IF \E r \in rendered : r.tool = tool THEN rendered
  ELSE rendered \cup {[id |-> <<"parsed", tool>>, tool |-> tool]}

\* What the output of a call that is in the map is searched for.
SelfParse(s, e, name) ==
  IF e.isError THEN s
  ELSE CASE name = "todo"      -> [s EXCEPT !.todos = <<e.tool>>]
         [] name = "table" /\ e.marked -> [s EXCEPT !.tables = Parsed(@, e.tool)]
         [] name = "chart" /\ e.marked -> [s EXCEPT !.charts = Parsed(@, e.tool)]
         [] name = "ask" /\ e.marked   -> [s EXCEPT !.questions = Put(@, e.tool, FALSE)]
         [] name = "dashboard" /\ e.marked -> [s EXCEPT !.dashboards = Put(@, e.tool, e.tool)]
         [] OTHER -> s

toolUseEndInMap(s, e) ==     \* mutant: a call of an earlier message is not looked for
  LET status == IF e.isError THEN "error" ELSE "complete"
  IN IF ~HasTool(s, e.tool) THEN s
     ELSE updateToolCallsOnMessages(
            [s EXCEPT !.toolCalls = SetById(@, [ToolCall(s, e.tool) EXCEPT !.status = status])])

\* In the map of the message under way, or in some earlier message.
tool_use_end(s, e) ==
  LET status == IF e.isError THEN "error" ELSE "complete"
      t == updateToolCallsOnMessages(
             [s EXCEPT !.toolCalls = SetById(@, [ToolCall(s, e.tool) EXCEPT !.status = status])])
      idle == \A j \in DOMAIN t.toolCalls : t.toolCalls[j].status # "running"
  IN IF ~HasTool(s, e.tool) THEN updateToolInMessages(s, e.tool, status)
     ELSE SelfParse([t EXCEPT !.activity = IF idle THEN "thinking" ELSE @],
                    e, ToolCall(s, e.tool).name)

\* Progress, and hooks below, refresh the tools of the current message.
tool_progress(s, e) == IF HasTool(s, e.tool) THEN updateToolCallsOnMessages(s) ELSE s

hook_event(s, e) ==
  LET t == IF HasTool(s, e.tool) THEN updateToolCallsOnMessages(s) ELSE s
  IN IF e.hook \in {"pre_tool", "post_tool"} /\ s.activity # "tool"
       THEN [t EXCEPT !.activity = "thinking"] ELSE t

tool_input_delta(s, e) == [s EXCEPT !.toolInput = @ \o e.text]

----------------------------------------------------------------------------
(* What tools render, ask and register.                                    *)

\* table_rendered and chart_rendered: the event replaces what was parsed.
Rendered(rendered, e) ==
  IF \E r \in rendered : r.id = e.id THEN rendered
  ELSE {r \in rendered : r.id # <<"parsed", e.tool>>} \cup {[id |-> e.id, tool |-> e.tool]}

ask_user(s, e) == [s EXCEPT !.questions = Put(@, e.tool, FALSE)]

dashboard_created(s, e) == [s EXCEPT !.dashboards = Put(@, e.id, e.tool)]

artifact_registered(s, e) ==
  LET artifact == [id |-> e.path, kind |-> e.kind, status |-> "live"]
      t == [s EXCEPT !.artifacts = SetById(@, artifact)]
  IN IF Open(s)
       THEN OnMessage(t, s.currentMessage.id, LAMBDA m : [m EXCEPT !.paths = Append(@, e.path)])
       ELSE t

\* The artifact with the path, or else, if the event has a stored artifact's
\* id, every live webapp.
webapp_ready(s, e) ==
  LET byPath == {j \in DOMAIN s.artifacts : s.artifacts[j].id = e.path}
      hit == IF byPath # {} THEN byPath
             ELSE {j \in DOMAIN s.artifacts : e.stored
                     /\ s.artifacts[j].kind = "webapp" /\ s.artifacts[j].status = "live"}
  IN [s EXCEPT !.artifacts = [j \in DOMAIN @ |->
        IF j \in hit THEN [@[j] EXCEPT !.status = "extracted"] ELSE @[j]]]

\* The latest of a name wins, at the end of the list.
skill_installed(s, e) ==
  [s EXCEPT !.skills = Append(SelectSeq(@, LAMBDA k : k.name # e.name),
                              [name |-> e.name, version |-> e.version])]

page_tool_request(s, e) == [s EXCEPT !.pageTool = <<e.tool>>]
settings_updated(s, e) == [s EXCEPT !.settings = <<e.tool>>]

----------------------------------------------------------------------------
(* The state of the turn.                                                  *)

activity_update(s, e) ==
  IF s.activity = "tool" THEN s
  ELSE [s EXCEPT !.activity =
         IF e.phase \in {"writing", "preparing_tool"} THEN e.phase ELSE "thinking"]

system_status(s, e) == IF e.status = "ready" THEN s ELSE [s EXCEPT !.activity = "system"]

session_info(s) == [s EXCEPT !.sessionInfo = TRUE]

subagent_event(s, e) ==
  LET t == [s EXCEPT !.subagents = Append(@, e.event)]
  IN IF e.event = "start" /\ e.typed THEN [t EXCEPT !.activity = "thinking"] ELSE t

\* A result is shown if no assistant message of the session has text.
query_complete(s, e) ==
  LET t == [s EXCEPT !.isStreaming = FALSE, !.activity = "none"]
      answered == \E j \in DOMAIN s.messages :
                    s.messages[j].role = "assistant" /\ s.messages[j].text # <<>>
  IN IF e.text # <<>> /\ ~Open(s) /\ ~answered
       THEN [t EXCEPT !.messages = Append(@, Message(e.id, "assistant", e.text))] ELSE t

error(s) == [s EXCEPT !.error = TRUE, !.isStreaming = FALSE, !.activity = "none"]

\* heartbeat, and types the switch does not have, change nothing.
agentEventReducer(s, e) ==
  CASE e.type = "message_start"       -> message_start(s, e)
    [] e.type = "content_delta"       -> content_delta(s, e)
    [] e.type = "thinking_delta"      -> thinking_delta(s, e)
    [] e.type = "tool_use_start"      -> tool_use_start(s, e)
    [] e.type = "tool_use_end"        -> tool_use_end(s, e)
    [] e.type = "tool_progress"       -> tool_progress(s, e)
    [] e.type = "message_end"         -> message_end(s)
    [] e.type = "table_rendered"      -> [s EXCEPT !.tables = Rendered(@, e)]
    [] e.type = "chart_rendered"      -> [s EXCEPT !.charts = Rendered(@, e)]
    [] e.type = "ask_user"            -> ask_user(s, e)
    [] e.type = "dashboard_created"   -> dashboard_created(s, e)
    [] e.type = "artifact_registered" -> artifact_registered(s, e)
    [] e.type = "webapp_ready"        -> webapp_ready(s, e)
    [] e.type = "activity_update"     -> activity_update(s, e)
    [] e.type = "tool_input_delta"    -> tool_input_delta(s, e)
    [] e.type = "system_status"       -> system_status(s, e)
    [] e.type = "page_tool_request"   -> page_tool_request(s, e)
    [] e.type = "settings_updated"    -> settings_updated(s, e)
    [] e.type = "session_info"        -> session_info(s)
    [] e.type = "hook_event"          -> hook_event(s, e)
    [] e.type = "subagent_event"      -> subagent_event(s, e)
    [] e.type = "user_message"        -> user_message(s, e)
    [] e.type = "skill_installed"     -> skill_installed(s, e)
    [] e.type = "query_complete"      -> query_complete(s, e)
    [] e.type = "error"               -> error(s)
    [] OTHER -> s

Reduced(s, events) ==
  LET out[n \in 0..Len(events)] ==
        IF n = 0 THEN s ELSE agentEventReducer(out[n - 1], events[n])
  IN out[Len(events)]
=============================================================================
