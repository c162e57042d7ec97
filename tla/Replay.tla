------------------------------- MODULE Replay -------------------------------
(***************************************************************************)
(* What the chat UI makes of stored events (web/src/replayEvents.ts): the  *)
(* fold of the reducer, then the fragments of assistant messages merged    *)
(* and the questions that a user message follows marked as answered.       *)
(* persistedToEvents makes events of the rows of sessions that are older   *)
(* than event storage.                                                     *)
(***************************************************************************)
EXTENDS EventReducer

\* The message, with what a fragment has after what it has.
withFragment(m, msg) ==
  [m EXCEPT !.text = @ \o msg.text, !.thinking = @ \o msg.thinking,
            !.tools = @ \o msg.tools, !.paths = @ \o msg.paths]

\* A fragment joins the assistant message before it, unless it has text and
\* that one has tools.
mergeFragment(out, msg) ==
  IF /\ out # <<>> /\ msg.role = "assistant" /\ Last(out).role = "assistant"
     /\ msg.text = <<>> \/ Last(out).tools = <<>>
    THEN [out EXCEPT ![Len(out)] = withFragment(@, msg)]
    ELSE Append(out, msg)

Merged(messages) ==
  LET out[n \in 0..Len(messages)] ==
        IF n = 0 THEN <<>> ELSE mergeFragment(out[n - 1], messages[n])
  IN out[Len(messages)]

mergeAssistantFragments(s) == [s EXCEPT !.messages = Merged(@)]

\* Some message shows the call; a user message comes after the first that does.
FollowedByUser(messages, tool) ==
  \E i, j \in DOMAIN messages :
    /\ \E k \in DOMAIN messages[i].tools : messages[i].tools[k].id = tool
    /\ i < j /\ messages[j].role = "user"

markAnsweredQuestions(s) ==
  [s EXCEPT !.questions = [t \in DOMAIN @ |-> @[t] \/ FollowedByUser(s.messages, t)]]

replayEvents(events) ==
  LET s == markAnsweredQuestions(
             mergeAssistantFragments(Reduced(initialAgentEventState, events)))
  IN [s EXCEPT !.isStreaming = FALSE, !.activity = "none", !.toolInput = <<>>,
               !.currentMessage = [id |-> NoId, text |-> <<>>]]

----------------------------------------------------------------------------
(* Rows of the legacy messages table, in the order of their numbers:       *)
(* [role, text, thinking, tool, name, isError], where "special" is the     *)
(* event that a row of a reserved tool name carries, or "".                *)

Calls == {"tool_call", "tool_result"}

Restored(n) == <<"restored", n, 0>>

\* No tool row follows row n.
EndsMessage(rows, n) == n = Len(rows) \/ rows[n + 1].role \notin Calls

MessageEnd == Event("message_end", <<>>, <<>>)

\* Fold state: the events so far and whether a message is open.
Emitted(acc, events) == [acc EXCEPT !.events = @ \o events]
Closed(acc) == IF acc.open THEN [Emitted(acc, <<MessageEnd>>) EXCEPT !.open = FALSE] ELSE acc

UserRow(acc, row, n) ==
  Emitted(Closed(acc), <<Event("user_message", row.text, [id |-> <<"user", n, 0>>])>>)

AssistantRow(acc, rows, n) ==
  LET row == rows[n]
      begun == Emitted(Closed(acc),
        <<Event("message_start", <<>>, [id |-> Restored(n)])>>
          \o (IF row.thinking = <<>> THEN <<>> ELSE <<Event("thinking_delta", row.thinking, <<>>)>>)
          \o (IF row.text = <<>> THEN <<>> ELSE <<Event("content_delta", row.text, <<>>)>>))
      opened == [begun EXCEPT !.open = TRUE]
  IN IF EndsMessage(rows, n) THEN Closed(opened) ELSE opened

CallRow(acc, row) ==
  Emitted(acc, <<Event("tool_use_start", <<>>, [tool |-> row.tool, name |-> row.name])>>)

\* A row with a reserved name is an event of its own, if it can be parsed.
ResultEvents(row) ==
  IF row.special = "" THEN
    <<Event("tool_use_end", <<>>, [tool |-> row.tool, isError |-> row.isError, marked |-> TRUE])>>
  ELSE IF row.special \in {"session_info", "subagent_event", "table_rendered",
                           "chart_rendered", "artifact_registered"}
    THEN <<Event(row.special, <<>>, row.fields)>>
  ELSE <<>>

ResultRow(acc, rows, n) ==
  LET done == Emitted(acc, ResultEvents(rows[n]))
  IN IF EndsMessage(rows, n) THEN Closed(done) ELSE done

persistedToEvents(rows) ==
  LET row(acc, n) ==
        CASE rows[n].role = "user"        -> UserRow(acc, rows[n], n)
          [] rows[n].role = "assistant"   -> AssistantRow(acc, rows, n)
          [] rows[n].role = "tool_call"   -> CallRow(acc, rows[n])
          [] rows[n].role = "tool_result" -> ResultRow(acc, rows, n)
  IN Closed(FoldLeft(row, [events |-> <<>>, open |-> FALSE], [n \in DOMAIN rows |-> n])).events

replayFromPersistedMessages(rows) == replayEvents(persistedToEvents(rows))
=============================================================================
