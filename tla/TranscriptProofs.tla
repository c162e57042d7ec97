-------------------------- MODULE TranscriptProofs --------------------------
(***************************************************************************)
(* Theorems about Transcript and ChatView, for any calls, texts, turns and *)
(* order of events, of a client that does not lose its stream.             *)
(***************************************************************************)
EXTENDS ChatView, FiniteSetTheorems, WellFoundedInduction, TLAPS

----------------------------------------------------------------------------
(* Sequences of anything.                                                  *)

Sequential(s) == \E S : s \in Seq(S)

\* t is s and one more.
Grows(s, t, x) ==
  \E n : /\ n \notin DOMAIN s /\ DOMAIN t = DOMAIN s \cup {n}
         /\ t[n] = x
         /\ \A i \in DOMAIN s : t[i] = s[i]

LEMMA Appended ==
  ASSUME NEW s, Sequential(s), NEW x
  PROVE  Sequential(Append(s, x)) /\ Grows(s, Append(s, x), x)
<1>1. PICK S : s \in Seq(S)
  BY DEF Sequential
<1> DEFINE T == S \cup {x}
<1>2. s \in Seq(T) /\ x \in T
  BY <1>1
<1> HIDE DEF T
<1>3. PICK t : t = Append(s, x)
  OBVIOUS
<1>4. t \in Seq(T) /\ Len(t) = Len(s) + 1 /\ Len(s) \in Nat /\ t[Len(s) + 1] = x
  BY <1>2, <1>3
<1>5. \A i \in 1..Len(s) : t[i] = s[i]
  BY <1>2, <1>3
<1>6. DOMAIN s = 1..Len(s) /\ DOMAIN t = 1..(Len(s) + 1)
  BY <1>2, <1>4
<1>7. Len(s) + 1 \notin 1..Len(s) /\ 1..(Len(s) + 1) = 1..Len(s) \cup {Len(s) + 1}
  BY <1>4
<1>8. Grows(s, t, x)
  BY <1>4, <1>5, <1>6, <1>7 DEF Grows
<1>9. Sequential(t)
  BY <1>4 DEF Sequential
<1> QED BY <1>3, <1>8, <1>9

LEMMA Mapped ==
  ASSUME NEW s, Sequential(s), NEW t, t = [j \in DOMAIN s |-> t[j]]
  PROVE  Sequential(t) /\ DOMAIN t = DOMAIN s
<1>1. PICK S : s \in Seq(S)
  BY DEF Sequential
<1>2. Len(s) \in Nat /\ DOMAIN s = 1..Len(s)
  BY <1>1
<1>3. PICK n \in Nat : n = Len(s)
  BY <1>2
<1>4. t = [j \in 1..n |-> t[j]]
  BY <1>2, <1>3
<1> DEFINE T == {t[j] : j \in 1..n}
<1>5. t \in [1..n -> T]
  BY <1>4
<1>6. t \in Seq(T)
  BY <1>5
<1> HIDE DEF T
<1>7. Sequential(t)
  BY <1>6 DEF Sequential
<1> QED BY <1>2, <1>3, <1>4, <1>7

LEMMA Itself ==
  ASSUME NEW s, Sequential(s)
  PROVE  s = [j \in DOMAIN s |-> s[j]]
BY DEF Sequential

LEMMA EmptyOne ==
  ASSUME NEW e, e = <<>>
  PROVE  Sequential(e) /\ \A j : j \notin DOMAIN e
<1>1. e \in Seq(Nat) /\ Len(e) = 0
  OBVIOUS
<1>2. DOMAIN e = 1..0
  BY <1>1
<1>3. \A j : j \notin DOMAIN e
  BY <1>2
<1>4. Sequential(e)
  BY <1>1 DEF Sequential
<1> QED BY <1>3, <1>4

Less == OpToRel(<, Nat)

LEMMA Lowest ==
  ASSUME NEW P \in SUBSET Nat, P # {}
  PROVE  Min(P) \in P /\ \A x \in P : Min(P) <= x
<1>1. \A x, y \in Nat : x < y => <<x, y>> \in Less
  BY DEF Less, OpToRel
<1>2. PICK x \in P : \A y \in P : ~(<<y, x>> \in Less)
  BY WFMin, NatLessThanWellFounded, Zenon DEF Less
<1>3. ASSUME NEW y \in P PROVE x <= y
  <2>1. ~(y < x)
    BY <1>1, <1>2
  <2> QED BY <2>1
<1> QED BY <1>2, <1>3 DEF Min

LEMMA UpTo ==
  ASSUME NEW n \in Nat, NEW P, 0 \in P, \A k \in 0..n : k \in P /\ k < n => k + 1 \in P
  PROVE  0..n \subseteq P
<1> DEFINE Q == {k \in 0..n : k \notin P}
<1>1. ASSUME Q # {} PROVE FALSE
  <2>1. Q \in SUBSET Nat
    OBVIOUS
  <2>2. Min(Q) \in Q /\ \A x \in Q : Min(Q) <= x
    <3> HIDE DEF Q
    <3> QED BY <1>1, <2>1, Lowest
  <2>3. PICK k \in Q : k = Min(Q)
    BY <2>2
  <2>4. k - 1 \in 0..n /\ k - 1 < n /\ (k - 1) + 1 = k
    BY <2>3
  <2>5. k - 1 \in Q
    BY <2>3, <2>4
  <2> QED BY <2>2, <2>3, <2>4, <2>5
<1> QED BY <1>1

LEMMA Concatenated ==
  ASSUME NEW S, NEW a \in Seq(S), NEW b \in Seq(S)
  PROVE  /\ a \o b \in Seq(S) /\ Len(a \o b) = Len(a) + Len(b)
         /\ \A j \in 1..Len(a) : (a \o b)[j] = a[j]
         /\ \A j \in (Len(a) + 1)..(Len(a) + Len(b)) : (a \o b)[j] = b[j - Len(a)]
OBVIOUS

----------------------------------------------------------------------------
(* What the reducer works on.                                              *)

IsTools(tools) ==
  Sequential(tools) /\ \A k \in DOMAIN tools : DOMAIN tools[k] = {"id", "name", "status"}

IsMessage(m) ==
  /\ DOMAIN m = {"id", "role", "text", "thinking", "tools", "paths"}
  /\ IsTools(m.tools)

IsMessages(messages) ==
  Sequential(messages) /\ \A j \in DOMAIN messages : IsMessage(messages[j])

Fields == DOMAIN initialAgentEventState

IsState(s) ==
  /\ DOMAIN s = Fields
  /\ DOMAIN s.currentMessage = {"id", "text"}
  /\ IsMessages(s.messages)
  /\ IsTools(s.toolCalls)

LEMMA FieldNames ==
  {"messages", "isStreaming", "error", "artifacts", "currentMessage", "toolCalls", "tables",
   "charts", "questions", "dashboards", "hasActiveToolCalls", "original", "continuationCount",
   "activity", "toolInput", "pageTool", "settings", "todos", "sessionInfo", "subagents",
   "skills"} \subseteq Fields
BY DEF Fields, initialAgentEventState

LEMMA NoTools == IsTools(<<>>)
<1>1. PICK e : e = <<>>
  OBVIOUS
<1>2. IsTools(e)
  BY <1>1, EmptyOne DEF IsTools
<1> QED BY <1>1, <1>2

LEMMA FirstState == IsState(initialAgentEventState)
<1>1. PICK e : e = <<>>
  OBVIOUS
<1>2. IsMessages(e)
  BY <1>1, EmptyOne DEF IsMessages
<1> QED BY <1>1, <1>2, NoTools DEF IsState, Fields, initialAgentEventState

LEMMA NewMessage ==
  ASSUME NEW id, NEW role, NEW text
  PROVE  /\ IsMessage(Message(id, role, text))
         /\ Message(id, role, text).id = id
         /\ Message(id, role, text).role = role
         /\ Message(id, role, text).tools = <<>>
BY NoTools DEF Message, IsMessage

----------------------------------------------------------------------------
(* The fold over the events that a step emits.                             *)

\* The states on the way, from s over the first n events.
Passes(f, s, events, n) ==
  f = [k \in 0..n |-> IF k = 0 THEN s ELSE agentEventReducer(f[k - 1], events[k])]

LEMMA PassesThrough ==
  ASSUME NEW f, NEW s, NEW events, NEW n \in Nat, Passes(f, s, events, n)
  PROVE  f[0] = s /\ \A k \in 0..n : k < n => f[k + 1] = agentEventReducer(f[k], events[k + 1])
<1>1. \A k \in 0..n : f[k] = IF k = 0 THEN s ELSE agentEventReducer(f[k - 1], events[k])
  BY Zenon DEF Passes
<1>2. \A k \in 0..n : k < n => k + 1 \in 0..n /\ k + 1 # 0 /\ (k + 1) - 1 = k
  OBVIOUS
<1>3. 0 \in 0..n
  OBVIOUS
<1> QED BY <1>1, <1>2, <1>3, Zenon

LEMMA ReducedIs ==
  ASSUME NEW s, NEW events, NEW n \in Nat, Len(events) = n
  PROVE  \E f : Passes(f, s, events, n) /\ Reduced(s, events) = f[n]
<1> DEFINE P == {m \in 0..n : \E f : Passes(f, s, events, m)}
<1>1. 0 \in P
  <2> DEFINE f == [k \in 0..0 |-> s]
  <2>1. Passes(f, s, events, 0)
    BY DEF Passes
  <2> HIDE DEF f
  <2> QED BY <2>1
<1>2. ASSUME NEW m \in 0..n, m \in P, m < n PROVE m + 1 \in P
  <2>1. PICK f : Passes(f, s, events, m)
    BY <1>2
  <2> DEFINE h == [k \in 0..(m + 1) |->
                     IF k = m + 1 THEN agentEventReducer(f[m], events[m + 1]) ELSE f[k]]
  <2>2. \A k \in 0..m : f[k] = IF k = 0 THEN s ELSE agentEventReducer(f[k - 1], events[k])
    BY <2>1, Zenon DEF Passes
  <2>3. \A k \in 0..(m + 1) : h[k] = IF k = 0 THEN s ELSE agentEventReducer(h[k - 1], events[k])
    <3>1. ASSUME NEW k \in 0..(m + 1), k # m + 1
          PROVE  /\ k \in 0..m /\ h[k] = f[k]
                 /\ k # 0 => k - 1 \in 0..m /\ k - 1 \in 0..(m + 1) /\ k - 1 # m + 1
      BY <1>2, <3>1
    <3>2. m + 1 # 0 /\ (m + 1) - 1 = m /\ m \in 0..(m + 1) /\ m # m + 1 /\ m + 1 \in 0..(m + 1)
      BY <1>2
    <3>3. h[m + 1] = agentEventReducer(f[m], events[m + 1]) /\ h[m] = f[m]
      BY <3>2
    <3>4. ASSUME NEW k \in 0..(m + 1), k # m + 1, k # 0 PROVE h[k - 1] = f[k - 1]
      BY <3>1, <3>4
    <3> HIDE DEF h
    <3> QED BY <2>2, <3>1, <3>2, <3>3, <3>4
  <2>4. Passes(h, s, events, m + 1)
    <3>1. h = [k \in 0..(m + 1) |-> h[k]]
      OBVIOUS
    <3> HIDE DEF h
    <3> QED BY <2>3, <3>1 DEF Passes
  <2> HIDE DEF h
  <2> QED BY <1>2, <2>4
<1>3. 0..n \subseteq P
  <2> HIDE DEF P
  <2> QED BY <1>1, <1>2, UpTo
<1>4. \E f : Passes(f, s, events, n)
  BY <1>3
<1> DEFINE g == CHOOSE g : g = [k \in 0..Len(events) |->
                                  IF k = 0 THEN s ELSE agentEventReducer(g[k - 1], events[k])]
<1>5. Reduced(s, events) = g[n]
  BY DEF Reduced
<1>6. Passes(g, s, events, n)
  BY <1>4, Zenon DEF Passes
<1> HIDE DEF g
<1> QED BY <1>5, <1>6

LEMMA ReducedNone == ASSUME NEW s PROVE Reduced(s, <<>>) = s
<1>1. PICK n \in Nat : n = 0
  OBVIOUS
<1>2. PICK f : Passes(f, s, <<>>, n) /\ Reduced(s, <<>>) = f[n]
  BY <1>1, ReducedIs
<1> QED BY <1>1, <1>2, PassesThrough

LEMMA ReducedOne ==
  ASSUME NEW s, NEW a
  PROVE  Reduced(s, <<a>>) = agentEventReducer(s, a)
<1>1. PICK n \in Nat : n = 1
  OBVIOUS
<1>2. PICK events : events = <<a>>
  OBVIOUS
<1>3. Len(events) = n /\ events[1] = a
  BY <1>1, <1>2
<1>4. PICK f : Passes(f, s, events, n) /\ Reduced(s, events) = f[n]
  BY <1>3, ReducedIs
<1>5. f[0] = s /\ \A k \in 0..n : k < n => f[k + 1] = agentEventReducer(f[k], events[k + 1])
  BY <1>4, PassesThrough
<1>6. f[1] = agentEventReducer(s, a)
  BY <1>1, <1>3, <1>5
<1> QED BY <1>1, <1>2, <1>4, <1>6

LEMMA ReducedJoined ==
  ASSUME NEW s, NEW S, NEW a \in Seq(S), NEW b \in Seq(S)
  PROVE  Reduced(s, a \o b) = Reduced(Reduced(s, a), b)
<1>1. PICK m \in Nat : m = Len(a)
  OBVIOUS
<1>2. PICK l \in Nat : l = Len(b)
  OBVIOUS
<1>3. PICK e : e = a \o b
  OBVIOUS
<1>4. /\ Len(e) = m + l
      /\ \A k \in 1..m : e[k] = a[k]
      /\ \A k \in (m + 1)..(m + l) : e[k] = b[k - m]
  BY <1>1, <1>2, <1>3, Concatenated
<1>5. PICK f : Passes(f, s, a, m) /\ Reduced(s, a) = f[m]
  BY <1>1, ReducedIs
<1>6. PICK g : Passes(g, f[m], b, l) /\ Reduced(f[m], b) = g[l]
  BY <1>2, ReducedIs
<1>7. PICK n \in Nat : n = m + l
  OBVIOUS
<1>8. PICK h : Passes(h, s, e, n) /\ Reduced(s, e) = h[n]
  BY <1>4, <1>7, ReducedIs
<1>9. /\ h[0] = s /\ \A k \in 0..n : k < n => h[k + 1] = agentEventReducer(h[k], e[k + 1])
      /\ f[0] = s /\ \A k \in 0..m : k < m => f[k + 1] = agentEventReducer(f[k], a[k + 1])
      /\ g[0] = f[m] /\ \A k \in 0..l : k < l => g[k + 1] = agentEventReducer(g[k], b[k + 1])
  BY <1>5, <1>6, <1>8, PassesThrough
<1>10. h[m] = f[m]
  <2> DEFINE P == {k \in 0..m : h[k] = f[k]}
  <2>1. 0 \in P
    BY <1>9
  <2>2. ASSUME NEW k \in 0..m, k \in P, k < m PROVE k + 1 \in P
    <3>1. k \in 0..n /\ k < n /\ k + 1 \in 1..m /\ k + 1 \in 0..m
      BY <1>7, <2>2
    <3> QED BY <1>4, <1>9, <2>2, <3>1
  <2>3. 0..m \subseteq P
    <3> HIDE DEF P
    <3> QED BY <2>1, <2>2, UpTo
  <2> QED BY <2>3
<1>11. h[m + l] = g[l]
  <2> DEFINE P == {k \in 0..l : h[m + k] = g[k]}
  <2>1. 0 \in P
    BY <1>9, <1>10
  <2>2. ASSUME NEW k \in 0..l, k \in P, k < l PROVE k + 1 \in P
    <3>1. /\ m + k \in 0..n /\ m + k < n /\ (m + k) + 1 = m + (k + 1)
          /\ m + (k + 1) \in (m + 1)..(m + l) /\ (m + (k + 1)) - m = k + 1 /\ k + 1 \in 0..l
      BY <1>7, <2>2
    <3>2. h[m + (k + 1)] = agentEventReducer(g[k], b[k + 1])
      BY <1>4, <1>9, <2>2, <3>1
    <3> QED BY <1>9, <2>2, <3>1, <3>2
  <2>3. 0..l \subseteq P
    <3> HIDE DEF P
    <3> QED BY <2>1, <2>2, UpTo
  <2> QED BY <2>3
<1> QED BY <1>3, <1>5, <1>6, <1>7, <1>8, <1>11

LEMMA OneEvent == Sequential(<<>>) /\ \A e : Sequential(<<e>>)
<1>1. \A e : <<e>> \in Seq({e}) /\ <<>> \in Seq({e})
  OBVIOUS
<1> QED BY <1>1 DEF Sequential

LEMMA ReducedThen ==
  ASSUME NEW s, NEW a, NEW b, Sequential(a), Sequential(b)
  PROVE  Sequential(a \o b) /\ Reduced(s, a \o b) = Reduced(Reduced(s, a), b)
<1>1. PICK S : a \in Seq(S)
  BY DEF Sequential
<1>2. PICK T : b \in Seq(T)
  BY DEF Sequential
<1>3. a \in Seq(S \cup T) /\ b \in Seq(S \cup T)
  BY <1>1, <1>2
<1>4. a \o b \in Seq(S \cup T)
  BY <1>3, Concatenated
<1> QED BY <1>3, <1>4, ReducedJoined DEF Sequential

----------------------------------------------------------------------------
(* Events.                                                                 *)

LEMMA EventIs ==
  ASSUME NEW type, NEW text, NEW fields
  PROVE  /\ Event(type, text, fields).type = type
         /\ Event(type, text, fields).text = text
         /\ \A f \in DOMAIN fields \ {"type", "text"} : Event(type, text, fields)[f] = fields[f]
BY DEF Event

LEMMA ToolEvent ==
  ASSUME NEW t, NEW name
  PROVE  LET e == Event("tool_use_start", <<>>, [tool |-> t, name |-> name])
         IN e.type = "tool_use_start" /\ e.tool = t /\ e.name = name
BY EventIs

----------------------------------------------------------------------------
(* One event.                                                              *)

\* What is shown of calls, and where the next ones go, is the same.
Elsewhere(s, t) ==
  /\ DOMAIN t = DOMAIN s
  /\ t.messages = s.messages /\ t.toolCalls = s.toolCalls
  /\ t.currentMessage = s.currentMessage /\ t.original = s.original
  /\ t.continuationCount = s.continuationCount /\ t.isStreaming = s.isStreaming

AsideTypes == {"table_rendered", "chart_rendered", "ask_user", "dashboard_created",
               "activity_update", "tool_input_delta", "system_status", "session_info",
               "subagent_event"}

LEMMA ElsewhereState ==
  ASSUME NEW s, IsState(s), NEW t, Elsewhere(s, t)
  PROVE  IsState(t)
BY DEF IsState, Elsewhere

LEMMA Aside ==
  ASSUME NEW s, DOMAIN s = Fields, NEW e, e.type \in AsideTypes
  PROVE  Elsewhere(s, agentEventReducer(s, e))
<1> USE FieldNames DEF agentEventReducer, Elsewhere
<1>1. CASE e.type = "table_rendered"
  BY <1>1
<1>2. CASE e.type = "chart_rendered"
  BY <1>2
<1>3. CASE e.type = "ask_user"
  BY <1>3 DEF ask_user
<1>4. CASE e.type = "dashboard_created"
  BY <1>4 DEF dashboard_created
<1>5. CASE e.type = "activity_update"
  BY <1>5 DEF activity_update
<1>6. CASE e.type = "tool_input_delta"
  BY <1>6 DEF tool_input_delta
<1>7. CASE e.type = "system_status"
  BY <1>7 DEF system_status
<1>8. CASE e.type = "session_info"
  BY <1>8 DEF session_info
<1>9. CASE e.type = "subagent_event"
  BY <1>9 DEF subagent_event
<1> QED BY <1>1, <1>2, <1>3, <1>4, <1>5, <1>6, <1>7, <1>8, <1>9 DEF AsideTypes

LEMMA Searched ==
  ASSUME NEW s, DOMAIN s = Fields, NEW e, NEW name
  PROVE  Elsewhere(s, SelfParse(s, e, name))
BY FieldNames DEF SelfParse, Elsewhere

LEMMA Arms ==
  ASSUME NEW s, NEW e
  PROVE  /\ e.type = "message_start" => agentEventReducer(s, e) = message_start(s, e)
         /\ e.type = "content_delta" => agentEventReducer(s, e) = content_delta(s, e)
         /\ e.type = "thinking_delta" => agentEventReducer(s, e) = thinking_delta(s, e)
         /\ e.type = "tool_use_start" => agentEventReducer(s, e) = tool_use_start(s, e)
         /\ e.type = "tool_use_end" => agentEventReducer(s, e) = tool_use_end(s, e)
         /\ e.type = "tool_progress" => agentEventReducer(s, e) = tool_progress(s, e)
         /\ e.type = "message_end" => agentEventReducer(s, e) = message_end(s)
         /\ e.type = "artifact_registered" => agentEventReducer(s, e) = artifact_registered(s, e)
         /\ e.type = "hook_event" => agentEventReducer(s, e) = hook_event(s, e)
         /\ e.type = "query_complete" => agentEventReducer(s, e) = query_complete(s, e)
         /\ e.type = "error" => agentEventReducer(s, e) = error(s)
BY DEF agentEventReducer

\* The same calls in the same messages.
Same(s, t) ==
  /\ IsState(t)
  /\ t.currentMessage.id = s.currentMessage.id /\ t.original = s.original
  /\ t.continuationCount = s.continuationCount /\ t.isStreaming = s.isStreaming
  /\ t.toolCalls = s.toolCalls
  /\ DOMAIN t.messages = DOMAIN s.messages
  /\ \A j \in DOMAIN s.messages : /\ t.messages[j].id = s.messages[j].id
                                  /\ t.messages[j].tools = s.messages[j].tools

\* The current message, wherever it is, shows the calls of the map.
Coherent(s) ==
  \A j \in DOMAIN s.messages :
    s.messages[j].id = s.currentMessage.id => s.messages[j].tools = s.toolCalls

LEMMA ElsewhereSame ==
  ASSUME NEW s, IsState(s), NEW t, Elsewhere(s, t)
  PROVE  Same(s, t)
BY ElsewhereState DEF Elsewhere, Same

LEMMA SameTwice ==
  ASSUME NEW s, NEW t, NEW u, Same(s, t), Same(t, u)
  PROVE  Same(s, u)
BY DEF Same

LEMMA SameItself ==
  ASSUME NEW s, IsState(s)
  PROVE  Same(s, s)
BY DEF Same

LEMMA SameCoherent ==
  ASSUME NEW s, Coherent(s), NEW t, Same(s, t)
  PROVE  Coherent(t)
BY DEF Same, Coherent

\* Messages that are changed one by one stay messages.
LEMMA StillMessages ==
  ASSUME NEW s, IsMessages(s), NEW t, t = [j \in DOMAIN s |-> t[j]],
         \A j \in DOMAIN s : IsMessage(t[j])
  PROVE  IsMessages(t)
BY Mapped DEF IsMessages

LEMMA Refreshed ==
  ASSUME NEW s, IsState(s), NEW t, t = updateToolCallsOnMessages(s)
  PROVE  /\ IsState(t)
         /\ t.currentMessage = s.currentMessage /\ t.original = s.original
         /\ t.continuationCount = s.continuationCount /\ t.isStreaming = s.isStreaming
         /\ t.toolCalls = s.toolCalls
         /\ DOMAIN t.messages = DOMAIN s.messages
         /\ \A j \in DOMAIN s.messages :
              /\ t.messages[j].id = s.messages[j].id
              /\ t.messages[j].tools = IF Open(s) /\ s.messages[j].id = s.currentMessage.id
                                         THEN s.toolCalls ELSE s.messages[j].tools
<1>1. CASE Open(s)
  <2> DEFINE M == [j \in DOMAIN s.messages |->
                     IF s.messages[j].id = s.currentMessage.id
                       THEN [s.messages[j] EXCEPT !.tools = s.toolCalls] ELSE s.messages[j]]
  <2>1. t = [s EXCEPT !.messages = M]
    BY <1>1 DEF updateToolCallsOnMessages, OnMessage
  <2>2. IsMessages(s.messages) /\ IsTools(s.toolCalls) /\ DOMAIN s = Fields
    BY DEF IsState
  <2>3. \A j \in DOMAIN s.messages :
          /\ IsMessage(M[j]) /\ M[j].id = s.messages[j].id
          /\ M[j].tools = IF s.messages[j].id = s.currentMessage.id
                            THEN s.toolCalls ELSE s.messages[j].tools
    BY <2>2 DEF IsMessages, IsMessage
  <2>4. IsMessages(M) /\ DOMAIN M = DOMAIN s.messages
    <3>1. M = [j \in DOMAIN s.messages |-> M[j]]
      OBVIOUS
    <3> HIDE DEF M
    <3> QED BY <2>2, <2>3, <3>1, StillMessages
  <2> HIDE DEF M
  <2>5. t.messages = M /\ DOMAIN t = DOMAIN s
    BY <2>1, <2>2, FieldNames
  <2> QED BY <1>1, <2>1, <2>2, <2>3, <2>4, <2>5, FieldNames DEF IsState
<1>2. CASE ~Open(s)
  BY <1>2 DEF updateToolCallsOnMessages
<1> QED BY <1>1, <1>2

LEMMA RefreshedSame ==
  ASSUME NEW s, IsState(s), Coherent(s)
  PROVE  Same(s, updateToolCallsOnMessages(s))
<1>1. PICK t : t = updateToolCallsOnMessages(s)
  OBVIOUS
<1> QED BY <1>1, Refreshed DEF Same, Coherent

\* Messages of which only other fields change.
LEMMA Retouched ==
  ASSUME NEW s, IsState(s), NEW u, IsState(u), NEW M, NEW t,
         u.currentMessage.id = s.currentMessage.id, u.original = s.original,
         u.continuationCount = s.continuationCount, u.isStreaming = s.isStreaming,
         u.toolCalls = s.toolCalls,
         M = [j \in DOMAIN s.messages |-> M[j]],
         \A j \in DOMAIN s.messages : /\ IsMessage(M[j]) /\ M[j].id = s.messages[j].id
                                      /\ M[j].tools = s.messages[j].tools,
         t = [u EXCEPT !.messages = M]
  PROVE  Same(s, t)
<1>1. IsMessages(M) /\ DOMAIN M = DOMAIN s.messages
  BY StillMessages DEF IsState
<1>2. DOMAIN u = Fields
  BY DEF IsState
<1>3. /\ t.messages = M /\ DOMAIN t = Fields /\ t.currentMessage = u.currentMessage
      /\ t.original = u.original /\ t.continuationCount = u.continuationCount
      /\ t.isStreaming = u.isStreaming /\ t.toolCalls = u.toolCalls
  BY <1>2, FieldNames
<1> QED BY <1>1, <1>3 DEF IsState, Same

LEMMA TextAdded ==
  ASSUME NEW s, IsState(s), NEW e, ~Open(s) \/ ~s.hasActiveToolCalls
  PROVE  Same(s, content_delta(s, e))
<1>1. CASE ~Open(s)
  BY <1>1, SameItself DEF content_delta
<1>2. CASE Open(s)
  <2> DEFINE content == s.currentMessage.text \o e.text
  <2> DEFINE M == [j \in DOMAIN s.messages |->
                     IF s.messages[j].id = s.currentMessage.id
                       THEN [s.messages[j] EXCEPT !.text = content] ELSE s.messages[j]]
  <2>1. PICK u : u = [s EXCEPT !.activity = "writing", !.currentMessage.text = content]
    OBVIOUS
  <2>2. IsState(u) /\ u.messages = s.messages /\ u.currentMessage.id = s.currentMessage.id
    BY <2>1, FieldNames DEF IsState
  <2>3. content_delta(s, e) = [u EXCEPT !.messages = M]
    BY <1>2, <2>1, <2>2 DEF content_delta, OnMessage
  <2>4. \A j \in DOMAIN s.messages : /\ IsMessage(M[j]) /\ M[j].id = s.messages[j].id
                                     /\ M[j].tools = s.messages[j].tools
    BY DEF IsState, IsMessages, IsMessage
  <2>5. M = [j \in DOMAIN s.messages |-> M[j]]
    OBVIOUS
  <2>6. /\ u.original = s.original /\ u.continuationCount = s.continuationCount
        /\ u.isStreaming = s.isStreaming /\ u.toolCalls = s.toolCalls
    BY <2>1, FieldNames DEF IsState
  <2> HIDE DEF M
  <2> QED BY <2>2, <2>3, <2>4, <2>5, <2>6, Retouched
<1> QED BY <1>1, <1>2

LEMMA ThoughtAdded ==
  ASSUME NEW s, IsState(s), NEW e
  PROVE  Same(s, thinking_delta(s, e))
<1>1. CASE ~Open(s)
  BY <1>1, SameItself DEF thinking_delta
<1>2. CASE Open(s)
  <2>1. PICK thinking : thinking =
          (IF HasMessage(s, s.currentMessage.id)
             THEN Find(s, s.currentMessage.id).thinking ELSE <<>>) \o e.text
    OBVIOUS
  <2> DEFINE M == [j \in DOMAIN s.messages |->
                     IF s.messages[j].id = s.currentMessage.id
                       THEN [s.messages[j] EXCEPT !.thinking = thinking] ELSE s.messages[j]]
  <2>2. PICK u : u = [s EXCEPT !.activity = "thinking"]
    OBVIOUS
  <2>3. /\ IsState(u) /\ u.messages = s.messages /\ u.currentMessage = s.currentMessage
        /\ u.original = s.original /\ u.continuationCount = s.continuationCount
        /\ u.isStreaming = s.isStreaming /\ u.toolCalls = s.toolCalls
    BY <2>2, FieldNames DEF IsState
  <2>4. thinking_delta(s, e) = [u EXCEPT !.messages = M]
    BY <1>2, <2>1, <2>2, <2>3 DEF thinking_delta, OnMessage
  <2>5. \A j \in DOMAIN s.messages : /\ IsMessage(M[j]) /\ M[j].id = s.messages[j].id
                                     /\ M[j].tools = s.messages[j].tools
    BY DEF IsState, IsMessages, IsMessage
  <2>6. M = [j \in DOMAIN s.messages |-> M[j]]
    OBVIOUS
  <2> HIDE DEF M
  <2> QED BY <2>3, <2>4, <2>5, <2>6, Retouched
<1> QED BY <1>1, <1>2

LEMMA PathAdded ==
  ASSUME NEW s, IsState(s), NEW e
  PROVE  Same(s, artifact_registered(s, e))
<1>1. PICK artifacts : artifacts = SetById(s.artifacts, [id |-> e.path, kind |-> e.kind, status |-> "live"])
  OBVIOUS
<1>2. PICK u : u = [s EXCEPT !.artifacts = artifacts]
  OBVIOUS
<1>3. /\ IsState(u) /\ u.messages = s.messages /\ u.currentMessage = s.currentMessage
      /\ u.original = s.original /\ u.continuationCount = s.continuationCount
      /\ u.isStreaming = s.isStreaming /\ u.toolCalls = s.toolCalls
  BY <1>2, FieldNames DEF IsState
<1>4. CASE ~Open(s)
  <2>1. artifact_registered(s, e) = u
    BY <1>1, <1>2, <1>4 DEF artifact_registered
  <2> QED BY <1>3, <2>1 DEF Same
<1>5. CASE Open(s)
  <2> DEFINE M == [j \in DOMAIN s.messages |->
                     IF s.messages[j].id = s.currentMessage.id
                       THEN [s.messages[j] EXCEPT !.paths = Append(@, e.path)] ELSE s.messages[j]]
  <2>1. artifact_registered(s, e) = [u EXCEPT !.messages = M]
    BY <1>1, <1>2, <1>3, <1>5 DEF artifact_registered, OnMessage
  <2>2. \A j \in DOMAIN s.messages : /\ IsMessage(M[j]) /\ M[j].id = s.messages[j].id
                                     /\ M[j].tools = s.messages[j].tools
    BY DEF IsState, IsMessages, IsMessage
  <2>3. M = [j \in DOMAIN s.messages |-> M[j]]
    OBVIOUS
  <2> HIDE DEF M
  <2> QED BY <1>3, <2>1, <2>2, <2>3, Retouched
<1> QED BY <1>4, <1>5

LEMMA Progressed ==
  ASSUME NEW s, IsState(s), Coherent(s), NEW e
  PROVE  Same(s, tool_progress(s, e))
BY RefreshedSame, SameItself DEF tool_progress

LEMMA Hooked ==
  ASSUME NEW s, IsState(s), Coherent(s), NEW e
  PROVE  Same(s, hook_event(s, e))
<1>1. PICK t : t = IF HasTool(s, e.tool) THEN updateToolCallsOnMessages(s) ELSE s
  OBVIOUS
<1>2. Same(s, t)
  BY <1>1, RefreshedSame, SameItself
<1>3. hook_event(s, e) = t \/ hook_event(s, e) = [t EXCEPT !.activity = "thinking"]
  BY <1>1 DEF hook_event
<1>4. Elsewhere(t, [t EXCEPT !.activity = "thinking"])
  BY <1>2, FieldNames DEF Same, IsState, Elsewhere
<1>5. Same(t, [t EXCEPT !.activity = "thinking"])
  BY <1>2, <1>4, ElsewhereSame DEF Same
<1> QED BY <1>2, <1>3, <1>5, SameTwice

\* A message without calls comes after the others.
Arrives(s, t, id) ==
  \E n : /\ n \notin DOMAIN s.messages /\ DOMAIN t.messages = DOMAIN s.messages \cup {n}
         /\ t.messages[n].id = id /\ t.messages[n].tools = <<>>
         /\ \A j \in DOMAIN s.messages : /\ t.messages[j].id = s.messages[j].id
                                         /\ t.messages[j].tools = s.messages[j].tools

LEMMA Arrived ==
  ASSUME NEW s, IsState(s), NEW id, NEW role, NEW text,
         NEW t, t.messages = Append(s.messages, Message(id, role, text))
  PROVE  IsMessages(t.messages) /\ Arrives(s, t, id)
<1>1. PICK m : m = Message(id, role, text)
  OBVIOUS
<1>2. IsMessage(m) /\ m.id = id /\ m.tools = <<>>
  BY <1>1, NewMessage
<1>3. Sequential(s.messages) /\ \A j \in DOMAIN s.messages : IsMessage(s.messages[j])
  BY DEF IsState, IsMessages
<1>4. Sequential(t.messages) /\ Grows(s.messages, t.messages, m)
  BY <1>1, <1>3, Appended
<1> QED BY <1>2, <1>3, <1>4 DEF Grows, Arrives, IsMessages

\* A message that has come is the current one.
Opens(s, t, id) ==
  /\ IsState(t) /\ Arrives(s, t, id)
  /\ t.currentMessage.id = id /\ t.toolCalls = <<>> /\ t.isStreaming = s.isStreaming

LEMMA Started ==
  ASSUME NEW s, IsState(s), NEW e, ~HasMessage(s, e.id), NEW t, t = message_start(s, e)
  PROVE  Opens(s, t, e.id) /\ t.original = e.id /\ t.continuationCount = 0
<1>1. PICK u : u = [s EXCEPT !.currentMessage = [id |-> e.id, text |-> <<>>], !.toolCalls = <<>>,
                     !.hasActiveToolCalls = FALSE, !.original = e.id,
                     !.continuationCount = 0, !.activity = "thinking"]
  OBVIOUS
<1>2. PICK M : M = Append(s.messages, Message(e.id, "assistant", <<>>))
  OBVIOUS
<1>3. /\ DOMAIN u = Fields /\ u.messages = s.messages /\ u.currentMessage = [id |-> e.id, text |-> <<>>]
      /\ u.toolCalls = <<>> /\ u.original = e.id /\ u.continuationCount = 0
      /\ u.isStreaming = s.isStreaming
  BY <1>1, FieldNames DEF IsState
<1>4. t = [u EXCEPT !.messages = M]
  BY <1>1, <1>2, <1>3 DEF message_start
<1>5. /\ DOMAIN t = Fields /\ t.messages = M /\ t.currentMessage = [id |-> e.id, text |-> <<>>]
      /\ t.toolCalls = <<>> /\ t.original = e.id /\ t.continuationCount = 0
      /\ t.isStreaming = s.isStreaming
  BY <1>3, <1>4, FieldNames
<1>6. IsMessages(t.messages) /\ Arrives(s, t, e.id)
  BY <1>2, <1>5, Arrived
<1> QED BY <1>5, <1>6, NoTools DEF Opens, IsState

LEMMA Parted ==
  ASSUME NEW s, IsState(s), NEW e, Open(s), s.hasActiveToolCalls, NEW t, t = content_delta(s, e)
  PROVE  /\ Opens(s, t, Continuation(s.original, s.continuationCount + 1))
         /\ t.original = s.original /\ t.continuationCount = s.continuationCount + 1
<1>1. PICK id : id = Continuation(s.original, s.continuationCount + 1)
  OBVIOUS
<1>2. PICK M : M = Append(s.messages, Message(id, "assistant", e.text))
  OBVIOUS
<1>3. t = [s EXCEPT !.activity = "writing", !.continuationCount = @ + 1,
               !.currentMessage = [id |-> id, text |-> e.text],
               !.toolCalls = <<>>, !.hasActiveToolCalls = FALSE, !.messages = M]
  BY <1>1, <1>2 DEF content_delta, Split
<1>4. /\ DOMAIN t = Fields /\ t.messages = M /\ t.currentMessage = [id |-> id, text |-> e.text]
      /\ t.toolCalls = <<>> /\ t.original = s.original
      /\ t.continuationCount = s.continuationCount + 1 /\ t.isStreaming = s.isStreaming
  BY <1>3, FieldNames DEF IsState
<1>5. IsMessages(t.messages) /\ Arrives(s, t, id)
  BY <1>2, <1>4, Arrived
<1> QED BY <1>1, <1>4, <1>5, NoTools DEF Opens, IsState

LEMMA Ended ==
  ASSUME NEW s, IsState(s), NEW t, t = message_end(s)
  PROVE  /\ IsState(t) /\ t.currentMessage.id = NoId /\ t.isStreaming = s.isStreaming
         /\ t.messages = s.messages
BY FieldNames DEF IsState, message_end

\* The turn is over: a message may come, and no line speaks of work.
LEMMA Completed ==
  ASSUME NEW s, IsState(s), NEW e, NEW t, t = query_complete(s, e)
  PROVE  /\ IsState(t) /\ t.isStreaming = FALSE /\ t.activity = "none"
         /\ t.messages = s.messages \/ Arrives(s, t, e.id)
<1>1. PICK u : u = [s EXCEPT !.isStreaming = FALSE, !.activity = "none"]
  OBVIOUS
<1>2. IsState(u) /\ u.messages = s.messages /\ u.isStreaming = FALSE /\ u.activity = "none"
  BY <1>1, FieldNames DEF IsState
<1>3. PICK M : M = Append(s.messages, Message(e.id, "assistant", e.text))
  OBVIOUS
<1>4. t = u \/ t = [u EXCEPT !.messages = M]
  BY <1>1, <1>2, <1>3 DEF query_complete
<1>5. CASE t = [u EXCEPT !.messages = M]
  <2>1. /\ DOMAIN t = Fields /\ t.messages = M /\ t.currentMessage = u.currentMessage
        /\ t.toolCalls = u.toolCalls /\ t.isStreaming = FALSE /\ t.activity = "none"
    BY <1>2, <1>5, FieldNames DEF IsState
  <2>2. IsMessages(t.messages) /\ Arrives(s, t, e.id)
    BY <1>3, <2>1, Arrived
  <2> QED BY <1>2, <2>1, <2>2 DEF IsState
<1> QED BY <1>2, <1>4, <1>5

LEMMA Failed ==
  ASSUME NEW s, IsState(s), NEW t, t = error(s)
  PROVE  IsState(t) /\ t.messages = s.messages
BY FieldNames DEF IsState, error

----------------------------------------------------------------------------
(* The events of a call.                                                   *)

LEMMA SetThere ==
  ASSUME NEW list, IsTools(list), NEW entry, DOMAIN entry = {"id", "name", "status"},
         \E j \in DOMAIN list : list[j].id = entry.id, NEW r, r = SetById(list, entry)
  PROVE  /\ IsTools(r) /\ DOMAIN r = DOMAIN list
         /\ \A k \in DOMAIN list : r[k] = IF list[k].id = entry.id THEN entry ELSE list[k]
<1>1. r = [j \in DOMAIN list |-> IF list[j].id = entry.id THEN entry ELSE list[j]]
  BY DEF SetById
<1>2. DOMAIN r = DOMAIN list
  BY <1>1
<1>3. \A k \in DOMAIN list : r[k] = IF list[k].id = entry.id THEN entry ELSE list[k]
  BY <1>1
<1>4. r = [j \in DOMAIN list |-> r[j]]
  BY <1>1
<1>5. Sequential(r)
  BY <1>4, Mapped DEF IsTools
<1> QED BY <1>2, <1>3, <1>5 DEF IsTools

LEMMA SetNew ==
  ASSUME NEW list, IsTools(list), NEW entry, DOMAIN entry = {"id", "name", "status"},
         \A j \in DOMAIN list : list[j].id # entry.id, NEW r, r = SetById(list, entry)
  PROVE  IsTools(r) /\ Grows(list, r, entry)
<1>1. r = Append(list, entry)
  BY DEF SetById
<1>2. Sequential(r) /\ Grows(list, r, entry)
  BY <1>1, Appended DEF IsTools
<1> QED BY <1>2 DEF IsTools, Grows

\* The same calls in the same places, and the call has the status.
Marks(s, t, x, status) ==
  /\ IsState(t)
  /\ t.currentMessage.id = s.currentMessage.id /\ t.original = s.original
  /\ t.continuationCount = s.continuationCount /\ t.isStreaming = s.isStreaming
  /\ DOMAIN t.toolCalls = DOMAIN s.toolCalls
  /\ \A k \in DOMAIN s.toolCalls : t.toolCalls[k].id = s.toolCalls[k].id
  /\ DOMAIN t.messages = DOMAIN s.messages
  /\ \A j \in DOMAIN s.messages :
       /\ t.messages[j].id = s.messages[j].id
       /\ DOMAIN t.messages[j].tools = DOMAIN s.messages[j].tools
       /\ \A k \in DOMAIN s.messages[j].tools :
            /\ t.messages[j].tools[k].id = s.messages[j].tools[k].id
            /\ t.messages[j].tools[k].status =
                 IF s.messages[j].tools[k].id = x THEN status ELSE s.messages[j].tools[k].status
  /\ Coherent(t)

LEMMA MarksSame ==
  ASSUME NEW s, NEW u, NEW t, NEW x, NEW status, Marks(s, u, x, status), Same(u, t)
  PROVE  Marks(s, t, x, status)
BY SameCoherent DEF Marks, Same

\* The call is shown in the current message alone, if at all.
Nearby(s, x) ==
  \A j \in DOMAIN s.messages : \A k \in DOMAIN s.messages[j].tools :
    s.messages[j].tools[k].id = x => s.messages[j].id = s.currentMessage.id

\* A state with another map of calls, and the messages refreshed.
WithCalls(s, u, calls) ==
  /\ IsState(u) /\ u.messages = s.messages /\ u.currentMessage = s.currentMessage
  /\ u.original = s.original /\ u.continuationCount = s.continuationCount
  /\ u.isStreaming = s.isStreaming /\ u.toolCalls = calls

LEMMA RefreshedMarks ==
  ASSUME NEW s, IsState(s), Coherent(s), Open(s), NEW x, Nearby(s, x), NEW entry,
         DOMAIN entry = {"id", "name", "status"}, entry.id = x, HasTool(s, x),
         NEW u, WithCalls(s, u, SetById(s.toolCalls, entry))
  PROVE  Marks(s, updateToolCallsOnMessages(u), x, entry.status)
<1>1. PICK t : t = updateToolCallsOnMessages(u)
  OBVIOUS
<1>2. PICK r : r = SetById(s.toolCalls, entry)
  OBVIOUS
<1>3. /\ IsTools(r) /\ DOMAIN r = DOMAIN s.toolCalls
      /\ \A k \in DOMAIN s.toolCalls : r[k] = IF s.toolCalls[k].id = x THEN entry ELSE s.toolCalls[k]
  BY <1>2, SetThere DEF IsState, HasTool
<1>4. /\ IsState(t)
      /\ t.currentMessage = s.currentMessage /\ t.original = s.original
      /\ t.continuationCount = s.continuationCount /\ t.isStreaming = s.isStreaming
      /\ t.toolCalls = r
      /\ DOMAIN t.messages = DOMAIN s.messages
      /\ \A j \in DOMAIN s.messages :
              /\ t.messages[j].id = s.messages[j].id
              /\ t.messages[j].tools = IF s.messages[j].id = s.currentMessage.id
                                         THEN r ELSE s.messages[j].tools
  BY <1>1, <1>2, Refreshed DEF WithCalls, Open
<1>5. Coherent(t)
  BY <1>4 DEF Coherent
<1>6. \A j \in DOMAIN s.messages :
         /\ DOMAIN t.messages[j].tools = DOMAIN s.messages[j].tools
         /\ \A k \in DOMAIN s.messages[j].tools :
            /\ t.messages[j].tools[k].id = s.messages[j].tools[k].id
            /\ t.messages[j].tools[k].status =
                 IF s.messages[j].tools[k].id = x THEN entry.status ELSE s.messages[j].tools[k].status
  <2> SUFFICES ASSUME NEW j \in DOMAIN s.messages
        PROVE  /\ DOMAIN t.messages[j].tools = DOMAIN s.messages[j].tools
               /\ \A k \in DOMAIN s.messages[j].tools :
                  /\ t.messages[j].tools[k].id = s.messages[j].tools[k].id
                  /\ t.messages[j].tools[k].status =
                       IF s.messages[j].tools[k].id = x THEN entry.status
                       ELSE s.messages[j].tools[k].status
    OBVIOUS
  <2>1. CASE s.messages[j].id = s.currentMessage.id
    BY <2>1, <1>3, <1>4 DEF Coherent
  <2>2. CASE s.messages[j].id # s.currentMessage.id
    BY <2>2, <1>4 DEF Nearby
  <2> QED BY <2>1, <2>2
<1>7. \A k \in DOMAIN s.toolCalls : r[k].id = s.toolCalls[k].id
  BY <1>3
<1> QED BY <1>1, <1>3, <1>4, <1>5, <1>6, <1>7 DEF Marks

\* The current message has one more call, which runs.
Adds(s, t, x) ==
  /\ IsState(t)
  /\ t.currentMessage.id = s.currentMessage.id /\ t.original = s.original
  /\ t.continuationCount = s.continuationCount /\ t.isStreaming = s.isStreaming
  /\ DOMAIN t.messages = DOMAIN s.messages
  /\ \A j \in DOMAIN s.messages :
       /\ t.messages[j].id = s.messages[j].id
       /\ s.messages[j].id # s.currentMessage.id => t.messages[j].tools = s.messages[j].tools
  /\ \E entry : entry.id = x /\ entry.status = "running" /\ Grows(s.toolCalls, t.toolCalls, entry)
  /\ Coherent(t)

LEMMA RefreshedAdds ==
  ASSUME NEW s, IsState(s), Open(s), NEW x, NEW entry,
         DOMAIN entry = {"id", "name", "status"}, entry.id = x, entry.status = "running",
         ~HasTool(s, x), NEW u, WithCalls(s, u, SetById(s.toolCalls, entry))
  PROVE  Adds(s, updateToolCallsOnMessages(u), x)
<1>1. PICK t : t = updateToolCallsOnMessages(u)
  OBVIOUS
<1>2. PICK r : r = SetById(s.toolCalls, entry)
  OBVIOUS
<1>3. IsTools(r) /\ Grows(s.toolCalls, r, entry)
  BY <1>2, SetNew DEF IsState, HasTool
<1>4. /\ IsState(t)
      /\ t.currentMessage = s.currentMessage /\ t.original = s.original
      /\ t.continuationCount = s.continuationCount /\ t.isStreaming = s.isStreaming
      /\ t.toolCalls = r
      /\ DOMAIN t.messages = DOMAIN s.messages
      /\ \A j \in DOMAIN s.messages :
              /\ t.messages[j].id = s.messages[j].id
              /\ t.messages[j].tools = IF s.messages[j].id = s.currentMessage.id
                                         THEN r ELSE s.messages[j].tools
  BY <1>1, <1>2, Refreshed DEF WithCalls, Open
<1>5. Coherent(t)
  BY <1>4 DEF Coherent
<1> QED BY <1>1, <1>3, <1>4, <1>5 DEF Adds

LEMMA CallStarts ==
  ASSUME NEW s, IsState(s), Coherent(s), Open(s), NEW e, Nearby(s, e.tool),
         NEW t, t = tool_use_start(s, e)
  PROVE  IF HasTool(s, e.tool) THEN Marks(s, t, e.tool, "running") ELSE Adds(s, t, e.tool)
<1>1. PICK entry : entry = [id |-> e.tool, name |-> e.name, status |-> "running"]
  OBVIOUS
<1>2. PICK r : r = SetById(s.toolCalls, entry)
  OBVIOUS
<1>3. PICK u : u = [s EXCEPT !.hasActiveToolCalls = TRUE, !.toolInput = <<>>, !.activity = "tool",
                             !.toolCalls = r]
  OBVIOUS
<1>4. DOMAIN entry = {"id", "name", "status"} /\ entry.id = e.tool /\ entry.status = "running"
  BY <1>1
<1>5. IsTools(r)
  <2>1. CASE HasTool(s, e.tool)
    BY <1>2, <1>4, <2>1, SetThere DEF IsState, HasTool
  <2>2. CASE ~HasTool(s, e.tool)
    BY <1>2, <1>4, <2>2, SetNew DEF IsState, HasTool
  <2> QED BY <2>1, <2>2
<1>6. WithCalls(s, u, r)
  BY <1>3, <1>5, FieldNames DEF IsState, WithCalls
<1>7. t = updateToolCallsOnMessages(u)
  BY <1>1, <1>2, <1>3 DEF tool_use_start
<1> QED BY <1>2, <1>4, <1>6, <1>7, RefreshedMarks, RefreshedAdds

LEMMA ActivityOnly ==
  ASSUME NEW s, IsState(s), NEW activity
  PROVE  Same(s, [s EXCEPT !.activity = activity])
<1>1. Elsewhere(s, [s EXCEPT !.activity = activity])
  BY FieldNames DEF IsState, Elsewhere
<1> QED BY <1>1, ElsewhereSame

\* A call that ends where it is: in the map, or in some earlier message.
LEMMA CallEndsInMap ==
  ASSUME NEW s, IsState(s), Coherent(s), Open(s), NEW e, Nearby(s, e.tool), HasTool(s, e.tool)
  PROVE  Marks(s, tool_use_end(s, e), e.tool, IF e.isError THEN "error" ELSE "complete")
<1>1. PICK status : status = IF e.isError THEN "error" ELSE "complete"
  OBVIOUS
<1>2. PICK j \in DOMAIN s.toolCalls : ToolCall(s, e.tool) = s.toolCalls[j] /\ s.toolCalls[j].id = e.tool
  BY DEF HasTool, ToolCall
<1>3. PICK entry : entry = [ToolCall(s, e.tool) EXCEPT !.status = status]
  OBVIOUS
<1>4. DOMAIN entry = {"id", "name", "status"} /\ entry.id = e.tool /\ entry.status = status
  BY <1>2, <1>3 DEF IsState, IsTools
<1>5. PICK r : r = SetById(s.toolCalls, entry)
  OBVIOUS
<1>6. PICK u : u = [s EXCEPT !.toolCalls = r]
  OBVIOUS
<1>7. IsTools(r)
  BY <1>4, <1>5, SetThere DEF IsState, HasTool
<1>8. WithCalls(s, u, r)
  BY <1>6, <1>7, FieldNames DEF IsState, WithCalls
<1>9. PICK t : t = updateToolCallsOnMessages(u)
  OBVIOUS
<1>10. Marks(s, t, e.tool, status)
  BY <1>4, <1>5, <1>8, <1>9, RefreshedMarks
<1>11. PICK activity :
         tool_use_end(s, e) = SelfParse([t EXCEPT !.activity = activity], e, ToolCall(s, e.tool).name)
  BY <1>1, <1>3, <1>5, <1>6, <1>9, Zenon DEF tool_use_end
<1>12. PICK v : v = [t EXCEPT !.activity = activity]
  OBVIOUS
<1>13. Same(t, v)
  BY <1>10, <1>12, ActivityOnly DEF Marks
<1>14. IsState(v)
  BY <1>13 DEF Same
<1>15. PICK w : w = tool_use_end(s, e)
  OBVIOUS
<1>16. Elsewhere(v, w)
  BY <1>11, <1>12, <1>14, <1>15, Searched DEF IsState
<1>17. Same(v, w)
  BY <1>14, <1>16, ElsewhereSame
<1> QED BY <1>1, <1>10, <1>13, <1>15, <1>17, MarksSame, SameTwice

LEMMA CallEndsInMessages ==
  ASSUME NEW s, IsState(s), Coherent(s), NEW e, ~HasTool(s, e.tool)
  PROVE  Marks(s, tool_use_end(s, e), e.tool, IF e.isError THEN "error" ELSE "complete")
<1>1. PICK status : status = IF e.isError THEN "error" ELSE "complete"
  OBVIOUS
<1> DEFINE T(j) == [k \in DOMAIN s.messages[j].tools |->
                      IF s.messages[j].tools[k].id = e.tool
                        THEN [s.messages[j].tools[k] EXCEPT !.status = status]
                        ELSE s.messages[j].tools[k]]
<1> DEFINE M == [j \in DOMAIN s.messages |-> WithStatus(s.messages[j], e.tool, status)]
<1>2. PICK t : t = tool_use_end(s, e)
  OBVIOUS
<1>3. t = [s EXCEPT !.messages = M]
  <2>1. t = updateToolInMessages(s, e.tool, status)
    BY <1>1, <1>2, Zenon DEF tool_use_end
  <2> QED BY <2>1, Zenon DEF updateToolInMessages
<1>4. /\ DOMAIN s = Fields /\ IsTools(s.toolCalls) /\ Sequential(s.messages)
      /\ \A j \in DOMAIN s.messages : IsMessage(s.messages[j])
  BY DEF IsState, IsMessages
<1>5. /\ DOMAIN t = Fields /\ t.messages = M /\ t.toolCalls = s.toolCalls
      /\ t.currentMessage = s.currentMessage /\ t.original = s.original
      /\ t.continuationCount = s.continuationCount /\ t.isStreaming = s.isStreaming
  <2> HIDE DEF M
  <2> QED BY <1>3, <1>4, FieldNames
<1>6. ASSUME NEW j \in DOMAIN s.messages
      PROVE  /\ IsTools(T(j)) /\ DOMAIN T(j) = DOMAIN s.messages[j].tools
             /\ \A k \in DOMAIN s.messages[j].tools :
                  /\ T(j)[k].id = s.messages[j].tools[k].id
                  /\ T(j)[k].status = IF s.messages[j].tools[k].id = e.tool THEN status
                                      ELSE s.messages[j].tools[k].status
  <2>1. PICK tools : tools = s.messages[j].tools
    OBVIOUS
  <2>2. IsTools(tools)
    BY <1>4, <2>1 DEF IsMessage
  <2>3. PICK r : r = T(j)
    OBVIOUS
  <2>4. r = [k \in DOMAIN tools |-> IF tools[k].id = e.tool
                                      THEN [tools[k] EXCEPT !.status = status] ELSE tools[k]]
    BY <2>1, <2>3
  <2>5. /\ DOMAIN r = DOMAIN tools
        /\ \A k \in DOMAIN tools : /\ DOMAIN r[k] = {"id", "name", "status"}
                                   /\ r[k].id = tools[k].id
                                   /\ r[k].status = IF tools[k].id = e.tool THEN status
                                                    ELSE tools[k].status
    BY <2>2, <2>4 DEF IsTools
  <2>6. r = [k \in DOMAIN tools |-> r[k]]
    BY <2>4
  <2>7. Sequential(r)
    BY <2>2, <2>6, Mapped DEF IsTools
  <2> QED BY <2>1, <2>3, <2>5, <2>7 DEF IsTools
<1>7. ASSUME NEW j \in DOMAIN s.messages
      PROVE  IsMessage(M[j]) /\ M[j].id = s.messages[j].id /\ M[j].tools = T(j)
  <2>1. M[j] = [s.messages[j] EXCEPT !.tools = T(j)]
    BY DEF WithStatus
  <2> HIDE DEF T, M
  <2> QED BY <1>4, <1>6, <2>1 DEF IsMessage
<1>8. M = [j \in DOMAIN s.messages |-> M[j]] /\ DOMAIN M = DOMAIN s.messages
  OBVIOUS
<1>9. IsMessages(M)
  <2> HIDE DEF M
  <2> QED BY <1>7, <1>8, StillMessages DEF IsState
<1>10. \A j \in DOMAIN s.messages :
         s.messages[j].id = s.currentMessage.id => T(j) = s.toolCalls
  <2> SUFFICES ASSUME NEW j \in DOMAIN s.messages, s.messages[j].id = s.currentMessage.id
               PROVE  T(j) = s.toolCalls
    OBVIOUS
  <2>1. s.messages[j].tools = s.toolCalls
    BY DEF Coherent
  <2>2. T(j) = [k \in DOMAIN s.toolCalls |-> s.toolCalls[k]]
    BY <2>1 DEF HasTool
  <2> HIDE DEF T
  <2> QED BY <1>4, <2>2, Itself DEF IsTools
<1> HIDE DEF T, M
<1>11. Coherent(t)
  BY <1>5, <1>7, <1>8, <1>10 DEF Coherent
<1>12. IsState(t)
  BY <1>4, <1>5, <1>9 DEF IsState
<1>13. DOMAIN t.messages = DOMAIN s.messages
  BY <1>5, <1>8
<1>14. \A j \in DOMAIN s.messages :
         /\ t.messages[j].id = s.messages[j].id
         /\ DOMAIN t.messages[j].tools = DOMAIN s.messages[j].tools
         /\ \A k \in DOMAIN s.messages[j].tools :
              /\ t.messages[j].tools[k].id = s.messages[j].tools[k].id
              /\ t.messages[j].tools[k].status = IF s.messages[j].tools[k].id = e.tool THEN status
                                                 ELSE s.messages[j].tools[k].status
  BY <1>5, <1>6, <1>7
<1>15. Marks(s, t, e.tool, status)
  BY <1>5, <1>11, <1>12, <1>13, <1>14 DEF Marks
<1> QED BY <1>1, <1>2, <1>15

LEMMA CallEnds ==
  ASSUME NEW s, IsState(s), Coherent(s), Open(s), NEW e, Nearby(s, e.tool) \/ ~HasTool(s, e.tool)
  PROVE  Marks(s, tool_use_end(s, e), e.tool, IF e.isError THEN "error" ELSE "complete")
BY CallEndsInMap, CallEndsInMessages

----------------------------------------------------------------------------
(* How a call is shown.                                                    *)

Hidden(s, x) ==
  \A j \in DOMAIN s.messages : \A k \in DOMAIN s.messages[j].tools :
    s.messages[j].tools[k].id # x

\* At one place, with the status.
ShownAs(s, x, status) ==
  \E i \in DOMAIN s.messages : \E k \in DOMAIN s.messages[i].tools :
    /\ s.messages[i].tools[k].id = x /\ s.messages[i].tools[k].status = status
    /\ \A j \in DOMAIN s.messages : \A l \in DOMAIN s.messages[j].tools :
         s.messages[j].tools[l].id = x => j = i /\ l = k

Kept(s, t, x) ==
  /\ Hidden(s, x) => Hidden(t, x)
  /\ \A status : ShownAs(s, x, status) => ShownAs(t, x, status)

LEMMA KeptTwice ==
  ASSUME NEW s, NEW t, NEW u, NEW x, Kept(s, t, x), Kept(t, u, x)
  PROVE  Kept(s, u, x)
BY DEF Kept

LEMMA MessagesKeep ==
  ASSUME NEW s, NEW t, NEW x, t.messages = s.messages
  PROVE  Kept(s, t, x)
BY DEF Kept, Hidden, ShownAs

LEMMA SameKeeps ==
  ASSUME NEW s, NEW t, NEW x, Same(s, t)
  PROVE  Kept(s, t, x)
BY DEF Same, Kept, Hidden, ShownAs

LEMMA ArrivesKeeps ==
  ASSUME NEW s, NEW t, NEW x, NEW id, Arrives(s, t, id)
  PROVE  Kept(s, t, x)
<1>1. PICK n : /\ n \notin DOMAIN s.messages /\ DOMAIN t.messages = DOMAIN s.messages \cup {n}
               /\ t.messages[n].tools = <<>>
               /\ \A j \in DOMAIN s.messages : t.messages[j].tools = s.messages[j].tools
  BY DEF Arrives
<1>2. \A j : j \notin DOMAIN t.messages[n].tools
  BY <1>1, EmptyOne
<1>3. \A j \in DOMAIN t.messages : \A k \in DOMAIN t.messages[j].tools : j \in DOMAIN s.messages
  BY <1>1, <1>2
<1>4. ASSUME Hidden(s, x) PROVE Hidden(t, x)
  BY <1>1, <1>3, <1>4 DEF Hidden
<1>5. ASSUME NEW status, ShownAs(s, x, status) PROVE ShownAs(t, x, status)
  BY <1>1, <1>3, <1>5 DEF ShownAs
<1> QED BY <1>4, <1>5 DEF Kept

LEMMA MarksKeeps ==
  ASSUME NEW s, NEW t, NEW x, NEW y, NEW status, Marks(s, t, y, status), x # y
  PROVE  Kept(s, t, x)
<1>1. ASSUME Hidden(s, x) PROVE Hidden(t, x)
  BY <1>1 DEF Marks, Hidden
<1>2. ASSUME NEW st, ShownAs(s, x, st) PROVE ShownAs(t, x, st)
  <2>1. PICK i \in DOMAIN s.messages : \E k \in DOMAIN s.messages[i].tools :
          /\ s.messages[i].tools[k].id = x /\ s.messages[i].tools[k].status = st
          /\ \A j \in DOMAIN s.messages : \A l \in DOMAIN s.messages[j].tools :
               s.messages[j].tools[l].id = x => j = i /\ l = k
    BY <1>2 DEF ShownAs
  <2> QED BY <2>1, SMTT(30) DEF Marks, ShownAs
<1> QED BY <1>1, <1>2 DEF Kept

LEMMA MarksShows ==
  ASSUME NEW s, NEW t, NEW x, NEW before, NEW status,
         Marks(s, t, x, status), ShownAs(s, x, before)
  PROVE  ShownAs(t, x, status)
<1>1. PICK i \in DOMAIN s.messages : \E k \in DOMAIN s.messages[i].tools :
        /\ s.messages[i].tools[k].id = x
        /\ \A j \in DOMAIN s.messages : \A l \in DOMAIN s.messages[j].tools :
             s.messages[j].tools[l].id = x => j = i /\ l = k
  BY DEF ShownAs
<1> QED BY <1>1, SMTT(30) DEF Marks, ShownAs

\* The place where the next call goes.
Current(s) == \E j \in DOMAIN s.messages : s.messages[j].id = s.currentMessage.id

OneCurrent(s) ==
  \E j \in DOMAIN s.messages :
    /\ s.messages[j].id = s.currentMessage.id
    /\ \A i \in DOMAIN s.messages : s.messages[i].id = s.currentMessage.id => i = j

LEMMA AddsKeeps ==
  ASSUME NEW s, Coherent(s), NEW t, NEW x, NEW y, Adds(s, t, y), x # y
  PROVE  Kept(s, t, x)
<1>1. PICK entry : entry.id = y /\ Grows(s.toolCalls, t.toolCalls, entry)
  BY DEF Adds
<1>2. PICK n : /\ n \notin DOMAIN s.toolCalls
               /\ DOMAIN t.toolCalls = DOMAIN s.toolCalls \cup {n} /\ t.toolCalls[n] = entry
               /\ \A k \in DOMAIN s.toolCalls : t.toolCalls[k] = s.toolCalls[k]
  BY <1>1 DEF Grows
<1>3. ASSUME NEW j \in DOMAIN s.messages
      PROVE  /\ \A k \in DOMAIN s.messages[j].tools :
                  k \in DOMAIN t.messages[j].tools /\ t.messages[j].tools[k] = s.messages[j].tools[k]
             /\ \A k \in DOMAIN t.messages[j].tools :
                  k \in DOMAIN s.messages[j].tools \/ t.messages[j].tools[k].id = y
  <2>1. CASE s.messages[j].id = s.currentMessage.id
    <3>1. s.messages[j].tools = s.toolCalls /\ t.messages[j].tools = t.toolCalls
      BY <1>3, <2>1 DEF Adds, Coherent
    <3> QED BY <1>1, <1>2, <3>1
  <2>2. CASE s.messages[j].id # s.currentMessage.id
    BY <1>3, <2>2 DEF Adds
  <2> QED BY <2>1, <2>2
<1>4. DOMAIN t.messages = DOMAIN s.messages
  BY DEF Adds
<1>5. ASSUME Hidden(s, x) PROVE Hidden(t, x)
  BY <1>3, <1>4, <1>5 DEF Hidden
<1>6. ASSUME NEW st, ShownAs(s, x, st) PROVE ShownAs(t, x, st)
  <2>1. PICK i \in DOMAIN s.messages : \E k \in DOMAIN s.messages[i].tools :
          /\ s.messages[i].tools[k].id = x /\ s.messages[i].tools[k].status = st
          /\ \A j \in DOMAIN s.messages : \A l \in DOMAIN s.messages[j].tools :
               s.messages[j].tools[l].id = x => j = i /\ l = k
    BY <1>6 DEF ShownAs
  <2> QED BY <1>3, <1>4, <2>1 DEF ShownAs
<1> QED BY <1>5, <1>6 DEF Kept

LEMMA AddsShows ==
  ASSUME NEW s, Coherent(s), OneCurrent(s), NEW t, NEW x, Adds(s, t, x), Hidden(s, x)
  PROVE  ShownAs(t, x, "running") /\ HasTool(t, x)
<1>1. PICK entry : entry.id = x /\ entry.status = "running" /\ Grows(s.toolCalls, t.toolCalls, entry)
  BY DEF Adds
<1>2. PICK n : /\ n \notin DOMAIN s.toolCalls
               /\ DOMAIN t.toolCalls = DOMAIN s.toolCalls \cup {n} /\ t.toolCalls[n] = entry
               /\ \A k \in DOMAIN s.toolCalls : t.toolCalls[k] = s.toolCalls[k]
  BY <1>1 DEF Grows
<1>3. PICK j \in DOMAIN s.messages :
        /\ s.messages[j].id = s.currentMessage.id
        /\ \A i \in DOMAIN s.messages : s.messages[i].id = s.currentMessage.id => i = j
  BY DEF OneCurrent
<1>4. s.messages[j].tools = s.toolCalls /\ t.messages[j].tools = t.toolCalls
  BY <1>3 DEF Adds, Coherent
<1>5. DOMAIN t.messages = DOMAIN s.messages
  BY DEF Adds
<1>6. \A i \in DOMAIN s.messages : \A l \in DOMAIN t.messages[i].tools :
        t.messages[i].tools[l].id = x => i = j
  BY <1>3 DEF Adds, Hidden
<1>7. \A l \in DOMAIN t.messages[j].tools : t.messages[j].tools[l].id = x => l = n
  BY <1>2, <1>3, <1>4 DEF Hidden
<1>8. n \in DOMAIN t.toolCalls /\ t.toolCalls[n].id = x /\ t.toolCalls[n].status = "running"
  BY <1>1, <1>2
<1>9. ShownAs(t, x, "running")
  BY <1>4, <1>5, <1>6, <1>7, <1>8 DEF ShownAs
<1>10. HasTool(t, x)
  BY <1>8 DEF HasTool
<1> QED BY <1>9, <1>10

\* Messages stay, with their calls, and a call that has failed has failed.
Persists(s, t) ==
  \A j \in DOMAIN s.messages :
    /\ j \in DOMAIN t.messages /\ t.messages[j].id = s.messages[j].id
    /\ \A k \in DOMAIN s.messages[j].tools :
         /\ k \in DOMAIN t.messages[j].tools
         /\ s.messages[j].tools[k].status = "error" => t.messages[j].tools[k].status = "error"

LEMMA PersistsTwice ==
  ASSUME NEW s, NEW t, NEW u, Persists(s, t), Persists(t, u)
  PROVE  Persists(s, u)
BY DEF Persists

LEMMA MessagesPersist ==
  ASSUME NEW s, NEW t, t.messages = s.messages
  PROVE  Persists(s, t)
BY DEF Persists

LEMMA SamePersists ==
  ASSUME NEW s, NEW t, Same(s, t)
  PROVE  Persists(s, t)
BY DEF Same, Persists

LEMMA ArrivesPersists ==
  ASSUME NEW s, NEW t, NEW id, Arrives(s, t, id)
  PROVE  Persists(s, t)
BY DEF Arrives, Persists

LEMMA AddsPersists ==
  ASSUME NEW s, Coherent(s), NEW t, NEW x, Adds(s, t, x)
  PROVE  Persists(s, t)
<1>1. \A k \in DOMAIN s.toolCalls : k \in DOMAIN t.toolCalls /\ t.toolCalls[k] = s.toolCalls[k]
  BY DEF Adds, Grows
<1>2. ASSUME NEW j \in DOMAIN s.messages
      PROVE  \A k \in DOMAIN s.messages[j].tools :
               k \in DOMAIN t.messages[j].tools /\ t.messages[j].tools[k] = s.messages[j].tools[k]
  <2>1. CASE s.messages[j].id = s.currentMessage.id
    BY <1>1, <1>2, <2>1 DEF Adds, Coherent
  <2>2. CASE s.messages[j].id # s.currentMessage.id
    BY <1>2, <2>2 DEF Adds
  <2> QED BY <2>1, <2>2
<1> QED BY <1>2 DEF Adds, Persists

LEMMA MarksPersists ==
  ASSUME NEW s, NEW t, NEW x, NEW before, NEW status,
         Marks(s, t, x, status), ShownAs(s, x, before), before = "error" => status = "error"
  PROVE  Persists(s, t)
<1>1. \A j \in DOMAIN s.messages : \A k \in DOMAIN s.messages[j].tools :
        s.messages[j].tools[k].id = x => s.messages[j].tools[k].status = before
  BY DEF ShownAs
<1> QED BY <1>1 DEF Marks, Persists

----------------------------------------------------------------------------
(* The ids of messages.                                                    *)

Ids == {"reply", "user", "result"} \X Nat \X Nat

\* Calls are shown by replies, whose ids tell them apart; n is the last.
Numbered(s, n) ==
  \A j \in DOMAIN s.messages :
    /\ s.messages[j].id \in Ids
    /\ DOMAIN s.messages[j].tools # {} => s.messages[j].id[1] = "reply"
    /\ s.messages[j].id[1] = "reply" =>
         /\ s.messages[j].id[2] <= n
         /\ \A i \in DOMAIN s.messages : s.messages[i].id = s.messages[j].id => i = j

\* Reply n is under way, and its last part is current.
UnderWay(s, n) ==
  /\ s.continuationCount \in Nat
  /\ s.currentMessage.id = <<"reply", n, s.continuationCount>> /\ s.original = Reply(n)
  /\ Current(s) /\ Coherent(s)
  /\ \A j \in DOMAIN s.messages :
       s.messages[j].id[1] = "reply" /\ s.messages[j].id[2] = n =>
         s.messages[j].id[3] <= s.continuationCount

LEMMA IsOpen ==
  ASSUME NEW s, NEW n \in Nat, UnderWay(s, n)
  PROVE  Open(s) /\ s.currentMessage.id[1] = "reply"
BY DEF UnderWay, Open, NoId

LEMMA OnlyCurrent ==
  ASSUME NEW s, NEW n \in Nat, Numbered(s, n), UnderWay(s, n)
  PROVE  OneCurrent(s)
BY IsOpen DEF Numbered, UnderWay, Current, OneCurrent

LEMMA SameNumbered ==
  ASSUME NEW s, NEW n, NEW t, Numbered(s, n), Same(s, t)
  PROVE  Numbered(t, n)
BY DEF Numbered, Same

LEMMA SameUnderWay ==
  ASSUME NEW s, NEW n, NEW t, UnderWay(s, n), Same(s, t)
  PROVE  UnderWay(t, n)
BY DEF UnderWay, Same, Current, Coherent

LEMMA MarksNumbered ==
  ASSUME NEW s, NEW n, NEW t, NEW x, NEW status, Numbered(s, n), Marks(s, t, x, status)
  PROVE  Numbered(t, n)
BY DEF Numbered, Marks

LEMMA MarksUnderWay ==
  ASSUME NEW s, NEW n, NEW t, NEW x, NEW status, UnderWay(s, n), Marks(s, t, x, status)
  PROVE  UnderWay(t, n)
BY DEF UnderWay, Marks, Current

LEMMA AddsNumbered ==
  ASSUME NEW s, NEW n \in Nat, NEW t, NEW x, Numbered(s, n), UnderWay(s, n), Adds(s, t, x)
  PROVE  Numbered(t, n)
<1>1. s.currentMessage.id[1] = "reply"
  BY IsOpen
<1>2. DOMAIN t.messages = DOMAIN s.messages
      /\ \A j \in DOMAIN s.messages :
           /\ t.messages[j].id = s.messages[j].id
           /\ s.messages[j].id # s.currentMessage.id => t.messages[j].tools = s.messages[j].tools
  BY DEF Adds
<1> QED BY <1>1, <1>2 DEF Numbered

LEMMA AddsUnderWay ==
  ASSUME NEW s, NEW n, NEW t, NEW x, UnderWay(s, n), Adds(s, t, x)
  PROVE  UnderWay(t, n)
BY DEF UnderWay, Adds, Current

LEMMA ArrivesNumbered ==
  ASSUME NEW s, NEW n \in Nat, NEW t, NEW id \in Ids, NEW m \in Nat, n <= m,
         Numbered(s, n), Arrives(s, t, id),
         id[1] = "reply" => id[2] <= m /\ \A j \in DOMAIN s.messages : s.messages[j].id # id
  PROVE  Numbered(t, m)
<1>1. PICK k : /\ k \notin DOMAIN s.messages /\ DOMAIN t.messages = DOMAIN s.messages \cup {k}
               /\ t.messages[k].id = id /\ t.messages[k].tools = <<>>
               /\ \A j \in DOMAIN s.messages : /\ t.messages[j].id = s.messages[j].id
                                               /\ t.messages[j].tools = s.messages[j].tools
  BY DEF Arrives
<1>2. DOMAIN t.messages[k].tools = {}
  BY <1>1, EmptyOne
<1>3. ASSUME NEW j \in DOMAIN s.messages
      PROVE  /\ t.messages[j].id \in Ids
             /\ DOMAIN t.messages[j].tools # {} => t.messages[j].id[1] = "reply"
             /\ t.messages[j].id[1] = "reply" =>
                  /\ t.messages[j].id[2] <= m
                  /\ \A i \in DOMAIN t.messages : t.messages[i].id = t.messages[j].id => i = j
  <2>1. t.messages[j].id = s.messages[j].id /\ t.messages[j].tools = s.messages[j].tools
    BY <1>1
  <2>2. /\ s.messages[j].id \in Ids
        /\ DOMAIN s.messages[j].tools # {} => s.messages[j].id[1] = "reply"
        /\ s.messages[j].id[1] = "reply" =>
             /\ s.messages[j].id[2] <= n
             /\ \A i \in DOMAIN s.messages : s.messages[i].id = s.messages[j].id => i = j
    BY DEF Numbered
  <2>3. s.messages[j].id[1] = "reply" => s.messages[j].id[2] <= m
    BY <2>2 DEF Ids
  <2>4. s.messages[j].id[1] = "reply" => id # s.messages[j].id
    OBVIOUS
  <2>5. s.messages[j].id[1] = "reply" =>
          \A i \in DOMAIN t.messages : t.messages[i].id = t.messages[j].id => i = j
    BY <1>1, <2>1, <2>2, <2>4
  <2> QED BY <2>1, <2>2, <2>3, <2>5
<1>4. id[1] = "reply" => \A i \in DOMAIN t.messages : t.messages[i].id = id => i = k
  BY <1>1
<1> QED BY <1>1, <1>2, <1>3, <1>4 DEF Numbered

LEMMA NewReply ==
  ASSUME NEW s, NEW n \in Nat, Numbered(s, n), NEW m \in Nat, n < m
  PROVE  \A j \in DOMAIN s.messages : s.messages[j].id # Reply(m)
BY DEF Numbered, Ids, Reply

LEMMA NewPart ==
  ASSUME NEW s, NEW n \in Nat, Numbered(s, n), UnderWay(s, n)
  PROVE  LET id == Continuation(s.original, s.continuationCount + 1)
         IN /\ id = <<"reply", n, s.continuationCount + 1>>
            /\ \A j \in DOMAIN s.messages : s.messages[j].id # id
<1>1. Continuation(s.original, s.continuationCount + 1) = <<"reply", n, s.continuationCount + 1>>
  BY DEF Continuation, UnderWay, Reply
<1>2. ASSUME NEW j \in DOMAIN s.messages
      PROVE  s.messages[j].id # <<"reply", n, s.continuationCount + 1>>
  <2>1. s.messages[j].id \in Ids /\ s.continuationCount \in Nat
    BY DEF Numbered, UnderWay
  <2>2. s.messages[j].id[1] = "reply" /\ s.messages[j].id[2] = n =>
          s.messages[j].id[3] <= s.continuationCount
    BY DEF UnderWay
  <2> QED BY <2>1, <2>2 DEF Ids
<1> QED BY <1>1, <1>2

\* A message that opens is under way.
LEMMA OpensUnderWay ==
  ASSUME NEW s, NEW n \in Nat, NEW k \in Nat, NEW t, Opens(s, t, <<"reply", n, k>>),
         t.original = Reply(n), t.continuationCount = k,
         \A j \in DOMAIN s.messages :
           /\ s.messages[j].id # <<"reply", n, k>>
           /\ s.messages[j].id[1] = "reply" /\ s.messages[j].id[2] = n => s.messages[j].id[3] <= k
  PROVE  UnderWay(t, n)
<1>1. PICK i : /\ i \notin DOMAIN s.messages /\ DOMAIN t.messages = DOMAIN s.messages \cup {i}
               /\ t.messages[i].id = <<"reply", n, k>> /\ t.messages[i].tools = <<>>
               /\ \A j \in DOMAIN s.messages : /\ t.messages[j].id = s.messages[j].id
                                               /\ t.messages[j].tools = s.messages[j].tools
  BY DEF Opens, Arrives
<1>2. t.currentMessage.id = <<"reply", n, k>> /\ t.toolCalls = <<>>
  BY DEF Opens
<1>3. Current(t)
  BY <1>1, <1>2 DEF Current
<1>4. Coherent(t)
  BY <1>1, <1>2 DEF Coherent
<1>5. <<"reply", n, k>>[3] <= k
  OBVIOUS
<1>6. \A j \in DOMAIN t.messages :
        t.messages[j].id[1] = "reply" /\ t.messages[j].id[2] = n => t.messages[j].id[3] <= k
  BY <1>1, <1>5
<1> QED BY <1>2, <1>3, <1>4, <1>6 DEF UnderWay

----------------------------------------------------------------------------
(* The calls that are pending.                                             *)

IsIn(s, x) == \E j \in DOMAIN s : s[j] = x

LEMMA OneMore ==
  ASSUME NEW S, NEW s \in Seq(S), NEW x \in S, NEW y
  PROVE  Append(s, x) \in Seq(S) /\ (IsIn(Append(s, x), y) <=> IsIn(s, y) \/ y = x)
<1>1. Append(s, x) \in Seq(S)
  OBVIOUS
<1>2. PICK t \in Seq(S) : t = Append(s, x)
  BY <1>1
<1>3. /\ Len(s) \in Nat /\ DOMAIN s = 1..Len(s) /\ DOMAIN t = 1..(Len(s) + 1)
      /\ t[Len(s) + 1] = x /\ \A j \in 1..Len(s) : t[j] = s[j]
  BY <1>2
<1>4. PICK n \in Nat : n = Len(s)
  BY <1>3
<1>5. \A j \in 1..(n + 1) : j \in 1..n \/ j = n + 1
  OBVIOUS
<1>6. 1..n \subseteq 1..(n + 1) /\ n + 1 \in 1..(n + 1)
  OBVIOUS
<1> QED BY <1>2, <1>3, <1>4, <1>5, <1>6 DEF IsIn

LEMMA OneLess ==
  ASSUME NEW S, NEW s \in Seq(S), NEW i \in DOMAIN s, NEW y, y # s[i]
  PROVE  RemoveAt(s, i) \in Seq(S) /\ (IsIn(RemoveAt(s, i), y) <=> IsIn(s, y))
<1>1. PICK n \in Nat : n = Len(s)
  OBVIOUS
<1>2. i \in 1..n /\ DOMAIN s = 1..n
  BY <1>1
<1>3. PICK t : t = RemoveAt(s, i)
  OBVIOUS
<1>4. /\ SubSeq(s, 1, i - 1) \in Seq(S) /\ Len(SubSeq(s, 1, i - 1)) = i - 1
      /\ \A j \in 1..(i - 1) : SubSeq(s, 1, i - 1)[j] = s[j]
  BY <1>1, <1>2
<1>5. /\ SubSeq(s, i + 1, n) \in Seq(S) /\ Len(SubSeq(s, i + 1, n)) = n - i
      /\ \A j \in 1..(n - i) : SubSeq(s, i + 1, n)[j] = s[i + j]
  BY <1>1, <1>2
<1>6. /\ t \in Seq(S) /\ Len(t) = n - 1
      /\ \A j \in 1..(i - 1) : t[j] = s[j]
      /\ \A j \in i..(n - 1) : t[j] = s[j + 1]
  <2>1. PICK a \in Seq(S) : a = SubSeq(s, 1, i - 1)
    BY <1>4
  <2>2. PICK b \in Seq(S) : b = SubSeq(s, i + 1, n)
    BY <1>5
  <2>3. t = a \o b
    BY <1>1, <1>3, <2>1, <2>2 DEF RemoveAt
  <2>4. Len(a) = i - 1
    BY <1>4, <2>1
  <2>5. Len(b) = n - i
    BY <1>5, <2>2
  <2>6. (i - 1) + (n - i) = n - 1 /\ (i - 1) + 1 = i
    BY <1>2
  <2>7. Len(a) = i - 1 /\ Len(b) = n - i /\ (i - 1) + (n - i) = n - 1 /\ (i - 1) + 1 = i
    BY <2>4, <2>5, <2>6
  <2>8. t \in Seq(S) /\ Len(t) = Len(a) + Len(b)
    BY <2>3, Concatenated
  <2>9. t \in Seq(S) /\ Len(t) = n - 1
    BY <2>7, <2>8
  <2>10. /\ \A j \in 1..(i - 1) : t[j] = a[j]
        /\ \A j \in i..(n - 1) : t[j] = b[j - (i - 1)]
    <3>1. /\ \A j \in 1..Len(a) : t[j] = a[j]
          /\ \A j \in (Len(a) + 1)..(Len(a) + Len(b)) : t[j] = b[j - Len(a)]
      BY <2>3, Concatenated
    <3> QED BY <2>7, <3>1
  <2>11. \A j \in i..(n - 1) : j - (i - 1) \in 1..(n - i) /\ i + (j - (i - 1)) = j + 1
    BY <1>2
  <2> QED BY <1>4, <1>5, <2>1, <2>2, <2>9, <2>10, <2>11
<1>7. DOMAIN t = 1..(n - 1)
  BY <1>6
<1>8. ASSUME IsIn(t, y) PROVE IsIn(s, y)
  <2>1. PICK j \in 1..(n - 1) : t[j] = y
    BY <1>7, <1>8 DEF IsIn
  <2>2. CASE j <= i - 1
    <3>1. j \in 1..(i - 1) /\ j \in 1..n
      BY <1>2, <2>1, <2>2
    <3> QED BY <1>2, <1>6, <2>1, <3>1 DEF IsIn
  <2>3. CASE j >= i
    <3>1. j \in i..(n - 1) /\ j + 1 \in 1..n
      BY <1>2, <2>1, <2>3
    <3> QED BY <1>2, <1>6, <2>1, <3>1 DEF IsIn
  <2> QED BY <1>2, <2>1, <2>2, <2>3
<1>9. ASSUME IsIn(s, y) PROVE IsIn(t, y)
  <2>1. PICK j \in 1..n : s[j] = y
    BY <1>2, <1>9 DEF IsIn
  <2>2. j # i
    BY <2>1
  <2>3. CASE j < i
    <3>1. j \in 1..(i - 1) /\ j \in 1..(n - 1)
      BY <1>2, <2>1, <2>3
    <3> QED BY <1>6, <1>7, <2>1, <3>1 DEF IsIn
  <2>4. CASE j > i
    <3>1. j - 1 \in i..(n - 1) /\ (j - 1) + 1 = j /\ j - 1 \in 1..(n - 1)
      BY <1>2, <2>1, <2>4
    <3> QED BY <1>6, <1>7, <2>1, <3>1 DEF IsIn
  <2> QED BY <1>2, <2>1, <2>2, <2>3, <2>4
<1> QED BY <1>3, <1>6, <1>8, <1>9

LEMMA PendingIs == ASSUME NEW t PROVE Pending(t) <=> IsIn(pending, t)
BY DEF Pending, IsIn

LEMMA SplicedKeeps ==
  ASSUME pending \in Seq(Tools), NEW t
  PROVE  /\ Spliced(t) \in Seq(Tools)
         /\ \A x : x # t => (IsIn(Spliced(t), x) <=> IsIn(pending, x))
         /\ ~IsIn(pending, t) => ~IsIn(Spliced(t), t)
<1>1. CASE ~Pending(t)
  BY <1>1, PendingIs DEF Spliced
<1>2. CASE Pending(t)
  <2> DEFINE P == {i \in 1..Len(pending) : pending[i] = t}
  <2>1. P # {} /\ P \in SUBSET Nat
    BY <1>2 DEF Pending
  <2>2. SelectInSeq(pending, LAMBDA x : x = t) = Min(P)
    BY <2>1 DEF SelectInSeq
  <2>3. Min(P) \in P
    BY <2>1, Lowest
  <2>4. PICK i : i = Min(P)
    OBVIOUS
  <2>5. i \in DOMAIN pending /\ pending[i] = t
    BY <2>3, <2>4
  <2>6. Spliced(t) = RemoveAt(pending, i)
    <3> HIDE DEF P
    <3> QED BY <1>2, <2>2, <2>4, Zenon DEF Spliced
  <2> QED BY <1>2, <2>5, <2>6, OneLess, PendingIs
<1> QED BY <1>1, <1>2

----------------------------------------------------------------------------
(* A conversation.                                                         *)

CallStates == {"none", "ahead", "aheadDenied", "shown", "denied", "ready", "ran", "settled", "left"}
AreAhead == {"ahead", "aheadDenied"}
HaveResult == {"ran", "settled"}
AwaitResult == AreAhead \cup {"shown", "denied", "ready"}

StatusOf(t) ==
  IF call[t] \notin HaveResult THEN "running"
  ELSE IF t \in failed THEN "error" ELSE "complete"

\* What CallsShownOnce says.
CallsInv ==
  \A t \in Tools : IF call[t] = "none" THEN Hidden(ui, t) ELSE ShownAs(ui, t, StatusOf(t))

\* A call that awaits its result is pending, so that its end is told; one
\* that a hook announced is in the map, so that its message does not show it
\* again.
PendInv ==
  \A t \in Tools :
    /\ call[t] = "none" => ~IsIn(pending, t)
    /\ call[t] \in AwaitResult => phase = "loop" /\ IsIn(pending, t)
    /\ call[t] \in AreAhead => HasTool(ui, t)
    /\ t \in failed => call[t] \in HaveResult

StreamInv ==
  /\ phase \in {"sent", "loop"} => ui.isStreaming = TRUE
  /\ phase = "idle" => ui.isStreaming = FALSE /\ ui.activity = "none"

TypeInv ==
  /\ msg \in Nat /\ turn \in Nat /\ phase \in {"idle", "sent", "loop"}
  /\ call \in [Tools -> CallStates]
  /\ pending \in Seq(Tools)

UiInv ==
  /\ IsState(ui)
  /\ Numbered(ui, msg)
  /\ phase = "loop" => UnderWay(ui, msg)

ConvInv == TypeInv /\ UiInv /\ CallsInv /\ PendInv /\ StreamInv

\* Events that change nothing about calls.
QuietTypes == AsideTypes \cup {"tool_progress", "hook_event", "thinking_delta", "artifact_registered"}

LEMMA Quiet ==
  ASSUME NEW s, IsState(s), Coherent(s), NEW e, e.type \in QuietTypes
  PROVE  Same(s, agentEventReducer(s, e))
<1>1. CASE e.type \in AsideTypes
  BY <1>1, Aside, ElsewhereSame DEF IsState
<1>2. CASE e.type = "tool_progress"
  BY <1>2, Arms, Progressed
<1>3. CASE e.type = "hook_event"
  BY <1>3, Arms, Hooked
<1>4. CASE e.type = "thinking_delta"
  BY <1>4, Arms, ThoughtAdded
<1>5. CASE e.type = "artifact_registered"
  BY <1>5, Arms, PathAdded
<1> QED BY <1>1, <1>2, <1>3, <1>4, <1>5 DEF QuietTypes

LEMMA CallsKept ==
  ASSUME CallsInv, \A t \in Tools : Kept(ui, ui', t), UNCHANGED <<call, failed>>
  PROVE  CallsInv'
BY DEF CallsInv, Kept, StatusOf

LEMMA SameStep ==
  ASSUME ConvInv, phase = "loop", Same(ui, ui'),
         UNCHANGED <<phase, turn, msg, pending, call, failed>>
  PROVE  ConvInv' /\ Persists(ui, ui')
<1>1. TypeInv'
  BY DEF ConvInv, TypeInv
<1>2. UiInv'
  BY SameNumbered, SameUnderWay DEF ConvInv, UiInv, Same
<1>3. CallsInv'
  BY SameKeeps, CallsKept DEF ConvInv
<1>4. PendInv'
  BY DEF ConvInv, PendInv, HasTool, Same
<1>5. StreamInv'
  BY DEF ConvInv, StreamInv, Same
<1> QED BY <1>1, <1>2, <1>3, <1>4, <1>5, SamePersists DEF ConvInv

\* A step that emits one such event.
LEMMA QuietStep ==
  ASSUME ConvInv, phase = "loop", NEW e, e.type \in QuietTypes, Emit(<<e>>),
         UNCHANGED <<phase, msg, pending, call, failed>>
  PROVE  ConvInv' /\ Persists(ui, ui')
<1>1. ui' = agentEventReducer(ui, e) /\ turn' = turn
  BY ReducedOne DEF Emit
<1>2. Same(ui, ui')
  BY <1>1, Quiet DEF ConvInv, UiInv, UnderWay
<1> QED BY <1>1, <1>2, SameStep

LEMMA PassingStep ==
  ASSUME ConvInv, NEW e, e.type \in QuietTypes, Passing(<<e>>)
  PROVE  ConvInv' /\ Persists(ui, ui')
BY QuietStep DEF Passing, Loop, turnVars

LEMMA AsidesStep ==
  ASSUME ConvInv,
         \/ Block \/ InputDelta \/ Status \/ HookResponse \/ SystemInit
         \/ \E t \in Tools : Progress(t)
         \/ \E typed \in BOOLEAN : SubagentStart(typed)
         \/ SubagentStop
  PROVE  ConvInv' /\ Persists(ui, ui')
<1> USE EventIs DEF QuietTypes, AsideTypes, Say
<1>1. CASE Block
  BY <1>1, PassingStep DEF Block, Activity
<1>2. CASE InputDelta
  BY <1>2, PassingStep DEF InputDelta
<1>3. CASE Status
  BY <1>3, PassingStep DEF Status
<1>4. CASE HookResponse
  BY <1>4, PassingStep DEF HookResponse
<1>5. CASE SystemInit
  BY <1>5, PassingStep DEF SystemInit
<1>6. CASE \E t \in Tools : Progress(t)
  BY <1>6, PassingStep DEF Progress
<1>7. CASE \E typed \in BOOLEAN : SubagentStart(typed)
  BY <1>7, PassingStep DEF SubagentStart
<1>8. CASE SubagentStop
  BY <1>8, PassingStep DEF SubagentStop
<1> QED BY <1>1, <1>2, <1>3, <1>4, <1>5, <1>6, <1>7, <1>8

LEMMA InitStep == Init /\ phase # "legacy" => ConvInv
<1> SUFFICES ASSUME Init, phase # "legacy" PROVE ConvInv
  OBVIOUS
<1>1. TypeInv
  <2>1. pending = <<>> /\ msg = 0 /\ turn = 0 /\ phase = "idle" /\ call = [t \in Tools |-> "none"]
    BY DEF Init
  <2>2. pending \in Seq(Tools)
    BY <2>1
  <2> QED BY <2>1, <2>2 DEF TypeInv, CallStates
<1>2. \A j : j \notin DOMAIN ui.messages
  <2>1. ui.messages = <<>>
    BY DEF Init, initialAgentEventState
  <2> QED BY <2>1, EmptyOne
<1>3. UiInv
  BY <1>2, FirstState DEF Init, UiInv, Numbered
<1>4. CallsInv
  BY <1>2 DEF Init, CallsInv, Hidden
<1>5. PendInv
  <2>1. \A t : ~IsIn(pending, t)
    BY EmptyOne DEF Init, IsIn
  <2> QED BY <2>1 DEF Init, PendInv, AwaitResult, AreAhead
<1>6. StreamInv
  BY DEF Init, StreamInv, initialAgentEventState
<1> QED BY <1>1, <1>3, <1>4, <1>5, <1>6 DEF ConvInv

LEMMA DeltaStep ==
  ASSUME ConvInv, NEW type \in {"content_delta", "thinking_delta"}, Delta(type)
  PROVE  ConvInv' /\ Persists(ui, ui')
<1>1. PICK e : e = Event(type, <<pieces'>>, <<>>)
  OBVIOUS
<1>2. /\ Loop /\ Emit(<<e>>) /\ e.type = type
      /\ UNCHANGED <<phase, msg, pending, call, failed>>
  BY <1>1, EventIs DEF Delta, turnVars
<1>3. CASE type = "thinking_delta"
  BY <1>2, <1>3, QuietStep DEF QuietTypes, Loop
<1>4. CASE type = "content_delta"
  <2>1. ui' = content_delta(ui, e) /\ turn' = turn
    BY <1>2, <1>4, ReducedOne, Arms DEF Emit
  <2>2. phase = "loop" /\ msg \in Nat /\ IsState(ui) /\ Numbered(ui, msg) /\ UnderWay(ui, msg)
    BY <1>2 DEF Loop, ConvInv, TypeInv, UiInv
  <2>3. CASE ~Open(ui) \/ ~ui.hasActiveToolCalls
    BY <1>2, <2>1, <2>2, <2>3, TextAdded, SameStep
  <2>4. CASE Open(ui) /\ ui.hasActiveToolCalls
    <3>1. PICK k \in Nat : k = ui.continuationCount + 1
      BY <2>2 DEF UnderWay
    <3>2. PICK id : id = Continuation(ui.original, ui.continuationCount + 1)
      OBVIOUS
    <3>3. id = <<"reply", msg, k>> /\ \A j \in DOMAIN ui.messages : ui.messages[j].id # id
      BY <2>2, <3>1, <3>2, NewPart
    <3>4. Opens(ui, ui', id) /\ ui'.original = Reply(msg) /\ ui'.continuationCount = k
      BY <2>1, <2>2, <2>4, <3>1, <3>2, Parted DEF UnderWay
    <3>5. UnderWay(ui', msg)
      <4>1. \A j \in DOMAIN ui.messages :
              ui.messages[j].id[1] = "reply" /\ ui.messages[j].id[2] = msg => ui.messages[j].id[3] <= k
        BY <2>2, <3>1 DEF UnderWay, Numbered, Ids
      <4> QED BY <2>2, <3>3, <3>4, <4>1, OpensUnderWay
    <3>6. Numbered(ui', msg)
      <4>1. id \in Ids /\ id[2] <= msg /\ msg <= msg
        BY <2>2, <3>3 DEF Ids
      <4> QED BY <2>2, <3>3, <3>4, <4>1, ArrivesNumbered DEF Opens
    <3>7. TypeInv'
      BY <1>2, <2>1 DEF ConvInv, TypeInv
    <3>8. UiInv'
      BY <1>2, <3>4, <3>5, <3>6 DEF UiInv, Opens
    <3>9. CallsInv'
      BY <1>2, <3>4, ArrivesKeeps, CallsKept DEF ConvInv, Opens
    <3>10. PendInv'
      BY <1>2 DEF ConvInv, PendInv, Loop, Ahead, AreAhead
    <3>11. StreamInv'
      BY <1>2, <2>2, <3>4 DEF ConvInv, StreamInv, Opens
    <3>12. Persists(ui, ui')
      BY <3>4, ArrivesPersists DEF Opens
    <3> QED BY <3>7, <3>8, <3>9, <3>10, <3>11, <3>12 DEF ConvInv
  <2> QED BY <2>3, <2>4
<1> QED BY <1>3, <1>4

LEMMA SendStep ==
  ASSUME ConvInv, NEW text, Send(text)
  PROVE  ConvInv' /\ Persists(ui, ui')
<1>1. /\ phase = "idle" /\ phase' = "sent" /\ turn' = turn + 1
      /\ UNCHANGED <<msg, pending, call, failed>>
  BY DEF Send, sdkVars
<1>2. PICK id : id = <<"user", turn', 0>>
  OBVIOUS
<1>3. PICK M : M = Append(ui.messages, Message(id, "user", text))
  OBVIOUS
<1>4. ui' = [ui EXCEPT !.isStreaming = TRUE, !.error = FALSE,
                       !.questions = [t \in DOMAIN @ |-> TRUE], !.messages = M]
  BY <1>2, <1>3 DEF Send
<1>5. /\ DOMAIN ui' = Fields /\ ui'.messages = M /\ ui'.isStreaming = TRUE
      /\ ui'.currentMessage = ui.currentMessage /\ ui'.toolCalls = ui.toolCalls
  BY <1>4, FieldNames DEF ConvInv, UiInv, IsState
<1>6. IsMessages(ui'.messages) /\ Arrives(ui, ui', id)
  BY <1>3, <1>5, Arrived DEF ConvInv, UiInv
<1>7. TypeInv'
  BY <1>1 DEF ConvInv, TypeInv
<1>8. Numbered(ui', msg)
  <2>1. id \in Ids /\ id[1] # "reply" /\ msg \in Nat /\ msg <= msg
    BY <1>1, <1>2 DEF Ids, ConvInv, TypeInv
  <2> QED BY <1>6, <2>1, ArrivesNumbered DEF ConvInv, UiInv
<1>9. UiInv'
  BY <1>1, <1>5, <1>6, <1>8 DEF ConvInv, UiInv, IsState
<1>10. CallsInv'
  BY <1>1, <1>6, ArrivesKeeps, CallsKept DEF ConvInv
<1>11. PendInv'
  BY <1>1 DEF ConvInv, PendInv, AwaitResult
<1>12. StreamInv'
  BY <1>1, <1>5 DEF StreamInv
<1> QED BY <1>6, <1>7, <1>9, <1>10, <1>11, <1>12, ArrivesPersists DEF ConvInv

\* A message starts, under the next number.
LEMMA MessageStarts ==
  ASSUME NEW s, IsState(s), NEW n \in Nat, Numbered(s, n),
         NEW e, e.type = "message_start", e.id = Reply(n + 1),
         NEW t, t = agentEventReducer(s, e)
  PROVE  /\ IsState(t) /\ Numbered(t, n + 1) /\ UnderWay(t, n + 1)
         /\ t.isStreaming = s.isStreaming /\ Persists(s, t) /\ \A x : Kept(s, t, x)
<1>1. PICK m \in Nat : m = n + 1
  OBVIOUS
<1>2. Reply(m) = <<"reply", m, 0>> /\ Reply(m) \in Ids
  BY DEF Reply, Ids
<1>3. \A j \in DOMAIN s.messages : s.messages[j].id # Reply(m)
  BY <1>1, NewReply
<1>4. ~HasMessage(s, e.id) /\ t = message_start(s, e)
  BY <1>1, <1>3, Arms DEF HasMessage
<1>5. Opens(s, t, Reply(m)) /\ t.original = Reply(m) /\ t.continuationCount = 0
  BY <1>1, <1>4, Started
<1>6. Numbered(t, m)
  <2>1. Reply(m)[2] <= m /\ n <= m
    BY <1>1, <1>2
  <2> QED BY <1>1, <1>2, <1>3, <1>5, <2>1, ArrivesNumbered DEF Opens
<1>7. UnderWay(t, m)
  <2>1. \A j \in DOMAIN s.messages :
          ~(s.messages[j].id[1] = "reply" /\ s.messages[j].id[2] = m)
    BY <1>1 DEF Numbered, Ids
  <2>2. PICK k \in Nat : k = 0
    OBVIOUS
  <2>3. Opens(s, t, <<"reply", m, k>>) /\ t.continuationCount = k
    BY <1>2, <1>5, <2>2
  <2>4. \A j \in DOMAIN s.messages :
          /\ s.messages[j].id # <<"reply", m, k>>
          /\ s.messages[j].id[1] = "reply" /\ s.messages[j].id[2] = m => s.messages[j].id[3] <= k
    BY <1>2, <1>3, <2>1, <2>2
  <2> QED BY <1>1, <1>5, <2>2, <2>3, <2>4, OpensUnderWay
<1>8. Persists(s, t) /\ \A x : Kept(s, t, x)
  BY <1>5, ArrivesKeeps, ArrivesPersists DEF Opens
<1> QED BY <1>1, <1>5, <1>6, <1>7, <1>8 DEF Opens

LEMMA StartTurnStep ==
  ASSUME ConvInv, NEW slides \in 0..1, StartTurn(slides)
  PROVE  ConvInv' /\ Persists(ui, ui')
<1>1. /\ phase = "sent" /\ phase' = "loop" /\ msg' = msg + 1 /\ pending' = <<>>
      /\ UNCHANGED <<turn, call, failed>>
  BY DEF StartTurn, Emit
<1>2. PICK a : a = Event("message_start", <<>>, [id |-> Reply(msg')])
  OBVIOUS
<1>3. PICK b : b = Event("activity_update", <<>>, [phase |-> "processing"])
  OBVIOUS
<1>4. PICK c : c = Event("artifact_registered", <<>>, [path |-> Slide, kind |-> "image"])
  OBVIOUS
<1>5. /\ a.type = "message_start" /\ a.id = Reply(msg + 1)
      /\ b.type \in QuietTypes /\ c.type \in QuietTypes
  BY <1>1, <1>2, <1>3, <1>4, EventIs DEF QuietTypes, AsideTypes
<1>6. PICK u : u = agentEventReducer(ui, a)
  OBVIOUS
<1>7. /\ IsState(u) /\ Numbered(u, msg') /\ UnderWay(u, msg')
      /\ u.isStreaming = ui.isStreaming /\ Persists(ui, u) /\ \A x : Kept(ui, u, x)
  BY <1>1, <1>5, <1>6, MessageStarts DEF ConvInv, TypeInv, UiInv
<1>8. Same(u, ui')
  <2>1. CASE slides = 0
    <3>1. ui' = Reduced(ui, <<a>> \o <<>>)
      BY <1>2, <2>1 DEF StartTurn, Emit, SlideEvents, Say
    <3>2. Reduced(ui, <<a>> \o <<>>) = u
      BY <1>6, OneEvent, ReducedThen, ReducedOne, ReducedNone
    <3> QED BY <1>7, <3>1, <3>2, SameItself
  <2>2. CASE slides = 1
    <3>1. ui' = Reduced(ui, <<a>> \o (<<b>> \o <<c>>))
      BY <1>2, <1>3, <1>4, <2>2 DEF StartTurn, Emit, SlideEvents, Say, Activity
    <3>2. PICK v : v = agentEventReducer(u, b)
      OBVIOUS
    <3>3. ui' = agentEventReducer(v, c)
      BY <1>6, <3>1, <3>2, OneEvent, ReducedThen, ReducedOne
    <3>4. Same(u, v)
      BY <1>5, <1>7, <3>2, Quiet DEF UnderWay
    <3>5. Same(v, ui')
      <4>1. IsState(v) /\ Coherent(v)
        BY <1>7, <3>4, SameCoherent DEF UnderWay, Same
      <4> QED BY <1>5, <3>3, <4>1, Quiet
    <3> QED BY <3>4, <3>5, SameTwice
  <2> QED BY <2>1, <2>2
<1>9. TypeInv'
  <2>1. pending' \in Seq(Tools)
    BY <1>1
  <2> QED BY <1>1, <2>1 DEF ConvInv, TypeInv
<1>10. UiInv'
  BY <1>7, <1>8, SameNumbered, SameUnderWay DEF UiInv, Same
<1>11. CallsInv'
  BY <1>1, <1>7, <1>8, SameKeeps, KeptTwice, CallsKept DEF ConvInv
<1>12. PendInv'
  <2>1. \A t : ~IsIn(pending', t)
    BY <1>1, EmptyOne DEF IsIn
  <2> QED BY <1>1, <2>1 DEF ConvInv, PendInv, AwaitResult
<1>13. StreamInv'
  BY <1>1, <1>7, <1>8 DEF ConvInv, StreamInv, Same
<1>14. Persists(ui, ui')
  BY <1>7, <1>8, SamePersists, PersistsTwice
<1> QED BY <1>9, <1>10, <1>11, <1>12, <1>13, <1>14 DEF ConvInv

----------------------------------------------------------------------------
(* Steps of a call.                                                        *)

LEMMA InMapNearby ==
  ASSUME NEW s, Coherent(s), Current(s), NEW x, HasTool(s, x), NEW status, ShownAs(s, x, status)
  PROVE  Nearby(s, x)
<1>1. PICK j \in DOMAIN s.messages : s.messages[j].id = s.currentMessage.id
  BY DEF Current
<1>2. s.messages[j].tools = s.toolCalls
  BY <1>1 DEF Coherent
<1>3. PICK k \in DOMAIN s.messages[j].tools : s.messages[j].tools[k].id = x
  BY <1>2 DEF HasTool
<1> QED BY <1>1, <1>3 DEF ShownAs, Nearby

LEMMA HiddenNotInMap ==
  ASSUME NEW s, Coherent(s), Current(s), NEW x, Hidden(s, x)
  PROVE  Nearby(s, x) /\ ~HasTool(s, x)
BY DEF Coherent, Current, Hidden, Nearby, HasTool

\* Reply n goes on, and only call x may be shown otherwise.
GoesOn(s, t, n, x) ==
  /\ IsState(t) /\ Numbered(t, n) /\ UnderWay(t, n) /\ t.isStreaming = s.isStreaming
  /\ Persists(s, t)
  /\ \A y : y # x => Kept(s, t, y) /\ (HasTool(s, y) => HasTool(t, y))

LEMMA SameGoesOn ==
  ASSUME NEW s, NEW n, NEW x, NEW u, GoesOn(s, u, n, x), NEW t, Same(u, t)
  PROVE  /\ GoesOn(s, t, n, x) /\ Kept(u, t, x)
         /\ HasTool(u, x) => HasTool(t, x)
<1>1. IsState(t) /\ Numbered(t, n) /\ UnderWay(t, n) /\ t.isStreaming = s.isStreaming
  BY SameNumbered, SameUnderWay DEF GoesOn, Same
<1>2. \A y : Kept(u, t, y) /\ (HasTool(u, y) => HasTool(t, y))
  BY SameKeeps DEF Same, HasTool
<1>3. Persists(s, t)
  BY SamePersists, PersistsTwice DEF GoesOn
<1> QED BY <1>1, <1>2, <1>3, KeptTwice DEF GoesOn

LEMMA GoesOnItself ==
  ASSUME NEW s, NEW n, NEW x, IsState(s), Numbered(s, n), UnderWay(s, n)
  PROVE  GoesOn(s, s, n, x)
BY MessagesPersist DEF GoesOn, Kept

LEMMA StartShows ==
  ASSUME NEW s, NEW n \in Nat, IsState(s), Numbered(s, n), UnderWay(s, n),
         NEW e, e.type = "tool_use_start",
         Hidden(s, e.tool) \/ (HasTool(s, e.tool) /\ ShownAs(s, e.tool, "running")),
         NEW t, t = agentEventReducer(s, e)
  PROVE  GoesOn(s, t, n, e.tool) /\ ShownAs(t, e.tool, "running") /\ HasTool(t, e.tool)
<1>1. Coherent(s) /\ Current(s) /\ Open(s) /\ OneCurrent(s) /\ t = tool_use_start(s, e)
  BY IsOpen, OnlyCurrent, Arms DEF UnderWay
<1>2. Nearby(s, e.tool) /\ (Hidden(s, e.tool) => ~HasTool(s, e.tool))
  BY <1>1, InMapNearby, HiddenNotInMap
<1>3. CASE HasTool(s, e.tool)
  <2>1. Marks(s, t, e.tool, "running")
    BY <1>1, <1>2, <1>3, CallStarts
  <2>2. ShownAs(t, e.tool, "running")
    BY <1>2, <1>3, <2>1, MarksShows
  <2>3. \A y : HasTool(s, y) => HasTool(t, y)
    BY <2>1 DEF Marks, HasTool
  <2>4. Numbered(t, n) /\ UnderWay(t, n) /\ \A y : y # e.tool => Kept(s, t, y)
    BY <2>1, MarksNumbered, MarksUnderWay, MarksKeeps
  <2>5. IsState(t) /\ t.isStreaming = s.isStreaming
    BY <2>1 DEF Marks
  <2>6. Persists(s, t)
    BY <1>2, <1>3, <2>1, MarksPersists
  <2> QED BY <1>3, <2>2, <2>3, <2>4, <2>5, <2>6 DEF GoesOn
<1>4. CASE ~HasTool(s, e.tool)
  <2>1. Adds(s, t, e.tool)
    BY <1>1, <1>2, <1>4, CallStarts
  <2>2. ShownAs(t, e.tool, "running") /\ HasTool(t, e.tool)
    BY <1>1, <1>4, <2>1, AddsShows
  <2>3. \A y : HasTool(s, y) => HasTool(t, y)
    BY <2>1 DEF Adds, Grows, HasTool
  <2>4. \A y : y # e.tool => Kept(s, t, y)
    BY <1>1, <2>1, AddsKeeps
  <2>5. Numbered(t, n) /\ UnderWay(t, n)
    BY <2>1, AddsNumbered, AddsUnderWay
  <2>6. Persists(s, t)
    BY <1>1, <2>1, AddsPersists
  <2> QED BY <2>1, <2>2, <2>3, <2>4, <2>5, <2>6 DEF GoesOn, Adds
<1> QED BY <1>3, <1>4

LEMMA EndShows ==
  ASSUME NEW s, NEW n \in Nat, IsState(s), Numbered(s, n), UnderWay(s, n),
         NEW e, e.type = "tool_use_end", NEW before, ShownAs(s, e.tool, before),
         before = "error" => e.isError,
         NEW t, t = agentEventReducer(s, e)
  PROVE  /\ GoesOn(s, t, n, e.tool)
         /\ ShownAs(t, e.tool, IF e.isError THEN "error" ELSE "complete")
<1>1. Coherent(s) /\ Current(s) /\ Open(s) /\ t = tool_use_end(s, e)
  BY IsOpen, Arms DEF UnderWay
<1>2. Nearby(s, e.tool) \/ ~HasTool(s, e.tool)
  BY <1>1, InMapNearby
<1>3. PICK status : status = IF e.isError THEN "error" ELSE "complete"
  OBVIOUS
<1>4. Marks(s, t, e.tool, status)
  BY <1>1, <1>2, <1>3, CallEnds
<1>5. ShownAs(t, e.tool, status)
  BY <1>4, MarksShows
<1>6. \A y : HasTool(s, y) => HasTool(t, y)
  BY <1>4 DEF Marks, HasTool
<1>7. Numbered(t, n) /\ UnderWay(t, n) /\ \A y : y # e.tool => Kept(s, t, y)
  BY <1>4, MarksNumbered, MarksUnderWay, MarksKeeps
<1>8. IsState(t) /\ t.isStreaming = s.isStreaming
  BY <1>4 DEF Marks
<1>9. Persists(s, t)
  BY <1>3, <1>4, MarksPersists
<1> QED BY <1>3, <1>5, <1>6, <1>7, <1>8, <1>9 DEF GoesOn

LEMMA CallStep ==
  ASSUME ConvInv, phase = "loop", NEW x \in Tools, GoesOn(ui, ui', msg, x),
         UNCHANGED <<phase, msg, turn>>,
         call' \in [Tools -> CallStates], pending' \in Seq(Tools),
         \A y \in Tools : y # x => /\ call'[y] = call[y] /\ (y \in failed' <=> y \in failed)
                                   /\ IsIn(pending', y) <=> IsIn(pending, y),
         call'[x] # "none", ShownAs(ui', x, StatusOf(x)'),
         call'[x] \in AwaitResult => IsIn(pending', x),
         call'[x] \in AreAhead => HasTool(ui', x),
         x \in failed' => call'[x] \in HaveResult
  PROVE  ConvInv' /\ Persists(ui, ui')
<1>1. TypeInv'
  BY DEF ConvInv, TypeInv
<1>2. UiInv'
  BY DEF GoesOn, UiInv
<1>3. CallsInv'
  <2> SUFFICES ASSUME NEW y \in Tools, y # x
               PROVE  IF call'[y] = "none" THEN Hidden(ui', y) ELSE ShownAs(ui', y, StatusOf(y)')
    BY DEF CallsInv
  <2>1. Kept(ui, ui', y) /\ call'[y] = call[y] /\ (y \in failed' <=> y \in failed)
    BY DEF GoesOn
  <2>2. StatusOf(y)' = StatusOf(y)
    BY <2>1 DEF StatusOf
  <2> QED BY <2>1, <2>2 DEF ConvInv, CallsInv, Kept
<1>4. PendInv'
  BY DEF ConvInv, PendInv, GoesOn
<1>5. StreamInv'
  BY DEF ConvInv, StreamInv, GoesOn
<1> QED BY <1>1, <1>2, <1>3, <1>4, <1>5 DEF ConvInv, GoesOn

LEMMA TheLoop ==
  ASSUME ConvInv, phase = "loop"
  PROVE  msg \in Nat /\ IsState(ui) /\ Numbered(ui, msg) /\ UnderWay(ui, msg)
BY DEF ConvInv, TypeInv, UiInv

\* How a call is shown before and until its message.
LEMMA BeforeItsMessage ==
  ASSUME ConvInv, NEW t \in Tools
  PROVE  /\ call[t] = "none" => Hidden(ui, t) /\ ~Pending(t)
         /\ call[t] \in AreAhead => HasTool(ui, t) /\ ShownAs(ui, t, "running")
         /\ call[t] \in AwaitResult => ShownAs(ui, t, "running") /\ Pending(t)
BY PendingIs DEF ConvInv, CallsInv, PendInv, StatusOf, AwaitResult, AreAhead, HaveResult

LEMMA Others ==
  ASSUME ConvInv, NEW t \in Tools, NEW status \in CallStates,
         call' = [call EXCEPT ![t] = status]
  PROVE  /\ call' \in [Tools -> CallStates] /\ call'[t] = status
         /\ \A y \in Tools : y # t => call'[y] = call[y]
BY DEF ConvInv, TypeInv

LEMMA AssistantStep ==
  ASSUME ConvInv, NEW t \in Tools, Assistant(t)
  PROVE  ConvInv' /\ Persists(ui, ui')
<1>1. /\ phase = "loop" /\ pending' = Append(pending, t) /\ Emit(Start(t))
      /\ UNCHANGED <<phase, msg, turn, failed>>
  BY DEF Assistant, Emit
<1>2. PICK status \in {"shown", "ready", "denied"} :
        /\ call' = [call EXCEPT ![t] = status]
        /\ call[t] \in {"none"} \cup AreAhead
  BY DEF Assistant, AreAhead
<1>3. /\ call' \in [Tools -> CallStates] /\ call'[t] = status
      /\ \A y \in Tools : y # t => call'[y] = call[y]
  BY <1>2, Others DEF CallStates
<1>4. PICK e : e = Event("tool_use_start", <<>>, [tool |-> t, name |-> kind[t]])
  OBVIOUS
<1>5. e.type = "tool_use_start" /\ e.tool = t /\ ui' = agentEventReducer(ui, e)
  BY <1>1, <1>4, ToolEvent, ReducedOne DEF Emit, Start, Say
<1>6. GoesOn(ui, ui', msg, t) /\ ShownAs(ui', t, "running")
  BY <1>1, <1>2, <1>5, TheLoop, BeforeItsMessage, StartShows
<1>7. pending \in Seq(Tools)
  BY DEF ConvInv, TypeInv
<1>8. pending' \in Seq(Tools) /\ \A y : IsIn(pending', y) <=> IsIn(pending, y) \/ y = t
  BY <1>1, <1>7, OneMore
<1>9. t \notin failed
  BY <1>2 DEF ConvInv, PendInv, AreAhead, HaveResult
<1>10. StatusOf(t)' = "running"
  BY <1>2, <1>3 DEF StatusOf, HaveResult
<1>11. status # "none" /\ status \notin AreAhead
  BY <1>2 DEF AreAhead
<1> QED BY <1>1, <1>3, <1>6, <1>8, <1>9, <1>10, <1>11, CallStep

LEMMA PreToolUseStep ==
  ASSUME ConvInv, NEW t \in Tools, PreToolUse(t)
  PROVE  ConvInv' /\ Persists(ui, ui')
<1>1. /\ phase = "loop" /\ pending' = IF Pending(t) THEN pending ELSE Append(pending, t)
      /\ UNCHANGED <<phase, msg, turn, failed>>
  BY DEF PreToolUse, Emit
<1>2. PICK status \in {"aheadDenied", "ahead", "denied", "ready"} :
        /\ call' = [call EXCEPT ![t] = status]
        /\ call[t] = "none" \/ (call[t] = "shown" /\ status \notin AreAhead)
  BY DEF PreToolUse, AreAhead
<1>3. /\ call' \in [Tools -> CallStates] /\ call'[t] = status
      /\ \A y \in Tools : y # t => call'[y] = call[y]
  BY <1>2, Others DEF CallStates
<1>4. PICK a : a = Event("tool_use_start", <<>>, [tool |-> t, name |-> kind[t]])
  OBVIOUS
<1>5. PICK b : b = Event("hook_event", <<>>, [hook |-> "pre_tool", tool |-> t])
  OBVIOUS
<1>6. a.type = "tool_use_start" /\ a.tool = t /\ b.type \in QuietTypes
  BY <1>4, <1>5, ToolEvent, EventIs DEF QuietTypes
<1>7. PICK u : u = IF Pending(t) THEN ui ELSE agentEventReducer(ui, a)
  OBVIOUS
<1>8. ui' = u \/ ui' = agentEventReducer(u, b)
  <2>1. ui' = Reduced(ui, (IF Pending(t) THEN <<>> ELSE <<a>>) \o (IF Denied(t) THEN <<>> ELSE <<b>>))
    BY <1>4, <1>5 DEF PreToolUse, Emit, Start, Say
  <2>2. CASE Pending(t)
    <3>1. ui' = Reduced(ui, <<>> \o <<>>) \/ ui' = Reduced(ui, <<>> \o <<b>>)
      BY <2>1, <2>2
    <3> QED BY <1>7, <2>2, <3>1, OneEvent, ReducedThen, ReducedNone, ReducedOne
  <2>3. CASE ~Pending(t)
    <3>1. ui' = Reduced(ui, <<a>> \o <<>>) \/ ui' = Reduced(ui, <<a>> \o <<b>>)
      BY <2>1, <2>3
    <3> QED BY <1>7, <2>3, <3>1, OneEvent, ReducedThen, ReducedNone, ReducedOne
  <2> QED BY <2>2, <2>3
<1>9. GoesOn(ui, u, msg, t) /\ ShownAs(u, t, "running")
      /\ (call[t] = "none" => HasTool(u, t))
  <2>1. CASE call[t] = "none"
    BY <1>1, <1>6, <1>7, <2>1, TheLoop, BeforeItsMessage, StartShows
  <2>2. CASE call[t] = "shown"
    BY <1>1, <1>7, <2>2, TheLoop, BeforeItsMessage, GoesOnItself DEF AwaitResult, AreAhead
  <2> QED BY <1>2, <2>1, <2>2
<1>10. Same(u, ui')
  <2>1. IsState(u) /\ Coherent(u)
    BY <1>9 DEF GoesOn, UnderWay
  <2> QED BY <1>6, <1>8, <2>1, Quiet, SameItself
<1>11. /\ GoesOn(ui, ui', msg, t) /\ ShownAs(ui', t, "running")
       /\ call[t] = "none" => HasTool(ui', t)
  BY <1>9, <1>10, SameGoesOn DEF Kept
<1>12. pending \in Seq(Tools)
  BY DEF ConvInv, TypeInv
<1>13. pending' \in Seq(Tools) /\ \A y : IsIn(pending', y) <=> IsIn(pending, y) \/ y = t
  BY <1>1, <1>12, OneMore, PendingIs
<1>14. t \notin failed
  BY <1>2 DEF ConvInv, PendInv, HaveResult
<1>15. StatusOf(t)' = "running" /\ status # "none"
  BY <1>2, <1>3 DEF StatusOf, HaveResult
<1>16. status \in AreAhead => HasTool(ui', t)
  BY <1>2, <1>11
<1> QED BY <1>1, <1>3, <1>11, <1>13, <1>14, <1>15, <1>16, CallStep

LEMMA MarkerIs ==
  ASSUME NEW t
  PROVE  Marker(t) = <<>> \/ \E m : m.type \in QuietTypes /\ Marker(t) = <<m>>
<1> DEFINE Quietly(type, fields) ==
      \E m : m.type \in QuietTypes /\ Say(type, fields) = <<m>>
<1>1. ASSUME NEW type \in QuietTypes, NEW fields PROVE Quietly(type, fields)
  BY EventIs DEF Say
<1>2. Marker(t) = <<>> \/ \E type \in QuietTypes : \E fields : Marker(t) = Say(type, fields)
  BY DEF Marker, QuietTypes, AsideTypes
<1> QED BY <1>1, <1>2

LEMMA PostToolUseStep ==
  ASSUME ConvInv, NEW t \in Tools, NEW isError \in BOOLEAN, PostToolUse(t, isError)
  PROVE  ConvInv' /\ Persists(ui, ui')
<1>1. /\ phase = "loop" /\ call[t] = "ready" /\ call' = [call EXCEPT ![t] = "ran"]
      /\ failed' = IF isError THEN failed \cup {t} ELSE failed
      /\ pending' = Spliced(t) /\ UNCHANGED <<phase, msg, turn>>
  BY DEF PostToolUse, Emit
<1>2. /\ call' \in [Tools -> CallStates] /\ call'[t] = "ran"
      /\ \A y \in Tools : y # t => call'[y] = call[y]
  BY <1>1, Others DEF CallStates
<1>3. PICK h : h = Event("hook_event", <<>>, [hook |-> "post_tool", tool |-> t])
  OBVIOUS
<1>4. PICK e : e = Event("tool_use_end", <<>>, [tool |-> t, isError |-> isError, marked |-> TRUE])
  OBVIOUS
<1>5. h.type \in QuietTypes /\ e.type = "tool_use_end" /\ e.tool = t /\ e.isError = isError
  BY <1>3, <1>4, EventIs DEF QuietTypes
<1>6. PICK v : v = agentEventReducer(ui, h)
  OBVIOUS
<1>7. PICK u : u = agentEventReducer(v, e)
  OBVIOUS
<1>8. ui' = u \/ \E m : m.type \in QuietTypes /\ ui' = agentEventReducer(u, m)
  <2>1. PICK a : a = <<h>> \o <<e>>
    OBVIOUS
  <2>2. ui' = Reduced(ui, a \o (IF isError THEN <<>> ELSE Marker(t)))
    BY <1>3, <1>4, <2>1 DEF PostToolUse, Emit, End, Say
  <2>3. Sequential(a) /\ Reduced(ui, a) = u
    BY <1>6, <1>7, <2>1, OneEvent, ReducedThen, ReducedOne
  <2>4. Reduced(ui, a \o <<>>) = u
    BY <2>3, OneEvent, ReducedThen, ReducedNone
  <2>5. ASSUME NEW m PROVE Reduced(ui, a \o <<m>>) = agentEventReducer(u, m)
    BY <2>3, OneEvent, ReducedThen, ReducedOne
  <2> QED BY <2>2, <2>4, <2>5, MarkerIs
<1>9. Same(ui, v)
  BY <1>1, <1>5, <1>6, TheLoop, Quiet DEF UnderWay
<1>10. GoesOn(ui, v, msg, t) /\ ShownAs(v, t, "running")
  BY <1>1, <1>9, TheLoop, GoesOnItself, SameGoesOn, BeforeItsMessage, SameKeeps
     DEF AwaitResult, Kept
<1>11. PICK status : status = IF isError THEN "error" ELSE "complete"
  OBVIOUS
<1>12. GoesOn(v, u, msg, t) /\ ShownAs(u, t, status)
  BY <1>1, <1>5, <1>7, <1>10, <1>11, TheLoop, EndShows DEF GoesOn
<1>13. GoesOn(ui, u, msg, t)
  BY <1>10, <1>12, KeptTwice, PersistsTwice DEF GoesOn
<1>14. Same(u, ui')
  BY <1>8, <1>13, Quiet, SameItself DEF GoesOn, UnderWay
<1>15. GoesOn(ui, ui', msg, t) /\ ShownAs(ui', t, status)
  BY <1>12, <1>13, <1>14, SameGoesOn DEF Kept
<1>16. pending \in Seq(Tools) /\ t \notin failed
  BY <1>1 DEF ConvInv, TypeInv, PendInv, HaveResult
<1>17. pending' \in Seq(Tools) /\ \A y : y # t => (IsIn(pending', y) <=> IsIn(pending, y))
  BY <1>1, <1>16, SplicedKeeps
<1>18. StatusOf(t)' = status
  BY <1>1, <1>2, <1>11, <1>16 DEF StatusOf, HaveResult
<1>19. "ran" \notin AwaitResult /\ "ran" \notin AreAhead /\ "ran" \in HaveResult
  BY DEF AwaitResult, AreAhead, HaveResult
<1>20. \A y \in Tools : y # t => (y \in failed' <=> y \in failed)
  BY <1>1
<1> QED BY <1>1, <1>2, <1>15, <1>17, <1>18, <1>19, <1>20, CallStep

LEMMA UserStep ==
  ASSUME ConvInv, NEW t \in Tools, User(t)
  PROVE  ConvInv' /\ Persists(ui, ui')
<1>1. /\ phase = "loop" /\ ~Ahead /\ call[t] \in {"shown", "denied", "ready", "ran"}
      /\ failed' = IF call[t] = "ran" THEN failed ELSE failed \cup {t}
      /\ call' = [call EXCEPT ![t] = "settled"]
      /\ pending' = Spliced(t) /\ msg' = msg + 1 /\ UNCHANGED <<phase, turn>>
  BY DEF User, Loop, Emit
<1>2. /\ call' \in [Tools -> CallStates] /\ call'[t] = "settled"
      /\ \A y \in Tools : y # t => call'[y] = call[y]
  BY <1>1, Others DEF CallStates
<1>3. PICK a : a = Event("tool_use_end", <<>>, [tool |-> t, isError |-> t \in failed', marked |-> FALSE])
  OBVIOUS
<1>4. PICK b : b = Event("message_end", <<>>, <<>>)
  OBVIOUS
<1>5. PICK c : c = Event("message_start", <<>>, [id |-> Reply(msg')])
  OBVIOUS
<1>6. /\ a.type = "tool_use_end" /\ a.tool = t /\ a.isError = (t \in failed')
      /\ b.type = "message_end" /\ c.type = "message_start" /\ c.id = Reply(msg + 1)
  BY <1>1, <1>3, <1>4, <1>5, EventIs
<1>7. PICK u : u = IF Pending(t) THEN agentEventReducer(ui, a) ELSE ui
  OBVIOUS
<1>8. PICK v : v = agentEventReducer(u, b)
  OBVIOUS
<1>9. ui' = agentEventReducer(v, c)
  <2>1. PICK ended : ended = IF Pending(t) THEN <<a>> ELSE <<>>
    OBVIOUS
  <2>2. ui' = Reduced(ui, (ended \o <<b>>) \o <<c>>)
    BY <1>3, <1>4, <1>5, <2>1 DEF User, Emit, End, Say
  <2>3. Sequential(ended) /\ Reduced(ui, ended) = u
    BY <1>7, <2>1, OneEvent, ReducedOne, ReducedNone
  <2>4. Sequential(ended \o <<b>>) /\ Reduced(ui, ended \o <<b>>) = v
    BY <1>8, <2>3, OneEvent, ReducedThen, ReducedOne
  <2> QED BY <2>2, <2>4, OneEvent, ReducedThen, ReducedOne
<1>10. PICK status : status = IF t \in failed' THEN "error" ELSE "complete"
  OBVIOUS
<1>11. GoesOn(ui, u, msg, t) /\ ShownAs(u, t, status)
  <2>1. CASE Pending(t)
    <3>1. ShownAs(ui, t, StatusOf(t)) /\ (StatusOf(t) = "error" => t \in failed')
      BY <1>1 DEF ConvInv, CallsInv, StatusOf
    <3> QED BY <1>1, <1>6, <1>7, <1>10, <2>1, <3>1, TheLoop, EndShows
  <2>2. CASE ~Pending(t)
    <3>1. call[t] = "ran" /\ failed' = failed
      BY <1>1, <2>2, BeforeItsMessage DEF AwaitResult
    <3>2. ShownAs(ui, t, status)
      BY <1>10, <3>1 DEF ConvInv, CallsInv, StatusOf, HaveResult
    <3> QED BY <1>1, <1>7, <2>2, <3>2, TheLoop, GoesOnItself
  <2> QED BY <2>1, <2>2
<1>12. /\ IsState(v) /\ v.messages = u.messages /\ v.isStreaming = ui.isStreaming
       /\ Numbered(v, msg)
  BY <1>6, <1>8, <1>11, Arms, Ended DEF GoesOn, Numbered
<1>13. /\ IsState(ui') /\ Numbered(ui', msg') /\ UnderWay(ui', msg')
       /\ ui'.isStreaming = v.isStreaming /\ Persists(v, ui') /\ \A x : Kept(v, ui', x)
  BY <1>1, <1>6, <1>9, <1>12, MessageStarts, TheLoop
<1>14. \A x : Kept(u, ui', x)
  BY <1>12, <1>13, MessagesKeep, KeptTwice
<1>15. ShownAs(ui', t, status) /\ StatusOf(t)' = status
  BY <1>2, <1>10, <1>11, <1>14 DEF Kept, StatusOf, HaveResult
<1>16. CallsInv'
  <2> SUFFICES ASSUME NEW y \in Tools, y # t
               PROVE  IF call'[y] = "none" THEN Hidden(ui', y) ELSE ShownAs(ui', y, StatusOf(y)')
    BY <1>2, <1>15 DEF CallsInv
  <2>1. Kept(ui, ui', y)
    BY <1>11, <1>14, KeptTwice DEF GoesOn
  <2>2. call'[y] = call[y] /\ (y \in failed' <=> y \in failed)
    BY <1>1, <1>2
  <2>3. StatusOf(y)' = StatusOf(y)
    BY <2>2 DEF StatusOf
  <2> QED BY <2>1, <2>2, <2>3 DEF ConvInv, CallsInv, Kept
<1>17. pending \in Seq(Tools)
  BY DEF ConvInv, TypeInv
<1>18. pending' \in Seq(Tools) /\ \A y : y # t => (IsIn(pending', y) <=> IsIn(pending, y))
  BY <1>1, <1>17, SplicedKeeps
<1>19. PendInv'
  <2>1. \A y \in Tools : call[y] \notin AreAhead
    BY <1>1 DEF Ahead, AreAhead
  <2>2. "settled" \notin AwaitResult /\ "settled" \notin AreAhead /\ "settled" \in HaveResult
    BY DEF AwaitResult, AreAhead, HaveResult
  <2>3. \A y \in Tools : y # t => (y \in failed' <=> y \in failed)
    BY <1>1
  <2> QED BY <1>1, <1>2, <1>18, <2>1, <2>2, <2>3 DEF ConvInv, PendInv
<1>20. TypeInv'
  BY <1>1, <1>2, <1>18 DEF ConvInv, TypeInv
<1>21. UiInv'
  BY <1>13 DEF UiInv
<1>22. StreamInv'
  BY <1>1, <1>12, <1>13 DEF ConvInv, StreamInv
<1>23. Persists(ui, ui')
  BY <1>11, <1>12, <1>13, MessagesPersist, PersistsTwice DEF GoesOn
<1> QED BY <1>16, <1>19, <1>20, <1>21, <1>22, <1>23 DEF ConvInv

\* The turn is over, whatever was shown before query_complete.
LEMMA StoppedStep ==
  ASSUME ConvInv, phase = "loop", phase' = "idle", turn' = turn, Stopped,
         NEW u, IsState(u), u.messages = ui.messages,
         NEW e, e.type = "query_complete", e.id = <<"result", turn, 0>>,
         ui' = agentEventReducer(u, e)
  PROVE  ConvInv' /\ Persists(ui, ui')
<1>1. /\ call' = [t \in Tools |-> IF call[t] \in {"none", "settled"} THEN call[t]
                                  ELSE IF call[t] = "ran" THEN "settled" ELSE "left"]
      /\ UNCHANGED <<msg, pending, failed>>
  BY DEF Stopped, turnVars
<1>2. /\ IsState(ui') /\ ui'.isStreaming = FALSE /\ ui'.activity = "none"
      /\ ui'.messages = u.messages \/ Arrives(u, ui', <<"result", turn, 0>>)
  <2>1. ui' = query_complete(u, e)
    BY Arms
  <2>2. /\ IsState(ui') /\ ui'.isStreaming = FALSE /\ ui'.activity = "none"
        /\ ui'.messages = u.messages \/ Arrives(u, ui', e.id)
    BY <2>1, Completed
  <2> QED BY <2>2
<1>3. Numbered(u, msg) /\ msg \in Nat /\ turn \in Nat
  BY DEF ConvInv, UiInv, TypeInv, Numbered
<1>4. Numbered(ui', msg)
  <2>1. CASE ui'.messages = u.messages
    BY <1>3, <2>1 DEF Numbered
  <2>2. CASE Arrives(u, ui', <<"result", turn, 0>>)
    <3>1. PICK id : id = <<"result", turn, 0>>
      OBVIOUS
    <3>2. id \in Ids /\ id[1] # "reply" /\ msg <= msg
      BY <1>3, <3>1 DEF Ids
    <3> QED BY <1>3, <2>2, <3>1, <3>2, ArrivesNumbered
  <2> QED BY <1>2, <2>1, <2>2
<1>5. \A x : Kept(ui, ui', x)
  BY <1>2, MessagesKeep, ArrivesKeeps, KeptTwice
<1>6. TypeInv'
  BY <1>1 DEF ConvInv, TypeInv, CallStates
<1>7. UiInv'
  BY <1>1, <1>2, <1>4 DEF UiInv
<1>8. CallsInv'
  <2> SUFFICES ASSUME NEW y \in Tools
               PROVE  IF call'[y] = "none" THEN Hidden(ui', y) ELSE ShownAs(ui', y, StatusOf(y)')
    BY DEF CallsInv
  <2>1. StatusOf(y)' = StatusOf(y) /\ (call'[y] = "none" <=> call[y] = "none")
    BY <1>1 DEF StatusOf, HaveResult
  <2> QED BY <1>5, <2>1 DEF ConvInv, CallsInv, Kept
<1>9. PendInv'
  BY <1>1 DEF ConvInv, PendInv, AwaitResult, AreAhead, HaveResult
<1>10. StreamInv'
  BY <1>2 DEF StreamInv
<1>11. Persists(ui, ui')
  BY <1>2, MessagesPersist, ArrivesPersists, PersistsTwice
<1> QED BY <1>6, <1>7, <1>8, <1>9, <1>10, <1>11 DEF ConvInv

LEMMA ResultStep ==
  ASSUME ConvInv, NEW text, Result(text)
  PROVE  ConvInv' /\ Persists(ui, ui')
<1>1. PICK b : b = Event("message_end", <<>>, <<>>)
  OBVIOUS
<1>2. PICK e : e = Event("query_complete", text, [id |-> <<"result", turn, 0>>])
  OBVIOUS
<1>3. b.type = "message_end" /\ e.type = "query_complete" /\ e.id = <<"result", turn, 0>>
  BY <1>1, <1>2, EventIs
<1>4. /\ phase = "loop" /\ phase' = "idle" /\ turn' = turn /\ Stopped
      /\ ui' = Reduced(ui, <<b>> \o <<e>>)
  BY <1>1, <1>2 DEF Result, Loop, Emit, Say, Complete
<1>5. PICK u : u = agentEventReducer(ui, b)
  OBVIOUS
<1>6. ui' = agentEventReducer(u, e)
  BY <1>4, <1>5, OneEvent, ReducedThen, ReducedOne
<1>7. IsState(u) /\ u.messages = ui.messages
  BY <1>3, <1>4, <1>5, Arms, Ended, TheLoop
<1> QED BY <1>3, <1>4, <1>6, <1>7, StoppedStep

LEMMA ThrowsStep ==
  ASSUME ConvInv, Throws
  PROVE  ConvInv' /\ Persists(ui, ui')
<1>1. PICK b : b = Event("error", <<>>, <<>>)
  OBVIOUS
<1>2. PICK e : e = Event("query_complete", <<>>, [id |-> <<"result", turn, 0>>])
  OBVIOUS
<1>3. b.type = "error" /\ e.type = "query_complete" /\ e.id = <<"result", turn, 0>>
  BY <1>1, <1>2, EventIs
<1>4. /\ phase = "loop" /\ phase' = "idle" /\ turn' = turn /\ Stopped
      /\ ui' = Reduced(ui, <<b>> \o <<e>>)
  BY <1>1, <1>2 DEF Throws, Emit, Say, Complete
<1>5. PICK u : u = agentEventReducer(ui, b)
  OBVIOUS
<1>6. ui' = agentEventReducer(u, e)
  BY <1>4, <1>5, OneEvent, ReducedThen, ReducedOne
<1>7. IsState(u) /\ u.messages = ui.messages
  BY <1>3, <1>4, <1>5, Arms, Failed, TheLoop
<1> QED BY <1>3, <1>4, <1>6, <1>7, StoppedStep

----------------------------------------------------------------------------
(* The theorems.                                                           *)

\* A session with its events, of a client that has not lost its stream.
Attached == phase # "legacy" /\ reconnects = 0

Inv == reconnects \in Nat /\ (Attached => ConvInv)

\* Every step of a conversation but a reconnect.
Steps ==
  \/ Send(<<0>>)
  \/ \E slides \in 0..1 : StartTurn(slides)
  \/ \E type \in {"content_delta", "thinking_delta"} : Delta(type)
  \/ Block \/ InputDelta \/ Status \/ HookResponse \/ SystemInit
  \/ \E t \in Tools : Progress(t)
  \/ \E typed \in BOOLEAN : SubagentStart(typed)
  \/ SubagentStop
  \/ \E t \in Tools : Assistant(t) \/ PreToolUse(t) \/ User(t)
  \/ \E t \in Tools, isError \in BOOLEAN : PostToolUse(t, isError)
  \/ \E text \in {<<>>, <<0>>} : Result(text)
  \/ Throws

LEMMA NextIs == Next => Steps \/ Reconnect \/ LegacyRow
BY DEF Next, Steps

LEMMA StepsAttached ==
  ASSUME Steps
  PROVE  phase # "legacy" /\ phase' # "legacy" /\ reconnects' = reconnects
<1>1. CASE Send(<<0>>)
  BY <1>1 DEF Send
<1>2. CASE \E slides \in 0..1 : StartTurn(slides)
  BY <1>2 DEF StartTurn, Emit
<1>3. CASE \E type \in {"content_delta", "thinking_delta"} : Delta(type)
  BY <1>3 DEF Delta, Loop, Emit
<1>4. ASSUME NEW e, Passing(e)
      PROVE  phase # "legacy" /\ phase' # "legacy" /\ reconnects' = reconnects
  BY <1>4 DEF Passing, Loop, Emit
<1>5. CASE Block \/ InputDelta \/ Status \/ HookResponse \/ SystemInit
           \/ (\E t \in Tools : Progress(t)) \/ (\E typed \in BOOLEAN : SubagentStart(typed))
           \/ SubagentStop
  BY <1>4, <1>5 DEF Block, InputDelta, Status, HookResponse, SystemInit, Progress, SubagentStart,
                    SubagentStop
<1>6. CASE \E t \in Tools : Assistant(t) \/ PreToolUse(t) \/ User(t)
  BY <1>6 DEF Assistant, PreToolUse, User, Loop, Emit
<1>7. CASE \E t \in Tools, isError \in BOOLEAN : PostToolUse(t, isError)
  BY <1>7 DEF PostToolUse, Emit
<1>8. CASE \E text \in {<<>>, <<0>>} : Result(text)
  BY <1>8 DEF Result, Loop, Emit
<1>9. CASE Throws
  BY <1>9 DEF Throws, Emit
<1> QED BY <1>1, <1>2, <1>3, <1>5, <1>6, <1>7, <1>8, <1>9 DEF Steps

LEMMA StepsKeep ==
  ASSUME ConvInv, Steps
  PROVE  ConvInv' /\ Persists(ui, ui')
<1>1. CASE \E t \in Tools : Assistant(t) \/ PreToolUse(t) \/ User(t)
  BY <1>1, AssistantStep, PreToolUseStep, UserStep
<1>2. CASE \E t \in Tools, isError \in BOOLEAN : PostToolUse(t, isError)
  BY <1>2, PostToolUseStep
<1>3. CASE \E type \in {"content_delta", "thinking_delta"} : Delta(type)
  BY <1>3, DeltaStep
<1>4. CASE \E slides \in 0..1 : StartTurn(slides)
  BY <1>4, StartTurnStep
<1>5. CASE Block \/ InputDelta \/ Status \/ HookResponse \/ SystemInit
           \/ (\E t \in Tools : Progress(t)) \/ (\E typed \in BOOLEAN : SubagentStart(typed))
           \/ SubagentStop
  BY <1>5, AsidesStep
<1> QED BY <1>1, <1>2, <1>3, <1>4, <1>5, SendStep, ResultStep, ThrowsStep DEF Steps

LEMMA Begins == Init => Inv
BY InitStep DEF Inv, Attached, Init

LEMMA GoesOnAlways == Inv /\ [Next]_vars => Inv'
<1> SUFFICES ASSUME Inv, [Next]_vars PROVE Inv'
  OBVIOUS
<1>1. CASE Steps
  BY <1>1, StepsAttached, StepsKeep DEF Inv, Attached
<1>2. CASE Reconnect
  BY <1>2 DEF Inv, Attached, Reconnect
<1>3. CASE LegacyRow
  BY <1>3 DEF Inv, Attached, LegacyRow
<1>4. CASE UNCHANGED vars
  BY <1>4 DEF vars, turnVars, sdkVars, Inv, Attached, ConvInv, TypeInv, UiInv, CallsInv, PendInv,
              StreamInv, StatusOf
<1> QED BY <1>1, <1>2, <1>3, <1>4, NextIs

LEMMA EntryIs ==
  ASSUME NEW t, NEW p
  PROVE  p \in Entries(t) <=>
           \E i \in DOMAIN ui.messages : \E k \in DOMAIN ui.messages[i].tools :
             ui.messages[i].tools[k].id = t /\ p = <<i, k>>
BY DEF Entries

LEMMA InvCalls == Inv /\ reconnects = 0 => CallsShownOnce
<1> SUFFICES ASSUME Inv, reconnects = 0, phase \in {"loop", "idle"}, NEW t \in Tools
             PROVE  /\ Cardinality(Entries(t)) = IF Announced(t) THEN 1 ELSE 0
                    /\ \A p \in Entries(t) :
                         ui.messages[p[1]].tools[p[2]].status =
                           CASE call[t] \in {"ran", "settled"} ->
                                  IF t \in failed THEN "error" ELSE "complete"
                             [] OTHER -> "running"
  BY Zenon DEF CallsShownOnce
<1>1. IF call[t] = "none" THEN Hidden(ui, t) ELSE ShownAs(ui, t, StatusOf(t))
  BY DEF Inv, Attached, ConvInv, CallsInv
<1>2. CASE call[t] = "none"
  <2>1. Entries(t) = {}
    BY <1>1, <1>2, EntryIs DEF Hidden
  <2> QED BY <1>2, <2>1, FS_EmptySet DEF Announced
<1>3. CASE call[t] # "none"
  <2>1. PICK i \in DOMAIN ui.messages : \E k \in DOMAIN ui.messages[i].tools :
          /\ ui.messages[i].tools[k].id = t /\ ui.messages[i].tools[k].status = StatusOf(t)
          /\ \A j \in DOMAIN ui.messages : \A l \in DOMAIN ui.messages[j].tools :
               ui.messages[j].tools[l].id = t => j = i /\ l = k
    BY <1>1, <1>3 DEF ShownAs
  <2>2. PICK k \in DOMAIN ui.messages[i].tools :
          /\ ui.messages[i].tools[k].id = t /\ ui.messages[i].tools[k].status = StatusOf(t)
          /\ \A j \in DOMAIN ui.messages : \A l \in DOMAIN ui.messages[j].tools :
               ui.messages[j].tools[l].id = t => j = i /\ l = k
    BY <2>1
  <2>3. PICK p : p = <<i, k>>
    OBVIOUS
  <2>4. Entries(t) = {p}
    BY <2>2, <2>3, EntryIs
  <2>5. Cardinality(Entries(t)) = 1
    BY <2>4, FS_Singleton
  <2>6. StatusOf(t) = CASE call[t] \in {"ran", "settled"} ->
                             IF t \in failed THEN "error" ELSE "complete"
                        [] OTHER -> "running"
    BY DEF StatusOf, HaveResult
  <2> QED BY <1>3, <2>2, <2>3, <2>4, <2>5, <2>6 DEF Announced
<1> QED BY <1>2, <1>3

(***************************************************************************)
(* A tool call is shown once, from its announcement on, as running until   *)
(* it has its result and never after, for any calls that run side by side, *)
(* whatever is written between them, as long as the client has not had to  *)
(* attach to a turn again.                                                 *)
(***************************************************************************)
THEOREM CallsAlwaysShownOnce == Spec => [](reconnects = 0 => CallsShownOnce)
<1> QED BY Begins, GoesOnAlways, InvCalls, PTL DEF Spec

----------------------------------------------------------------------------
(* Text that an event leaves alone.                                        *)

MessageFields == {"id", "role", "text", "thinking", "tools", "paths"}

WithText(s) ==
  /\ DOMAIN s = Fields /\ Sequential(s.messages)
  /\ \A j \in DOMAIN s.messages : DOMAIN s.messages[j] = MessageFields

Reads(m, n) == m.id = n.id /\ m.role = n.role /\ m.text = n.text /\ m.thinking = n.thinking

\* The same text in the same messages.
Steady(s, t) ==
  /\ WithText(t)
  /\ DOMAIN t.messages = DOMAIN s.messages
  /\ \A j \in DOMAIN s.messages : Reads(t.messages[j], s.messages[j])

\* The same, and the current message is as it was.
Still(s, t) == Steady(s, t) /\ t.currentMessage = s.currentMessage

LEMMA StateWithText ==
  ASSUME NEW s, IsState(s)
  PROVE  WithText(s)
BY DEF IsState, IsMessages, IsMessage, WithText, MessageFields

LEMMA SteadyTwice ==
  ASSUME NEW s, NEW t, NEW u, Steady(s, t), Steady(t, u)
  PROVE  Steady(s, u)
BY DEF Steady, Reads

LEMMA StillTwice ==
  ASSUME NEW s, NEW t, NEW u, Still(s, t), Still(t, u)
  PROVE  Still(s, u)
BY SteadyTwice DEF Still

LEMMA Untouched ==
  ASSUME NEW s, WithText(s), NEW t, DOMAIN t = DOMAIN s, t.messages = s.messages
  PROVE  Steady(s, t)
BY DEF WithText, Steady, Reads

LEMMA Redrawn ==
  ASSUME NEW s, WithText(s), NEW u, DOMAIN u = Fields, NEW M, M = [j \in DOMAIN s.messages |-> M[j]],
         \A j \in DOMAIN s.messages : DOMAIN M[j] = MessageFields /\ Reads(M[j], s.messages[j]),
         NEW t, t = [u EXCEPT !.messages = M]
  PROVE  Steady(s, t) /\ t.currentMessage = u.currentMessage
<1>1. DOMAIN t = Fields /\ t.messages = M /\ t.currentMessage = u.currentMessage
  BY FieldNames
<1>2. Sequential(M) /\ DOMAIN M = DOMAIN s.messages
  BY Mapped DEF WithText
<1> QED BY <1>1, <1>2 DEF WithText, Steady

LEMMA RefreshedStill ==
  ASSUME NEW s, WithText(s)
  PROVE  Still(s, updateToolCallsOnMessages(s))
<1>1. CASE ~Open(s)
  BY <1>1, Untouched DEF Still, updateToolCallsOnMessages
<1>2. CASE Open(s)
  <2> DEFINE M == [j \in DOMAIN s.messages |->
                     IF s.messages[j].id = s.currentMessage.id
                       THEN [s.messages[j] EXCEPT !.tools = s.toolCalls] ELSE s.messages[j]]
  <2>1. updateToolCallsOnMessages(s) = [s EXCEPT !.messages = M]
    BY <1>2 DEF updateToolCallsOnMessages, OnMessage
  <2>2. \A j \in DOMAIN s.messages : DOMAIN M[j] = MessageFields /\ Reads(M[j], s.messages[j])
    BY DEF WithText, MessageFields, Reads
  <2>3. M = [j \in DOMAIN s.messages |-> M[j]] /\ DOMAIN s = Fields
    BY DEF WithText
  <2> HIDE DEF M
  <2> QED BY <2>1, <2>2, <2>3, Redrawn DEF Still
<1> QED BY <1>1, <1>2

\* Other fields, and then the calls of the current message.
LEMMA ThenRefreshed ==
  ASSUME NEW s, WithText(s), NEW u, DOMAIN u = DOMAIN s, u.messages = s.messages,
         u.currentMessage = s.currentMessage
  PROVE  Still(s, updateToolCallsOnMessages(u))
<1>1. Still(s, u) /\ WithText(u)
  BY Untouched DEF Still, Steady
<1> QED BY <1>1, RefreshedStill, StillTwice

LEMMA StartStill ==
  ASSUME NEW s, WithText(s), NEW e
  PROVE  Still(s, tool_use_start(s, e))
<1>1. PICK calls : calls = SetById(s.toolCalls, [id |-> e.tool, name |-> e.name, status |-> "running"])
  OBVIOUS
<1>2. PICK u : u = [s EXCEPT !.hasActiveToolCalls = TRUE, !.toolInput = <<>>, !.activity = "tool",
                             !.toolCalls = calls]
  OBVIOUS
<1>3. DOMAIN u = DOMAIN s /\ u.messages = s.messages /\ u.currentMessage = s.currentMessage
  BY <1>2, FieldNames DEF WithText
<1>4. tool_use_start(s, e) = updateToolCallsOnMessages(u)
  BY <1>1, <1>2 DEF tool_use_start
<1> QED BY <1>3, <1>4, ThenRefreshed

LEMMA EndStill ==
  ASSUME NEW s, WithText(s), NEW e
  PROVE  Still(s, tool_use_end(s, e))
<1>1. PICK status : status = IF e.isError THEN "error" ELSE "complete"
  OBVIOUS
<1>2. CASE ~HasTool(s, e.tool)
  <2> DEFINE M == [j \in DOMAIN s.messages |-> WithStatus(s.messages[j], e.tool, status)]
  <2>1. tool_use_end(s, e) = [s EXCEPT !.messages = M]
    BY <1>1, <1>2 DEF tool_use_end, updateToolInMessages
  <2>2. \A j \in DOMAIN s.messages : DOMAIN M[j] = MessageFields /\ Reads(M[j], s.messages[j])
    BY DEF WithText, MessageFields, Reads, WithStatus
  <2>3. M = [j \in DOMAIN s.messages |-> M[j]] /\ DOMAIN s = Fields
    BY DEF WithText
  <2> HIDE DEF M
  <2> QED BY <2>1, <2>2, <2>3, Redrawn DEF Still
<1>3. CASE HasTool(s, e.tool)
  <2>1. PICK calls : calls = SetById(s.toolCalls, [ToolCall(s, e.tool) EXCEPT !.status = status])
    OBVIOUS
  <2>2. PICK u : u = [s EXCEPT !.toolCalls = calls]
    OBVIOUS
  <2>3. DOMAIN u = DOMAIN s /\ u.messages = s.messages /\ u.currentMessage = s.currentMessage
    BY <2>2, FieldNames DEF WithText
  <2>4. PICK t : t = updateToolCallsOnMessages(u)
    OBVIOUS
  <2>5. Still(s, t)
    BY <2>3, <2>4, ThenRefreshed
  <2>6. PICK activity :
          tool_use_end(s, e) = SelfParse([t EXCEPT !.activity = activity], e, ToolCall(s, e.tool).name)
    BY <1>1, <1>3, <2>1, <2>2, <2>4, Zenon DEF tool_use_end
  <2>7. PICK v : v = [t EXCEPT !.activity = activity]
    OBVIOUS
  <2>8. DOMAIN t = Fields /\ DOMAIN v = DOMAIN t /\ v.messages = t.messages
        /\ v.currentMessage = t.currentMessage
    BY <2>5, <2>7, FieldNames DEF Still, Steady, WithText
  <2>9. PICK w : w = tool_use_end(s, e)
    OBVIOUS
  <2>10. Elsewhere(v, w)
    BY <2>6, <2>7, <2>8, <2>9, Searched
  <2>11. Still(t, w)
    BY <2>5, <2>8, <2>10, Untouched DEF Elsewhere, Still, Steady
  <2> QED BY <2>5, <2>9, <2>11, StillTwice
<1> QED BY <1>2, <1>3

LEMMA HookStill ==
  ASSUME NEW s, WithText(s), NEW e
  PROVE  Still(s, hook_event(s, e))
<1>1. PICK t : t = IF HasTool(s, e.tool) THEN updateToolCallsOnMessages(s) ELSE s
  OBVIOUS
<1>2. Still(s, t)
  BY <1>1, RefreshedStill, Untouched DEF Still
<1>3. hook_event(s, e) = t \/ hook_event(s, e) = [t EXCEPT !.activity = "thinking"]
  BY <1>1 DEF hook_event
<1>4. PICK u : u = [t EXCEPT !.activity = "thinking"]
  OBVIOUS
<1>5. Still(t, u)
  <2>1. DOMAIN u = DOMAIN t /\ u.messages = t.messages /\ u.currentMessage = t.currentMessage
    BY <1>2, <1>4, FieldNames DEF Still, Steady, WithText
  <2> QED BY <1>2, <2>1, Untouched DEF Still, Steady
<1> QED BY <1>2, <1>3, <1>4, <1>5, StillTwice

LEMMA RegisterStill ==
  ASSUME NEW s, WithText(s), NEW e
  PROVE  Still(s, artifact_registered(s, e))
<1>1. PICK artifacts : artifacts = SetById(s.artifacts, [id |-> e.path, kind |-> e.kind, status |-> "live"])
  OBVIOUS
<1>2. PICK u : u = [s EXCEPT !.artifacts = artifacts]
  OBVIOUS
<1>3. DOMAIN u = Fields /\ u.messages = s.messages /\ u.currentMessage = s.currentMessage
  BY <1>2, FieldNames DEF WithText
<1>4. CASE ~Open(s)
  <2>1. artifact_registered(s, e) = u
    BY <1>1, <1>2, <1>4 DEF artifact_registered
  <2> QED BY <1>3, <2>1, Untouched DEF Still, WithText
<1>5. CASE Open(s)
  <2> DEFINE M == [j \in DOMAIN s.messages |->
                     IF s.messages[j].id = s.currentMessage.id
                       THEN [s.messages[j] EXCEPT !.paths = Append(@, e.path)] ELSE s.messages[j]]
  <2>1. artifact_registered(s, e) = [u EXCEPT !.messages = M]
    BY <1>1, <1>2, <1>3, <1>5 DEF artifact_registered, OnMessage
  <2>2. \A j \in DOMAIN s.messages : DOMAIN M[j] = MessageFields /\ Reads(M[j], s.messages[j])
    BY DEF WithText, MessageFields, Reads
  <2>3. M = [j \in DOMAIN s.messages |-> M[j]]
    OBVIOUS
  <2> HIDE DEF M
  <2> QED BY <1>3, <2>1, <2>2, <2>3, Redrawn DEF Still
<1> QED BY <1>4, <1>5

StillTypes ==
  AsideTypes \cup {"tool_progress", "hook_event", "artifact_registered", "tool_use_start",
                   "tool_use_end", "error"}

LEMMA StillEvent ==
  ASSUME NEW s, WithText(s), NEW e, e.type \in StillTypes
  PROVE  Still(s, agentEventReducer(s, e))
<1>1. CASE e.type \in AsideTypes
  BY <1>1, Aside, Untouched DEF Elsewhere, Still, WithText
<1>2. CASE e.type = "tool_progress"
  BY <1>2, Arms, RefreshedStill, Untouched DEF tool_progress, Still
<1>3. CASE e.type = "hook_event"
  BY <1>3, Arms, HookStill
<1>4. CASE e.type = "artifact_registered"
  BY <1>4, Arms, RegisterStill
<1>5. CASE e.type = "tool_use_start"
  BY <1>5, Arms, StartStill
<1>6. CASE e.type = "tool_use_end"
  BY <1>6, Arms, EndStill
<1>7. CASE e.type = "error"
  <2>1. PICK t : t = error(s)
    OBVIOUS
  <2>2. DOMAIN t = DOMAIN s /\ t.messages = s.messages /\ t.currentMessage = s.currentMessage
    BY <2>1, FieldNames DEF WithText, error
  <2> QED BY <1>7, <2>1, <2>2, Arms, Untouched DEF Still
<1> QED BY <1>1, <1>2, <1>3, <1>4, <1>5, <1>6, <1>7 DEF StillTypes

LEMMA EndSteady ==
  ASSUME NEW s, WithText(s), NEW e, e.type = "message_end"
  PROVE  Steady(s, agentEventReducer(s, e))
<1>1. PICK t : t = message_end(s)
  OBVIOUS
<1>2. DOMAIN t = DOMAIN s /\ t.messages = s.messages
  BY <1>1, FieldNames DEF WithText, message_end
<1> QED BY <1>1, <1>2, Arms, Untouched

\* Events that leave all text alone.
Leaving(events) ==
  Sequential(events) /\ \A s : WithText(s) => Still(s, Reduced(s, events))

LEMMA LeavingOne ==
  ASSUME NEW e, e.type \in StillTypes
  PROVE  Leaving(<<e>>)
BY OneEvent, ReducedOne, StillEvent DEF Leaving

LEMMA LeavingNone == Leaving(<<>>)
BY OneEvent, ReducedNone, Untouched DEF Leaving, Still

LEMMA LeavingBoth ==
  ASSUME NEW a, NEW b, Leaving(a), Leaving(b)
  PROVE  Leaving(a \o b)
<1>1. ASSUME NEW s, WithText(s) PROVE Still(s, Reduced(s, a \o b))
  <2>1. Still(s, Reduced(s, a))
    BY <1>1 DEF Leaving
  <2>2. Still(Reduced(s, a), Reduced(Reduced(s, a), b))
    BY <2>1 DEF Leaving, Still, Steady
  <2> QED BY <2>1, <2>2, ReducedThen, StillTwice DEF Leaving
<1> QED BY <1>1, ReducedThen DEF Leaving

----------------------------------------------------------------------------
(* Where the pieces are shown.                                             *)

Triples == Nat \X Nat \X Nat

\* The pieces up to n are at these places, of text and of thinking, in order.
Told(T, H, n) ==
  /\ T \subseteq Triples /\ H \subseteq Triples
  /\ Ascending(T) /\ Ascending(H)
  /\ {p[3] : p \in T \cup H} = 1..n

LEMMA ToldMore ==
  ASSUME NEW n \in Nat, NEW T, NEW H, Told(T, H, n), NEW j \in Nat, NEW k \in Nat,
         NEW q, q = <<j, k, n + 1>>, \A p \in T : Before(p, q)
  PROVE  Told(T \cup {q}, H, n + 1)
<1>1. q \in Triples /\ q[1] = j /\ q[2] = k /\ q[3] = n + 1
  BY DEF Triples
<1>2. \A p \in T \cup H : p \in Triples /\ p[3] \in 1..n
  BY DEF Told
<1>3. \A p \in Triples : p[1] \in Nat /\ p[2] \in Nat /\ p[3] \in Nat
  BY DEF Triples
<1>4. \A p \in T : p[3] < q[3] /\ ~Before(q, p)
  BY <1>1, <1>2, <1>3 DEF Before
<1>5. ~Before(q, q)
  BY <1>1 DEF Before
<1>6. Ascending(T \cup {q})
  BY <1>4, <1>5 DEF Told, Ascending
<1>7. {p[3] : p \in (T \cup {q}) \cup H} = 1..(n + 1)
  <2>1. {p[3] : p \in (T \cup {q}) \cup H} = {p[3] : p \in T \cup H} \cup {q[3]}
    OBVIOUS
  <2>2. 1..(n + 1) = 1..n \cup {n + 1}
    OBVIOUS
  <2> QED BY <1>1, <2>1, <2>2 DEF Told
<1> QED BY <1>1, <1>6, <1>7 DEF Told

LEMMA ToldEither ==
  ASSUME NEW n, NEW T, NEW H, Told(T, H, n)
  PROVE  Told(H, T, n)
<1>1. T \cup H = H \cup T
  OBVIOUS
<1> QED BY <1>1 DEF Told

Spoke == {"text", "thinking"}

LEMMA ShownIs ==
  ASSUME NEW s, NEW field, NEW q
  PROVE  q \in Shown(s, field) <=>
           \E j \in DOMAIN s.messages : \E k \in DOMAIN s.messages[j][field] :
             s.messages[j].role = "assistant" /\ q = <<j, k, s.messages[j][field][k]>>
BY DEF Shown

LEMMA SteadyShown ==
  ASSUME NEW s, NEW t, Steady(s, t)
  PROVE  Spoken(t) = Spoken(s) /\ Thought(t) = Thought(s)
<1>1. \A q : q \in Shown(t, "text") <=> q \in Shown(s, "text")
  BY ShownIs DEF Steady, Reads
<1>2. \A q : q \in Shown(t, "thinking") <=> q \in Shown(s, "thinking")
  BY ShownIs DEF Steady, Reads
<1> QED BY <1>1, <1>2 DEF Spoken, Thought

Legible(s) ==
  \A j \in DOMAIN s.messages :
    s.messages[j].text \in Seq(Nat) /\ s.messages[j].thinking \in Seq(Nat)

\* What is written so far.
Written(s, n) == WithText(s) /\ Legible(s) /\ Told(Spoken(s), Thought(s), n)

\* The current message is the last, and has the text that it is to go on with.
InHand(s) ==
  \E j \in DOMAIN s.messages :
    /\ \A i \in DOMAIN s.messages : i <= j
    /\ \A i \in DOMAIN s.messages : s.messages[i].id = s.currentMessage.id <=> i = j
    /\ s.messages[j].role = "assistant" /\ s.messages[j].text = s.currentMessage.text

LEMMA SteadyWritten ==
  ASSUME NEW s, NEW t, NEW n, Steady(s, t), Written(s, n)
  PROVE  Written(t, n)
BY SteadyShown DEF Written, Legible, Steady, Reads

LEMMA StillInHand ==
  ASSUME NEW s, NEW t, Still(s, t), InHand(s)
  PROVE  InHand(t)
BY DEF InHand, Still, Steady, Reads

LEMMA PlaceIsNumber ==
  ASSUME NEW s, WithText(s), NEW j \in DOMAIN s.messages
  PROVE  j \in Nat
BY DEF WithText, Sequential

\* m is the last message of t.
Comes(s, t, n, m) ==
  /\ n \in Nat /\ n \notin DOMAIN s.messages
  /\ DOMAIN t.messages = DOMAIN s.messages \cup {n} /\ t.messages[n] = m
  /\ \A j \in DOMAIN s.messages : j < n /\ t.messages[j] = s.messages[j]

LEMMA ComesIs ==
  ASSUME NEW s, WithText(s), NEW m, DOMAIN m = MessageFields,
         NEW t, DOMAIN t = Fields, t.messages = Append(s.messages, m)
  PROVE  WithText(t) /\ \E n : Comes(s, t, n, m)
<1>1. PICK S : s.messages \in Seq(S)
  BY DEF WithText, Sequential
<1>2. PICK n \in Nat : n = Len(s.messages)
  BY <1>1
<1> DEFINE T == S \cup {m}
<1>3. s.messages \in Seq(T) /\ m \in T
  BY <1>1
<1>4. PICK M : M = Append(s.messages, m)
  OBVIOUS
<1>5. /\ M \in Seq(T) /\ Len(M) = n + 1 /\ M[n + 1] = m
      /\ \A j \in 1..n : M[j] = s.messages[j]
  <2> HIDE DEF T
  <2> QED BY <1>2, <1>3, <1>4
<1>6. DOMAIN s.messages = 1..n /\ DOMAIN M = 1..(n + 1)
  BY <1>1, <1>2, <1>5
<1>7. n + 1 \notin 1..n /\ 1..(n + 1) = 1..n \cup {n + 1} /\ n + 1 \in Nat /\ \A j \in 1..n : j < n + 1
  OBVIOUS
<1>8. Comes(s, t, n + 1, m)
  BY <1>4, <1>5, <1>6, <1>7 DEF Comes
<1>9. Sequential(M)
  BY <1>5 DEF Sequential
<1>10. \A j \in DOMAIN M : DOMAIN M[j] = MessageFields
  BY <1>5, <1>6, <1>7 DEF WithText
<1> QED BY <1>4, <1>8, <1>9, <1>10 DEF WithText

LEMMA ComesShown ==
  ASSUME NEW s, NEW t, NEW n, NEW m, Comes(s, t, n, m), NEW field, NEW q
  PROVE  q \in Shown(t, field) <=>
           \/ q \in Shown(s, field)
           \/ m.role = "assistant" /\ \E k \in DOMAIN m[field] : q = <<n, k, m[field][k]>>
<1>1. ASSUME NEW j \in DOMAIN t.messages, NEW k \in DOMAIN t.messages[j][field],
             t.messages[j].role = "assistant", q = <<j, k, t.messages[j][field][k]>>
      PROVE  \/ q \in Shown(s, field)
             \/ m.role = "assistant" /\ \E l \in DOMAIN m[field] : q = <<n, l, m[field][l]>>
  <2>1. CASE j = n
    <3>1. t.messages[j] = m
      BY <2>1 DEF Comes
    <3> QED BY <1>1, <2>1, <3>1
  <2>2. CASE j # n
    <3>1. j \in DOMAIN s.messages /\ t.messages[j] = s.messages[j]
      BY <2>2 DEF Comes
    <3> QED BY <1>1, <3>1, ShownIs
  <2> QED BY <2>1, <2>2
<1>2. ASSUME q \in Shown(s, field) PROVE q \in Shown(t, field)
  <2>1. PICK j \in DOMAIN s.messages : \E k \in DOMAIN s.messages[j][field] :
          s.messages[j].role = "assistant" /\ q = <<j, k, s.messages[j][field][k]>>
    BY <1>2, ShownIs
  <2>2. j \in DOMAIN t.messages /\ t.messages[j] = s.messages[j]
    BY DEF Comes
  <2> QED BY <2>1, <2>2, ShownIs
<1>3. ASSUME m.role = "assistant", NEW k \in DOMAIN m[field], q = <<n, k, m[field][k]>>
      PROVE  q \in Shown(t, field)
  <2>1. n \in DOMAIN t.messages /\ t.messages[n] = m
    BY DEF Comes
  <2> QED BY <1>3, <2>1, ShownIs
<1>4. q \in Shown(t, field) =>
        \E j \in DOMAIN t.messages : \E k \in DOMAIN t.messages[j][field] :
          t.messages[j].role = "assistant" /\ q = <<j, k, t.messages[j][field][k]>>
  BY ShownIs
<1> QED BY <1>1, <1>2, <1>3, <1>4

LEMMA MessageIs ==
  ASSUME NEW id, NEW role, NEW text, NEW m, m = Message(id, role, text)
  PROVE  /\ DOMAIN m = MessageFields /\ m.id = id /\ m.role = role /\ m.text = text
         /\ m.thinking = <<>>
BY DEF Message, MessageFields

\* Texts without a piece of the agent's.
Wordless == {<<>>, <<0>>}

LEMMA Blanks ==
  /\ <<>> \in Seq(Nat) /\ \A k : k \notin DOMAIN <<>>
  /\ \A text \in Wordless : text \in Seq(Nat) /\ \A k \in DOMAIN text : text[k] = 0
<1>1. PICK e : e = <<>>
  OBVIOUS
<1>2. \A k : k \notin DOMAIN e
  BY <1>1, EmptyOne
<1>3. PICK z : z = <<0>>
  OBVIOUS
<1>4. z \in Seq(Nat) /\ Len(z) = 1 /\ z[1] = 0
  BY <1>3
<1>5. \A k \in DOMAIN z : z[k] = 0
  BY <1>4
<1>6. e \in Seq(Nat)
  BY <1>1
<1> QED BY <1>1, <1>2, <1>3, <1>4, <1>5, <1>6 DEF Wordless

LEMMA BlankComes ==
  ASSUME NEW s, NEW n, Written(s, n), NEW id, NEW role, NEW text \in Wordless,
         NEW t, DOMAIN t = Fields, t.messages = Append(s.messages, Message(id, role, text))
  PROVE  Written(t, n)
<1>1. PICK m : m = Message(id, role, text)
  OBVIOUS
<1>2. DOMAIN m = MessageFields /\ m.text = text /\ m.thinking = <<>>
  BY <1>1, MessageIs
<1>3. WithText(t) /\ \E i : Comes(s, t, i, m)
  BY <1>1, <1>2, ComesIs DEF Written
<1>4. PICK i : Comes(s, t, i, m)
  BY <1>3
<1>5. /\ m.text \in Seq(Nat) /\ m.thinking \in Seq(Nat) /\ \A k : k \notin DOMAIN m.thinking
      /\ \A k \in DOMAIN m.text : m.text[k] = 0
  BY <1>2, Blanks
<1>6. Legible(t)
  BY <1>4, <1>5 DEF Written, Legible, Comes
<1>7. \A q : q \in Shown(t, "thinking") <=> q \in Shown(s, "thinking")
  <2>1. \A k : k \notin DOMAIN m["thinking"]
    BY <1>5
  <2> QED BY <1>4, <2>1, ComesShown
<1>8. \A q : q \in Shown(t, "text") /\ q[3] # 0 <=> q \in Shown(s, "text") /\ q[3] # 0
  <2>1. \A q : \A k \in DOMAIN m["text"] : q = <<i, k, m["text"][k]>> => q[3] = 0
    BY <1>5
  <2> QED BY <1>4, <2>1, ComesShown
<1>9. Spoken(t) = Spoken(s) /\ Thought(t) = Thought(s)
  BY <1>7, <1>8 DEF Spoken, Thought
<1> QED BY <1>3, <1>6, <1>9 DEF Written

\* A message that begins with the next piece.
LEMMA PieceComes ==
  ASSUME NEW s, NEW n \in Nat, Written(s, n), NEW id,
         NEW t, DOMAIN t = Fields,
         t.messages = Append(s.messages, Message(id, "assistant", <<n + 1>>)),
         t.currentMessage = [id |-> id, text |-> <<n + 1>>],
         \A j \in DOMAIN s.messages : s.messages[j].id # id
  PROVE  Written(t, n + 1) /\ InHand(t)
<1>1. PICK text : text = <<n + 1>>
  OBVIOUS
<1>2. text \in Seq(Nat) /\ DOMAIN text = {1} /\ text[1] = n + 1
  BY <1>1
<1>3. PICK m : m = Message(id, "assistant", text)
  OBVIOUS
<1>4. /\ DOMAIN m = MessageFields /\ m.text = text /\ m.thinking = <<>> /\ m.id = id
      /\ m.role = "assistant"
  BY <1>3, MessageIs
<1>5. WithText(t) /\ \E i : Comes(s, t, i, m)
  BY <1>1, <1>3, <1>4, ComesIs DEF Written
<1>6. PICK i : Comes(s, t, i, m)
  BY <1>5
<1>7. m.thinking \in Seq(Nat) /\ \A k : k \notin DOMAIN m.thinking
  BY <1>4, Blanks
<1>8. Legible(t)
  BY <1>2, <1>4, <1>6, <1>7 DEF Written, Legible, Comes
<1>9. PICK q : q = <<i, 1, n + 1>>
  OBVIOUS
<1>10. Thought(t) = Thought(s)
  <2>1. \A k : k \notin DOMAIN m["thinking"]
    BY <1>7
  <2>2. \A p : p \in Shown(t, "thinking") <=> p \in Shown(s, "thinking")
    BY <1>6, <2>1, ComesShown
  <2> QED BY <2>2 DEF Thought
<1>11. Spoken(t) = Spoken(s) \cup {q}
  <2>1. DOMAIN m["text"] = {1} /\ m["text"][1] = n + 1
    BY <1>2, <1>4
  <2>2. \A p : p \in Shown(t, "text") <=> p \in Shown(s, "text") \/ p = q
    BY <1>4, <1>6, <1>9, <2>1, ComesShown
  <2>3. q[3] # 0
    BY <1>9
  <2> QED BY <2>2, <2>3 DEF Spoken
<1>12. \A p \in Spoken(s) : Before(p, q)
  <2> SUFFICES ASSUME NEW p \in Shown(s, "text") PROVE Before(p, q)
    BY DEF Spoken
  <2>1. PICK j \in DOMAIN s.messages : p[1] = j
    BY ShownIs
  <2>2. j < i /\ q[1] = i
    BY <1>6, <1>9 DEF Comes
  <2> QED BY <2>1, <2>2 DEF Before
<1>13. Told(Spoken(t), Thought(t), n + 1)
  <2>1. PICK k \in Nat : k = 1
    OBVIOUS
  <2>2. i \in Nat /\ q = <<i, k, n + 1>>
    BY <1>6, <1>9, <2>1 DEF Comes
  <2>3. PICK T, H : T = Spoken(s) /\ H = Thought(s)
    OBVIOUS
  <2>4. Told(T, H, n)
    BY <2>3 DEF Written
  <2>5. \A p \in T : Before(p, q)
    BY <1>12, <2>3
  <2>6. Told(T \cup {q}, H, n + 1)
    BY <2>1, <2>2, <2>4, <2>5, ToldMore
  <2> QED BY <1>10, <1>11, <2>3, <2>6
<1>14. InHand(t)
  <2>1. /\ t.currentMessage.id = id /\ t.currentMessage.text = text
        /\ i \in DOMAIN t.messages /\ t.messages[i] = m /\ i <= i
    BY <1>1, <1>6 DEF Comes
  <2>2. \A j \in DOMAIN t.messages : j <= i
    <3>1. \A j \in DOMAIN s.messages : j < i /\ j \in Nat
      BY <1>6, PlaceIsNumber DEF Comes, Written
    <3> QED BY <1>6, <3>1 DEF Comes
  <2>3. \A j \in DOMAIN t.messages : t.messages[j].id = id <=> j = i
    BY <1>4, <1>6 DEF Comes
  <2> QED BY <1>4, <2>1, <2>2, <2>3 DEF InHand
<1> QED BY <1>5, <1>8, <1>13, <1>14 DEF Written

LEMMA OnePiece ==
  ASSUME NEW a \in Seq(Nat), NEW x \in Nat
  PROVE  /\ a \o <<x>> \in Seq(Nat) /\ Len(a) + 1 \in Nat
         /\ DOMAIN (a \o <<x>>) = DOMAIN a \cup {Len(a) + 1} /\ (a \o <<x>>)[Len(a) + 1] = x
         /\ \A k \in DOMAIN a : k < Len(a) + 1 /\ (a \o <<x>>)[k] = a[k]
<1>1. PICK b : b = <<x>>
  OBVIOUS
<1>2. b \in Seq(Nat) /\ Len(b) = 1 /\ b[1] = x
  BY <1>1
<1>3. PICK n \in Nat : n = Len(a)
  OBVIOUS
<1>4. PICK c : c = a \o b
  OBVIOUS
<1>5. /\ c \in Seq(Nat) /\ Len(c) = n + 1
      /\ \A k \in 1..n : c[k] = a[k]
      /\ \A k \in (n + 1)..(n + 1) : c[k] = b[k - n]
  <2>1. /\ c \in Seq(Nat) /\ Len(c) = Len(a) + Len(b)
        /\ \A k \in 1..Len(a) : c[k] = a[k]
        /\ \A k \in (Len(a) + 1)..(Len(a) + Len(b)) : c[k] = b[k - Len(a)]
    BY <1>2, <1>4, Concatenated
  <2> QED BY <1>2, <1>3, <2>1
<1>6. c[n + 1] = x
  <2>1. n + 1 \in (n + 1)..(n + 1) /\ (n + 1) - n = 1
    OBVIOUS
  <2> QED BY <1>2, <1>5, <2>1
<1>7. DOMAIN a = 1..n /\ DOMAIN c = 1..(n + 1) /\ 1..(n + 1) = 1..n \cup {n + 1}
  BY <1>3, <1>5
<1>8. \A k \in 1..n : k < n + 1
  OBVIOUS
<1> QED BY <1>1, <1>3, <1>4, <1>5, <1>6, <1>7, <1>8

\* Message j is the last and goes on with a piece.
LastReply(s, j) ==
  /\ j \in DOMAIN s.messages /\ \A i \in DOMAIN s.messages : i <= j
  /\ s.messages[j].role = "assistant"

Extends(s, t, j, field, x) ==
  /\ DOMAIN t.messages = DOMAIN s.messages
  /\ \A i \in DOMAIN s.messages :
       /\ t.messages[i].role = s.messages[i].role
       /\ i # j => t.messages[i][field] = s.messages[i][field]
  /\ s.messages[j][field] \in Seq(Nat)
  /\ t.messages[j][field] = s.messages[j][field] \o <<x>>

\* t shows x, in message j, and before it what s does.
ShowsNext(s, t, j, field, x) ==
  \E k \in Nat : /\ Shown(t, field) = Shown(s, field) \cup {<<j, k, x>>}
                 /\ \A q \in Shown(s, field) : Before(q, <<j, k, x>>)

LEMMA LastGrows ==
  ASSUME NEW s, WithText(s), NEW t, NEW field, NEW j, NEW x \in Nat,
         LastReply(s, j), Extends(s, t, j, field, x)
  PROVE  ShowsNext(s, t, j, field, x)
<1> USE DEF LastReply, Extends
<1>1. PICK a \in Seq(Nat) : a = s.messages[j][field]
  OBVIOUS
<1>2. PICK b : b = t.messages[j][field]
  OBVIOUS
<1>3. PICK k \in Nat : k = Len(a) + 1
  BY <1>1
<1>4. /\ DOMAIN b = DOMAIN a \cup {k} /\ b[k] = x
      /\ \A l \in DOMAIN a : l < k /\ b[l] = a[l]
  <2>1. b = a \o <<x>>
    BY <1>1, <1>2
  <2> HIDE DEF LastReply, Extends
  <2> QED BY <1>3, <2>1, OnePiece
<1>5. PICK p : p = <<j, k, x>>
  OBVIOUS
<1>6. ASSUME NEW q, q \in Shown(s, field) PROVE q \in Shown(t, field) /\ Before(q, p)
  <2>1. PICK i \in DOMAIN s.messages : \E l \in DOMAIN s.messages[i][field] :
          s.messages[i].role = "assistant" /\ q = <<i, l, s.messages[i][field][l]>>
    BY <1>6, ShownIs
  <2>2. PICK l \in DOMAIN s.messages[i][field] :
          s.messages[i].role = "assistant" /\ q = <<i, l, s.messages[i][field][l]>>
    BY <2>1
  <2>3. q[1] = i /\ q[2] = l /\ p[1] = j /\ p[2] = k
    BY <1>5, <2>2
  <2>4. CASE i # j
    <3>1. i < j
      BY <2>4, PlaceIsNumber
    <3>2. t.messages[i][field] = s.messages[i][field] /\ t.messages[i].role = "assistant"
      BY <2>2, <2>4
    <3> QED BY <2>2, <2>3, <3>1, <3>2, ShownIs DEF Before
  <2>5. CASE i = j
    <3>1. l < k /\ b[l] = a[l] /\ l \in DOMAIN b
      BY <1>1, <1>4, <2>2, <2>5
    <3>2. q \in Shown(t, field)
      BY <1>1, <1>2, <2>2, <2>5, <3>1, ShownIs
    <3> QED BY <2>3, <2>5, <3>1, <3>2 DEF Before
  <2> QED BY <2>4, <2>5
<1>7. p \in Shown(t, field)
  BY <1>2, <1>4, <1>5, ShownIs
<1>8. ASSUME NEW q, q \in Shown(t, field), q # p PROVE q \in Shown(s, field)
  <2>1. PICK i \in DOMAIN s.messages : \E l \in DOMAIN t.messages[i][field] :
          t.messages[i].role = "assistant" /\ q = <<i, l, t.messages[i][field][l]>>
    BY <1>8, ShownIs
  <2>2. CASE i # j
    BY <2>1, <2>2, ShownIs
  <2>3. CASE i = j
    <3>1. PICK l \in DOMAIN b : q = <<j, l, b[l]>>
      BY <1>2, <2>1, <2>3
    <3>2. l \in DOMAIN a /\ b[l] = a[l]
      BY <1>4, <1>5, <1>8, <3>1
    <3> QED BY <1>1, <3>1, <3>2, ShownIs
  <2> QED BY <2>2, <2>3
<1>9. Shown(t, field) = Shown(s, field) \cup {p}
  BY <1>6, <1>7, <1>8
<1> QED BY <1>3, <1>5, <1>6, <1>9 DEF ShowsNext

\* The messages t has but for one field of message j.
OnlyField(s, t, j, field, value) ==
  /\ DOMAIN t.messages = DOMAIN s.messages
  /\ \A i \in DOMAIN s.messages : i # j => t.messages[i] = s.messages[i]
  /\ t.messages[j] = [s.messages[j] EXCEPT ![field] = value]

Rewrites(s, M, j, field, value) ==
  /\ M = [i \in DOMAIN s.messages |-> M[i]]
  /\ \A i \in DOMAIN s.messages : i # j => M[i] = s.messages[i]
  /\ M[j] = [s.messages[j] EXCEPT ![field] = value]

LEMMA OneRewritten ==
  ASSUME NEW s, WithText(s), NEW j \in DOMAIN s.messages, NEW field \in Spoke, NEW value,
         NEW M, Rewrites(s, M, j, field, value), NEW u, DOMAIN u = Fields, NEW t, t = [u EXCEPT !.messages = M]
  PROVE  /\ WithText(t) /\ t.currentMessage = u.currentMessage
         /\ OnlyField(s, t, j, field, value)
<1>1. DOMAIN t = Fields /\ t.messages = M /\ t.currentMessage = u.currentMessage
  BY FieldNames
<1>2. \A i \in DOMAIN s.messages : DOMAIN M[i] = MessageFields
  BY DEF Rewrites, WithText, Spoke, MessageFields
<1>3. Sequential(M) /\ DOMAIN M = DOMAIN s.messages
  BY Mapped DEF Rewrites, WithText
<1> QED BY <1>1, <1>2, <1>3 DEF Rewrites, WithText, OnlyField

LEMMA LastWritten ==
  ASSUME NEW s, NEW n \in Nat, Written(s, n), NEW j \in DOMAIN s.messages,
         \A i \in DOMAIN s.messages : i <= j, s.messages[j].role = "assistant",
         NEW field \in Spoke, NEW t, WithText(t),
         OnlyField(s, t, j, field, s.messages[j][field] \o <<n + 1>>)
  PROVE  Written(t, n + 1)
<1>1. PICK value : value = s.messages[j][field] \o <<n + 1>>
  OBVIOUS
<1>2. s.messages[j][field] \in Seq(Nat) /\ DOMAIN s.messages[j] = MessageFields
  BY DEF Written, WithText, Legible, Spoke
<1>3. value \in Seq(Nat)
  BY <1>1, <1>2, OnePiece
<1>4. /\ t.messages[j][field] = value /\ t.messages[j].role = s.messages[j].role
      /\ \A f \in Spoke : f # field => t.messages[j][f] = s.messages[j][f]
  BY <1>1, <1>2 DEF OnlyField, Spoke, MessageFields
<1>5. DOMAIN t.messages = DOMAIN s.messages
      /\ \A i \in DOMAIN s.messages : i # j => t.messages[i] = s.messages[i]
  BY DEF OnlyField
<1>6. Legible(t)
  <2>1. \A i \in DOMAIN s.messages : \A f \in Spoke : s.messages[i][f] \in Seq(Nat)
    BY DEF Written, Legible, Spoke
  <2>2. \A i \in DOMAIN t.messages : \A f \in Spoke : t.messages[i][f] \in Seq(Nat)
    BY <1>3, <1>4, <1>5, <2>1
  <2> QED BY <2>2 DEF Legible, Spoke
<1>7. PICK k \in Nat : /\ Shown(t, field) = Shown(s, field) \cup {<<j, k, n + 1>>}
                       /\ \A q \in Shown(s, field) : Before(q, <<j, k, n + 1>>)
  <2>1. PICK x \in Nat : x = n + 1
    OBVIOUS
  <2>2. \A i \in DOMAIN s.messages :
          /\ t.messages[i].role = s.messages[i].role
          /\ i # j => t.messages[i][field] = s.messages[i][field]
    BY <1>4, <1>5
  <2>3. t.messages[j][field] = s.messages[j][field] \o <<x>>
    BY <1>1, <1>4, <2>1
  <2>4. WithText(s) /\ LastReply(s, j) /\ Extends(s, t, j, field, x)
    BY <1>2, <1>5, <2>2, <2>3 DEF Written, LastReply, Extends
  <2>5. ShowsNext(s, t, j, field, x)
    BY <2>1, <2>4, LastGrows
  <2> QED BY <2>1, <2>5 DEF ShowsNext
<1>8. \A f \in Spoke : f # field => Shown(t, f) = Shown(s, f)
  <2> SUFFICES ASSUME NEW f \in Spoke, f # field, NEW q
               PROVE  q \in Shown(t, f) <=> q \in Shown(s, f)
    OBVIOUS
  <2>1. \A i \in DOMAIN s.messages : /\ t.messages[i].role = s.messages[i].role
                                     /\ t.messages[i][f] = s.messages[i][f]
    BY <1>4, <1>5
  <2> QED BY <1>5, <2>1, ShownIs
<1>9. PICK p : p = <<j, k, n + 1>>
  OBVIOUS
<1>10. j \in Nat /\ p[3] # 0
  BY <1>9, PlaceIsNumber DEF Written
<1>11. CASE field = "text"
  <2>1. Spoken(t) = Spoken(s) \cup {p} /\ \A q \in Spoken(s) : Before(q, p)
    BY <1>7, <1>9, <1>10, <1>11 DEF Spoken
  <2>2. Thought(t) = Thought(s)
    BY <1>8, <1>11 DEF Thought, Spoke
  <2> QED BY <1>6, <1>9, <1>10, <2>1, <2>2, ToldMore DEF Written
<1>12. CASE field = "thinking"
  <2>1. Thought(t) = Thought(s) \cup {p} /\ \A q \in Thought(s) : Before(q, p)
    BY <1>7, <1>9, <1>12 DEF Thought
  <2>2. Spoken(t) = Spoken(s)
    BY <1>8, <1>12 DEF Spoken, Spoke
  <2>3. Told(Thought(s), Spoken(s), n)
    BY ToldEither DEF Written
  <2>4. Told(Thought(t), Spoken(t), n + 1)
    BY <1>9, <1>10, <2>1, <2>2, <2>3, ToldMore
  <2>5. Told(Spoken(t), Thought(t), n + 1)
    BY <2>4, ToldEither
  <2> QED BY <1>6, <2>5 DEF Written
<1> QED BY <1>11, <1>12 DEF Spoke

LEMMA ContentWritten ==
  ASSUME NEW s, IsState(s), NEW n \in Nat, Written(s, n), InHand(s), Open(s),
         \A j \in DOMAIN s.messages :
           s.messages[j].id # Continuation(s.original, s.continuationCount + 1),
         NEW e, e.text = <<n + 1>>, NEW t, t = content_delta(s, e)
  PROVE  Written(t, n + 1) /\ InHand(t)
<1>1. CASE s.hasActiveToolCalls
  <2>1. PICK id : id = Continuation(s.original, s.continuationCount + 1)
    OBVIOUS
  <2>2. PICK M : M = Append(s.messages, Message(id, "assistant", e.text))
    OBVIOUS
  <2>3. t = [s EXCEPT !.activity = "writing", !.continuationCount = @ + 1,
                      !.currentMessage = [id |-> id, text |-> e.text],
                      !.toolCalls = <<>>, !.hasActiveToolCalls = FALSE, !.messages = M]
    BY <1>1, <2>1, <2>2 DEF content_delta, Split
  <2>4. /\ DOMAIN t = Fields /\ t.messages = M
        /\ t.currentMessage = [id |-> id, text |-> e.text]
    BY <2>3, FieldNames DEF IsState
  <2> QED BY <2>1, <2>2, <2>4, PieceComes
<1>2. CASE ~s.hasActiveToolCalls
  <2>1. PICK j \in DOMAIN s.messages :
          /\ \A i \in DOMAIN s.messages : i <= j
          /\ \A i \in DOMAIN s.messages : s.messages[i].id = s.currentMessage.id <=> i = j
          /\ s.messages[j].role = "assistant" /\ s.messages[j].text = s.currentMessage.text
    BY DEF InHand
  <2>2. PICK content : content = s.currentMessage.text \o <<n + 1>>
    OBVIOUS
  <2>3. PICK u : u = [s EXCEPT !.activity = "writing", !.currentMessage.text = content]
    OBVIOUS
  <2>4. /\ DOMAIN u = Fields /\ u.messages = s.messages
        /\ u.currentMessage.id = s.currentMessage.id /\ u.currentMessage.text = content
    BY <2>3, FieldNames DEF IsState
  <2>5. /\ WithText(t) /\ t.currentMessage = u.currentMessage
        /\ OnlyField(s, t, j, "text", content)
    <3> DEFINE M == [i \in DOMAIN s.messages |->
                       IF s.messages[i].id = s.currentMessage.id
                         THEN [s.messages[i] EXCEPT !.text = content] ELSE s.messages[i]]
    <3>1. t = [u EXCEPT !.messages = M]
      BY <1>2, <2>2, <2>3, <2>4 DEF content_delta, OnMessage
    <3>2. M = [i \in DOMAIN s.messages |-> M[i]]
      OBVIOUS
    <3>3. \A i \in DOMAIN s.messages : i # j => M[i] = s.messages[i]
      BY <2>1
    <3>4. PICK field \in Spoke : field = "text"
      BY DEF Spoke
    <3>5. M[j] = [s.messages[j] EXCEPT ![field] = content]
      BY <2>1, <3>4
    <3> HIDE DEF M
    <3>6. WithText(s) /\ DOMAIN u = Fields /\ Rewrites(s, M, j, field, content)
      BY <2>4, <3>2, <3>3, <3>5 DEF Written, Rewrites
    <3>7. /\ WithText(t) /\ t.currentMessage = u.currentMessage
          /\ OnlyField(s, t, j, field, content)
      BY <2>1, <3>1, <3>4, <3>6, OneRewritten
    <3> QED BY <3>4, <3>7
  <2>6. Written(t, n + 1)
    <3>1. "text" \in Spoke /\ s.messages[j]["text"] \o <<n + 1>> = content
      BY <2>1, <2>2 DEF Spoke
    <3> QED BY <2>1, <2>5, <3>1, LastWritten
  <2>7. DOMAIN s.messages[j] = MessageFields
    BY DEF Written, WithText
  <2>8. /\ DOMAIN t.messages = DOMAIN s.messages
        /\ \A i \in DOMAIN s.messages : t.messages[i].id = s.messages[i].id
        /\ t.messages[j].role = "assistant" /\ t.messages[j].text = content
    BY <2>1, <2>5, <2>7 DEF OnlyField, MessageFields
  <2>9. InHand(t)
    BY <2>1, <2>4, <2>5, <2>8 DEF InHand
  <2> QED BY <2>6, <2>9
<1> QED BY <1>1, <1>2

LEMMA FindsIt ==
  ASSUME NEW s, WithText(s), NEW id, NEW j \in DOMAIN s.messages,
         \A i \in DOMAIN s.messages : s.messages[i].id = id <=> i = j
  PROVE  HasMessage(s, id) /\ Find(s, id) = s.messages[j]
<1>1. PICK S : s.messages \in Seq(S)
  BY DEF WithText, Sequential
<1>2. PICK M : M = s.messages
  OBVIOUS
<1>3. PICK n \in Nat : n = Len(M) /\ DOMAIN M = 1..n
  BY <1>1, <1>2
<1> DEFINE P == {i \in 1..Len(M) : M[i].id = id}
<1>4. P = {j} /\ P # {} /\ P \in SUBSET Nat
  BY <1>2, <1>3
<1>5. SelectInSeq(M, LAMBDA m : m.id = id) = Min(P)
  BY <1>4 DEF SelectInSeq
<1>6. Min(P) = j
  <2> HIDE DEF P
  <2> QED BY <1>4, Lowest
<1>7. Find(s, id) = M[j]
  <2> HIDE DEF P
  <2> QED BY <1>2, <1>5, <1>6, Zenon DEF Find
<1> QED BY <1>2, <1>7 DEF HasMessage

LEMMA ThinkingWritten ==
  ASSUME NEW s, IsState(s), NEW n \in Nat, Written(s, n), InHand(s), Open(s),
         NEW e, e.text = <<n + 1>>, NEW t, t = thinking_delta(s, e)
  PROVE  Written(t, n + 1) /\ InHand(t)
<1>1. PICK j \in DOMAIN s.messages :
        /\ \A i \in DOMAIN s.messages : i <= j
        /\ \A i \in DOMAIN s.messages : s.messages[i].id = s.currentMessage.id <=> i = j
        /\ s.messages[j].role = "assistant" /\ s.messages[j].text = s.currentMessage.text
  BY DEF InHand
<1>2. /\ HasMessage(s, s.currentMessage.id)
      /\ Find(s, s.currentMessage.id) = s.messages[j]
  BY <1>1, FindsIt DEF Written
<1>3. PICK thinking : thinking = s.messages[j].thinking \o <<n + 1>>
  OBVIOUS
<1>4. PICK u : u = [s EXCEPT !.activity = "thinking"]
  OBVIOUS
<1>5. DOMAIN u = Fields /\ u.messages = s.messages /\ u.currentMessage = s.currentMessage
  BY <1>4, FieldNames DEF IsState
<1>6. /\ WithText(t) /\ t.currentMessage = s.currentMessage
      /\ OnlyField(s, t, j, "thinking", thinking)
  <2> DEFINE M == [i \in DOMAIN s.messages |->
                     IF s.messages[i].id = s.currentMessage.id
                       THEN [s.messages[i] EXCEPT !.thinking = thinking] ELSE s.messages[i]]
  <2>1. t = [u EXCEPT !.messages = M]
    BY <1>2, <1>3, <1>4, <1>5 DEF thinking_delta, OnMessage
  <2>2. M = [i \in DOMAIN s.messages |-> M[i]]
    OBVIOUS
  <2>3. \A i \in DOMAIN s.messages : i # j => M[i] = s.messages[i]
    BY <1>1
  <2>4. PICK field \in Spoke : field = "thinking"
    BY DEF Spoke
  <2>5. M[j] = [s.messages[j] EXCEPT ![field] = thinking]
    BY <1>1, <2>4
  <2> HIDE DEF M
  <2>6. WithText(s) /\ DOMAIN u = Fields /\ Rewrites(s, M, j, field, thinking)
    BY <1>5, <2>2, <2>3, <2>5 DEF Written, Rewrites
  <2>7. /\ WithText(t) /\ t.currentMessage = u.currentMessage
        /\ OnlyField(s, t, j, field, thinking)
    BY <1>1, <2>1, <2>4, <2>6, OneRewritten
  <2> QED BY <1>5, <2>4, <2>7
<1>7. Written(t, n + 1)
  <2>1. "thinking" \in Spoke /\ s.messages[j]["thinking"] \o <<n + 1>> = thinking
    BY <1>3 DEF Spoke
  <2> QED BY <1>1, <1>6, <2>1, LastWritten
<1>8. DOMAIN s.messages[j] = MessageFields
  BY DEF Written, WithText
<1>9. /\ DOMAIN t.messages = DOMAIN s.messages
      /\ \A i \in DOMAIN s.messages : t.messages[i].id = s.messages[i].id
      /\ t.messages[j].role = "assistant" /\ t.messages[j].text = s.messages[j].text
  BY <1>1, <1>6, <1>8 DEF OnlyField, MessageFields
<1>10. InHand(t)
  BY <1>1, <1>6, <1>9 DEF InHand
<1> QED BY <1>7, <1>10

\* A message starts, and is empty.
LEMMA StartWritten ==
  ASSUME NEW s, NEW n, Written(s, n), NEW e, e.type = "message_start",
         \A j \in DOMAIN s.messages : s.messages[j].id # e.id,
         NEW t, t = agentEventReducer(s, e)
  PROVE  Written(t, n) /\ InHand(t)
<1>1. PICK m : m = Message(e.id, "assistant", <<>>)
  OBVIOUS
<1>2. PICK M : M = Append(s.messages, m)
  OBVIOUS
<1>3. t = [s EXCEPT !.currentMessage = [id |-> e.id, text |-> <<>>], !.toolCalls = <<>>,
                    !.hasActiveToolCalls = FALSE, !.original = e.id,
                    !.continuationCount = 0, !.activity = "thinking", !.messages = M]
  <2>1. ~HasMessage(s, e.id)
    BY DEF HasMessage
  <2>2. PICK u : u = [s EXCEPT !.currentMessage = [id |-> e.id, text |-> <<>>], !.toolCalls = <<>>,
                               !.hasActiveToolCalls = FALSE, !.original = e.id,
                               !.continuationCount = 0, !.activity = "thinking"]
    OBVIOUS
  <2>3. u.messages = s.messages
    BY <2>2, FieldNames DEF Written, WithText
  <2>4. t = message_start(s, e)
    BY Arms
  <2>5. t = [u EXCEPT !.messages = Append(@, m)]
    BY <1>1, <2>1, <2>2, <2>4, Zenon DEF message_start
  <2>6. t = [u EXCEPT !.messages = M]
    BY <1>2, <2>3, <2>5
  <2> QED BY <2>2, <2>6
<1>4. /\ DOMAIN t = Fields /\ t.messages = M
      /\ t.currentMessage = [id |-> e.id, text |-> <<>>]
  BY <1>3, FieldNames DEF Written, WithText
<1>5. Written(t, n)
  BY <1>1, <1>2, <1>4, BlankComes DEF Wordless
<1>6. DOMAIN m = MessageFields /\ m.id = e.id /\ m.role = "assistant" /\ m.text = <<>>
  BY <1>1, MessageIs
<1>7. PICK i : Comes(s, t, i, m)
  BY <1>2, <1>4, <1>6, ComesIs DEF Written
<1>8. \A j \in DOMAIN t.messages : j <= i
  <2>1. \A j \in DOMAIN s.messages : j < i /\ j \in Nat
    BY <1>7, PlaceIsNumber DEF Comes, Written
  <2>2. i <= i
    BY <1>7 DEF Comes
  <2> QED BY <1>7, <2>1, <2>2 DEF Comes
<1>9. \A j \in DOMAIN t.messages : t.messages[j].id = e.id <=> j = i
  BY <1>6, <1>7 DEF Comes
<1>10. i \in DOMAIN t.messages /\ t.messages[i] = m
  BY <1>7 DEF Comes
<1> QED BY <1>4, <1>5, <1>6, <1>8, <1>9, <1>10 DEF InHand

\* The turn is over: a result is shown at most once, in a message of its own.
LEMMA CompleteWritten ==
  ASSUME NEW s, NEW n, Written(s, n), NEW e, e.type = "query_complete", e.text \in Wordless,
         NEW t, t = agentEventReducer(s, e)
  PROVE  Written(t, n)
<1>1. PICK u : u = [s EXCEPT !.isStreaming = FALSE, !.activity = "none"]
  OBVIOUS
<1>2. DOMAIN u = Fields /\ u.messages = s.messages /\ DOMAIN s = Fields
  BY <1>1, FieldNames DEF Written, WithText
<1>3. PICK M : M = Append(s.messages, Message(e.id, "assistant", e.text))
  OBVIOUS
<1>4. t = u \/ t = [u EXCEPT !.messages = M]
  <2>1. t = query_complete(s, e)
    BY Arms
  <2>2. t = u \/ t = [u EXCEPT !.messages = Append(@, Message(e.id, "assistant", e.text))]
    BY <1>1, <2>1, Zenon DEF query_complete
  <2> QED BY <1>2, <1>3, <2>2
<1>5. CASE t = u
  BY <1>2, <1>5, Untouched, SteadyWritten DEF Written
<1>6. CASE t = [u EXCEPT !.messages = M]
  <2>1. DOMAIN t = Fields /\ t.messages = M
    BY <1>2, <1>6, FieldNames
  <2> QED BY <1>3, <2>1, BlankComes
<1> QED BY <1>4, <1>5, <1>6

----------------------------------------------------------------------------
(* What a step writes.                                                     *)

\* What TextInOrder says, and what the next piece is written to.
TextInv ==
  /\ pieces \in Nat
  /\ Written(ui, pieces)
  /\ phase = "loop" => InHand(ui)

LEMMA SayLeaves ==
  ASSUME NEW type \in StillTypes, NEW fields
  PROVE  Leaving(Say(type, fields))
BY LeavingOne, EventIs DEF Say

\* A step that leaves all text alone.
LEMMA LeavingStep ==
  ASSUME TextInv, phase = "loop", NEW events, Leaving(events), Emit(events),
         UNCHANGED <<phase, pieces>>
  PROVE  TextInv'
<1>1. Still(ui, ui')
  BY DEF Leaving, Emit, TextInv, Written
<1> QED BY <1>1, SteadyWritten, StillInHand DEF TextInv, Still

LEMMA PassingText ==
  ASSUME TextInv, NEW type \in StillTypes, NEW text, NEW fields,
         Passing(<<Event(type, text, fields)>>)
  PROVE  TextInv'
BY LeavingOne, LeavingStep, EventIs DEF Passing, Loop

LEMMA AsidesText ==
  ASSUME TextInv,
         \/ Block \/ InputDelta \/ Status \/ HookResponse \/ SystemInit
         \/ \E t \in Tools : Progress(t)
         \/ \E typed \in BOOLEAN : SubagentStart(typed)
         \/ SubagentStop
  PROVE  TextInv'
<1> USE PassingText DEF StillTypes, AsideTypes, Say
<1>1. CASE Block
  BY <1>1 DEF Block, Activity
<1>2. CASE InputDelta
  BY <1>2 DEF InputDelta
<1>3. CASE Status
  BY <1>3 DEF Status
<1>4. CASE HookResponse
  BY <1>4 DEF HookResponse
<1>5. CASE SystemInit
  BY <1>5 DEF SystemInit
<1>6. CASE \E t \in Tools : Progress(t)
  BY <1>6 DEF Progress
<1>7. CASE \E typed \in BOOLEAN : SubagentStart(typed)
  BY <1>7 DEF SubagentStart
<1>8. CASE SubagentStop
  BY <1>8 DEF SubagentStop
<1> QED BY <1>1, <1>2, <1>3, <1>4, <1>5, <1>6, <1>7, <1>8

LEMMA InitText == Init /\ phase # "legacy" => TextInv
<1> SUFFICES ASSUME Init PROVE TextInv
  OBVIOUS
<1>1. ui = initialAgentEventState /\ pieces = 0 /\ phase # "loop"
  BY DEF Init
<1>2. ui.messages = <<>> /\ \A j : j \notin DOMAIN ui.messages
  BY <1>1, EmptyOne DEF initialAgentEventState
<1>3. WithText(ui) /\ Legible(ui)
  BY <1>1, <1>2, FirstState, StateWithText DEF Legible
<1>4. Told({}, {}, 0)
  BY DEF Told, Ascending
<1>5. Spoken(ui) = {} /\ Thought(ui) = {}
  BY <1>2, ShownIs DEF Spoken, Thought
<1> QED BY <1>1, <1>3, <1>4, <1>5 DEF TextInv, Written

LEMMA SendText ==
  ASSUME TextInv, NEW text \in Wordless, Send(text)
  PROVE  TextInv'
<1>1. PICK id : id = <<"user", turn', 0>>
  OBVIOUS
<1>2. /\ phase' = "sent" /\ pieces' = pieces
      /\ ui' = [ui EXCEPT !.isStreaming = TRUE, !.error = FALSE,
                          !.questions = [t \in DOMAIN @ |-> TRUE],
                          !.messages = Append(@, Message(id, "user", text))]
  BY <1>1 DEF Send, sdkVars
<1>3. DOMAIN ui' = Fields /\ ui'.messages = Append(ui.messages, Message(id, "user", text))
  BY <1>2, FieldNames DEF TextInv, Written, WithText
<1> QED BY <1>2, <1>3, BlankComes DEF TextInv

\* A message starts, and what else comes with it leaves the text alone.
LEMMA StartsThen ==
  ASSUME NEW s, NEW n, Written(s, n), NEW e, e.type = "message_start",
         \A j \in DOMAIN s.messages : s.messages[j].id # e.id,
         NEW events, Leaving(events), NEW t, t = Reduced(s, <<e>> \o events)
  PROVE  Written(t, n) /\ InHand(t)
<1>1. PICK u : u = agentEventReducer(s, e)
  OBVIOUS
<1>2. Written(u, n) /\ InHand(u)
  BY <1>1, StartWritten
<1>3. t = Reduced(u, events)
  BY <1>1, ReducedThen, ReducedOne, OneEvent DEF Leaving
<1>4. Still(u, t)
  BY <1>2, <1>3 DEF Leaving, Written
<1> QED BY <1>2, <1>4, SteadyWritten, StillInHand DEF Still

LEMMA StartTurnText ==
  ASSUME ConvInv, TextInv, NEW slides \in 0..1, StartTurn(slides)
  PROVE  TextInv'
<1>1. PICK e : e = Event("message_start", <<>>, [id |-> Reply(msg')])
  OBVIOUS
<1>2. e.type = "message_start" /\ e.id = Reply(msg')
  BY <1>1, EventIs
<1>3. msg' = msg + 1 /\ ui' = Reduced(ui, <<e>> \o SlideEvents(slides)) /\ pieces' = pieces
  BY <1>1 DEF StartTurn, Emit, Say
<1>4. Leaving(SlideEvents(slides))
  BY SayLeaves, LeavingNone, LeavingBoth DEF SlideEvents, Activity, StillTypes, AsideTypes
<1>5. \A j \in DOMAIN ui.messages : ui.messages[j].id # e.id
  BY <1>2, <1>3, NewReply DEF ConvInv, TypeInv, UiInv
<1> QED BY <1>2, <1>3, <1>4, <1>5, StartsThen DEF TextInv

LEMMA DeltaText ==
  ASSUME ConvInv, TextInv, NEW type \in {"content_delta", "thinking_delta"}, Delta(type)
  PROVE  TextInv'
<1>1. PICK e : e = Event(type, <<pieces'>>, <<>>)
  OBVIOUS
<1>2. /\ phase = "loop" /\ pieces' = pieces + 1 /\ ui' = agentEventReducer(ui, e)
      /\ e.type = type /\ e.text = <<pieces + 1>>
  BY <1>1, EventIs, ReducedOne DEF Delta, Loop, Emit
<1>3. IsState(ui) /\ Open(ui) /\ Written(ui, pieces) /\ InHand(ui) /\ pieces \in Nat
  BY <1>2, IsOpen DEF ConvInv, TypeInv, UiInv, TextInv
<1>4. \A j \in DOMAIN ui.messages :
        ui.messages[j].id # Continuation(ui.original, ui.continuationCount + 1)
  BY <1>2, NewPart DEF ConvInv, TypeInv, UiInv
<1>5. CASE type = "content_delta"
  <2>1. ui' = content_delta(ui, e)
    BY <1>2, <1>5, Arms
  <2> QED BY <1>2, <1>3, <1>4, <2>1, ContentWritten DEF TextInv
<1>6. CASE type = "thinking_delta"
  <2>1. ui' = thinking_delta(ui, e)
    BY <1>2, <1>6, Arms
  <2> QED BY <1>2, <1>3, <2>1, ThinkingWritten DEF TextInv
<1> QED BY <1>5, <1>6

LEMMA AssistantText ==
  ASSUME TextInv, NEW t \in Tools, Assistant(t)
  PROVE  TextInv'
BY SayLeaves, LeavingStep DEF Assistant, Start, StillTypes

LEMMA PreToolUseText ==
  ASSUME TextInv, NEW t \in Tools, PreToolUse(t)
  PROVE  TextInv'
<1>1. Leaving(Start(t)) /\ Leaving(Say("hook_event", [hook |-> "pre_tool", tool |-> t]))
  BY SayLeaves DEF Start, StillTypes
<1> QED BY <1>1, LeavingNone, LeavingBoth, LeavingStep DEF PreToolUse

LEMMA MarkerLeaves ==
  ASSUME NEW t
  PROVE  Leaving(Marker(t))
<1>1. Marker(t) = <<>> \/ \E type \in StillTypes : \E fields : Marker(t) = Say(type, fields)
  BY DEF Marker, StillTypes, AsideTypes
<1> QED BY <1>1, SayLeaves, LeavingNone

LEMMA PostToolUseText ==
  ASSUME TextInv, NEW t \in Tools, NEW isError \in BOOLEAN, PostToolUse(t, isError)
  PROVE  TextInv'
<1>1. /\ Leaving(Say("hook_event", [hook |-> "post_tool", tool |-> t]))
      /\ Leaving(End(t, isError, TRUE))
  BY SayLeaves DEF End, StillTypes
<1> QED BY <1>1, MarkerLeaves, LeavingNone, LeavingBoth, LeavingStep DEF PostToolUse

LEMMA UserText ==
  ASSUME ConvInv, TextInv, NEW t \in Tools, User(t)
  PROVE  TextInv'
<1>1. PICK a : a = IF Pending(t) THEN End(t, t \in failed', FALSE) ELSE <<>>
  OBVIOUS
<1>2. PICK b : b = Event("message_end", <<>>, <<>>)
  OBVIOUS
<1>3. PICK c : c = Event("message_start", <<>>, [id |-> Reply(msg')])
  OBVIOUS
<1>4. /\ msg' = msg + 1 /\ pieces' = pieces /\ ui' = Reduced(ui, (a \o <<b>>) \o <<c>>)
      /\ b.type = "message_end" /\ c.type = "message_start" /\ c.id = Reply(msg')
  BY <1>1, <1>2, <1>3, EventIs DEF User, Emit, Say
<1>5. Leaving(a)
  BY <1>1, SayLeaves, LeavingNone DEF End, StillTypes
<1>6. PICK u : u = Reduced(ui, a)
  OBVIOUS
<1>7. PICK v : v = agentEventReducer(u, b)
  OBVIOUS
<1>8. Still(ui, u) /\ Steady(u, v)
  BY <1>4, <1>5, <1>6, <1>7, EndSteady DEF Leaving, TextInv, Written, Still, Steady
<1>9. Steady(ui, v)
  BY <1>8, SteadyTwice DEF Still
<1>10. Written(v, pieces) /\ \A j \in DOMAIN v.messages : v.messages[j].id # c.id
  <2>1. \A j \in DOMAIN ui.messages : ui.messages[j].id # c.id
    BY <1>4, NewReply DEF ConvInv, TypeInv, UiInv
  <2> QED BY <1>9, <2>1, SteadyWritten DEF TextInv, Steady, Reads
<1>11. ui' = agentEventReducer(v, c)
  <2>1. Sequential(a) /\ Sequential(<<b>>) /\ Sequential(<<c>>)
    BY <1>5, OneEvent DEF Leaving
  <2>2. Sequential(a \o <<b>>) /\ Reduced(ui, a \o <<b>>) = v
    BY <1>6, <1>7, <2>1, ReducedThen, ReducedOne
  <2> QED BY <1>4, <2>1, <2>2, ReducedThen, ReducedOne
<1> QED BY <1>4, <1>10, <1>11, StartWritten DEF TextInv

\* The turn ends with query_complete.
LEMMA CompletesAfter ==
  ASSUME TextInv, NEW b, \A s : WithText(s) => Steady(s, agentEventReducer(s, b)),
         NEW text \in Wordless, Emit(<<b>> \o Complete(text)), phase' = "idle",
         pieces' = pieces
  PROVE  TextInv'
<1>1. PICK e : e = Event("query_complete", text, [id |-> <<"result", turn, 0>>])
  OBVIOUS
<1>2. e.type = "query_complete" /\ e.text = text /\ ui' = Reduced(ui, <<b>> \o <<e>>)
  BY <1>1, EventIs DEF Emit, Complete
<1>3. PICK u : u = agentEventReducer(ui, b)
  OBVIOUS
<1>4. Written(u, pieces)
  BY <1>3, SteadyWritten DEF TextInv, Written
<1>5. ui' = agentEventReducer(u, e)
  BY <1>2, <1>3, ReducedThen, ReducedOne, OneEvent
<1> QED BY <1>2, <1>4, <1>5, CompleteWritten DEF TextInv

LEMMA ResultText ==
  ASSUME TextInv, NEW text \in Wordless, Result(text)
  PROVE  TextInv'
<1>1. PICK b : b = Event("message_end", <<>>, <<>>)
  OBVIOUS
<1>2. \A s : WithText(s) => Steady(s, agentEventReducer(s, b))
  BY <1>1, EventIs, EndSteady
<1>3. Emit(<<b>> \o Complete(text)) /\ phase' = "idle" /\ pieces' = pieces
  BY <1>1 DEF Result, Say, Stopped
<1> QED BY <1>2, <1>3, CompletesAfter

LEMMA ThrowsText ==
  ASSUME TextInv, Throws
  PROVE  TextInv'
<1>1. PICK b : b = Event("error", <<>>, <<>>)
  OBVIOUS
<1>2. \A s : WithText(s) => Steady(s, agentEventReducer(s, b))
  BY <1>1, EventIs, StillEvent DEF StillTypes, Still
<1>3. Emit(<<b>> \o Complete(<<>>)) /\ phase' = "idle" /\ pieces' = pieces
  BY <1>1 DEF Throws, Say, Stopped
<1> QED BY <1>2, <1>3, CompletesAfter DEF Wordless

LEMMA StepsTell ==
  ASSUME ConvInv, TextInv, Steps
  PROVE  TextInv'
<1>1. CASE \E t \in Tools : Assistant(t) \/ PreToolUse(t) \/ User(t)
  BY <1>1, AssistantText, PreToolUseText, UserText
<1>2. CASE \E t \in Tools, isError \in BOOLEAN : PostToolUse(t, isError)
  BY <1>2, PostToolUseText
<1>3. CASE \E type \in {"content_delta", "thinking_delta"} : Delta(type)
  BY <1>3, DeltaText
<1>4. CASE \E slides \in 0..1 : StartTurn(slides)
  BY <1>4, StartTurnText
<1>5. CASE Block \/ InputDelta \/ Status \/ HookResponse \/ SystemInit
           \/ (\E t \in Tools : Progress(t)) \/ (\E typed \in BOOLEAN : SubagentStart(typed))
           \/ SubagentStop
  BY <1>5, AsidesText
<1> QED BY <1>1, <1>2, <1>3, <1>4, <1>5, SendText, ResultText, ThrowsText DEF Steps, Wordless

ReadInv == Inv /\ (Attached => TextInv)

LEMMA ReadBegins == Init => ReadInv
BY Begins, InitText DEF ReadInv, Attached

LEMMA ReadKept == ReadInv /\ [Next]_vars => ReadInv'
<1> SUFFICES ASSUME ReadInv, [Next]_vars PROVE ReadInv'
  OBVIOUS
<1>1. Inv'
  BY GoesOnAlways DEF ReadInv
<1>2. ASSUME Attached' PROVE TextInv'
  <2>1. CASE Steps
    BY <1>2, <2>1, StepsAttached, StepsTell DEF ReadInv, Inv, Attached
  <2>2. CASE Reconnect
    BY <1>2, <2>2 DEF ReadInv, Inv, Attached, Reconnect
  <2>3. CASE LegacyRow
    BY <1>2, <2>3 DEF Attached, LegacyRow
  <2>4. CASE UNCHANGED vars
    BY <1>2, <2>4 DEF vars, turnVars, sdkVars, ReadInv, Attached, TextInv
  <2> QED BY <2>1, <2>2, <2>3, <2>4, NextIs
<1> QED BY <1>1, <1>2 DEF ReadInv

LEMMA InvText == ReadInv /\ Attached => TextInOrder
BY DEF ReadInv, Attached, TextInv, Written, Told, TextInOrder

(***************************************************************************)
(* The display shows every piece of text and thinking of the agent once    *)
(* and in order, for any number of messages, pieces and calls, wherever    *)
(* messages are split by calls and restarted by their results, as long as  *)
(* the client has not had to attach to a turn again.                       *)
(***************************************************************************)
THEOREM TextAlwaysInOrder == Spec => [](phase # "legacy" /\ reconnects = 0 => TextInOrder)
<1>1. ReadInv => (phase # "legacy" /\ reconnects = 0 => TextInOrder)
  BY InvText DEF Attached
<1> QED BY <1>1, ReadBegins, ReadKept, PTL DEF Spec

----------------------------------------------------------------------------
(* Groups of calls.                                                        *)

GroupStates == [expanded : BOOLEAN, userToggled : BOOLEAN, prevHadRunning : BOOLEAN]

Shows(s, j) == DOMAIN s.messages[j].tools # {}
Has(s, j, status) == \E k \in DOMAIN s.messages[j].tools : s.messages[j].tools[k].status = status

\* Every group is of a message with calls; one that opened by itself and is
\* still open had a call running when it was last shown, or has one that failed.
GroupsOK(gs, s) ==
  /\ \A id \in DOMAIN gs :
       /\ gs[id] \in GroupStates
       /\ \E j \in DOMAIN s.messages : s.messages[j].id = id /\ Shows(s, j)
  /\ \A j \in DOMAIN s.messages :
       LET g == gs[s.messages[j].id]
       IN Shows(s, j) /\ s.messages[j].id \in DOMAIN gs /\ g.userToggled = FALSE
            /\ g.expanded = TRUE => g.prevHadRunning = TRUE \/ Has(s, j, "error")

\* Every message with calls has its group, which knows whether one runs.
GroupsShown(gs, s) ==
  \A j \in DOMAIN s.messages :
    LET g == gs[s.messages[j].id]
    IN Shows(s, j) =>
         /\ s.messages[j].id \in DOMAIN gs
         /\ g.userToggled = FALSE => /\ g.prevHadRunning = TRUE <=> Has(s, j, "running")
                                     /\ g.prevHadRunning = TRUE => g.expanded = TRUE

LEMMA FollowsIs ==
  ASSUME NEW g \in GroupStates, NEW tools, NEW f, f = Follows(g, tools)
  PROVE  /\ f \in GroupStates /\ f.userToggled = g.userToggled
         /\ g.userToggled = FALSE =>
              /\ f.prevHadRunning = TRUE <=> Having(tools, "running") # {}
              /\ f.expanded = TRUE <=>
                   \/ Having(tools, "running") # {}
                   \/ g.expanded = TRUE /\ (g.prevHadRunning = FALSE \/ Having(tools, "error") # {})
BY DEF GroupStates, Follows

LEMMA HavingIs ==
  ASSUME NEW s, NEW j, NEW status
  PROVE  Having(s.messages[j].tools, status) # {} <=> Has(s, j, status)
BY DEF Having, Has

LEMMA MountedIs == Mounted \in GroupStates /\ Mounted.expanded = FALSE /\ Mounted.userToggled = FALSE
BY DEF Mounted, GroupStates

\* Messages with calls, by their place.
LEMMA CallsAt ==
  ASSUME NEW s, IsState(s)
  PROVE  /\ \A j \in DOMAIN s.messages : Shows(s, j) => s.messages[j] \in ToolMessages(s)
         /\ \A m \in ToolMessages(s) : \E j \in DOMAIN s.messages : m = s.messages[j] /\ Shows(s, j)
<1>1. \A j \in DOMAIN s.messages : Sequential(s.messages[j].tools)
  BY DEF IsState, IsMessages, IsMessage, IsTools
<1>2. \A j \in DOMAIN s.messages : s.messages[j].tools # <<>> <=> Shows(s, j)
  BY <1>1, EmptyOne DEF Shows, Sequential
<1>3. \A m : m \in ToSet(s.messages) <=> \E j \in DOMAIN s.messages : m = s.messages[j]
  BY DEF ToSet
<1> QED BY <1>2, <1>3 DEF ToolMessages

LEMMA FollowedIs ==
  ASSUME NEW s, IsState(s), NEW n, Numbered(s, n)
  PROVE  /\ \A id \in DOMAIN Followed(s) :
              \E j \in DOMAIN s.messages : s.messages[j].id = id /\ Shows(s, j)
         /\ \A j \in DOMAIN s.messages : Shows(s, j) =>
              LET id == s.messages[j].id
              IN /\ id \in DOMAIN Followed(s)
                 /\ Followed(s)[id] = Follows(IF id \in DOMAIN groups THEN groups[id] ELSE Mounted,
                                              s.messages[j].tools)
<1>1. \A id : id \in DOMAIN Followed(s) <=> \E m \in ToolMessages(s) : m.id = id
  BY DEF Followed
<1>2. ASSUME NEW j \in DOMAIN s.messages, Shows(s, j)
      PROVE  LET id == s.messages[j].id
             IN /\ id \in DOMAIN Followed(s)
                /\ Followed(s)[id] = Follows(IF id \in DOMAIN groups THEN groups[id] ELSE Mounted,
                                             s.messages[j].tools)
  <2> DEFINE id == s.messages[j].id
             it == CHOOSE m \in ToolMessages(s) : m.id = id
  <2>1. s.messages[j] \in ToolMessages(s)
    BY <1>2, CallsAt
  <2>2. it \in ToolMessages(s) /\ it.id = id
    BY <2>1
  <2>3. PICK i \in DOMAIN s.messages : it = s.messages[i] /\ Shows(s, i)
    BY <2>2, CallsAt
  <2>4. i = j
    BY <1>2, <2>2, <2>3 DEF Numbered, Shows
  <2>5. id \in DOMAIN Followed(s)
    BY <1>1, <2>1
  <2>6. Followed(s)[id] = Follows(IF id \in DOMAIN groups THEN groups[id] ELSE Mounted, it.tools)
    BY <2>1 DEF Followed
  <2> QED BY <2>3, <2>4, <2>5, <2>6
<1> QED BY <1>1, <1>2, CallsAt

\* The effect after a render.
LEMMA FollowedOK ==
  ASSUME NEW s, IsState(s), NEW n, Numbered(s, n), GroupsOK(groups, s)
  PROVE  GroupsOK(Followed(s), s) /\ GroupsShown(Followed(s), s)
<1> DEFINE new == Followed(s)
           Old(id) == IF id \in DOMAIN groups THEN groups[id] ELSE Mounted
<1>1. ASSUME NEW j \in DOMAIN s.messages, Shows(s, j)
      PROVE  LET id == s.messages[j].id
             IN /\ id \in DOMAIN new /\ new[id] \in GroupStates
                /\ new[id].userToggled = FALSE =>
                     /\ new[id].prevHadRunning = TRUE <=> Has(s, j, "running")
                     /\ new[id].prevHadRunning = TRUE => new[id].expanded = TRUE
                     /\ new[id].expanded = TRUE => new[id].prevHadRunning = TRUE \/ Has(s, j, "error")
  <2> DEFINE id == s.messages[j].id
  <2>1. id \in DOMAIN new /\ new[id] = Follows(Old(id), s.messages[j].tools)
    BY <1>1, FollowedIs
  <2>2. /\ Old(id) \in GroupStates
        /\ Old(id).userToggled = FALSE /\ Old(id).expanded = TRUE =>
             Old(id).prevHadRunning = TRUE \/ Has(s, j, "error")
    BY <1>1, MountedIs DEF GroupsOK
  <2>3. PICK g \in GroupStates : g = Old(id)
    BY <2>2
  <2>4. new[id] = Follows(g, s.messages[j].tools)
    BY <2>1, <2>3
  <2>5. g.userToggled \in BOOLEAN /\ g.expanded \in BOOLEAN /\ g.prevHadRunning \in BOOLEAN
    BY DEF GroupStates
  <2> HIDE DEF Old, new, id
  <2>6. PICK tools : tools = s.messages[j].tools
    OBVIOUS
  <2>7. /\ Having(tools, "running") # {} <=> Has(s, j, "running")
        /\ Having(tools, "error") # {} <=> Has(s, j, "error")
    BY <2>6, HavingIs
  <2>8. /\ new[id] \in GroupStates
        /\ new[id].userToggled = g.userToggled
        /\ g.userToggled = FALSE =>
             /\ new[id].prevHadRunning = TRUE <=> Has(s, j, "running")
             /\ new[id].expanded = TRUE <=>
                  Has(s, j, "running")
                    \/ (g.expanded = TRUE /\ (g.prevHadRunning = FALSE \/ Has(s, j, "error")))
    <3>1. PICK f : f = new[id]
      OBVIOUS
    <3>2. f = Follows(g, tools)
      BY <2>4, <2>6, <3>1
    <3>3. /\ f \in GroupStates /\ f.userToggled = g.userToggled
          /\ g.userToggled = FALSE =>
               /\ f.prevHadRunning = TRUE <=> Having(tools, "running") # {}
               /\ f.expanded = TRUE <=>
                    \/ Having(tools, "running") # {}
                    \/ g.expanded = TRUE /\ (g.prevHadRunning = FALSE \/ Having(tools, "error") # {})
      BY <3>2, FollowsIs
    <3> QED BY <2>7, <3>1, <3>3
  <2>9. /\ id \in DOMAIN new /\ new[id] \in GroupStates
        /\ new[id].userToggled = FALSE =>
             /\ new[id].prevHadRunning = TRUE <=> Has(s, j, "running")
             /\ new[id].prevHadRunning = TRUE => new[id].expanded = TRUE
             /\ new[id].expanded = TRUE => new[id].prevHadRunning = TRUE \/ Has(s, j, "error")
    BY <2>1, <2>2, <2>3, <2>5, <2>8
  <2> QED BY <2>9 DEF id
<1>2. \A id \in DOMAIN new : \E j \in DOMAIN s.messages : s.messages[j].id = id /\ Shows(s, j)
  BY FollowedIs
<1> HIDE DEF new
<1>3. GroupsOK(new, s) /\ GroupsShown(new, s)
  BY <1>1, <1>2 DEF GroupsOK, GroupsShown
<1> QED BY <1>3 DEF new

\* What is displayed goes on before it is rendered.
LEMMA GroupsStay ==
  ASSUME NEW gs, NEW s, NEW t, GroupsOK(gs, s), Persists(s, t), NEW n, Numbered(t, n)
  PROVE  GroupsOK(gs, t)
<1>1. ASSUME NEW id \in DOMAIN gs
      PROVE  \E j \in DOMAIN s.messages :
               /\ s.messages[j].id = id /\ Shows(s, j)
               /\ j \in DOMAIN t.messages /\ t.messages[j].id = id /\ Shows(t, j)
  BY <1>1 DEF GroupsOK, Persists, Shows
<1>2. ASSUME NEW j \in DOMAIN t.messages, Shows(t, j), t.messages[j].id \in DOMAIN gs
      PROVE  /\ j \in DOMAIN s.messages /\ s.messages[j].id = t.messages[j].id /\ Shows(s, j)
             /\ Has(s, j, "error") => Has(t, j, "error")
  <2>1. PICK i \in DOMAIN s.messages :
          /\ s.messages[i].id = t.messages[j].id /\ Shows(s, i)
          /\ i \in DOMAIN t.messages /\ t.messages[i].id = t.messages[j].id /\ Shows(t, i)
    BY <1>1, <1>2
  <2>2. i = j
    BY <1>2, <2>1 DEF Numbered, Shows
  <2> QED BY <2>1, <2>2 DEF Persists, Has
<1> QED BY <1>1, <1>2 DEF GroupsOK

----------------------------------------------------------------------------
(* The screen.                                                             *)

ViewInv == Inv /\ (Attached => GroupsOK(groups, ui) /\ (fresh => GroupsShown(groups, ui)))

LEMMA ViewBegins == ViewInit => ViewInv
<1> SUFFICES ASSUME ViewInit, Attached PROVE GroupsOK(groups, ui) /\ GroupsShown(groups, ui)
  BY Begins DEF ViewInit, ViewInv
<1>1. \A id : id \notin DOMAIN groups
  BY EmptyOne DEF ViewInit
<1>2. ui.messages = <<>>
  BY DEF ViewInit, Init, initialAgentEventState
<1>3. \A j : j \notin DOMAIN ui.messages
  BY <1>2, EmptyOne
<1> QED BY <1>1, <1>3 DEF GroupsOK, GroupsShown

\* What a step of the conversation leaves for the next render.
LEMMA ConvRendered ==
  ASSUME ConvInv, GroupsOK(groups, ui), Steps
  PROVE  /\ GroupsOK(groups, ui')
         /\ GroupsOK(Followed(ui'), ui') /\ GroupsShown(Followed(ui'), ui')
<1>1. Persists(ui, ui') /\ IsState(ui') /\ Numbered(ui', msg')
  BY StepsKeep DEF ConvInv, UiInv
<1>2. GroupsOK(groups, ui')
  BY <1>1, GroupsStay
<1> QED BY <1>1, <1>2, FollowedOK

LEMMA HeaderClicked ==
  ASSUME ConvInv, GroupsOK(groups, ui), GroupsShown(groups, ui),
         NEW m \in OnScreen, handleHeaderClick(m)
  PROVE  GroupsOK(groups', ui) /\ GroupsShown(groups', ui)
<1>1. groups' = [groups EXCEPT ![m.id] = Toggled(groups[m.id])]
  BY DEF handleHeaderClick
<1>2. m.id \in DOMAIN groups
  <2>1. m \in ToolMessages(ui)
    BY DEF OnScreen
  <2>2. PICK j \in DOMAIN ui.messages : m = ui.messages[j] /\ Shows(ui, j)
    BY <2>1, CallsAt DEF ConvInv, UiInv
  <2> QED BY <2>2 DEF GroupsShown
<1>3. groups[m.id] \in GroupStates
  BY <1>2 DEF GroupsOK
<1>4. PICK g \in GroupStates : g = groups[m.id]
  BY <1>3
<1>5. Toggled(g) \in GroupStates /\ Toggled(g).userToggled = TRUE
  BY DEF Toggled, GroupStates
<1>6. /\ DOMAIN groups' = DOMAIN groups
      /\ groups'[m.id] \in GroupStates /\ groups'[m.id].userToggled = TRUE
      /\ \A id \in DOMAIN groups : id # m.id => groups'[id] = groups[id]
  BY <1>1, <1>2, <1>4, <1>5
<1>7. GroupsOK(groups', ui)
  BY <1>6 DEF GroupsOK
<1>8. GroupsShown(groups', ui)
  BY <1>6 DEF GroupsShown
<1> QED BY <1>7, <1>8

LEMMA ViewKept == ViewInv /\ [ViewNext]_allVars => ViewInv'
<1> SUFFICES ASSUME ViewInv, [ViewNext]_allVars PROVE ViewInv'
  OBVIOUS
<1> DEFINE Good == Attached => GroupsOK(groups, ui) /\ (fresh => GroupsShown(groups, ui))
<1>1. ASSUME UNCHANGED <<vars, groups>>, UNCHANGED fresh PROVE ViewInv'
  <2>1. Inv'
    BY <1>1, GoesOnAlways DEF ViewInv
  <2>2. UNCHANGED <<ui, phase, reconnects>>
    BY <1>1 DEF vars
  <2> QED BY <1>1, <2>1, <2>2 DEF ViewInv, Attached
<1>2. CASE Chunk
  <2>1. Next /\ ((fresh' = TRUE /\ groups' = Followed(ui')) \/ (fresh' = FALSE /\ groups' = groups))
    BY <1>2 DEF Chunk
  <2>2. Inv'
    BY <2>1, GoesOnAlways DEF ViewInv
  <2>3. CASE Steps
    <3> SUFFICES ASSUME Attached' PROVE GroupsOK(groups, ui)' /\ (fresh => GroupsShown(groups, ui))'
      BY <2>2 DEF ViewInv
    <3>1. Attached
      BY <2>3, StepsAttached DEF Attached
    <3> QED BY <2>1, <2>3, <3>1, ConvRendered DEF ViewInv, Inv
  <2>4. CASE Reconnect
    <3>1. reconnects \in Nat /\ reconnects' = reconnects + 1
      BY <2>4 DEF Reconnect, ViewInv, Inv
    <3>2. ~Attached'
      BY <3>1 DEF Attached
    <3> QED BY <2>2, <3>2 DEF ViewInv
  <2>5. CASE LegacyRow
    <3>1. ~Attached'
      BY <2>5 DEF LegacyRow, Attached
    <3> QED BY <2>2, <3>1 DEF ViewInv
  <2> QED BY <2>1, <2>3, <2>4, <2>5, NextIs
<1>3. CASE Render
  <2>1. UNCHANGED vars /\ groups' = Followed(ui)
    BY <1>3 DEF Render
  <2>2. Inv'
    BY <2>1, GoesOnAlways DEF ViewInv
  <2>3. UNCHANGED <<ui, phase, reconnects>>
    BY <2>1 DEF vars
  <2>4. ASSUME Attached PROVE GroupsOK(Followed(ui), ui) /\ GroupsShown(Followed(ui), ui)
    BY <2>4, FollowedOK DEF ViewInv, Inv, ConvInv, UiInv
  <2> QED BY <2>1, <2>2, <2>3, <2>4 DEF ViewInv, Attached
<1>4. CASE \E m \in OnScreen : handleHeaderClick(m)
  <2>1. PICK m \in OnScreen : handleHeaderClick(m)
    BY <1>4
  <2>2. UNCHANGED vars /\ fresh = TRUE /\ fresh' = TRUE
    <3>1. fresh' = fresh /\ UNCHANGED vars /\ fresh
      BY <2>1 DEF handleHeaderClick, Click
    <3> QED BY <3>1
  <2>3. Inv'
    BY <2>2, GoesOnAlways DEF ViewInv
  <2>4. UNCHANGED <<ui, phase, reconnects>>
    BY <2>2 DEF vars
  <2>5. ASSUME Attached PROVE GroupsOK(groups', ui) /\ GroupsShown(groups', ui)
    BY <2>1, <2>2, <2>5, HeaderClicked DEF ViewInv, Inv
  <2> QED BY <2>3, <2>4, <2>5 DEF ViewInv, Attached
<1>5. CASE \E m \in OnScreen : \E r \in CallsView(m).rows : handleToolRowClick(m, r) \/ DetailClick(r)
  BY <1>1, <1>5 DEF handleToolRowClick, DetailClick, Click
<1>6. CASE \E j \in DOMAIN ui.messages : ThinkingClick(ui.messages[j])
  BY <1>1, <1>6 DEF ThinkingClick, Click
<1>7. ASSUME NEW t, TypeAnswer(t) PROVE ViewInv'
  BY <1>1, <1>7 DEF TypeAnswer, Click
<1>8. ASSUME NEW t, Answer(t) PROVE ViewInv'
  <2>1. Send(<<0>>) /\ groups' = Followed(ui')
    BY <1>8 DEF Answer
  <2>2. Steps /\ Next
    BY <2>1 DEF Steps, Next
  <2>3. Inv'
    BY <2>2, GoesOnAlways DEF ViewInv
  <2>4. Attached' => Attached
    BY <2>2, StepsAttached DEF Attached
  <2> QED BY <2>1, <2>2, <2>3, <2>4, ConvRendered DEF ViewInv, Inv
<1>9. CASE UNCHANGED allVars
  BY <1>1, <1>9 DEF allVars, viewVars
<1> QED BY <1>2, <1>3, <1>4, <1>5, <1>6, <1>7, <1>8, <1>9 DEF ViewNext

LEMMA HeaderIs ==
  ASSUME NEW s, NEW j
  PROVE  /\ Header(s.messages[j].tools) = "running" => Has(s, j, "running")
         /\ Header(s.messages[j].tools) = "completed" => ~Has(s, j, "running") /\ ~Has(s, j, "error")
BY HavingIs DEF Header

LEMMA RowsOf ==
  ASSUME NEW m, ~Single(m)
  PROVE  /\ CallsView(m).header = Header(m.tools)
         /\ groups[m.id].expanded = FALSE => CallsView(m).rows = {}
         /\ groups[m.id].expanded = TRUE /\ DOMAIN m.tools # {} => CallsView(m).rows # {}
BY DEF CallsView, GroupView

LEMMA InvScreen == ViewInv /\ Attached => ScreenFollows
<1> SUFFICES ASSUME ViewInv, Attached, fresh PROVE
      /\ phase # "legacy" => (Button(ui) = "Stop") = (phase \in {"sent", "loop"})
      /\ phase = "idle" => /\ Lines(ui) = {}
                           /\ \A j \in DOMAIN ui.messages :
                                ThinkingBlock(ui, ui.messages[j]) # "active"
      /\ \A m \in ToolMessages(ui) :
           LET view == CallsView(m)
           IN ~Single(m) /\ ~groups[m.id].userToggled =>
                /\ view.header = "running" => view.rows # {}
                /\ view.header = "completed" => view.rows = {}
  BY DEF ScreenFollows
<1>1. ConvInv /\ GroupsOK(groups, ui) /\ GroupsShown(groups, ui)
  BY DEF ViewInv, Inv
<1>2. /\ phase \in {"idle", "sent", "loop"}
      /\ phase \in {"sent", "loop"} => ui.isStreaming = TRUE
      /\ phase = "idle" => ui.isStreaming = FALSE /\ ui.activity = "none"
  BY <1>1 DEF ConvInv, TypeInv, StreamInv
<1>3. (Button(ui) = "Stop") = (phase \in {"sent", "loop"})
  BY <1>2 DEF Button
<1>4. ASSUME phase = "idle" PROVE Lines(ui) = {}
  BY <1>2, <1>4 DEF Lines
<1>5. ASSUME phase = "idle", NEW j \in DOMAIN ui.messages
      PROVE  ThinkingBlock(ui, ui.messages[j]) # "active"
  BY <1>2, <1>5 DEF ThinkingBlock, Reasoning
<1>6. ASSUME NEW m \in ToolMessages(ui), ~Single(m), ~groups[m.id].userToggled
      PROVE  /\ CallsView(m).header = "running" => CallsView(m).rows # {}
             /\ CallsView(m).header = "completed" => CallsView(m).rows = {}
  <2>1. PICK j \in DOMAIN ui.messages : m = ui.messages[j] /\ Shows(ui, j)
    BY <1>1, CallsAt DEF ConvInv, UiInv
  <2>2. PICK g : g = groups[m.id]
    OBVIOUS
  <2>3. m.id \in DOMAIN groups /\ g \in GroupStates
    BY <1>1, <2>1, <2>2 DEF GroupsShown, GroupsOK
  <2>4. g.userToggled = FALSE /\ g.expanded \in BOOLEAN /\ g.prevHadRunning \in BOOLEAN
    BY <1>6, <2>2, <2>3 DEF GroupStates
  <2>5. /\ g.prevHadRunning = TRUE <=> Has(ui, j, "running")
        /\ g.prevHadRunning = TRUE => g.expanded = TRUE
        /\ g.expanded = TRUE => g.prevHadRunning = TRUE \/ Has(ui, j, "error")
    BY <1>1, <2>1, <2>2, <2>3, <2>4 DEF GroupsShown, GroupsOK
  <2>6. /\ CallsView(m).header = Header(m.tools)
        /\ g.expanded = FALSE => CallsView(m).rows = {}
        /\ g.expanded = TRUE => CallsView(m).rows # {}
    BY <1>6, <2>1, <2>2, RowsOf DEF Shows
  <2> QED BY <2>1, <2>4, <2>5, <2>6, HeaderIs
<1> QED BY <1>3, <1>4, <1>5, <1>6

(***************************************************************************)
(* The screen says what goes on (AgentChat.tsx, ToolCallGroup.tsx): for    *)
(* any number of messages, calls, clicks and events between two renders,   *)
(* of a client that has not had to attach to a turn again.                 *)
(***************************************************************************)
THEOREM ScreenAlwaysFollows ==
  ViewSpec => [](phase # "legacy" /\ reconnects = 0 => ScreenFollows)
<1>1. ViewInv => (phase # "legacy" /\ reconnects = 0 => ScreenFollows)
  BY InvScreen DEF Attached
<1> QED BY <1>1, ViewBegins, ViewKept, PTL DEF ViewSpec

----------------------------------------------------------------------------
(* What calls have made.                                                   *)

\* Tables or charts that calls of Q have rendered, each as its event has it.
Final(rendered, Q) == \A r \in rendered : \E t \in Q : r = [id |-> <<"event", t>>, tool |-> t]

\* What the calls of Q have made, and the map knows what its calls are.
Drawn(s, Q) ==
  /\ DOMAIN s = Fields
  /\ IsTools(s.toolCalls)
  /\ \A k \in DOMAIN s.toolCalls : s.toolCalls[k].name = kind[s.toolCalls[k].id]
  /\ Final(s.tables, Q) /\ Final(s.charts, Q)
  /\ DOMAIN s.questions \subseteq Q

\* Paths are registered in replies.
IsFile(m) ==
  /\ DOMAIN m = MessageFields
  /\ Sequential(m.paths)
  /\ DOMAIN m.paths # {} => m.id[1] = "reply"

\* Every artifact has a message that registered it; the built application has
\* no other kind.
Filed(s) ==
  /\ Sequential(s.messages) /\ Sequential(s.artifacts)
  /\ \A j \in DOMAIN s.messages : IsFile(s.messages[j])
  /\ \A i \in DOMAIN s.artifacts :
       /\ s.artifacts[i].kind = "webapp" \/ s.artifacts[i].id # "dist"
       /\ \E j \in DOMAIN s.messages : \E k \in DOMAIN s.messages[j].paths :
            s.messages[j].paths[k] = s.artifacts[i].id

Tidy(s, Q) == Drawn(s, Q) /\ Filed(s)

\* A reply is under way, and among the messages.
InMessage(s) == Open(s) /\ s.currentMessage.id[1] = "reply" /\ Current(s)

----------------------------------------------------------------------------
(* One event.                                                              *)

\* The same calls and what they have made.
Made(s, t) ==
  /\ DOMAIN t = Fields /\ t.toolCalls = s.toolCalls
  /\ t.tables = s.tables /\ t.charts = s.charts /\ t.questions = s.questions

\* The same files, in the same messages.
InPlace(s, t) ==
  /\ t.currentMessage.id = s.currentMessage.id /\ t.artifacts = s.artifacts
  /\ Sequential(t.messages) /\ DOMAIN t.messages = DOMAIN s.messages
  /\ \A j \in DOMAIN s.messages :
       /\ DOMAIN t.messages[j] = MessageFields
       /\ t.messages[j].id = s.messages[j].id /\ t.messages[j].paths = s.messages[j].paths

LEMMA MadeDrawn ==
  ASSUME NEW s, NEW Q, Drawn(s, Q), NEW t, Made(s, t)
  PROVE  Drawn(t, Q)
BY DEF Drawn, Made

LEMMA InPlaceFiled ==
  ASSUME NEW s, Filed(s), NEW t, InPlace(s, t)
  PROVE  Filed(t) /\ (InMessage(s) => InMessage(t))
<1>1. Filed(t)
  BY DEF Filed, InPlace, IsFile
<1>2. InMessage(s) => InMessage(t)
  BY DEF InMessage, Open, Current, InPlace
<1> QED BY <1>1, <1>2

LEMMA Alike ==
  ASSUME NEW s, Filed(s), NEW t, t.messages = s.messages, t.artifacts = s.artifacts,
         t.currentMessage.id = s.currentMessage.id
  PROVE  InPlace(s, t)
BY DEF Filed, IsFile, InPlace

\* M has the messages of s, each with its id and its files.
Refit(s, M) ==
  /\ M = [j \in DOMAIN s.messages |-> M[j]]
  /\ \A j \in DOMAIN s.messages :
       /\ DOMAIN M[j] = MessageFields
       /\ M[j].id = s.messages[j].id /\ M[j].paths = s.messages[j].paths

LEMMA Refiled ==
  ASSUME NEW s, Filed(s), NEW u, DOMAIN u = Fields, u.artifacts = s.artifacts,
         u.currentMessage.id = s.currentMessage.id,
         NEW M, Refit(s, M), NEW t, t = [u EXCEPT !.messages = M]
  PROVE  InPlace(s, t) /\ Made(u, t)
<1>1. /\ DOMAIN t = Fields /\ t.messages = M /\ t.currentMessage = u.currentMessage
      /\ t.artifacts = u.artifacts
  BY FieldNames
<1>2. Made(u, t)
  BY FieldNames DEF Made
<1>3. Sequential(M) /\ DOMAIN M = DOMAIN s.messages
  BY Mapped DEF Filed, Refit
<1> QED BY <1>1, <1>2, <1>3 DEF InPlace, Refit

\* The calls of the current message are shown anew.
LEMMA RefreshedFiles ==
  ASSUME NEW s, Filed(s), NEW u, DOMAIN u = Fields, u.messages = s.messages,
         u.artifacts = s.artifacts, u.currentMessage = s.currentMessage,
         NEW t, t = updateToolCallsOnMessages(u)
  PROVE  InPlace(s, t) /\ Made(u, t)
<1>1. CASE ~Open(u)
  BY <1>1, Alike DEF updateToolCallsOnMessages, Made
<1>2. CASE Open(u)
  <2> DEFINE M == [j \in DOMAIN s.messages |->
                     IF s.messages[j].id = s.currentMessage.id
                       THEN [s.messages[j] EXCEPT !.tools = u.toolCalls] ELSE s.messages[j]]
  <2>1. t = [u EXCEPT !.messages = M]
    BY <1>2 DEF updateToolCallsOnMessages, OnMessage
  <2>2. Refit(s, M)
    BY DEF Filed, IsFile, MessageFields, Refit
  <2> HIDE DEF M
  <2> QED BY <2>1, <2>2, Refiled
<1> QED BY <1>1, <1>2

\* Events that call for nothing but a look at the activity, or for a refresh.
LightTypes == {"activity_update", "tool_input_delta", "system_status", "session_info",
               "subagent_event", "dashboard_created", "tool_progress", "hook_event", "error"}

LEMMA LightEvent ==
  ASSUME NEW s, DOMAIN s = Fields, Filed(s), NEW e, e.type \in LightTypes,
         NEW t, t = agentEventReducer(s, e)
  PROVE  Made(s, t) /\ InPlace(s, t)
<1> DEFINE Unmoved(u) == /\ Made(s, u) /\ u.messages = s.messages /\ u.artifacts = s.artifacts
                         /\ u.currentMessage = s.currentMessage
<1>1. ASSUME e.type \in LightTypes \ {"tool_progress", "hook_event"}
      PROVE  Unmoved(t)
  <2> USE FieldNames DEF agentEventReducer, Made
  <2>1. CASE e.type = "activity_update"
    BY <2>1 DEF activity_update
  <2>2. CASE e.type = "tool_input_delta"
    BY <2>2 DEF tool_input_delta
  <2>3. CASE e.type = "system_status"
    BY <2>3 DEF system_status
  <2>4. CASE e.type = "session_info"
    BY <2>4 DEF session_info
  <2>5. CASE e.type = "subagent_event"
    BY <2>5 DEF subagent_event
  <2>6. CASE e.type = "dashboard_created"
    BY <2>6 DEF dashboard_created
  <2>7. CASE e.type = "error"
    BY <2>7 DEF error
  <2> QED BY <1>1, <2>1, <2>2, <2>3, <2>4, <2>5, <2>6, <2>7 DEF LightTypes
<1>2. ASSUME e.type \in {"tool_progress", "hook_event"}
      PROVE  Made(s, t) /\ InPlace(s, t)
  <2>1. PICK u : u = IF HasTool(s, e.tool) THEN updateToolCallsOnMessages(s) ELSE s
    OBVIOUS
  <2>2. Made(s, u) /\ InPlace(s, u)
    BY <2>1, RefreshedFiles, Alike DEF Made
  <2>3. t = u \/ t = [u EXCEPT !.activity = "thinking"]
    BY <1>2, <2>1, Arms DEF tool_progress, hook_event
  <2>4. PICK v : v = [u EXCEPT !.activity = "thinking"]
    OBVIOUS
  <2>5. /\ Made(s, v) /\ v.messages = u.messages /\ v.artifacts = u.artifacts
        /\ v.currentMessage = u.currentMessage
    BY <2>2, <2>4, FieldNames DEF Made
  <2>6. InPlace(s, v)
    BY <2>2, <2>5 DEF InPlace
  <2> QED BY <2>2, <2>3, <2>4, <2>5, <2>6
<1>3. Unmoved(t) => InPlace(s, t)
  BY Alike
<1> QED BY <1>1, <1>2, <1>3 DEF LightTypes

LEMMA StartTidy ==
  ASSUME NEW s, NEW Q, Tidy(s, Q), NEW e, e.name = kind[e.tool],
         NEW t, t = tool_use_start(s, e)
  PROVE  Tidy(t, Q) /\ (InMessage(s) => InMessage(t))
<1>1. PICK entry : entry = [id |-> e.tool, name |-> e.name, status |-> "running"]
  OBVIOUS
<1>2. DOMAIN entry = {"id", "name", "status"} /\ entry.id = e.tool /\ entry.name = kind[entry.id]
  BY <1>1
<1>3. PICK calls : calls = SetById(s.toolCalls, entry)
  OBVIOUS
<1>4. IsTools(calls) /\ \A k \in DOMAIN calls : calls[k].name = kind[calls[k].id]
  <2>1. CASE HasTool(s, e.tool)
    BY <1>2, <1>3, <2>1, SetThere DEF HasTool, Tidy, Drawn
  <2>2. CASE ~HasTool(s, e.tool)
    <3>1. IsTools(calls) /\ Grows(s.toolCalls, calls, entry)
      BY <1>2, <1>3, <2>2, SetNew DEF HasTool, Tidy, Drawn
    <3> QED BY <1>2, <3>1 DEF Grows, Tidy, Drawn
  <2> QED BY <2>1, <2>2
<1>5. PICK u : u = [s EXCEPT !.hasActiveToolCalls = TRUE, !.toolInput = <<>>, !.activity = "tool",
                             !.toolCalls = calls]
  OBVIOUS
<1>6. /\ DOMAIN u = Fields /\ u.messages = s.messages /\ u.artifacts = s.artifacts
      /\ u.currentMessage = s.currentMessage /\ u.toolCalls = calls
      /\ u.tables = s.tables /\ u.charts = s.charts /\ u.questions = s.questions
  BY <1>5, FieldNames DEF Tidy, Drawn
<1>7. t = updateToolCallsOnMessages(u)
  BY <1>1, <1>3, <1>5 DEF tool_use_start
<1>8. InPlace(s, t) /\ Made(u, t)
  BY <1>6, <1>7, RefreshedFiles DEF Tidy
<1>9. Drawn(u, Q)
  BY <1>4, <1>6 DEF Tidy, Drawn
<1> QED BY <1>8, <1>9, MadeDrawn, InPlaceFiled DEF Tidy

\* What a call's end leaves, but for what is found in its output.
LEMMA EndTidy ==
  ASSUME NEW s, NEW Q, Tidy(s, Q), NEW e, NEW t, t = tool_use_end(s, e)
  PROVE  \E v : /\ Tidy(v, Q) /\ (InMessage(s) => InMessage(v))
                /\ t = v \/ (HasTool(s, e.tool) /\ t = SelfParse(v, e, kind[e.tool]))
<1>1. PICK status : status = IF e.isError THEN "error" ELSE "complete"
  OBVIOUS
<1>2. CASE ~HasTool(s, e.tool)
  <2> DEFINE M == [j \in DOMAIN s.messages |-> WithStatus(s.messages[j], e.tool, status)]
  <2>1. t = [s EXCEPT !.messages = M]
    BY <1>1, <1>2 DEF tool_use_end, updateToolInMessages
  <2>2. Refit(s, M)
    BY DEF Tidy, Filed, IsFile, MessageFields, WithStatus, Refit
  <2>3. DOMAIN s = Fields
    BY DEF Tidy, Drawn
  <2> HIDE DEF M
  <2>4. InPlace(s, t) /\ Made(s, t)
    BY <2>1, <2>2, <2>3, Refiled DEF Tidy
  <2>5. Tidy(t, Q) /\ (InMessage(s) => InMessage(t))
    BY <2>4, MadeDrawn, InPlaceFiled DEF Tidy
  <2> QED BY <2>5
<1>3. CASE HasTool(s, e.tool)
  <2>1. PICK j \in DOMAIN s.toolCalls :
          ToolCall(s, e.tool) = s.toolCalls[j] /\ s.toolCalls[j].id = e.tool
    BY <1>3 DEF HasTool, ToolCall
  <2>2. PICK entry : entry = [ToolCall(s, e.tool) EXCEPT !.status = status]
    OBVIOUS
  <2>3. /\ DOMAIN entry = {"id", "name", "status"} /\ entry.id = e.tool
        /\ entry.name = kind[entry.id] /\ ToolCall(s, e.tool).name = kind[e.tool]
    BY <2>1, <2>2 DEF Tidy, Drawn, IsTools
  <2>4. PICK calls : calls = SetById(s.toolCalls, entry)
    OBVIOUS
  <2>5. IsTools(calls) /\ \A k \in DOMAIN calls : calls[k].name = kind[calls[k].id]
    BY <1>3, <2>3, <2>4, SetThere DEF HasTool, Tidy, Drawn
  <2>6. PICK u : u = [s EXCEPT !.toolCalls = calls]
    OBVIOUS
  <2>7. /\ DOMAIN u = Fields /\ u.messages = s.messages /\ u.artifacts = s.artifacts
        /\ u.currentMessage = s.currentMessage /\ u.toolCalls = calls
        /\ u.tables = s.tables /\ u.charts = s.charts /\ u.questions = s.questions
    BY <2>6, FieldNames DEF Tidy, Drawn
  <2>8. PICK w : w = updateToolCallsOnMessages(u)
    OBVIOUS
  <2>9. InPlace(s, w) /\ Made(u, w)
    BY <2>7, <2>8, RefreshedFiles DEF Tidy
  <2>10. PICK activity :
           t = SelfParse([w EXCEPT !.activity = activity], e, ToolCall(s, e.tool).name)
    BY <1>1, <1>3, <2>2, <2>4, <2>6, <2>8, Zenon DEF tool_use_end
  <2>11. PICK v : v = [w EXCEPT !.activity = activity]
    OBVIOUS
  <2>12. /\ Made(u, v) /\ v.messages = w.messages /\ v.artifacts = w.artifacts
         /\ v.currentMessage = w.currentMessage
    BY <2>9, <2>11, FieldNames DEF Made
  <2>13. InPlace(s, v)
    BY <2>9, <2>12 DEF InPlace
  <2>14. Drawn(u, Q)
    BY <2>5, <2>7 DEF Tidy, Drawn
  <2>15. Tidy(v, Q) /\ (InMessage(s) => InMessage(v))
    BY <2>12, <2>13, <2>14, MadeDrawn, InPlaceFiled DEF Tidy
  <2> QED BY <1>3, <2>3, <2>10, <2>11, <2>15
<1> QED BY <1>2, <1>3

\* A call that is told to have ended by its result, or by an error.
LEMMA PlainEnd ==
  ASSUME NEW s, NEW Q, Tidy(s, Q), NEW e, e.isError \/ e.marked = FALSE,
         NEW t, t = tool_use_end(s, e)
  PROVE  Tidy(t, Q) /\ (InMessage(s) => InMessage(t))
<1>1. PICK v : /\ Tidy(v, Q) /\ (InMessage(s) => InMessage(v))
               /\ t = v \/ t = SelfParse(v, e, kind[e.tool])
  BY EndTidy
<1>2. t = v \/ t = [v EXCEPT !.todos = <<e.tool>>]
  BY <1>1 DEF SelfParse
<1>3. PICK w : w = [v EXCEPT !.todos = <<e.tool>>]
  OBVIOUS
<1>4. /\ Made(v, w) /\ w.messages = v.messages /\ w.artifacts = v.artifacts
      /\ w.currentMessage = v.currentMessage
  BY <1>1, <1>3, FieldNames DEF Made, Tidy, Drawn
<1>5. Tidy(w, Q) /\ (InMessage(v) => InMessage(w))
  BY <1>1, <1>4, MadeDrawn, Alike, InPlaceFiled DEF Tidy
<1> QED BY <1>1, <1>2, <1>3, <1>5

LEMMA PutIs ==
  ASSUME NEW map, NEW key, NEW value
  PROVE  DOMAIN Put(map, key, value) = DOMAIN map \cup {key}
BY DEF Put

\* The event takes the place of what was found in the output.
LEMMA RenderedFinal ==
  ASSUME NEW R, NEW Q, NEW x \in Q, Final(R, Q), NEW e, e.tool = x, e.id = <<"event", x>>
  PROVE  Final(Rendered(R, e), Q) /\ Final(Rendered(Parsed(R, x), e), Q)
<1>1. Final(Rendered(R, e), Q)
  BY DEF Rendered, Final
<1>2. CASE \E r \in R : r.tool = x
  BY <1>1, <1>2 DEF Parsed
<1>3. CASE ~\E r \in R : r.tool = x
  <2>1. PICK parsed : parsed = [id |-> <<"parsed", x>>, tool |-> x]
    OBVIOUS
  <2>2. Parsed(R, x) = R \cup {parsed} /\ parsed.id = <<"parsed", x>>
    BY <1>3, <2>1 DEF Parsed
  <2>3. \A r \in R : r.id # e.id /\ r.id # <<"parsed", x>>
    BY <1>3 DEF Final
  <2>4. parsed.id # e.id
    BY <2>2
  <2>5. Rendered(Parsed(R, x), e) = R \cup {[id |-> e.id, tool |-> x]}
    BY <2>2, <2>3, <2>4 DEF Rendered
  <2> QED BY <1>1, <2>5 DEF Final
<1> QED BY <1>1, <1>2, <1>3

\* The state before the event of what call x has drawn or asked: u is s, or s
\* with what was found in the call's output.
Foreseen(s, x, e, u) ==
  \/ /\ u = s
     /\ \/ e.type \in {"table_rendered", "chart_rendered"} /\ e.id = <<"event", x>>
        \/ e.type = "ask_user"
  \/ /\ e.type = "table_rendered" /\ e.id = <<"event", x>>
     /\ u = [s EXCEPT !.tables = Parsed(s.tables, x)]
  \/ /\ e.type = "chart_rendered" /\ e.id = <<"event", x>>
     /\ u = [s EXCEPT !.charts = Parsed(s.charts, x)]
  \/ e.type = "ask_user" /\ u = [s EXCEPT !.questions = Put(s.questions, x, FALSE)]

LEMMA ParsedThenDrawn ==
  ASSUME NEW s, NEW Q, NEW x \in Q, Tidy(s, Q), NEW e, e.tool = x,
         NEW u, Foreseen(s, x, e, u), NEW t, t = agentEventReducer(u, e)
  PROVE  Tidy(t, Q) /\ (InMessage(s) => InMessage(t))
<1>1. /\ DOMAIN t = Fields /\ t.toolCalls = s.toolCalls /\ t.messages = s.messages
      /\ t.artifacts = s.artifacts /\ t.currentMessage = s.currentMessage
      /\ t.tables \in {s.tables, Rendered(s.tables, e), Rendered(Parsed(s.tables, x), e)}
      /\ t.charts \in {s.charts, Rendered(s.charts, e), Rendered(Parsed(s.charts, x), e)}
      /\ DOMAIN t.questions \subseteq DOMAIN s.questions \cup {x}
      /\ e.type = "ask_user" => t.tables = s.tables /\ t.charts = s.charts
      /\ e.type # "ask_user" => e.id = <<"event", x>>
  <2> USE FieldNames DEF agentEventReducer, Tidy, Drawn, Foreseen
  <2>1. CASE e.type = "table_rendered"
    BY <2>1
  <2>2. CASE e.type = "chart_rendered"
    BY <2>2
  <2>3. CASE e.type = "ask_user"
    <3>1. PICK asked : asked = Put(u.questions, x, FALSE)
      OBVIOUS
    <3>2. t = [u EXCEPT !.questions = asked]
      BY <2>3, <3>1 DEF ask_user
    <3>3. DOMAIN asked = DOMAIN u.questions \cup {x}
      BY <3>1, PutIs
    <3>4. u = s \/ u = [s EXCEPT !.questions = Put(s.questions, x, FALSE)]
      BY <2>3
    <3>5. /\ DOMAIN u = Fields /\ u.toolCalls = s.toolCalls /\ u.messages = s.messages
          /\ u.artifacts = s.artifacts /\ u.currentMessage = s.currentMessage
          /\ u.tables = s.tables /\ u.charts = s.charts
          /\ DOMAIN u.questions \subseteq DOMAIN s.questions \cup {x}
      <4>1. CASE u = s
        BY <4>1
      <4>2. CASE u = [s EXCEPT !.questions = Put(s.questions, x, FALSE)]
        <5>1. PICK put : put = Put(s.questions, x, FALSE)
          OBVIOUS
        <5>2. u = [s EXCEPT !.questions = put] /\ DOMAIN put = DOMAIN s.questions \cup {x}
          BY <4>2, <5>1, PutIs
        <5> QED BY <5>2
      <4> QED BY <3>4, <4>1, <4>2
    <3> QED BY <2>3, <3>2, <3>3, <3>5
  <2> QED BY <2>1, <2>2, <2>3
<1>2. Final(t.tables, Q) /\ Final(t.charts, Q)
  BY <1>1, RenderedFinal DEF Tidy, Drawn
<1>3. Drawn(t, Q)
  BY <1>1, <1>2 DEF Tidy, Drawn
<1> QED BY <1>1, <1>3, Alike, InPlaceFiled DEF Tidy

\* An artifact is registered, in the message under way.
LEMMA RegisterTidy ==
  ASSUME NEW s, NEW Q, Tidy(s, Q), InMessage(s), NEW e, e.kind = "webapp" \/ e.path # "dist",
         NEW t, t = artifact_registered(s, e)
  PROVE  Tidy(t, Q) /\ InMessage(t)
<1>1. PICK a : a = [id |-> e.path, kind |-> e.kind, status |-> "live"]
  OBVIOUS
<1>2. PICK artifacts : artifacts = SetById(s.artifacts, a)
  OBVIOUS
<1>3. /\ Sequential(artifacts)
      /\ \A i \in DOMAIN artifacts :
           artifacts[i] = a \/ (i \in DOMAIN s.artifacts /\ artifacts[i] = s.artifacts[i])
  <2>1. CASE \E j \in DOMAIN s.artifacts : s.artifacts[j].id = a.id
    <3>1. artifacts = [j \in DOMAIN s.artifacts |->
                         IF s.artifacts[j].id = a.id THEN a ELSE s.artifacts[j]]
      BY <1>2, <2>1 DEF SetById
    <3>2. artifacts = [j \in DOMAIN s.artifacts |-> artifacts[j]]
      BY <3>1
    <3>3. Sequential(artifacts)
      BY <3>2, Mapped DEF Tidy, Filed
    <3> QED BY <3>1, <3>3
  <2>2. CASE ~\E j \in DOMAIN s.artifacts : s.artifacts[j].id = a.id
    <3>1. artifacts = Append(s.artifacts, a)
      BY <1>2, <2>2 DEF SetById
    <3> QED BY <3>1, Appended DEF Grows, Tidy, Filed
  <2> QED BY <2>1, <2>2
<1>4. PICK u : u = [s EXCEPT !.artifacts = artifacts]
  OBVIOUS
<1>5. Made(s, u) /\ u.messages = s.messages /\ u.currentMessage = s.currentMessage
      /\ u.artifacts = artifacts
  BY <1>4, FieldNames DEF Tidy, Drawn, Made
<1> DEFINE M == [j \in DOMAIN s.messages |->
                   IF s.messages[j].id = s.currentMessage.id
                     THEN [s.messages[j] EXCEPT !.paths = Append(@, e.path)] ELSE s.messages[j]]
<1>6. t = [u EXCEPT !.messages = M]
  BY <1>1, <1>2, <1>4, <1>5 DEF artifact_registered, OnMessage, InMessage, Open
<1>7. M = [j \in DOMAIN s.messages |-> M[j]]
  OBVIOUS
<1>8. ASSUME NEW j \in DOMAIN s.messages
      PROVE  /\ IsFile(M[j]) /\ M[j].id = s.messages[j].id
             /\ \A k \in DOMAIN s.messages[j].paths :
                  k \in DOMAIN M[j].paths /\ M[j].paths[k] = s.messages[j].paths[k]
             /\ s.messages[j].id = s.currentMessage.id =>
                  \E k \in DOMAIN M[j].paths : M[j].paths[k] = e.path
  <2>1. PICK m : m = s.messages[j]
    OBVIOUS
  <2>2. IsFile(m)
    BY <2>1 DEF Tidy, Filed
  <2>3. PICK paths : paths = Append(m.paths, e.path)
    OBVIOUS
  <2>4. Sequential(paths) /\ Grows(m.paths, paths, e.path)
    BY <2>2, <2>3, Appended DEF IsFile
  <2>5. CASE m.id = s.currentMessage.id
    <3>1. M[j] = [m EXCEPT !.paths = paths]
      BY <2>1, <2>3, <2>5
    <3> HIDE DEF M
    <3>2. /\ DOMAIN M[j] = MessageFields /\ M[j].paths = paths /\ M[j].id = m.id
      BY <2>2, <3>1 DEF IsFile, MessageFields
    <3> QED BY <2>1, <2>4, <2>5, <3>2 DEF IsFile, Grows, InMessage
  <2>6. CASE m.id # s.currentMessage.id
    <3>1. M[j] = m
      BY <2>1, <2>6
    <3> HIDE DEF M
    <3> QED BY <2>1, <2>2, <2>6, <3>1
  <2> QED BY <2>5, <2>6
<1> HIDE DEF M
<1>9. /\ Made(u, t) /\ t.messages = M /\ t.currentMessage = s.currentMessage
      /\ t.artifacts = artifacts
  BY <1>5, <1>6, FieldNames DEF Made
<1>10. Sequential(M) /\ DOMAIN M = DOMAIN s.messages
  BY <1>7, Mapped DEF Tidy, Filed
<1>11. PICK here \in DOMAIN s.messages : s.messages[here].id = s.currentMessage.id
  BY DEF InMessage, Current
<1>12. ASSUME NEW i \in DOMAIN artifacts
       PROVE  /\ artifacts[i].kind = "webapp" \/ artifacts[i].id # "dist"
              /\ \E j \in DOMAIN M : \E k \in DOMAIN M[j].paths : M[j].paths[k] = artifacts[i].id
  <2>1. CASE artifacts[i] = a
    BY <1>1, <1>8, <1>10, <1>11, <2>1
  <2>2. CASE i \in DOMAIN s.artifacts /\ artifacts[i] = s.artifacts[i]
    <3>1. PICK j \in DOMAIN s.messages : \E k \in DOMAIN s.messages[j].paths :
            s.messages[j].paths[k] = s.artifacts[i].id
      BY <2>2 DEF Tidy, Filed
    <3>2. \E k \in DOMAIN M[j].paths : M[j].paths[k] = s.artifacts[i].id
      BY <1>8, <3>1
    <3>3. s.artifacts[i].kind = "webapp" \/ s.artifacts[i].id # "dist"
      BY <2>2 DEF Tidy, Filed
    <3> QED BY <1>10, <2>2, <3>2, <3>3
  <2> QED BY <1>3, <2>1, <2>2
<1>13. Filed(t)
  BY <1>3, <1>8, <1>9, <1>10, <1>12 DEF Filed
<1>14. InMessage(t)
  BY <1>8, <1>9, <1>10, <1>11 DEF InMessage, Open, Current
<1>15. Drawn(t, Q)
  BY <1>5, <1>9, MadeDrawn DEF Tidy
<1> QED BY <1>13, <1>14, <1>15 DEF Tidy

\* Messages come and go on without files.
Joined(s, t) ==
  /\ t.artifacts = s.artifacts
  /\ Sequential(t.messages) /\ DOMAIN s.messages \subseteq DOMAIN t.messages
  /\ \A j \in DOMAIN s.messages : t.messages[j] = s.messages[j]
  /\ \A j \in DOMAIN t.messages : j \notin DOMAIN s.messages =>
       DOMAIN t.messages[j] = MessageFields /\ t.messages[j].paths = <<>>

LEMMA JoinedFiled ==
  ASSUME NEW s, Filed(s), NEW t, Joined(s, t)
  PROVE  Filed(t)
<1>1. ASSUME NEW m, DOMAIN m = MessageFields, m.paths = <<>> PROVE IsFile(m)
  <2>1. PICK paths : paths = <<>>
    OBVIOUS
  <2>2. Sequential(paths) /\ DOMAIN paths = {}
    BY <2>1, EmptyOne
  <2> QED BY <1>1, <2>1, <2>2 DEF IsFile
<1>2. \A j \in DOMAIN t.messages : IsFile(t.messages[j])
  BY <1>1 DEF Filed, Joined
<1> QED BY <1>2 DEF Filed, Joined

LEMMA AddedJoined ==
  ASSUME NEW s, Filed(s), NEW t, t.artifacts = s.artifacts, NEW id, NEW role, NEW text,
         t.messages = Append(s.messages, Message(id, role, text))
  PROVE  Joined(s, t) /\ \E j \in DOMAIN t.messages : t.messages[j].id = id
<1>1. PICK m : m = Message(id, role, text)
  OBVIOUS
<1>2. DOMAIN m = MessageFields /\ m.paths = <<>> /\ m.id = id
  BY <1>1 DEF Message, MessageFields
<1>3. Sequential(t.messages) /\ Grows(s.messages, t.messages, m)
  BY <1>1, Appended DEF Filed
<1> QED BY <1>2, <1>3 DEF Grows, Joined

LEMMA NoCalls == IsTools(<<>>) /\ DOMAIN <<>> = {}
BY NoTools, EmptyOne

LEMMA EmptyDrawn ==
  ASSUME NEW s, NEW Q, Drawn(s, Q), NEW t, DOMAIN t = Fields, t.toolCalls = <<>>,
         t.tables = s.tables, t.charts = s.charts, t.questions = s.questions
  PROVE  Drawn(t, Q)
<1>1. PICK calls : calls = <<>>
  OBVIOUS
<1>2. IsTools(calls) /\ DOMAIN calls = {}
  BY <1>1, NoCalls
<1> QED BY <1>1, <1>2 DEF Drawn

LEMMA MessageStartTidy ==
  ASSUME NEW s, NEW Q, Tidy(s, Q), NEW e, e.type = "message_start", e.id[1] = "reply", e.id # NoId,
         NEW t, t = agentEventReducer(s, e)
  PROVE  Tidy(t, Q) /\ InMessage(t)
<1>1. PICK u : u = [s EXCEPT !.currentMessage = [id |-> e.id, text |-> <<>>], !.toolCalls = <<>>,
                     !.hasActiveToolCalls = FALSE, !.original = e.id,
                     !.continuationCount = 0, !.activity = "thinking"]
  OBVIOUS
<1>2. PICK M : M = Append(s.messages, Message(e.id, "assistant", <<>>))
  OBVIOUS
<1>3. /\ DOMAIN u = Fields /\ u.messages = s.messages /\ u.currentMessage.id = e.id
      /\ u.toolCalls = <<>> /\ u.tables = s.tables /\ u.charts = s.charts
      /\ u.questions = s.questions /\ u.artifacts = s.artifacts
  BY <1>1, FieldNames DEF Tidy, Drawn
<1>4. t = IF HasMessage(s, e.id) THEN u ELSE [u EXCEPT !.messages = M]
  <2>1. t = message_start(s, e)
    BY Arms
  <2>2. CASE HasMessage(s, e.id)
    BY <1>1, <2>1, <2>2 DEF message_start
  <2>3. CASE ~HasMessage(s, e.id)
    BY <1>1, <1>2, <1>3, <2>1, <2>3 DEF message_start
  <2> QED BY <2>2, <2>3
<1>5. /\ DOMAIN t = Fields /\ t.currentMessage.id = e.id
      /\ t.toolCalls = <<>> /\ t.tables = s.tables /\ t.charts = s.charts
      /\ t.questions = s.questions /\ t.artifacts = s.artifacts
      /\ t.messages = IF HasMessage(s, e.id) THEN s.messages ELSE M
  BY <1>3, <1>4, FieldNames
<1>6. Drawn(t, Q)
  BY <1>5, EmptyDrawn DEF Tidy
<1>7. Filed(t) /\ Current(t)
  <2>1. CASE HasMessage(s, e.id)
    BY <1>5, <2>1 DEF HasMessage, Current, Tidy, Filed
  <2>2. CASE ~HasMessage(s, e.id)
    <3>1. t.messages = Append(s.messages, Message(e.id, "assistant", <<>>))
      BY <1>2, <1>5, <2>2
    <3>2. Joined(s, t) /\ \E j \in DOMAIN t.messages : t.messages[j].id = e.id
      BY <1>5, <3>1, AddedJoined DEF Tidy
    <3> QED BY <1>5, <3>2, JoinedFiled DEF Current, Tidy
  <2> QED BY <2>1, <2>2
<1> QED BY <1>5, <1>6, <1>7 DEF Tidy, InMessage, Open

\* A message that is added, whatever the text, and nothing of calls.
LEMMA AddedTidy ==
  ASSUME NEW s, NEW Q, Tidy(s, Q), NEW t, DOMAIN t = Fields,
         t.toolCalls = s.toolCalls \/ t.toolCalls = <<>>, t.artifacts = s.artifacts,
         t.tables = s.tables, t.charts = s.charts, DOMAIN t.questions = DOMAIN s.questions,
         \/ t.messages = s.messages
         \/ \E id, role, text : t.messages = Append(s.messages, Message(id, role, text))
  PROVE  Tidy(t, Q)
<1>1. Drawn(t, Q)
  <2>1. PICK calls : calls = <<>>
    OBVIOUS
  <2>2. IsTools(calls) /\ DOMAIN calls = {}
    BY <2>1, NoCalls
  <2> QED BY <2>1, <2>2 DEF Tidy, Drawn
<1>2. CASE t.messages = s.messages
  BY <1>1, <1>2 DEF Tidy, Filed
<1>3. CASE \E id, role, text : t.messages = Append(s.messages, Message(id, role, text))
  BY <1>1, <1>3, AddedJoined, JoinedFiled DEF Tidy
<1> QED BY <1>2, <1>3

LEMMA DeltaTidy ==
  ASSUME NEW s, IsState(s), NEW Q, Tidy(s, Q),
         NEW e, e.type \in {"content_delta", "thinking_delta"},
         NEW t, t = agentEventReducer(s, e)
  PROVE  Tidy(t, Q)
<1>1. ASSUME NEW u, Made(s, u), u.artifacts = s.artifacts,
             u.currentMessage.id = s.currentMessage.id,
             NEW M, Refit(s, M), t = [u EXCEPT !.messages = M]
      PROVE  Tidy(t, Q)
  <2>1. DOMAIN u = Fields /\ Filed(s)
    BY <1>1 DEF Made, Tidy
  <2>2. InPlace(s, t) /\ Made(u, t)
    BY <1>1, <2>1, Refiled
  <2> QED BY <1>1, <2>2, MadeDrawn, InPlaceFiled DEF Tidy
<1> DEFINE isContent == e.type = "content_delta"
<1>0. /\ isContent => t = content_delta(s, e)
      /\ ~isContent => t = thinking_delta(s, e)
  BY Arms
<1> HIDE DEF isContent
<1>2. CASE ~Open(s)
  BY <1>0, <1>2 DEF content_delta, thinking_delta
<1>3. CASE isContent /\ Open(s) /\ s.hasActiveToolCalls
  <2>1. PICK id : id = Continuation(s.original, s.continuationCount + 1)
    OBVIOUS
  <2>2. PICK M : M = Append(s.messages, Message(id, "assistant", e.text))
    OBVIOUS
  <2>3. t = [s EXCEPT !.activity = "writing", !.continuationCount = @ + 1,
                      !.currentMessage = [id |-> id, text |-> e.text],
                      !.toolCalls = <<>>, !.hasActiveToolCalls = FALSE, !.messages = M]
    BY <1>0, <1>3, <2>1, <2>2 DEF content_delta, Split
  <2>4. /\ DOMAIN t = Fields /\ t.messages = M /\ t.toolCalls = <<>> /\ t.artifacts = s.artifacts
        /\ t.tables = s.tables /\ t.charts = s.charts /\ t.questions = s.questions
    BY <2>3, FieldNames DEF Tidy, Drawn
  <2> QED BY <2>2, <2>4, AddedTidy
<1>4. CASE isContent /\ Open(s) /\ ~s.hasActiveToolCalls
  <2>1. PICK content : content = s.currentMessage.text \o e.text
    OBVIOUS
  <2>2. PICK u : u = [s EXCEPT !.activity = "writing", !.currentMessage.text = content]
    OBVIOUS
  <2>3. /\ Made(s, u) /\ u.messages = s.messages /\ u.artifacts = s.artifacts
        /\ u.currentMessage.id = s.currentMessage.id
    BY <2>2, FieldNames DEF Made, IsState
  <2> DEFINE M == [j \in DOMAIN s.messages |->
                     IF s.messages[j].id = s.currentMessage.id
                       THEN [s.messages[j] EXCEPT !.text = content] ELSE s.messages[j]]
  <2>4. t = [u EXCEPT !.messages = M]
    BY <1>0, <1>4, <2>1, <2>2, <2>3 DEF content_delta, OnMessage
  <2>5. Refit(s, M)
    BY DEF Tidy, Filed, IsFile, MessageFields, Refit
  <2> HIDE DEF M
  <2> QED BY <1>1, <2>3, <2>4, <2>5
<1>5. CASE ~isContent /\ Open(s)
  <2>1. PICK before : before = IF HasMessage(s, s.currentMessage.id)
                                 THEN Find(s, s.currentMessage.id).thinking ELSE <<>>
    OBVIOUS
  <2>2. PICK u : u = [s EXCEPT !.activity = "thinking"]
    OBVIOUS
  <2>3. /\ Made(s, u) /\ u.messages = s.messages /\ u.artifacts = s.artifacts
        /\ u.currentMessage.id = s.currentMessage.id
    BY <2>2, FieldNames DEF Made, Tidy, Drawn
  <2> DEFINE M == [j \in DOMAIN s.messages |->
                     IF s.messages[j].id = s.currentMessage.id
                       THEN [s.messages[j] EXCEPT !.thinking = before \o e.text]
                       ELSE s.messages[j]]
  <2>4. t = [u EXCEPT !.messages = M]
    BY <1>0, <1>5, <2>1, <2>2, <2>3 DEF thinking_delta, OnMessage
  <2>5. Refit(s, M)
    BY DEF Tidy, Filed, IsFile, MessageFields, Refit
  <2> HIDE DEF M
  <2> QED BY <1>1, <2>3, <2>4, <2>5
<1> QED BY <1>2, <1>3, <1>4, <1>5

LEMMA MessageEndTidy ==
  ASSUME NEW s, NEW Q, Tidy(s, Q), NEW e, e.type = "message_end"
  PROVE  Tidy(agentEventReducer(s, e), Q)
<1>1. PICK t : t = message_end(s)
  OBVIOUS
<1>2. /\ DOMAIN t = Fields /\ t.toolCalls = s.toolCalls /\ t.messages = s.messages
      /\ t.artifacts = s.artifacts /\ t.tables = s.tables /\ t.charts = s.charts
      /\ t.questions = s.questions
  BY <1>1, FieldNames DEF Tidy, Drawn, message_end
<1> QED BY <1>1, <1>2, AddedTidy, Arms

LEMMA CompleteTidy ==
  ASSUME NEW s, NEW Q, Tidy(s, Q), NEW e, e.type = "query_complete"
  PROVE  Tidy(agentEventReducer(s, e), Q)
<1>1. PICK u : u = [s EXCEPT !.isStreaming = FALSE, !.activity = "none"]
  OBVIOUS
<1>2. /\ DOMAIN u = Fields /\ u.toolCalls = s.toolCalls /\ u.messages = s.messages
      /\ u.artifacts = s.artifacts /\ u.tables = s.tables /\ u.charts = s.charts
      /\ u.questions = s.questions
  BY <1>1, FieldNames DEF Tidy, Drawn
<1>3. PICK M : M = Append(s.messages, Message(e.id, "assistant", e.text))
  OBVIOUS
<1>4. PICK t : t = query_complete(s, e)
  OBVIOUS
<1>5. t = u \/ t = [u EXCEPT !.messages = M]
  BY <1>1, <1>2, <1>3, <1>4 DEF query_complete
<1>6. /\ DOMAIN t = Fields /\ t.toolCalls = s.toolCalls /\ t.messages \in {s.messages, M}
      /\ t.artifacts = s.artifacts /\ t.tables = s.tables /\ t.charts = s.charts
      /\ t.questions = s.questions
  BY <1>2, <1>5, FieldNames
<1> QED BY <1>3, <1>4, <1>6, AddedTidy, Arms

----------------------------------------------------------------------------
(* Events between the start and the end of a message.                      *)

Orderly(e, Q) ==
  \/ e.type \in LightTypes
  \/ e.type = "tool_use_start" /\ e.name = kind[e.tool]
  \/ e.type = "tool_use_end" /\ (e.isError \/ e.marked = FALSE)
  \/ /\ e.type \in {"table_rendered", "chart_rendered"}
     /\ e.tool \in Q /\ e.id = <<"event", e.tool>>
  \/ e.type = "ask_user" /\ e.tool \in Q
  \/ e.type = "artifact_registered" /\ (e.kind = "webapp" \/ e.path # "dist")

LEMMA OrderlyTidy ==
  ASSUME NEW s, NEW Q, Tidy(s, Q), InMessage(s), NEW e, Orderly(e, Q)
  PROVE  Tidy(agentEventReducer(s, e), Q) /\ InMessage(agentEventReducer(s, e))
<1>1. PICK t : t = agentEventReducer(s, e)
  OBVIOUS
<1>2. CASE e.type \in LightTypes
  <2>1. Made(s, t) /\ InPlace(s, t)
    BY <1>1, <1>2, LightEvent DEF Tidy, Drawn
  <2> QED BY <1>1, <2>1, MadeDrawn, InPlaceFiled DEF Tidy
<1>3. CASE e.type = "tool_use_start" /\ e.name = kind[e.tool]
  BY <1>3, StartTidy, Arms
<1>4. CASE e.type = "tool_use_end" /\ (e.isError \/ e.marked = FALSE)
  <2>1. t = tool_use_end(s, e)
    BY <1>1, <1>4, Arms
  <2>2. e.isError \/ e.marked = FALSE
    BY <1>4
  <2> QED BY <1>1, <2>1, <2>2, PlainEnd
<1>5. CASE \/ /\ e.type \in {"table_rendered", "chart_rendered"}
              /\ e.tool \in Q /\ e.id = <<"event", e.tool>>
           \/ e.type = "ask_user" /\ e.tool \in Q
  BY <1>5, ParsedThenDrawn DEF Foreseen
<1>6. CASE e.type = "artifact_registered" /\ (e.kind = "webapp" \/ e.path # "dist")
  BY <1>6, RegisterTidy, Arms
<1> QED BY <1>2, <1>3, <1>4, <1>5, <1>6 DEF Orderly

Placing(events, Q) ==
  /\ Sequential(events)
  /\ \A s : Tidy(s, Q) /\ InMessage(s) =>
       Tidy(Reduced(s, events), Q) /\ InMessage(Reduced(s, events))

LEMMA PlacingOne ==
  ASSUME NEW e, NEW Q, Orderly(e, Q)
  PROVE  Placing(<<e>>, Q)
BY OneEvent, ReducedOne, OrderlyTidy DEF Placing

LEMMA PlacingNone == ASSUME NEW Q PROVE Placing(<<>>, Q)
BY OneEvent, ReducedNone DEF Placing

LEMMA PlacingBoth ==
  ASSUME NEW a, NEW b, NEW Q, Placing(a, Q), Placing(b, Q)
  PROVE  Placing(a \o b, Q)
BY ReducedThen DEF Placing

LEMMA SayPlacing ==
  ASSUME NEW type \in LightTypes, NEW fields, NEW Q
  PROVE  Placing(Say(type, fields), Q)
<1>1. PICK e : e = Event(type, <<>>, fields)
  OBVIOUS
<1>2. Orderly(e, Q)
  BY <1>1, EventIs DEF Orderly
<1> QED BY <1>1, <1>2, PlacingOne DEF Say

LEMMA StartPlacing ==
  ASSUME NEW t, NEW Q
  PROVE  Placing(Start(t), Q)
<1>1. PICK e : e = Event("tool_use_start", <<>>, [tool |-> t, name |-> kind[t]])
  OBVIOUS
<1>2. Orderly(e, Q)
  BY <1>1, ToolEvent DEF Orderly
<1> QED BY <1>1, <1>2, PlacingOne DEF Start, Say

LEMMA EndPlacing ==
  ASSUME NEW t, NEW isError, NEW marked, isError = TRUE \/ marked = FALSE, NEW Q
  PROVE  Placing(End(t, isError, marked), Q)
<1>1. PICK e : e = Event("tool_use_end", <<>>, [tool |-> t, isError |-> isError, marked |-> marked])
  OBVIOUS
<1>2. e.type = "tool_use_end" /\ e.isError = isError /\ e.marked = marked
  BY <1>1, EventIs
<1>3. Orderly(e, Q)
  BY <1>2 DEF Orderly
<1> QED BY <1>1, <1>3, PlacingOne DEF End, Say

LEMMA RegisterPlacing ==
  ASSUME NEW path, NEW type, type = "webapp" \/ path # "dist", NEW Q
  PROVE  Placing(Say("artifact_registered", [path |-> path, kind |-> type]), Q)
<1>1. PICK e : e = Event("artifact_registered", <<>>, [path |-> path, kind |-> type])
  OBVIOUS
<1>2. e.type = "artifact_registered" /\ e.path = path /\ e.kind = type
  BY <1>1, EventIs
<1>3. Orderly(e, Q)
  BY <1>2 DEF Orderly
<1> QED BY <1>1, <1>3, PlacingOne DEF Say

\* A marker that draws or asks nothing.
LEMMA MarkerPlacing ==
  ASSUME NEW t, kind[t] \notin {"table", "chart", "ask"}, NEW Q
  PROVE  Placing(Marker(t), Q)
<1> DEFINE Registers(path, type) ==
             Marker(t) = Say("artifact_registered", [path |-> path, kind |-> type])
<1>1. CASE kind[t] = "dashboard"
  BY <1>1, SayPlacing DEF Marker, LightTypes
<1>2. CASE kind[t] = "artifact"
  <2>1. Registers("file", "file")
    BY <1>2 DEF Marker, Path
  <2> QED BY <2>1, RegisterPlacing
<1>3. CASE kind[t] = "build" /\ Path(t) \notin registered
  <2>1. Registers("dist", "webapp")
    BY <1>3 DEF Marker, Path
  <2> QED BY <2>1, RegisterPlacing
<1>4. CASE kind[t] = "script" /\ Path(t) \notin registered
  <2>1. Registers("script", "code")
    BY <1>4 DEF Marker, Path
  <2> QED BY <2>1, RegisterPlacing
<1>5. CASE ~(\/ kind[t] \in {"dashboard", "artifact"}
             \/ kind[t] \in {"build", "script"} /\ Path(t) \notin registered)
  BY <1>5, PlacingNone DEF Marker
<1> QED BY <1>1, <1>2, <1>3, <1>4, <1>5

\* A call ends well, and what its output has is drawn, asked or registered.
LEMMA EndThenMarker ==
  ASSUME NEW s, NEW Q, Tidy(s, Q), InMessage(s), NEW x \in Q,
         NEW t, t = Reduced(Reduced(s, End(x, FALSE, TRUE)), Marker(x))
  PROVE  Tidy(t, Q)
<1>1. PICK e : e = Event("tool_use_end", <<>>, [tool |-> x, isError |-> FALSE, marked |-> TRUE])
  OBVIOUS
<1>2. e.type = "tool_use_end" /\ e.tool = x /\ e.isError = FALSE /\ e.marked = TRUE
  BY <1>1, EventIs
<1>3. PICK u : u = tool_use_end(s, e)
  OBVIOUS
<1>4. t = Reduced(u, Marker(x))
  BY <1>1, <1>2, <1>3, ReducedOne, Arms DEF End, Say
<1>5. PICK v : Tidy(v, Q) /\ InMessage(v) /\ (u = v \/ u = SelfParse(v, e, kind[x]))
  BY <1>2, <1>3, EndTidy
<1>6. ASSUME NEW type, NEW fields, NEW m, m = Event(type, <<>>, fields), Marker(x) = Say(type, fields)
      PROVE  t = agentEventReducer(u, m)
  BY <1>4, <1>6, ReducedOne DEF Say
<1>7. CASE kind[x] = "table"
  <2>1. PICK m : m = Event("table_rendered", <<>>, [id |-> <<"event", x>>, tool |-> x])
    OBVIOUS
  <2>2. m.type = "table_rendered" /\ m.id = <<"event", x>> /\ m.tool = x
    BY <2>1, EventIs
  <2>3. t = agentEventReducer(u, m)
    BY <1>6, <1>7, <2>1 DEF Marker
  <2>4. u = v \/ u = [v EXCEPT !.tables = Parsed(@, x)]
    BY <1>2, <1>5, <1>7 DEF SelfParse
  <2>5. Foreseen(v, x, m, u)
    BY <2>2, <2>4 DEF Foreseen
  <2> QED BY <1>5, <2>2, <2>3, <2>5, ParsedThenDrawn
<1>8. CASE kind[x] = "chart"
  <2>1. PICK m : m = Event("chart_rendered", <<>>, [id |-> <<"event", x>>, tool |-> x])
    OBVIOUS
  <2>2. m.type = "chart_rendered" /\ m.id = <<"event", x>> /\ m.tool = x
    BY <2>1, EventIs
  <2>3. t = agentEventReducer(u, m)
    BY <1>6, <1>8, <2>1 DEF Marker
  <2>4. u = v \/ u = [v EXCEPT !.charts = Parsed(@, x)]
    BY <1>2, <1>5, <1>8 DEF SelfParse
  <2>5. Foreseen(v, x, m, u)
    BY <2>2, <2>4 DEF Foreseen
  <2> QED BY <1>5, <2>2, <2>3, <2>5, ParsedThenDrawn
<1>9. CASE kind[x] = "ask"
  <2>1. PICK m : m = Event("ask_user", <<>>, [tool |-> x])
    OBVIOUS
  <2>2. m.type = "ask_user" /\ m.tool = x
    BY <2>1, EventIs
  <2>3. t = agentEventReducer(u, m)
    BY <1>6, <1>9, <2>1 DEF Marker
  <2>4. u = v \/ u = [v EXCEPT !.questions = Put(@, x, FALSE)]
    BY <1>2, <1>5, <1>9 DEF SelfParse
  <2>5. Foreseen(v, x, m, u)
    BY <2>2, <2>4 DEF Foreseen
  <2> QED BY <1>5, <2>2, <2>3, <2>5, ParsedThenDrawn
<1>10. CASE kind[x] \notin {"table", "chart", "ask"}
  <2>1. \/ u = v
        \/ u = [v EXCEPT !.todos = <<x>>]
        \/ u = [v EXCEPT !.dashboards = Put(@, x, x)]
    BY <1>2, <1>5, <1>10 DEF SelfParse
  <2>2. /\ Made(v, u) /\ u.messages = v.messages /\ u.artifacts = v.artifacts
        /\ u.currentMessage = v.currentMessage
    BY <1>5, <2>1, FieldNames DEF Made, Tidy, Drawn
  <2>3. Tidy(u, Q) /\ InMessage(u)
    BY <1>5, <2>2, MadeDrawn, Alike, InPlaceFiled DEF Tidy
  <2> QED BY <1>4, <1>10, <2>3, MarkerPlacing DEF Placing
<1> QED BY <1>7, <1>8, <1>9, <1>10

----------------------------------------------------------------------------
(* The steps.                                                              *)

Callers == {t \in Tools : Announced(t)}

\* Everything made is of a call that was announced.
TidyInv == Tidy(ui, Callers)

LEMMA TidyMore ==
  ASSUME NEW s, NEW Q, Tidy(s, Q), NEW R, Q \subseteq R
  PROVE  Tidy(s, R)
BY DEF Tidy, Drawn, Final

LEMMA CallersKept ==
  ASSUME NEW t \in Tools, NEW status, call' = [call EXCEPT ![t] = status],
         call \in [Tools -> CallStates], status # "none"
  PROVE  Callers \subseteq Callers' /\ t \in Callers'
BY DEF Callers, Announced

LEMMA UnderWayInMessage == ConvInv /\ phase = "loop" => InMessage(ui)
<1> SUFFICES ASSUME ConvInv, phase = "loop" PROVE InMessage(ui)
  OBVIOUS
<1>1. UnderWay(ui, msg) /\ msg \in Nat
  BY DEF ConvInv, UiInv, TypeInv
<1>2. Open(ui) /\ ui.currentMessage.id[1] = "reply" /\ Current(ui)
  BY <1>1, IsOpen DEF UnderWay
<1> QED BY <1>2 DEF InMessage

LEMMA PlacingStep ==
  ASSUME ConvInv, TidyInv, phase = "loop", Callers \subseteq Callers',
         NEW events, Placing(events, Callers'), Emit(events)
  PROVE  Tidy(ui', Callers')
<1>1. Tidy(ui, Callers') /\ InMessage(ui)
  BY TidyMore, UnderWayInMessage DEF TidyInv
<1>2. ui' = Reduced(ui, events)
  BY DEF Emit
<1> QED BY <1>1, <1>2 DEF Placing, TidyInv

LEMMA PassingTidy ==
  ASSUME ConvInv, TidyInv, NEW type \in LightTypes, NEW text, NEW fields,
         Passing(<<Event(type, text, fields)>>)
  PROVE  Tidy(ui', Callers')
<1>1. Placing(<<Event(type, text, fields)>>, Callers')
  <2>1. PICK e : e = Event(type, text, fields)
    OBVIOUS
  <2>2. Orderly(e, Callers')
    BY <2>1, EventIs DEF Orderly
  <2> QED BY <2>1, <2>2, PlacingOne
<1>2. Callers' = Callers
  BY DEF Passing, Callers, Announced
<1> QED BY <1>1, <1>2, PlacingStep DEF Passing, Loop

LEMMA AsidesTidy ==
  ASSUME ConvInv, TidyInv,
         \/ Block \/ InputDelta \/ Status \/ HookResponse \/ SystemInit
         \/ \E t \in Tools : Progress(t)
         \/ \E typed \in BOOLEAN : SubagentStart(typed)
         \/ SubagentStop
  PROVE  Tidy(ui', Callers')
<1> USE PassingTidy DEF LightTypes, Say
<1>1. CASE Block
  BY <1>1 DEF Block, Activity
<1>2. CASE InputDelta
  BY <1>2 DEF InputDelta
<1>3. CASE Status
  BY <1>3 DEF Status
<1>4. CASE HookResponse
  BY <1>4 DEF HookResponse
<1>5. CASE SystemInit
  BY <1>5 DEF SystemInit
<1>6. CASE \E t \in Tools : Progress(t)
  BY <1>6 DEF Progress
<1>7. CASE \E typed \in BOOLEAN : SubagentStart(typed)
  BY <1>7 DEF SubagentStart
<1>8. CASE SubagentStop
  BY <1>8 DEF SubagentStop
<1> QED BY <1>1, <1>2, <1>3, <1>4, <1>5, <1>6, <1>7, <1>8

LEMMA InitTidy == Init => TidyInv
<1> SUFFICES ASSUME Init PROVE TidyInv
  OBVIOUS
<1>1. PICK e : e = <<>>
  OBVIOUS
<1>2. IsTools(e) /\ Sequential(e) /\ DOMAIN e = {}
  BY <1>1, NoCalls, EmptyOne
<1>3. /\ ui.toolCalls = e /\ ui.messages = e /\ ui.artifacts = e /\ ui.questions = e
      /\ ui.tables = {} /\ ui.charts = {} /\ DOMAIN ui = Fields
  BY <1>1 DEF Init, initialAgentEventState, Fields
<1> QED BY <1>2, <1>3 DEF TidyInv, Tidy, Drawn, Filed, Final

LEMMA SendTidy ==
  ASSUME TidyInv, NEW text, Send(text)
  PROVE  Tidy(ui', Callers')
<1>1. PICK id : id = <<"user", turn', 0>>
  OBVIOUS
<1>2. PICK M : M = Append(ui.messages, Message(id, "user", text))
  OBVIOUS
<1>3. PICK Q : Q = [t \in DOMAIN ui.questions |-> TRUE]
  OBVIOUS
<1>4. ui' = [ui EXCEPT !.isStreaming = TRUE, !.error = FALSE, !.questions = Q, !.messages = M]
  BY <1>1, <1>2, <1>3 DEF Send
<1>5. /\ DOMAIN ui' = Fields /\ ui'.toolCalls = ui.toolCalls /\ ui'.messages = M
      /\ ui'.artifacts = ui.artifacts /\ ui'.tables = ui.tables /\ ui'.charts = ui.charts
      /\ ui'.questions = Q
  BY <1>4, FieldNames DEF TidyInv, Tidy, Drawn
<1>6. Callers' = Callers
  BY DEF Send, sdkVars, Callers, Announced
<1>7. DOMAIN ui'.questions = DOMAIN ui.questions
  BY <1>3, <1>5
<1>8. Tidy(ui', Callers)
  BY <1>2, <1>5, <1>7, AddedTidy DEF TidyInv
<1> QED BY <1>6, <1>8 DEF TidyInv

LEMMA ReplyIs == ASSUME NEW n PROVE Reply(n)[1] = "reply" /\ Reply(n) # NoId
BY DEF Reply, NoId

LEMMA StartTurnTidy ==
  ASSUME ConvInv, TidyInv, NEW slides \in 0..1, StartTurn(slides)
  PROVE  Tidy(ui', Callers')
<1>1. PICK e : e = Event("message_start", <<>>, [id |-> Reply(msg')])
  OBVIOUS
<1>2. e.type = "message_start" /\ e.id = Reply(msg')
  BY <1>1, EventIs
<1>3. ui' = Reduced(ui, <<e>> \o SlideEvents(slides)) /\ Callers' = Callers
  BY <1>1 DEF StartTurn, Emit, Say, Callers, Announced
<1>4. Placing(SlideEvents(slides), Callers)
  BY SayPlacing, RegisterPlacing, PlacingNone, PlacingBoth
     DEF SlideEvents, Activity, LightTypes, Slide
<1>5. PICK u : u = agentEventReducer(ui, e)
  OBVIOUS
<1>6. Tidy(u, Callers) /\ InMessage(u)
  BY <1>2, <1>5, ReplyIs, MessageStartTidy DEF TidyInv
<1>7. ui' = Reduced(u, SlideEvents(slides))
  BY <1>3, <1>4, <1>5, ReducedThen, ReducedOne, OneEvent DEF Placing
<1> QED BY <1>3, <1>4, <1>6, <1>7 DEF Placing, TidyInv

LEMMA DeltaStepTidy ==
  ASSUME ConvInv, TidyInv, NEW type \in {"content_delta", "thinking_delta"}, Delta(type)
  PROVE  Tidy(ui', Callers')
<1>1. PICK e : e = Event(type, <<pieces'>>, <<>>)
  OBVIOUS
<1>2. ui' = agentEventReducer(ui, e) /\ e.type = type /\ Callers' = Callers
  BY <1>1, EventIs, ReducedOne DEF Delta, Emit, Callers, Announced
<1> QED BY <1>2, DeltaTidy DEF TidyInv, ConvInv, UiInv

LEMMA AssistantTidy ==
  ASSUME ConvInv, TidyInv, NEW t \in Tools, Assistant(t)
  PROVE  Tidy(ui', Callers')
<1>1. Callers \subseteq Callers'
  BY CallersKept DEF Assistant, ConvInv, TypeInv
<1> QED BY <1>1, StartPlacing, PlacingStep DEF Assistant

LEMMA PreToolUseTidy ==
  ASSUME ConvInv, TidyInv, NEW t \in Tools, PreToolUse(t)
  PROVE  Tidy(ui', Callers')
<1>1. Callers \subseteq Callers'
  <2>1. PICK status \in {"aheadDenied", "ahead", "denied", "ready"} :
          call' = [call EXCEPT ![t] = status]
    BY DEF PreToolUse
  <2> QED BY <2>1, CallersKept DEF ConvInv, TypeInv
<1>2. Placing(Say("hook_event", [hook |-> "pre_tool", tool |-> t]), Callers')
  BY SayPlacing DEF LightTypes
<1> QED BY <1>1, <1>2, StartPlacing, PlacingNone, PlacingBoth, PlacingStep DEF PreToolUse

LEMMA PostToolUseTidy ==
  ASSUME ConvInv, TidyInv, NEW t \in Tools, NEW isError \in BOOLEAN, PostToolUse(t, isError)
  PROVE  Tidy(ui', Callers')
<1>1. Callers \subseteq Callers' /\ t \in Callers'
  BY CallersKept DEF PostToolUse, ConvInv, TypeInv
<1>2. PICK h : h = Say("hook_event", [hook |-> "post_tool", tool |-> t])
  OBVIOUS
<1>3. Placing(h, Callers')
  BY <1>2, SayPlacing DEF LightTypes
<1>4. PICK ends : ends = End(t, isError, TRUE)
  OBVIOUS
<1>5. PICK made : made = IF isError THEN <<>> ELSE Marker(t)
  OBVIOUS
<1>6. Emit((h \o ends) \o made) /\ phase = "loop"
  BY <1>2, <1>4, <1>5 DEF PostToolUse
<1>7. CASE isError = TRUE
  <2>1. Placing(ends, Callers') /\ Placing(made, Callers')
    BY <1>4, <1>5, <1>7, EndPlacing, PlacingNone
  <2>2. Placing(h \o ends, Callers')
    BY <1>3, <2>1, PlacingBoth
  <2>3. Placing((h \o ends) \o made, Callers')
    BY <2>1, <2>2, PlacingBoth
  <2> QED BY <1>1, <1>6, <2>3, PlacingStep
<1>8. CASE isError = FALSE
  <2>1. Sequential(h) /\ Sequential(ends) /\ Sequential(made)
    BY <1>3, <1>4, <1>5, <1>8, OneEvent, MarkerIs DEF End, Say, Placing
  <2>2. Sequential(h \o ends) /\ Reduced(ui, h \o ends) = Reduced(Reduced(ui, h), ends)
    BY <2>1, ReducedThen
  <2>3. ui' = Reduced(Reduced(Reduced(ui, h), ends), made)
    BY <1>6, <2>1, <2>2, ReducedThen DEF Emit
  <2>4. Tidy(Reduced(ui, h), Callers') /\ InMessage(Reduced(ui, h))
    BY <1>1, <1>3, <1>6, TidyMore, UnderWayInMessage DEF Placing, TidyInv
  <2> QED BY <1>1, <1>4, <1>5, <1>8, <2>3, <2>4, EndThenMarker
<1> QED BY <1>7, <1>8

LEMMA UserTidy ==
  ASSUME ConvInv, TidyInv, NEW t \in Tools, User(t)
  PROVE  Tidy(ui', Callers')
<1>1. PICK a : a = IF Pending(t) THEN End(t, t \in failed', FALSE) ELSE <<>>
  OBVIOUS
<1>2. PICK b : b = Event("message_end", <<>>, <<>>)
  OBVIOUS
<1>3. PICK c : c = Event("message_start", <<>>, [id |-> Reply(msg')])
  OBVIOUS
<1>4. /\ ui' = Reduced(ui, (a \o <<b>>) \o <<c>>)
      /\ b.type = "message_end" /\ c.type = "message_start" /\ c.id = Reply(msg')
  BY <1>1, <1>2, <1>3, EventIs DEF User, Emit, Say
<1>5. Callers \subseteq Callers'
  BY CallersKept DEF User, ConvInv, TypeInv
<1>6. Placing(a, Callers')
  BY <1>1, EndPlacing, PlacingNone
<1>7. PICK u : u = Reduced(ui, a)
  OBVIOUS
<1>8. Tidy(u, Callers')
  BY <1>5, <1>6, <1>7, TidyMore, UnderWayInMessage DEF Placing, TidyInv, User, Loop
<1>9. PICK v : v = agentEventReducer(u, b)
  OBVIOUS
<1>10. ui' = agentEventReducer(v, c)
  <2>1. Sequential(a) /\ Sequential(<<b>>) /\ Sequential(<<c>>)
    BY <1>6, OneEvent DEF Placing
  <2>2. Sequential(a \o <<b>>) /\ Reduced(ui, a \o <<b>>) = v
    BY <1>7, <1>9, <2>1, ReducedThen, ReducedOne
  <2> QED BY <1>4, <2>1, <2>2, ReducedThen, ReducedOne
<1>11. Tidy(v, Callers')
  BY <1>4, <1>8, <1>9, MessageEndTidy
<1> QED BY <1>4, <1>10, <1>11, ReplyIs, MessageStartTidy DEF TidyInv

\* The turn ends with query_complete.
LEMMA CompletesTidy ==
  ASSUME TidyInv, NEW b, Tidy(agentEventReducer(ui, b), Callers), NEW text,
         Emit(<<b>> \o Complete(text)), Stopped
  PROVE  Tidy(ui', Callers')
<1>1. PICK e : e = Event("query_complete", text, [id |-> <<"result", turn, 0>>])
  OBVIOUS
<1>2. e.type = "query_complete" /\ ui' = Reduced(ui, <<b>> \o <<e>>)
  BY <1>1, EventIs DEF Emit, Complete
<1>3. ui' = agentEventReducer(agentEventReducer(ui, b), e)
  BY <1>2, ReducedThen, ReducedOne, OneEvent
<1>4. Callers' = Callers
  BY DEF Stopped, Callers, Announced
<1> QED BY <1>2, <1>3, <1>4, CompleteTidy DEF TidyInv

LEMMA ResultTidy ==
  ASSUME TidyInv, NEW text, Result(text)
  PROVE  Tidy(ui', Callers')
<1>1. PICK b : b = Event("message_end", <<>>, <<>>)
  OBVIOUS
<1>2. Tidy(agentEventReducer(ui, b), Callers)
  BY <1>1, EventIs, MessageEndTidy DEF TidyInv
<1>3. Emit(<<b>> \o Complete(text)) /\ Stopped
  BY <1>1 DEF Result, Say
<1> QED BY <1>2, <1>3, CompletesTidy

LEMMA ThrowsTidy ==
  ASSUME ConvInv, TidyInv, Throws
  PROVE  Tidy(ui', Callers')
<1>1. PICK b : b = Event("error", <<>>, <<>>)
  OBVIOUS
<1>2. Orderly(b, Callers) /\ InMessage(ui)
  BY <1>1, EventIs, UnderWayInMessage DEF Orderly, LightTypes, Throws
<1>3. Tidy(agentEventReducer(ui, b), Callers)
  BY <1>2, OrderlyTidy DEF TidyInv
<1>4. Emit(<<b>> \o Complete(<<>>)) /\ Stopped
  BY <1>1 DEF Throws, Say
<1> QED BY <1>3, <1>4, CompletesTidy

LEMMA StepsLimit == Steps => limit' = limit
<1>1. ASSUME NEW e, Passing(e) PROVE limit' = limit
  BY <1>1 DEF Passing
<1>2. CASE Block \/ InputDelta \/ Status \/ HookResponse \/ SystemInit
           \/ (\E t \in Tools : Progress(t)) \/ (\E typed \in BOOLEAN : SubagentStart(typed))
           \/ SubagentStop
  BY <1>1, <1>2 DEF Block, InputDelta, Status, HookResponse, SystemInit, Progress, SubagentStart,
                    SubagentStop
<1> QED BY <1>2 DEF Steps, Send, StartTurn, Delta, Assistant, PreToolUse, User, PostToolUse,
                    Result, Throws, Stopped, sdkVars

LEMMA StepsTidy ==
  ASSUME ConvInv, TidyInv, Steps
  PROVE  TidyInv'
<1> SUFFICES Tidy(ui', Callers')
  BY StepsLimit DEF TidyInv, Tidy, Drawn, kind
<1>1. CASE \E t \in Tools : Assistant(t) \/ PreToolUse(t) \/ User(t)
  BY <1>1, AssistantTidy, PreToolUseTidy, UserTidy
<1>2. CASE \E t \in Tools, isError \in BOOLEAN : PostToolUse(t, isError)
  BY <1>2, PostToolUseTidy
<1>3. CASE \E type \in {"content_delta", "thinking_delta"} : Delta(type)
  BY <1>3, DeltaStepTidy
<1>4. CASE \E slides \in 0..1 : StartTurn(slides)
  BY <1>4, StartTurnTidy
<1>5. CASE Block \/ InputDelta \/ Status \/ HookResponse \/ SystemInit
           \/ (\E t \in Tools : Progress(t)) \/ (\E typed \in BOOLEAN : SubagentStart(typed))
           \/ SubagentStop
  BY <1>5, AsidesTidy
<1> QED BY <1>1, <1>2, <1>3, <1>4, <1>5, SendTidy, ResultTidy, ThrowsTidy DEF Steps

----------------------------------------------------------------------------
(* What is on the screen.                                                  *)

LEMMA ScreenIs ==
  ASSUME NEW s, NEW p, p = Previews(s), NEW screen, screen = Screen(s)
  PROVE  /\ DOMAIN screen \subseteq DOMAIN s.messages
         /\ \A j \in DOMAIN screen :
              screen[j].cards = [k \in DOMAIN s.messages[j].tools |->
                                   Cards(s, s.messages[j].tools[k].id)]
         /\ \A j \in DOMAIN screen :
              /\ screen[j].auto = p.auto[s.messages[j].id]
              /\ screen[j].tool = p.tool[s.messages[j].id]
         /\ \A j \in DOMAIN s.messages :
              Shows(s, j) \/ p.auto[s.messages[j].id] \cup p.tool[s.messages[j].id] # {}
                => j \in DOMAIN screen
<1> DEFINE View(j) == MessageView(s, s.messages[j], p)
           views == [j \in DOMAIN s.messages |-> View(j)]
<1>1. screen = [j \in {k \in DOMAIN s.messages : Visible(views[k])} |-> views[j]]
  BY DEF Screen
<1>2. ASSUME NEW j \in DOMAIN s.messages
      PROVE  /\ views[j].cards = [k \in DOMAIN s.messages[j].tools |->
                                    Cards(s, s.messages[j].tools[k].id)]
             /\ views[j].auto = p.auto[s.messages[j].id]
             /\ views[j].tool = p.tool[s.messages[j].id]
  BY DEF MessageView
<1> HIDE DEF views
<1>3. ASSUME NEW j \in DOMAIN s.messages, Shows(s, j) PROVE Visible(views[j])
  <2>1. DOMAIN views[j].cards = DOMAIN s.messages[j].tools
    BY <1>2
  <2>2. views[j].cards # <<>>
    BY <1>3, <2>1, EmptyOne DEF Shows
  <2> QED BY <2>2 DEF Visible
<1>4. ASSUME NEW j \in DOMAIN s.messages,
             p.auto[s.messages[j].id] \cup p.tool[s.messages[j].id] # {}
      PROVE  Visible(views[j])
  BY <1>2, <1>4 DEF Visible
<1> HIDE DEF View
<1>5. DOMAIN screen \subseteq DOMAIN s.messages /\ \A j \in DOMAIN screen : screen[j] = views[j]
  BY <1>1
<1>6. \A j \in DOMAIN screen : screen[j].cards = [k \in DOMAIN s.messages[j].tools |->
                                                 Cards(s, s.messages[j].tools[k].id)]
  BY <1>2, <1>5
<1>7. \A j \in DOMAIN screen : /\ screen[j].auto = p.auto[s.messages[j].id]
                              /\ screen[j].tool = p.tool[s.messages[j].id]
  BY <1>2, <1>5
<1>8. \A j \in DOMAIN s.messages : Visible(views[j]) => j \in DOMAIN screen
  BY <1>1
<1> QED BY <1>3, <1>4, <1>5, <1>6, <1>7, <1>8

LEMMA PlacesIs ==
  ASSUME NEW s, NEW card, NEW q
  PROVE  q \in Places(Screen(s), card) <=>
           \E i \in DOMAIN s.messages : \E k \in DOMAIN s.messages[i].tools :
             card \in Cards(s, s.messages[i].tools[k].id) /\ q = <<i, k>>
<1>1. PICK p : p = Previews(s)
  OBVIOUS
<1>2. PICK screen : screen = Screen(s)
  OBVIOUS
<1>3. /\ DOMAIN screen \subseteq DOMAIN s.messages
      /\ \A j \in DOMAIN screen : screen[j].cards = [k \in DOMAIN s.messages[j].tools |->
                                                       Cards(s, s.messages[j].tools[k].id)]
      /\ \A j \in DOMAIN s.messages : Shows(s, j) => j \in DOMAIN screen
  BY <1>1, <1>2, ScreenIs
<1>4. q \in Places(screen, card) <=>
        \E i \in DOMAIN screen : \E k \in DOMAIN screen[i].cards :
          card \in screen[i].cards[k] /\ q = <<i, k>>
  BY DEF Places
<1>5. \A i \in DOMAIN s.messages : \A k \in DOMAIN s.messages[i].tools :
        /\ i \in DOMAIN screen /\ k \in DOMAIN screen[i].cards
        /\ screen[i].cards[k] = Cards(s, s.messages[i].tools[k].id)
  BY <1>3 DEF Shows
<1>6. \A i \in DOMAIN screen : \A k \in DOMAIN screen[i].cards :
        i \in DOMAIN s.messages /\ k \in DOMAIN s.messages[i].tools
  BY <1>3
<1> QED BY <1>2, <1>4, <1>5, <1>6

\* What is shown below a call that is shown at one place is there only.
LEMMA CardPlace ==
  ASSUME NEW s, NEW x, NEW status, ShownAs(s, x, status)
  PROVE  \E q : \A card :
           /\ (\A y : card \in Cards(s, y) <=> y = x) => Places(Screen(s), card) = {q}
           /\ (\A y : card \notin Cards(s, y)) => Places(Screen(s), card) = {}
<1>1. PICK i \in DOMAIN s.messages : \E k \in DOMAIN s.messages[i].tools :
        /\ s.messages[i].tools[k].id = x
        /\ \A j \in DOMAIN s.messages : \A l \in DOMAIN s.messages[j].tools :
             s.messages[j].tools[l].id = x => j = i /\ l = k
  BY DEF ShownAs
<1>2. PICK k \in DOMAIN s.messages[i].tools :
        /\ s.messages[i].tools[k].id = x
        /\ \A j \in DOMAIN s.messages : \A l \in DOMAIN s.messages[j].tools :
             s.messages[j].tools[l].id = x => j = i /\ l = k
  BY <1>1
<1>3. ASSUME NEW card, \A y : card \in Cards(s, y) <=> y = x
      PROVE  Places(Screen(s), card) = {<<i, k>>}
  <2>1. \A q : q \in Places(Screen(s), card) <=> q = <<i, k>>
    BY <1>2, <1>3, PlacesIs
  <2> QED BY <2>1
<1>4. ASSUME NEW card, \A y : card \notin Cards(s, y) PROVE Places(Screen(s), card) = {}
  BY <1>4, PlacesIs
<1> QED BY <1>3, <1>4

LEMMA QuestionCard ==
  ASSUME NEW s, NEW x \in DOMAIN s.questions
  PROVE  \A y : <<"question", x>> \in Cards(s, y) <=> y = x
BY DEF Cards

\* Without render plugins, a table or chart is shown below its call.
LEMMA RenderedCard ==
  ASSUME NEW s, NEW Q, Final(s.tables, Q), Final(s.charts, Q), plugins = <<>>, NEW x
  PROVE  /\ (\E r \in s.tables : r.id = <<"event", x>>) =>
              \A y : <<"table", <<"event", x>>>> \in Cards(s, y) <=> y = x
         /\ (~\E r \in s.tables : r.id = <<"event", x>>) =>
              \A y : <<"table", <<"event", x>>>> \notin Cards(s, y)
         /\ (\E r \in s.charts : r.id = <<"event", x>>) =>
              \A y : <<"chart", <<"event", x>>>> \in Cards(s, y) <=> y = x
         /\ (~\E r \in s.charts : r.id = <<"event", x>>) =>
              \A y : <<"chart", <<"event", x>>>> \notin Cards(s, y)
<1>1. ASSUME NEW R \in {s.tables, s.charts}
      PROVE  \A r \in R : r.id = <<"event", x>> <=> r.tool = x
  BY DEF Final
<1>2. ASSUME NEW y
      PROVE  /\ <<"table", <<"event", x>>>> \in Cards(s, y) <=>
                  \E r \in s.tables : r.tool = y /\ r.id = <<"event", x>>
             /\ <<"chart", <<"event", x>>>> \in Cards(s, y) <=>
                  \E r \in s.charts : r.tool = y /\ r.id = <<"event", x>>
  BY DEF Cards
<1> QED BY <1>1, <1>2

----------------------------------------------------------------------------
(* The previews of artifacts.                                              *)

\* The paths that message j registers, by its calls and beside its text.
ByCalls(s, j) == ToolPaths(s.messages[j])
Beside(s, j) == ToSet(s.messages[j].paths)
Paths(s, j) == ByCalls(s, j) \cup Beside(s, j)
Later(s, j) == UNION {Paths(s, i) : i \in {k \in DOMAIN s.messages : k > j}}

\* What message j claims: nothing that a later one has.
OfCalls(s, j) == Matched(s.artifacts, ByCalls(s, j) \ Later(s, j))
OfText(s, j) == {a \in Matched(s.artifacts, Beside(s, j) \ Later(s, j)) : a.kind # "webapp"}

\* The previews when the messages after m have been asked.
Asked(acc, s, m) ==
  /\ DOMAIN acc = {"artifacts", "claimed", "tool", "auto"}
  /\ acc.artifacts = s.artifacts /\ acc.claimed = Later(s, m)
  /\ \A j \in DOMAIN s.messages : j > m =>
       /\ s.messages[j].id \in DOMAIN acc.tool /\ s.messages[j].id \in DOMAIN acc.auto
       /\ acc.tool[s.messages[j].id] = OfCalls(s, j) /\ acc.auto[s.messages[j].id] = OfText(s, j)

\* Messages of one id claim the same.
Distinct(s) ==
  \A i, j \in DOMAIN s.messages : s.messages[i].id = s.messages[j].id =>
    i = j \/ (Paths(s, i) = {} /\ Paths(s, j) = {})

LEMMA PutThere ==
  ASSUME NEW map, NEW key, NEW value
  PROVE  /\ key \in DOMAIN Put(map, key, value) /\ Put(map, key, value)[key] = value
         /\ \A k \in DOMAIN map : /\ k \in DOMAIN Put(map, key, value)
                                  /\ k # key => Put(map, key, value)[k] = map[k]
BY DEF Put

LEMMA ClaimAsks ==
  ASSUME NEW s, NEW n \in Nat, DOMAIN s.messages = 1..n, Distinct(s), NEW m \in 1..n,
         NEW acc, Asked(acc, s, m), NEW next, next = Claim(acc, s.messages[m])
  PROVE  Asked(next, s, m - 1)
<1>1. PICK id : id = s.messages[m].id
  OBVIOUS
<1>2. PICK calls : calls = Matched(acc.artifacts, ToolPaths(s.messages[m]) \ acc.claimed)
  OBVIOUS
<1>3. PICK text : text = {a \in Matched(acc.artifacts, ToSet(s.messages[m].paths) \ acc.claimed) :
                            a.kind # "webapp"}
  OBVIOUS
<1>4. calls = OfCalls(s, m) /\ text = OfText(s, m)
  BY <1>2, <1>3 DEF Asked, OfCalls, OfText, ByCalls, Beside
<1>5. PICK tool : tool = Put(acc.tool, id, calls)
  OBVIOUS
<1>6. PICK auto : auto = Put(acc.auto, id, text)
  OBVIOUS
<1>7. next = [acc EXCEPT !.claimed = acc.claimed \cup (ToolPaths(s.messages[m]) \ acc.claimed)
                                       \cup (ToSet(s.messages[m].paths) \ acc.claimed),
                         !.tool = tool, !.auto = auto]
  BY <1>1, <1>2, <1>3, <1>5, <1>6 DEF Claim
<1>8. /\ DOMAIN next = {"artifacts", "claimed", "tool", "auto"}
      /\ next.artifacts = acc.artifacts /\ next.tool = tool /\ next.auto = auto
      /\ next.claimed = acc.claimed \cup Paths(s, m)
  BY <1>7 DEF Asked, Paths, ByCalls, Beside
<1>9. Later(s, m - 1) = Later(s, m) \cup Paths(s, m)
  <2>1. {k \in DOMAIN s.messages : k > m - 1} = {k \in DOMAIN s.messages : k > m} \cup {m}
    OBVIOUS
  <2> QED BY <2>1 DEF Later
<1>10. ASSUME NEW j \in DOMAIN s.messages, j > m - 1
       PROVE  /\ s.messages[j].id \in DOMAIN tool /\ s.messages[j].id \in DOMAIN auto
              /\ tool[s.messages[j].id] = OfCalls(s, j) /\ auto[s.messages[j].id] = OfText(s, j)
  <2>1. CASE s.messages[j].id = id
    <3>1. tool[id] = OfCalls(s, m) /\ auto[id] = OfText(s, m) /\ id \in DOMAIN tool /\ id \in DOMAIN auto
      BY <1>4, <1>5, <1>6, PutThere
    <3>2. OfCalls(s, m) = OfCalls(s, j) /\ OfText(s, m) = OfText(s, j)
      <4>1. m = j \/ (Paths(s, m) = {} /\ Paths(s, j) = {})
        BY <1>1, <2>1 DEF Distinct
      <4>2. ASSUME NEW i, Paths(s, i) = {} PROVE OfCalls(s, i) = {} /\ OfText(s, i) = {}
        BY <4>2 DEF Paths, OfCalls, OfText, Matched
      <4> QED BY <4>1, <4>2
    <3> QED BY <2>1, <3>1, <3>2
  <2>2. CASE s.messages[j].id # id
    <3>1. j > m
      BY <1>1, <1>10, <2>2
    <3> QED BY <1>5, <1>6, <2>2, <3>1, PutThere DEF Asked
  <2> QED BY <2>1, <2>2
<1> QED BY <1>8, <1>9, <1>10 DEF Asked

\* The previews: each message has what it claims.
LEMMA PreviewsAre ==
  ASSUME NEW s, Sequential(s.messages), Distinct(s), NEW p, p = Previews(s),
         NEW j \in DOMAIN s.messages
  PROVE  p.tool[s.messages[j].id] = OfCalls(s, j) /\ p.auto[s.messages[j].id] = OfText(s, j)
<1>1. PICK n \in Nat : n = Len(s.messages) /\ DOMAIN s.messages = 1..n
  BY DEF Sequential
<1>2. PICK none : none = [artifacts |-> s.artifacts, claimed |-> {}, tool |-> <<>>, auto |-> <<>>]
  OBVIOUS
<1> DEFINE Rule(f, m) == f = [k \in 0..m |-> IF k = 0 THEN none
                                             ELSE Claim(f[k - 1], s.messages[n + 1 - k])]
           P == {m \in 0..n : \E f : Rule(f, m)}
<1>3. 0 \in P
  <2> DEFINE f == [k \in 0..0 |-> none]
  <2>1. \A k \in 0..0 : f[k] = IF k = 0 THEN none ELSE Claim(f[k - 1], s.messages[n + 1 - k])
    OBVIOUS
  <2>2. f = [k \in 0..0 |-> f[k]]
    OBVIOUS
  <2> HIDE DEF f
  <2>3. Rule(f, 0)
    BY <2>1, <2>2
  <2> QED BY <2>3
<1>4. ASSUME NEW m \in 0..n, m \in P, m < n PROVE m + 1 \in P
  <2>1. PICK f : Rule(f, m)
    BY <1>4
  <2> DEFINE h == [k \in 0..(m + 1) |->
                     IF k = m + 1 THEN Claim(f[m], s.messages[n + 1 - (m + 1)]) ELSE f[k]]
  <2>2. \A k \in 0..m : f[k] = IF k = 0 THEN none ELSE Claim(f[k - 1], s.messages[n + 1 - k])
    BY <2>1, Zenon
  <2>3. ASSUME NEW k \in 0..(m + 1)
        PROVE  h[k] = IF k = 0 THEN none ELSE Claim(h[k - 1], s.messages[n + 1 - k])
    <3>1. CASE k = m + 1
      <4>1. k # 0 /\ k - 1 = m /\ m \in 0..(m + 1) /\ m # m + 1
        BY <3>1
      <4>2. h[m] = f[m]
        BY <4>1
      <4>3. h[k] = Claim(f[m], s.messages[n + 1 - k])
        BY <3>1
      <4> HIDE DEF h
      <4> QED BY <4>1, <4>2, <4>3
    <3>2. CASE k # m + 1
      <4>1. k \in 0..m /\ h[k] = f[k]
        BY <3>2
      <4>2. k # 0 => k - 1 \in 0..(m + 1) /\ k - 1 # m + 1
        BY <4>1
      <4>3. k # 0 => h[k - 1] = f[k - 1]
        BY <4>2
      <4> HIDE DEF h
      <4> QED BY <2>2, <4>1, <4>3
    <3> QED BY <3>1, <3>2
  <2>4. Rule(h, m + 1)
    <3>1. h = [k \in 0..(m + 1) |-> h[k]]
      OBVIOUS
    <3> HIDE DEF h
    <3> QED BY <2>3, <3>1
  <2> HIDE DEF h
  <2> QED BY <1>4, <2>4
<1>5. n \in P
  <2> HIDE DEF P
  <2>1. 0..n \subseteq P
    BY <1>3, <1>4, UpTo
  <2> QED BY <2>1
<1> DEFINE g == CHOOSE g : g = [k \in 0..n |-> IF k = 0 THEN none
                                               ELSE Claim(g[k - 1], s.messages[n + 1 - k])]
<1>6. Previews(s) = g[n]
  BY <1>1, <1>2, Zenon DEF Previews
<1>7. Rule(g, n)
  BY <1>5, Zenon
<1> HIDE DEF g
<1>8. \A k \in 0..n : g[k] = IF k = 0 THEN none ELSE Claim(g[k - 1], s.messages[n + 1 - k])
  BY <1>7, Zenon
<1> HIDE DEF Rule, P
<1> DEFINE R == {k \in 0..n : Asked(g[k], s, n - k)}
<1>9. 0 \in R
  <2>1. g[0] = none /\ n - 0 = n
    BY <1>8
  <2>2. {k \in DOMAIN s.messages : k > n} = {}
    BY <1>1
  <2>3. Later(s, n) = {}
    BY <2>2 DEF Later
  <2>4. Asked(none, s, n)
    BY <1>2, <2>2, <2>3 DEF Asked
  <2> QED BY <2>1, <2>4
<1>10. ASSUME NEW k \in 0..n, k \in R, k < n PROVE k + 1 \in R
  <2>1. PICK m \in 1..n : m = n - k
    BY <1>10
  <2>2. k + 1 \in 0..n /\ k + 1 # 0 /\ (k + 1) - 1 = k /\ n + 1 - (k + 1) = m /\ n - (k + 1) = m - 1
    BY <1>10, <2>1
  <2>3. g[k + 1] = Claim(g[k], s.messages[m])
    BY <1>8, <2>2
  <2>4. Asked(g[k], s, m)
    BY <1>10, <2>1
  <2>5. Asked(g[k + 1], s, m - 1)
    BY <1>1, <2>3, <2>4, ClaimAsks
  <2> QED BY <2>2, <2>5
<1>11. n \in R
  <2> HIDE DEF R
  <2>1. 0..n \subseteq R
    BY <1>9, <1>10, UpTo
  <2> QED BY <2>1
<1>12. Asked(p, s, 0)
  <2>1. n - n = 0
    BY <1>1
  <2> QED BY <1>6, <1>11, <2>1
<1>13. j > 0
  BY <1>1
<1> QED BY <1>12, <1>13 DEF Asked

LEMMA Highest ==
  ASSUME NEW n \in Nat, NEW X \in SUBSET (1..n), X # {}
  PROVE  \E j \in X : \A i \in X : i <= j
<1> DEFINE Y == {n - j : j \in X}
<1>1. Y \in SUBSET Nat /\ Y # {}
  <2>1. \A j \in X : n - j \in Nat
    OBVIOUS
  <2>2. PICK j : j \in X
    OBVIOUS
  <2>3. n - j \in Y
    BY <2>2
  <2> QED BY <2>1, <2>3
<1>2. Min(Y) \in Y /\ \A y \in Y : Min(Y) <= y
  <2> HIDE DEF Y
  <2> QED BY <1>1, Lowest
<1>3. PICK j \in X : Min(Y) = n - j
  BY <1>2
<1>4. ASSUME NEW i \in X PROVE i <= j
  <2>1. n - i \in Y
    OBVIOUS
  <2>2. n - j <= n - i
    BY <1>2, <1>3, <2>1
  <2> QED BY <2>2
<1> QED BY <1>4

LEMMA LaterIs ==
  ASSUME NEW s, NEW j, NEW x
  PROVE  x \in Later(s, j) <=> \E i \in DOMAIN s.messages : i > j /\ x \in Paths(s, i)
BY DEF Later

\* Which messages preview an artifact: of those that registered it, the last.
LEMMA PreviewedIs ==
  ASSUME NEW s, Sequential(s.messages), Distinct(s), NEW a
  PROVE  PreviewedBy(Screen(s), a) = {j \in DOMAIN s.messages : a \in OfText(s, j) \cup OfCalls(s, j)}
<1>1. PICK p : p = Previews(s)
  OBVIOUS
<1>2. PICK screen : screen = Screen(s)
  OBVIOUS
<1>3. /\ DOMAIN screen \subseteq DOMAIN s.messages
      /\ \A j \in DOMAIN screen : /\ screen[j].auto = p.auto[s.messages[j].id]
                                  /\ screen[j].tool = p.tool[s.messages[j].id]
      /\ \A j \in DOMAIN s.messages :
           p.auto[s.messages[j].id] \cup p.tool[s.messages[j].id] # {} => j \in DOMAIN screen
  <2>1. /\ DOMAIN screen \subseteq DOMAIN s.messages
        /\ \A j \in DOMAIN screen : /\ screen[j].auto = p.auto[s.messages[j].id]
                                    /\ screen[j].tool = p.tool[s.messages[j].id]
    BY <1>1, <1>2, ScreenIs
  <2>2. \A j \in DOMAIN s.messages :
          p.auto[s.messages[j].id] \cup p.tool[s.messages[j].id] # {} => j \in DOMAIN screen
    BY <1>1, <1>2, ScreenIs
  <2> QED BY <2>1, <2>2
<1>4. \A j \in DOMAIN s.messages :
        p.tool[s.messages[j].id] = OfCalls(s, j) /\ p.auto[s.messages[j].id] = OfText(s, j)
  BY <1>1, PreviewsAre
<1>5. PreviewedBy(screen, a) = {j \in DOMAIN screen : a \in screen[j].auto \cup screen[j].tool}
  BY DEF PreviewedBy
<1> QED BY <1>2, <1>3, <1>4, <1>5

LEMMA PreviewedOnce ==
  ASSUME NEW s, Filed(s), Distinct(s), NEW i \in DOMAIN s.artifacts
  PROVE  LET a == s.artifacts[i]
         IN Cardinality(PreviewedBy(Screen(s), a)) \in (IF a.kind = "webapp" THEN {0, 1} ELSE {1})
<1>1. PICK a : a = s.artifacts[i]
  OBVIOUS
<1>2. PICK X : X = PreviewedBy(Screen(s), a)
  OBVIOUS
<1>3. X = {j \in DOMAIN s.messages : a \in OfText(s, j) \cup OfCalls(s, j)}
  BY <1>2, PreviewedIs DEF Filed
<1>4. PICK n \in Nat : DOMAIN s.messages = 1..n
  BY DEF Filed, Sequential
<1>5. a \in ToSet(s.artifacts)
  BY <1>1 DEF ToSet
<1>6. ASSUME NEW j \in DOMAIN s.messages
      PROVE  /\ a \in OfText(s, j) <=>
                  a.kind # "webapp" /\ \E p \in Beside(s, j) \ Later(s, j) : Matches(a.id, p)
             /\ a \in OfCalls(s, j) <=>
                  \E p \in ByCalls(s, j) \ Later(s, j) : Matches(a.id, p)
             /\ ByCalls(s, j) \subseteq {"file"}
  BY <1>5 DEF OfText, OfCalls, Matched, ByCalls, ToolPaths
<1>7. CASE a.kind = "webapp"
  <2>1. ASSUME NEW j \in X, NEW k \in X PROVE ~(j < k)
    <3>1. "file" \in ByCalls(s, j) \ Later(s, j) /\ "file" \in ByCalls(s, k)
      BY <1>3, <1>6, <1>7
    <3> QED BY <1>3, <3>1, LaterIs DEF Paths
  <2>2. ASSUME NEW j \in X, NEW k \in X PROVE j = k
    BY <1>3, <1>4, <2>1
  <2>3. CASE X = {}
    BY <1>1, <1>2, <1>7, <2>3, FS_EmptySet
  <2>4. CASE X # {}
    <3>1. PICK j : X = {j}
      BY <2>2, <2>4
    <3>2. Cardinality(X) = 1
      BY <3>1, FS_Singleton
    <3> QED BY <1>1, <1>2, <1>7, <3>2
  <2> QED BY <2>3, <2>4
<1>8. CASE a.kind # "webapp"
  <2>1. \A p : Matches(a.id, p) <=> p = a.id
    BY <1>1, <1>8 DEF Filed, Matches
  <2>2. \A j \in DOMAIN s.messages : j \in X <=> a.id \in Paths(s, j) \ Later(s, j)
    BY <1>3, <1>6, <1>8, <2>1 DEF Paths
  <2> DEFINE Y == {j \in DOMAIN s.messages : a.id \in Paths(s, j)}
  <2>3. Y \in SUBSET (1..n) /\ Y # {}
    <3>1. PICK j \in DOMAIN s.messages : \E k \in DOMAIN s.messages[j].paths :
            s.messages[j].paths[k] = a.id
      BY <1>1 DEF Filed
    <3>2. a.id \in Paths(s, j)
      BY <3>1 DEF Paths, Beside, ToSet
    <3> QED BY <1>4, <3>2
  <2>4. PICK j \in Y : \A k \in Y : k <= j
    <3> HIDE DEF Y
    <3> QED BY <2>3, Highest
  <2>5. j \in X
    <3>1. a.id \notin Later(s, j)
      BY <1>4, <2>4, LaterIs
    <3> QED BY <2>2, <2>4, <3>1
  <2>6. ASSUME NEW k \in X PROVE k = j
    <3>1. k \in DOMAIN s.messages
      BY <1>3
    <3>2. k \in Y /\ a.id \notin Later(s, k)
      BY <2>2, <3>1
    <3>3. ~(k < j)
      BY <1>4, <2>4, <3>1, <3>2, LaterIs
    <3> QED BY <1>4, <2>4, <3>1, <3>2, <3>3
  <2>7. X = {j}
    BY <2>5, <2>6
  <2>8. Cardinality(X) = 1
    BY <2>7, FS_Singleton
  <2> QED BY <1>1, <1>2, <1>8, <2>8
<1> QED BY <1>7, <1>8

\* Replies, which alone have calls and files, are told apart by their ids.
LEMMA FiledDistinct ==
  ASSUME NEW s, Filed(s), NEW n, Numbered(s, n)
  PROVE  Distinct(s)
<1>1. ASSUME NEW j \in DOMAIN s.messages, s.messages[j].id[1] # "reply"
      PROVE  Paths(s, j) = {}
  <2>1. DOMAIN s.messages[j].tools = {} /\ DOMAIN s.messages[j].paths = {}
    BY <1>1 DEF Filed, IsFile, Numbered
  <2> QED BY <2>1 DEF Paths, ByCalls, Beside, ToolPaths, ToSet
<1>2. \A i, j \in DOMAIN s.messages : s.messages[i].id = s.messages[j].id =>
        i = j \/ s.messages[j].id[1] # "reply"
  BY DEF Numbered
<1> QED BY <1>1, <1>2 DEF Distinct

----------------------------------------------------------------------------
(* What tools made.                                                        *)

ShownInv == Inv /\ (Attached => TidyInv)

LEMMA ShownBegins == ViewInit => ShownInv
BY Begins, InitTidy DEF ShownInv, ViewInit

\* The view changes nothing of the conversation.
LEMMA ViewSteps == [ViewNext]_allVars => [Next]_vars
<1>1. CASE \E m \in OnScreen : \/ handleHeaderClick(m)
                               \/ \E r \in CallsView(m).rows : handleToolRowClick(m, r) \/ DetailClick(r)
  BY <1>1 DEF handleHeaderClick, handleToolRowClick, DetailClick
<1>2. CASE \E j \in DOMAIN ui.messages : ThinkingClick(ui.messages[j])
  BY <1>2 DEF ThinkingClick
<1>3. CASE \E t \in DOMAIN ui.questions : TypeAnswer(t) \/ Answer(t)
  BY <1>3 DEF TypeAnswer, Answer, Next
<1>4. CASE Chunk \/ Render \/ UNCHANGED allVars
  BY <1>4 DEF Chunk, Render, allVars
<1> QED BY <1>1, <1>2, <1>3, <1>4 DEF ViewNext

LEMMA ShownKept == ShownInv /\ [ViewNext]_allVars => ShownInv'
<1> SUFFICES ASSUME ShownInv, [Next]_vars PROVE ShownInv'
  BY ViewSteps
<1>1. Inv'
  BY GoesOnAlways DEF ShownInv
<1>2. ASSUME Attached' PROVE TidyInv'
  <2>1. CASE Steps
    BY <1>2, <2>1, StepsAttached, StepsTidy DEF ShownInv, Inv, Attached
  <2>2. CASE Reconnect
    BY <1>2, <2>2 DEF ShownInv, Inv, Attached, Reconnect
  <2>3. CASE LegacyRow
    BY <1>2, <2>3 DEF Attached, LegacyRow
  <2>4. CASE UNCHANGED vars
    <3>1. UNCHANGED <<ui, call, limit, phase, reconnects>>
      BY <2>4 DEF vars, sdkVars
    <3> QED BY <1>2, <3>1 DEF ShownInv, Attached, TidyInv, Tidy, Drawn, Callers, Announced, kind
  <2> QED BY <2>1, <2>2, <2>3, <2>4, NextIs
<1> QED BY <1>1, <1>2 DEF ShownInv

LEMMA InvShown == ShownInv /\ Attached /\ plugins = <<>> => ShownOnce
<1> SUFFICES ASSUME ShownInv, Attached, plugins = <<>> PROVE ShownOnce
  OBVIOUS
<1>1. ConvInv /\ Tidy(ui, Callers)
  BY DEF ShownInv, Inv, TidyInv
<1>2. /\ Final(ui.tables, Callers) /\ Final(ui.charts, Callers)
      /\ DOMAIN ui.questions \subseteq Callers /\ Filed(ui)
  BY <1>1 DEF Tidy, Drawn
<1>3. \A t \in Callers : ShownAs(ui, t, StatusOf(t))
  BY <1>1 DEF ConvInv, CallsInv, Callers, Announced
<1>4. RenderedOnce
  BY <1>2 DEF RenderedOnce, Final
<1>5. ASSUME NEW t \in DOMAIN ui.questions
      PROVE  /\ Cardinality(Places(Screen(ui), <<"question", t>>)) = 1
             /\ phase = "idle" /\ ~ui.questions[t] => AskUserCard(ui, t).enabled
  <2>1. PICK q : Places(Screen(ui), <<"question", t>>) = {q}
    <3>1. PICK card : card = <<"question", t>>
      OBVIOUS
    <3>2. \A y : card \in Cards(ui, y) <=> y = t
      BY <3>1, QuestionCard
    <3>3. ShownAs(ui, t, StatusOf(t))
      BY <1>2, <1>3
    <3>4. PICK q : \A c :
            /\ (\A y : c \in Cards(ui, y) <=> y = t) => Places(Screen(ui), c) = {q}
            /\ (\A y : c \notin Cards(ui, y)) => Places(Screen(ui), c) = {}
      BY <3>3, CardPlace
    <3>5. Places(Screen(ui), card) = {q}
      BY <3>2, <3>4
    <3> QED BY <3>1, <3>5
  <2>2. Cardinality(Places(Screen(ui), <<"question", t>>)) = 1
    BY <2>1, FS_Singleton
  <2>3. phase = "idle" => ui.isStreaming = FALSE
    BY <1>1 DEF ConvInv, StreamInv
  <2>4. phase = "idle" /\ ~ui.questions[t] => AskUserCard(ui, t).enabled
    BY <2>3 DEF AskUserCard
  <2> QED BY <2>2, <2>4
<1>6. ASSUME NEW t \in Tools, \E r \in ui.tables \cup ui.charts : r.id = <<"event", t>>
      PROVE  Cardinality(Slots(Stored, t))
               + Cardinality(UNION {Places(Screen(ui), <<what, <<"event", t>>>>) :
                                      what \in {"table", "chart"}}) = 1
  <2>1. Cardinality(Slots(Stored, t)) = 0
    <3>1. Slots(Stored, t) = {}
      BY EmptyOne DEF Slots
    <3> QED BY <3>1, FS_EmptySet
  <2>2. t \in Callers
    BY <1>2, <1>6 DEF Final
  <2>3. PICK q : \A card :
          /\ (\A y : card \in Cards(ui, y) <=> y = t) => Places(Screen(ui), card) = {q}
          /\ (\A y : card \notin Cards(ui, y)) => Places(Screen(ui), card) = {}
    BY <1>3, <2>2, CardPlace
  <2>4. PICK table : table = <<"table", <<"event", t>>>>
    OBVIOUS
  <2>5. PICK chart : chart = <<"chart", <<"event", t>>>>
    OBVIOUS
  <2> DEFINE tables == Places(Screen(ui), table)
             charts == Places(Screen(ui), chart)
             Drew(rendered) == \E r \in rendered : r.id = <<"event", t>>
  <2>6. /\ Drew(ui.tables) => tables = {q}
        /\ ~Drew(ui.tables) => tables = {}
        /\ Drew(ui.charts) => charts = {q}
        /\ ~Drew(ui.charts) => charts = {}
    <3>1. /\ Drew(ui.tables) => \A y : table \in Cards(ui, y) <=> y = t
          /\ ~Drew(ui.tables) => \A y : table \notin Cards(ui, y)
      BY <1>2, <2>4, RenderedCard, ZenonT(40)
    <3>2. /\ Drew(ui.charts) => \A y : chart \in Cards(ui, y) <=> y = t
          /\ ~Drew(ui.charts) => \A y : chart \notin Cards(ui, y)
      BY <1>2, <2>5, RenderedCard, ZenonT(40)
    <3> HIDE DEF Drew
    <3> QED BY <2>3, <3>1, <3>2
  <2>7. tables \cup charts = {q}
    BY <1>6, <2>6
  <2>8. UNION {Places(Screen(ui), <<what, <<"event", t>>>>) : what \in {"table", "chart"}} = {q}
    BY <2>4, <2>5, <2>7
  <2>9. PICK places : places = UNION {Places(Screen(ui), <<what, <<"event", t>>>>) :
                                        what \in {"table", "chart"}}
    OBVIOUS
  <2>10. places = {q}
    BY <2>8, <2>9
  <2>11. Cardinality(places) = 1
    BY <2>10, FS_Singleton
  <2>12. Cardinality(Slots(Stored, t)) + Cardinality(places) = 1
    BY <2>1, <2>11
  <2> QED BY <2>9, <2>12
<1>7. ASSUME NEW i \in DOMAIN ui.artifacts
      PROVE  Cardinality(PreviewedBy(Screen(ui), ui.artifacts[i]))
               \in (IF ui.artifacts[i].kind = "webapp" THEN {0, 1} ELSE {1})
  BY <1>1, <1>2, FiledDistinct, PreviewedOnce DEF ConvInv, UiInv
<1> QED BY <1>4, <1>5, <1>6, <1>7 DEF ShownOnce

(***************************************************************************)
(* What tools made is shown in one place (AgentChat.tsx): a table or chart *)
(* once, below its call, though it is found in the output and told by an   *)
(* event; a question once, and open to an answer when the turn has ended;  *)
(* an artifact beside one message, a web application beside one at most.   *)
(* For any calls and turns, of a client that has not had to attach to a    *)
(* turn again, in a host without render plugins.                           *)
(***************************************************************************)
THEOREM MadeAlwaysShownOnce ==
  ViewSpec => [](phase # "legacy" /\ reconnects = 0 /\ plugins = <<>> => ShownOnce)
<1>1. ShownInv => (phase # "legacy" /\ reconnects = 0 /\ plugins = <<>> => ShownOnce)
  BY InvShown DEF Attached
<1> QED BY <1>1, ShownBegins, ShownKept, PTL DEF ViewSpec
=============================================================================
