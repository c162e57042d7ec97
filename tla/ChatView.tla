------------------------------ MODULE ChatView ------------------------------
(***************************************************************************)
(* The conversation on the screen (web/src/components/AgentChat.tsx and    *)
(* the cards it is made of): what is derived of the reduced state for each *)
(* message, and the state that lives in the components themselves - groups *)
(* of tool calls that open and close by themselves until they are clicked, *)
(* details, reasoning, answers under way.  It runs on top of Transcript,   *)
(* whose events it renders: React may render after each chunk or later.    *)
(*                                                                         *)
(* Left out: layout, labels, icons, scrolling and focus.                   *)
(***************************************************************************)
EXTENDS Transcript

VARIABLES
  fresh,             \* the screen shows ui
  groups,            \* message -> ToolCallGroup's state
  open,              \* what was opened by a click and not closed
  clicks

viewVars == <<fresh, groups, open, clicks>>
allVars == <<vars, viewVars>>

\* The render plugins of the host, each its set of event types.
plugins == limit.plugins

----------------------------------------------------------------------------
(* What is derived of the reduced state.                                   *)

\* Path of a call of register_artifact.  Artifacts are matched by the end of
\* their path: the built web application's ends with the one the tool is given.
ToolPaths(m) == {"file" : j \in {k \in DOMAIN m.tools : m.tools[k].name = "artifact"}}
Matches(path, p) == path = p \/ (path = "dist" /\ p = "file")

Matched(artifacts, paths) ==
  {a \in ToSet(artifacts) : \E p \in paths : Matches(a.id, p)}

\* mutant: every message shows what it registered
ClaimAgain(acc, m) ==
  [acc EXCEPT
     !.tool = Put(@, m.id, Matched(acc.artifacts, ToolPaths(m))),
     !.auto = Put(@, m.id, {a \in Matched(acc.artifacts, ToSet(m.paths)) : a.kind # "webapp"})]

\* A message claims the paths that no later message has claimed.
Claim(acc, m) ==
  LET toolPaths == ToolPaths(m) \ acc.claimed
      autoPaths == ToSet(m.paths) \ acc.claimed
  IN [acc EXCEPT
        !.claimed = @ \cup toolPaths \cup autoPaths,
        !.tool = Put(@, m.id, Matched(acc.artifacts, toolPaths)),
        !.auto = Put(@, m.id, {a \in Matched(acc.artifacts, autoPaths) : a.kind # "webapp"})]

\* The artifacts previewed beside each message, from the last message on.
Previews(s) ==
  LET n == Len(s.messages)
      acc[k \in 0..n] ==
        IF k = 0 THEN [artifacts |-> s.artifacts, claimed |-> {}, tool |-> <<>>, auto |-> <<>>]
        ELSE Claim(acc[k - 1], s.messages[n + 1 - k])
  IN acc[n]

\* A call whose output is an image is previewed too.
IsImage(tc) == tc.name = "image" /\ tc.status = "complete"

\* Plugins fold the events of their types for each call: here, they keep them.
foldPluginEvents(events) ==
  [i \in DOMAIN plugins |->
     LET its == SelectSeq(events, LAMBDA e : e.type \in plugins[i])
     IN [t \in {its[j].tool : j \in DOMAIN its} |-> SelectSeq(its, LAMBDA e : e.tool = t)]]

Slots(events, t) ==
  LET byPlugin == foldPluginEvents(events)
  IN {i \in DOMAIN plugins : t \in DOMAIN byPlugin[i]}

\* What is shown below a call: its question always, the rest if no plugin
\* renders for the host.
Cards(s, t) ==
  {<<"question", t>> : q \in {t} \cap DOMAIN s.questions}
  \cup IF plugins # <<>> THEN {}
       ELSE {<<"table", r.id>> : r \in {x \in s.tables : x.tool = t}}
            \cup {<<"chart", r.id>> : r \in {x \in s.charts : x.tool = t}}
            \cup {<<"dashboard", t>> : d \in {x \in DOMAIN s.dashboards : s.dashboards[x] = t}}

\* The lines between messages and input.
Lines(s) ==
  {l \in {"preparing", "system", "activity", "subagents"} :
     CASE l = "preparing" -> s.isStreaming /\ s.activity = "preparing_tool" /\ s.toolInput # <<>>
       [] l = "system"    -> ~s.isStreaming /\ s.activity = "system"
       [] l = "activity"  -> s.isStreaming /\ s.activity # "none"
       [] l = "subagents" -> s.isStreaming /\ "start" \in ToSet(s.subagents)
                                           /\ "stop" \notin ToSet(s.subagents)}

\* The button beside the input.
Button(s) == IF s.isStreaming THEN "Stop" ELSE "Send"

\* ThinkingBlock: the last message's is open while the reasoning goes on.
Reasoning(s, m) ==
  s.isStreaming /\ s.activity = "thinking" /\ m.id = Last(s.messages).id

ThinkingBlock(s, m) ==
  IF m.thinking = <<>> THEN "none"
  ELSE IF Reasoning(s, m) THEN "active"
  ELSE IF <<"thinking", m.id>> \in open THEN "open" ELSE "closed"

\* What is shown of a message, with the previews p of all of them.
MessageView(s, m, p) ==
  [id |-> m.id,
   thinking |-> ThinkingBlock(s, m),
   bubble |-> m.role = "user" \/ m.text # <<>>,
   auto |-> p.auto[m.id],
   cards |-> [j \in DOMAIN m.tools |-> Cards(s, m.tools[j].id)],
   images |-> {j \in DOMAIN m.tools : IsImage(m.tools[j])},
   tool |-> p.tool[m.id]]

\* A message with nothing to show is left out.
Visible(v) == v.thinking # "none" \/ v.bubble \/ v.cards # <<>> \/ v.auto \cup v.tool # {}

\* The messages on the screen, each at its place.
Screen(s) ==
  LET p == Previews(s)
      views == [j \in DOMAIN s.messages |-> MessageView(s, s.messages[j], p)]
  IN [j \in {k \in DOMAIN s.messages : Visible(views[k])} |-> views[j]]

----------------------------------------------------------------------------
(* ToolCallGroup.                                                          *)

Mounted == [expanded |-> FALSE, userToggled |-> FALSE, prevHadRunning |-> FALSE]

Having(tools, status) == {j \in DOMAIN tools : tools[j].status = status}

\* mutant: a group that has nothing to run any more stays as it is
FollowsOpening(g, tools) ==
  IF g.userToggled THEN g
  ELSE [g EXCEPT !.expanded = @ \/ Having(tools, "running") # {}]

\* The effect after a render: a group opens while a call runs and closes when
\* none does and none has failed, until the user has clicked it.
Follows(g, tools) ==
  LET running == Having(tools, "running") # {}
      hasError == Having(tools, "error") # {}
  IN IF g.userToggled THEN g
     ELSE [g EXCEPT !.prevHadRunning = running,
                    !.expanded = running \/ (@ /\ (~g.prevHadRunning \/ hasError))]

ToolMessages(s) == {m \in ToSet(s.messages) : m.tools # <<>>}

Followed(s) ==
  [id \in {m.id : m \in ToolMessages(s)} |->
     Follows(IF id \in DOMAIN groups THEN groups[id] ELSE Mounted,
             (CHOOSE m \in ToolMessages(s) : m.id = id).tools)]

\* What the header of a group says.
Header(tools) ==
  IF Having(tools, "running") # {} THEN "running"
  ELSE IF Having(tools, "error") # {} THEN "failed" ELSE "completed"

\* One call is a row of its own, without a header.
Single(m) == Len(m.tools) = 1

\* What a detail shows: the output, and what is in it, of a call that has one.
ToolDetail(tc) ==
  {"input"} \cup IF tc.status = "running" THEN {} ELSE {"output"}
            \cup IF IsImage(tc) THEN {"image"} ELSE {}

\* ScriptExecutionBlock: a script shows its output without a click, a long
\* one in full after it.
ScriptBlock(tc) ==
  {"script"} \cup IF tc.status = "running" THEN {}
                  ELSE IF <<"script", tc.id>> \in open THEN {"output"} ELSE {"preview"}

Row(tc, opened) ==
  [id |-> tc.id, status |-> tc.status,
   shows |-> IF tc.name = "script" THEN ScriptBlock(tc)
             ELSE IF opened THEN ToolDetail(tc) ELSE {}]

SingleView(m) ==
  [header |-> "none", rows |-> {Row(m.tools[1], <<"single", m.id>> \in open)}]

GroupView(m) ==
  [header |-> Header(m.tools),
   rows |-> IF groups[m.id].expanded
              THEN {Row(m.tools[j], <<"row", m.id, m.tools[j].id>> \in open) : j \in DOMAIN m.tools}
              ELSE {}]

CallsView(m) == IF Single(m) THEN SingleView(m) ELSE GroupView(m)

\* The calls on the screen.
OnScreen == IF fresh THEN ToolMessages(ui) ELSE {}

\* AskUserCard: an answer can be chosen or typed unless a turn is under way
\* or the question is answered.
AskUserCard(s, t) ==
  [enabled |-> ~s.isStreaming /\ ~s.questions[t], answered |-> s.questions[t],
   draft |-> <<"draft", t>> \in open]

----------------------------------------------------------------------------
(* Rendering.                                                              *)

ViewInit ==
  /\ Init
  /\ fresh = TRUE
  /\ groups = <<>>
  /\ open = {}
  /\ clicks = 0

\* A chunk of events is rendered at once, or with the next ones.
Chunk ==
  /\ Next
  /\ \/ fresh' = TRUE /\ groups' = Followed(ui')
     \/ limit.clicks > 0 /\ fresh' = FALSE /\ UNCHANGED groups
  /\ UNCHANGED <<open, clicks>>

Render ==
  /\ ~fresh
  /\ fresh' = TRUE
  /\ groups' = Followed(ui)
  /\ UNCHANGED <<vars, open, clicks>>

----------------------------------------------------------------------------
(* Clicks.                                                                 *)

Click ==
  /\ fresh
  /\ clicks < limit.clicks
  /\ clicks' = clicks + 1
  /\ UNCHANGED fresh

Flipped(x) == IF x \in open THEN open \ {x} ELSE open \cup {x}

\* Details that leave the screen forget what was opened in them.
Forgotten(m) == {"output", "hooks"} \X {m.tools[j].id : j \in DOMAIN m.tools}

Toggled(g) == [g EXCEPT !.userToggled = TRUE, !.expanded = ~@]

handleHeaderClick(m) ==
  /\ Click
  /\ ~Single(m)
  /\ groups' = [groups EXCEPT ![m.id] = Toggled(groups[m.id])]
  /\ open' = open \ Forgotten(m)
  /\ UNCHANGED vars

\* One row of a group has its detail open; a single call's is apart.
handleToolRowClick(m, r) ==
  /\ Click
  /\ "script" \notin r.shows
  /\ open' = IF Single(m) THEN Flipped(<<"single", m.id>>) \ Forgotten(m)
             ELSE Flipped(<<"row", m.id, r.id>>)
                    \ (Forgotten(m) \cup {<<"row", m.id, m.tools[j].id>> :
                                           j \in {k \in DOMAIN m.tools : m.tools[k].id # r.id}})
  /\ UNCHANGED <<vars, groups>>

\* A long output, and the hooks of a call, open in the detail.
DetailClick(r) ==
  /\ Click
  /\ \/ "input" \in r.shows /\ open' = Flipped(<<"hooks", r.id>>)
     \/ {"input", "output"} \subseteq r.shows /\ open' = Flipped(<<"output", r.id>>)
     \/ "script" \in r.shows /\ r.status # "running" /\ open' = Flipped(<<"script", r.id>>)
  /\ UNCHANGED <<vars, groups>>

ThinkingClick(m) ==
  /\ Click
  /\ ThinkingBlock(ui, m) \in {"open", "closed"}
  /\ open' = Flipped(<<"thinking", m.id>>)
  /\ UNCHANGED <<vars, groups>>

TypeAnswer(t) ==
  /\ Click
  /\ AskUserCard(ui, t).enabled
  /\ open' = open \cup {<<"draft", t>>}
  /\ UNCHANGED <<vars, groups>>

\* The question is marked as answered, and the answer sent as a message.
Answer(t) ==
  /\ Click
  /\ AskUserCard(ui, t).enabled
  /\ Send(<<0>>)
  /\ groups' = Followed(ui')
  /\ UNCHANGED open

ViewNext ==
  \/ Chunk
  \/ Render
  \/ \E m \in OnScreen : handleHeaderClick(m)
  \/ \E m \in OnScreen : \E r \in CallsView(m).rows : handleToolRowClick(m, r)
  \/ \E m \in OnScreen : \E r \in CallsView(m).rows : DetailClick(r)
  \/ \E j \in DOMAIN ui.messages : ThinkingClick(ui.messages[j])
  \/ \E t \in DOMAIN ui.questions : TypeAnswer(t) \/ Answer(t)

ViewSpec == ViewInit /\ [][ViewNext]_allVars

----------------------------------------------------------------------------
(* Properties.                                                             *)

\* Where a card is on the screen, and which messages preview an artifact.
Places(screen, card) ==
  UNION {{<<i, j>> : j \in {k \in DOMAIN screen[i].cards : card \in screen[i].cards[k]}} :
         i \in DOMAIN screen}
PreviewedBy(screen, artifact) ==
  {i \in DOMAIN screen : artifact \in screen[i].auto \cup screen[i].tool}

(***************************************************************************)
(* What tools made is shown in one place: a table or chart once, below its *)
(* call, by plugins or by the chat; a question once, so that it can be     *)
(* answered when the turn has ended; an artifact beside one message, and   *)
(* beside none only if it is a web application.                            *)
(***************************************************************************)
ShownOnce ==
  LET screen == Screen(ui)
  IN /\ RenderedOnce
     /\ \A t \in DOMAIN ui.questions :
          /\ Cardinality(Places(screen, <<"question", t>>)) = 1
          /\ phase = "idle" /\ ~ui.questions[t] => AskUserCard(ui, t).enabled
     /\ \A t \in Tools :
          (\E r \in ui.tables \cup ui.charts : r.id = <<"event", t>>) =>
            Cardinality(Slots(Stored, t))
              + Cardinality(UNION {Places(screen, <<what, <<"event", t>>>>) :
                                     what \in {"table", "chart"}}) = 1
     /\ \A j \in DOMAIN ui.artifacts :
          Cardinality(PreviewedBy(screen, ui.artifacts[j]))
            \in (IF ui.artifacts[j].kind = "webapp" THEN {0, 1} ELSE {1})

(***************************************************************************)
(* The screen says what goes on: the button stops a turn that is under way *)
(* and nothing else; between turns no line and no reasoning speaks of      *)
(* work; and a group of calls that the user has left alone has its rows    *)
(* open while one of them runs, and closed when all have succeeded.        *)
(***************************************************************************)
ScreenFollows ==
  fresh =>
    /\ phase # "legacy" => (Button(ui) = "Stop") = (phase \in {"sent", "loop"})
    /\ phase = "idle" => /\ Lines(ui) = {}
                         /\ \A j \in DOMAIN ui.messages :
                              ThinkingBlock(ui, ui.messages[j]) # "active"
    /\ \A m \in ToolMessages(ui) :
         LET view == CallsView(m)
         IN ~Single(m) /\ ~groups[m.id].userToggled =>
              /\ view.header = "running" => view.rows # {}
              /\ view.header = "completed" => view.rows = {}
=============================================================================
