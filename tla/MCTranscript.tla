---- MODULE MCTranscript ----
\* TLC instances of Transcript.
EXTENDS Transcript

CONSTANTS t1, t2

TwoTools == {t1, t2}

Of(first, second) == (t1 :> first) @@ (t2 :> second)

Session(kinds, planned, turns, deltas, others) ==
  [kind |-> kinds, plan |-> planned, turns |-> turns, pieces |-> deltas, asides |-> others,
   reconnects |-> 0, rows |-> 0,
   plugins |-> <<>>, clicks |-> 0]

\* Two calls, which may run in parallel.
Pairs == {Session(Of("table", "plain"), FALSE, 1, 1, 0)}

\* One call of each other kind, amid text.
Singles == {Session(Of(a, "unused"), FALSE, 1, 2, 0) :
              a \in {"chart", "todo", "dashboard", "artifact", "build", "server"}}

\* A question, and the messages of the user after it.
Questions == {Session(Of("ask", "unused"), FALSE, 3, 1, 0), Session(Of("ask", "ask"), FALSE, 2, 0, 0)}

\* Events beside the text.
Beside == {Session(Of("build", "unused"), FALSE, 1, 2, 1)}

\* Execution before and after a plan.
Planned == {Session(Of("todo", "script"), TRUE, 1, 0, 0)}

Legacy == {[Session(Of("unused", "unused"), FALSE, 0, 0, 0) EXCEPT !.rows = 4]}

\* A reconnect amid calls without text.
Attached == {[Session(Of("table", "plain"), FALSE, 1, 0, 0) EXCEPT !.reconnects = 1]}

All == Attached \cup Pairs \cup Singles \cup Questions \cup Beside \cup Planned \cup Legacy

====
