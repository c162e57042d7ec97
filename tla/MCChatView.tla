---- MODULE MCChatView ----
\* TLC instances of ChatView: those of Transcript, and some with clicks.
EXTENDS ChatView, MCTranscript

Clicked(n, kinds, deltas, turns) == [Session(kinds, FALSE, turns, deltas, 0) EXCEPT !.clicks = n]

\* Two calls of one message; a question between turns; reasoning.
Clicks == {Clicked(2, Of("plain", "unused"), 1, 1), Clicked(1, Of("plain", "plain"), 0, 1),
           Clicked(2, Of("ask", "unused"), 0, 2), Clicked(2, Of("script", "unused"), 0, 1)}

\* A file registered by two calls, and a web application.
Registered == {Session(Of("artifact", a), FALSE, 1, 1, 0) : a \in {"artifact", "build"}}

\* A host with a plugin for tables and charts.
Plugged == {[Session(Of("table", "dashboard"), FALSE, 1, 0, 0) EXCEPT
               !.plugins = <<{"table_rendered", "chart_rendered"}>>]}

Viewed == All \cup Clicks \cup Registered \cup Plugged
====
