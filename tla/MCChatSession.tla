---- MODULE MCChatSession ----
\* TLC instances of ChatSession.
EXTENDS ChatSession, TLC
Symmetry == Permutations(Sessions)
====
