---------------------------- MODULE MCSessionList ----------------------------
(* A session to be created and one that the host has.                       *)
EXTENDS SessionPanels

CONSTANTS s1, s2

MCOld == <<s2>>

\* What the user does and types together; a second operation only with a host whose
\* list the panel can read, a third only with a list longer than a page, such as its
\* refresh, and no poll going on.
Bounded ==
  /\ asked + typed <= 3
  /\ asked >= 2 => wrapped = (panel = "drawer")
  /\ asked = 3 => Len(sessionList) > SESSION_PAGE_SIZE /\ polls = <<>> /\ timer = NoSession
=============================================================================
