--------------------------- MODULE MCEventPipeline ---------------------------
(***************************************************************************)
(* Instances of EventPipeline for TLC.                                     *)
(***************************************************************************)
EXTENDS EventPipeline

\* With a cadence the turn is shorter: every copy of it the flusher may hold
\* multiplies the states.
MCMaxFrames == [c \in BOOLEAN |-> IF c THEN 2 ELSE 3]
=============================================================================
