------------------------------- MODULE Compact -------------------------------
(***************************************************************************)
(* What the host stores of a turn's events (go/events/compact.go,          *)
(* parseDataLine of go/events/pipeline.go), as functions on sequences.     *)
(*                                                                         *)
(* An envelope is its type and its text, a sequence of characters; that of *)
(* an event without text is a number that tells it from the others.        *)
(***************************************************************************)
EXTENDS Naturals, Sequences, SequencesExt

CONSTANTS
  Wide,        \* the characters that take two bytes, the others take one
  MaxText      \* maxSearchTextLen, in bytes

Deltas == {"content", "thinking"}

\* "transient" is any of transientTypes, "other" any type that neither
\* compaction nor the pipeline looks at.
Types == Deltas \cup {"user", "transient", "other", "complete"}

Envelope(type, text) == [type |-> type, text |-> text]

\* parseDataLine: both shapes of a data line give the same envelope; a line
\* that is not JSON, cut off by the end of the connection, gives none.
parseDataLine(frame) == IF frame.type = "cut" THEN <<>> ELSE <<frame>>

\* Transient events and blank user messages are dropped.
keeps(event) ==
  /\ event.type # "transient"
  /\ event.type = "user" => event.text # <<>>

mergeAny(out, event) ==         \* mutant: a delta is merged into any delta
  IF ~keeps(event) THEN out
  ELSE IF event.type \in Deltas /\ out # <<>> /\ Last(out).type \in Deltas
    THEN [out EXCEPT ![Len(out)].text = @ \o event.text]
    ELSE Append(out, event)

\* A delta is merged into the last event kept if that is of its type.
merge(out, event) ==
  IF ~keeps(event) THEN out
  ELSE IF event.type \in Deltas /\ out # <<>> /\ Last(out).type = event.type
    THEN [out EXCEPT ![Len(out)].text = @ \o event.text]
    ELSE Append(out, event)

\* The loop over the events.
Compacted(in) ==
  LET out[n \in 0..Len(in)] == IF n = 0 THEN <<>> ELSE merge(out[n - 1], in[n])
  IN out[Len(in)]

Bytes(text) == FlattenSeq([j \in DOMAIN text |-> IF text[j] \in Wide
                                                   THEN <<text[j], text[j]>> ELSE <<text[j]>>])

\* ExtractSearchText: the bytes of user and assistant text, cut at MaxText.
\* (The blank after a user message is left out.)
ExtractSearchText(in) ==
  LET bytes == FlattenSeq([j \in DOMAIN in |-> IF in[j].type \in {"user", "content"}
                                                 THEN Bytes(in[j].text) ELSE <<>>])
  IN SubSeq(bytes, 1, IF Len(bytes) < MaxText THEN Len(bytes) ELSE MaxText)

\* The bytes are text: each wide character, of which there is one, is whole.
IsText(bytes) == \A c \in Wide : Len(SelectSeq(bytes, LAMBDA b : b = c)) # 1
=============================================================================
