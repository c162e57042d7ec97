---------------------------- MODULE StreamService ----------------------------
(***************************************************************************)
(* The in-image stream service (sandbox/src/services/stream-service.ts):   *)
(* what it keeps for one key "session:query", as a record, and what each   *)
(* of its methods does to that record.  Node runs a handler to its next    *)
(* await without interruption, so a method is a function of the record and *)
(* a handler that calls several is their composition.                      *)
(*                                                                         *)
(* Events are numbered in the order the harness emits them.  What an event *)
(* says is left out; of the input deltas, the numbers of those that were   *)
(* joined into one event are kept.                                         *)
(***************************************************************************)
EXTENDS Naturals, Sequences

CONSTANTS
  Replies,     \* HTTP responses an event stream is written to
  MaxBuffer    \* MAX_BUFFER_SIZE

ASSUME StreamAssumption == MaxBuffer \in Nat \ {0}

Kinds == {"content", "input", "boundary", "complete", "heartbeat"}

Event(kind, parts) == [kind |-> kind, parts |-> parts]

Events == [kind : Kinds, parts : Seq(Nat)]

(***************************************************************************)
(* streams: the replies the key's events go to; buffer: eventBuffer;       *)
(* delta: inputDeltaBuffers, whose 150 ms timer runs while it is not       *)
(* empty.  The rest is for the properties: sent, the number of the last    *)
(* event; wrote, what each reply was written; lost, what the buffer        *)
(* evicted.                                                                *)
(***************************************************************************)
Keys == [streams : SUBSET Replies, buffer : Seq(Events), delta : Seq(Nat),
         sent : Nat, wrote : [Replies -> Seq(Events)], lost : SUBSET Nat]

NoKey == [streams |-> {}, buffer |-> <<>>, delta |-> <<>>, sent |-> 0,
          wrote |-> [r \in Replies |-> <<>>], lost |-> {}]

Numbers(event) == {event.parts[j] : j \in DOMAIN event.parts}

bufferEvent(k, event) ==
  LET full == Append(k.buffer, event) IN
  IF Len(full) <= MaxBuffer
    THEN [k EXCEPT !.buffer = full]
    ELSE [k EXCEPT !.buffer = Tail(full), !.lost = @ \cup Numbers(Head(full))]

write(k, event) ==
  [k EXCEPT !.wrote = [r \in Replies |-> IF r \in k.streams THEN Append(@[r], event)
                                                            ELSE @[r]]]

sendEventDirect(k, event) ==
  IF k.streams = {} THEN bufferEvent(k, event) ELSE write(k, event)

flushInputDelta(k) ==
  IF k.delta = <<>> THEN k
  ELSE sendEventDirect([k EXCEPT !.delta = <<>>], Event("input", k.delta))

sendWithoutFlush(k, kind) ==     \* mutant: no boundary event flushes the deltas
  LET numbered == [k EXCEPT !.sent = @ + 1] IN
  IF kind = "input" THEN [numbered EXCEPT !.delta = Append(@, numbered.sent)]
  ELSE sendEventDirect(numbered, Event(kind, <<numbered.sent>>))

\* sendEventByKey: an input delta waits, a boundary event (tool_use_start,
\* tool_use_end, message_end) sends what waits before itself.
sendEvent(k, kind) ==
  LET numbered == [k EXCEPT !.sent = @ + 1] IN
  IF kind = "input" THEN [numbered EXCEPT !.delta = Append(@, numbered.sent)]
  ELSE sendEventDirect(IF kind = "boundary" THEN flushInputDelta(numbered) ELSE numbered,
                       Event(kind, <<numbered.sent>>))

\* A heartbeat means something only where it is buffered.
sendHeartbeat(k) ==
  IF k.streams = {} THEN bufferEvent(k, Event("heartbeat", <<>>)) ELSE k

addStreamNoReplay(k, r) ==       \* mutant: the buffer is cleared unsent
  [k EXCEPT !.streams = @ \cup {r}, !.buffer = <<>>]

addStream(k, r) ==
  [k EXCEPT !.streams = @ \cup {r},
            !.wrote[r] = @ \o k.buffer,
            !.buffer = <<>>]

removeStream(k, r) == [k EXCEPT !.streams = @ \ {r}]

endQueryKeepsBuffer(k) ==        \* mutant: the buffer is not cleared
  sendEvent(flushInputDelta(k), "complete")

endQuery(k) == [sendEvent(flushInputDelta(k), "complete") EXCEPT !.buffer = <<>>]

\* What closeSession does to each key of the session; the replies are ended.
closeKey(k) == [k EXCEPT !.streams = {}, !.buffer = <<>>, !.delta = <<>>]
=============================================================================
