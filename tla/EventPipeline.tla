---------------------------- MODULE EventPipeline ----------------------------
(***************************************************************************)
(* The host's event pipeline for one turn (go/events/pipeline.go): Run     *)
(* reads the frames of the in-image agent's response, collects them and    *)
(* stores their compaction when the turn ends; with a cadence, a second    *)
(* goroutine stores what was collected so far at every tick.  The sink is  *)
(* the Runner's (storeSink of go/runner.go) over a database.               *)
(*                                                                         *)
(* The copy for the client and the status Run reports are left out: writes *)
(* to the client ignore errors, and SendMessage ignores the status.        *)
(***************************************************************************)
EXTENDS Compact

CONSTANTS
  NoRow,
  MaxFrames,     \* bound: frames of the agent, without and with a cadence
  MaxFaults      \* bound: failures of the database

Envelopes == [type : Types, text : Seq(Nat)]

ASSUME PipelineAssumption ==
  /\ NoRow \notin Seq(Envelopes)
  /\ MaxFrames \in [BOOLEAN -> Nat] /\ MaxFaults \in Nat

VARIABLES
  cadence,    \* whether the pipeline was built with one
  leading,    \* the events the host puts before those of the agent
  sent,       \* the frames of the agent's response
  body,       \* the response: "open" or "ended"
  ctx,        \* the request's context: "live" or "done"
  read,       \* how many frames Run has read
  collected,
  pc,         \* where Run is
  err,        \* whether it returned an error
  ticked,     \* a tick waits in the ticker's channel
  flusher,    \* where the second goroutine is
  snap,       \* its copy of collected
  pending,    \* the sink's flush counter
  row,        \* what the store holds for the query
  faults

outside == <<cadence, leading, sent, body, ctx>>
runVars == <<read, collected, pc, err>>
flusherVars == <<ticked, flusher, snap>>
storeVars == <<pending, row, faults>>
vars == <<outside, runVars, flusherVars, storeVars>>

\* The prompt is a leading event, unless it is empty.
Init ==
  /\ cadence \in BOOLEAN
  /\ leading \in {<<>>, <<Envelope("user", <<>>)>>, <<Envelope("user", <<0>>)>>}
  /\ sent = <<>>
  /\ body = "open"
  /\ ctx = "live"
  /\ read = 0
  /\ collected = leading
  /\ pc = "scan"
  /\ err = FALSE
  /\ ticked = FALSE
  /\ flusher = IF cadence THEN "wait" ELSE "off"
  /\ snap = <<>>
  /\ pending = 0
  /\ row = NoRow
  /\ faults = 0

----------------------------------------------------------------------------
(* The agent, the client, the ticker.                                      *)

\* A "long" frame is longer than the scanner's buffer.  Frames sent ahead
\* wait in the connection, where nothing tells them from later ones: there is
\* one at a time, and none once Run has stopped reading.
AgentSends(type) ==
  /\ body = "open"
  /\ pc = "scan" /\ read = Len(sent)
  /\ Len(sent) < MaxFrames[cadence]
  /\ sent' = Append(sent, Envelope(type, <<Len(sent) + 1>>))
  /\ UNCHANGED <<cadence, leading, body, ctx, runVars, flusherVars, storeVars>>

\* Between two frames or within one.
BodyEnds ==
  /\ body = "open"
  /\ body' = "ended"
  /\ sent' \in {sent, Append(sent, Envelope("cut", <<Len(sent) + 1>>))}
  /\ UNCHANGED <<cadence, leading, ctx, runVars, flusherVars, storeVars>>

\* The client goes, or its request is answered.
Cancel ==
  /\ ctx = "live"
  /\ ctx' = "done"
  /\ UNCHANGED <<cadence, leading, sent, body, runVars, flusherVars, storeVars>>

\* The ticker runs until Run returns.
Tick ==
  /\ cadence
  /\ pc # "returned"
  /\ ticked' = TRUE
  /\ UNCHANGED <<outside, runVars, flusher, snap, storeVars>>

----------------------------------------------------------------------------
(* Run.                                                                    *)

Scanned(n) == n < Len(sent) /\ sent[n + 1].type # "long"

ScanThrough ==               \* mutant: query_complete does not end the loop
  /\ pc = "scan"
  /\ ctx = "live"
  /\ Scanned(read)
  /\ read' = read + 1
  /\ collected' = collected \o parseDataLine(sent[read'])
  /\ UNCHANGED <<pc, err, outside, flusherVars, storeVars>>

ScanShort ==                 \* mutant: query_complete is not collected
  /\ pc = "scan"
  /\ ctx = "live"
  /\ Scanned(read)
  /\ read' = read + 1
  /\ IF sent[read'].type = "complete"
       THEN pc' = "persist" /\ UNCHANGED collected
       ELSE collected' = collected \o parseDataLine(sent[read']) /\ UNCHANGED pc
  /\ UNCHANGED <<err, outside, flusherVars, storeVars>>

\* One frame; query_complete is the last.
Scan ==
  /\ pc = "scan"
  /\ ctx = "live"
  /\ Scanned(read)
  /\ read' = read + 1
  /\ collected' = collected \o parseDataLine(sent[read'])
  /\ pc' = IF sent[read'].type = "complete" THEN "persist" ELSE "scan"
  /\ UNCHANGED <<err, outside, flusherVars, storeVars>>

\* The context is done, the response has ended, or the scanner gives up.
ScanEnds ==
  /\ pc = "scan"
  /\ \/ ctx = "done"
     \/ read = Len(sent) /\ body = "ended"
     \/ read < Len(sent) /\ ~Scanned(read)
  /\ pc' = "persist"
  /\ UNCHANGED <<read, collected, err, outside, flusherVars, storeVars>>

BeginFlush == pending' = pending + 1

EndFlush == pending' = IF pending > 0 THEN pending - 1 ELSE 0

Persist ==
  /\ pc = "persist"
  /\ \/ collected = <<>> /\ pc' = "returned" /\ UNCHANGED pending
     \/ collected # <<>> /\ pc' = "store" /\ BeginFlush
  /\ UNCHANGED <<read, collected, err, outside, flusherVars, row, faults>>

\* The upsert of the query's row.  Postgres refuses what is not text.
StoreAccepts(events) ==
  /\ ctx = "live"
  /\ IsText(ExtractSearchText(Compacted(events)))
  /\ row' = Compacted(events)
  /\ UNCHANGED faults

StoreFails(events) ==
  /\ UNCHANGED row
  /\ \/ (ctx = "done" \/ ~IsText(ExtractSearchText(Compacted(events)))) /\ UNCHANGED faults
     \/ faults < MaxFaults /\ faults' = faults + 1

Store ==
  /\ pc = "store"
  /\ pc' = "endFlush"
  /\ \/ StoreAccepts(collected) /\ UNCHANGED err
     \/ StoreFails(collected) /\ err' = TRUE
  /\ UNCHANGED <<read, collected, outside, flusherVars, pending>>

\* The deferred EndFlush; Run returns, which closes done.
Return ==
  /\ pc = "endFlush"
  /\ EndFlush
  /\ pc' = "returned"
  /\ UNCHANGED <<read, collected, err, outside, flusherVars, row, faults>>

----------------------------------------------------------------------------
(* The flusher.                                                            *)

\* It copies what was collected.
Snapshot ==
  /\ flusher = "wait"
  /\ ticked
  /\ ticked' = FALSE
  /\ snap' = collected
  /\ flusher' = IF collected = <<>> THEN "wait" ELSE "begin"
  /\ UNCHANGED <<outside, runVars, storeVars>>

FlushBegins ==
  /\ flusher = "begin"
  /\ flusher' = "store"
  /\ BeginFlush
  /\ UNCHANGED <<outside, runVars, ticked, snap, row, faults>>

FlushStores ==
  /\ flusher = "store"
  /\ flusher' = "end"
  /\ StoreAccepts(snap) \/ StoreFails(snap)
  /\ UNCHANGED <<outside, runVars, ticked, snap, pending>>

FlushEnds ==
  /\ flusher = "end"
  /\ flusher' = "wait"
  /\ EndFlush
  /\ UNCHANGED <<outside, runVars, ticked, snap, row, faults>>

\* done is closed; a tick that waits may still be taken first.
FlusherStops ==
  /\ flusher = "wait"
  /\ pc = "returned"
  /\ flusher' = "off"
  /\ UNCHANGED <<outside, runVars, ticked, snap, storeVars>>

----------------------------------------------------------------------------
Run == Scan \/ ScanEnds \/ Persist \/ Store \/ Return

Flusher == Snapshot \/ FlushBegins \/ FlushStores \/ FlushEnds \/ FlusherStops

Next ==
  \/ \E type \in (Types \ {"user"}) \cup {"long"} : AgentSends(type)
  \/ BodyEnds \/ Cancel \/ Tick
  \/ Run
  \/ Flusher

Spec == Init /\ [][Next]_vars

\* Both goroutines are scheduled, and database calls return.
FairSpec == Spec /\ WF_vars(Run) /\ WF_vars(Flusher)

----------------------------------------------------------------------------
(* Properties.                                                             *)

TypeOK ==
  /\ cadence \in BOOLEAN
  /\ read \in 0..Len(sent)
  /\ body \in {"open", "ended"} /\ ctx \in {"live", "done"}
  /\ \A j \in DOMAIN collected : collected[j] \in Envelopes
  /\ pc \in {"scan", "persist", "store", "endFlush", "returned"}
  /\ err \in BOOLEAN /\ ticked \in BOOLEAN
  /\ flusher \in {"wait", "begin", "store", "end", "off"}
  /\ IsPrefix(snap, collected)
  /\ pending \in 0..2
  /\ faults \in 0..MaxFaults

\* Events taken to pieces, one for each character, in order; those of the types
\* left out give none.
PiecesOf(event, without) ==
  IF event.type \in without THEN <<>>
  ELSE [c \in DOMAIN event.text |-> [type |-> event.type, char |-> event.text[c]]]

Pieces(events, without) ==
  LET of[n \in 0..Len(events)] ==
        IF n = 0 THEN <<>> ELSE of[n - 1] \o PiecesOf(events[n], without)
  IN of[Len(events)]

\* What compaction is for: nothing durable is lost, moved or retyped, and no
\* two deltas of a type stand side by side.
CompactionOf(stored, events) ==
  /\ Pieces(stored, {}) = Pieces(events, {"transient"})
  /\ \A j \in 2..Len(stored) : stored[j].type \in Deltas => stored[j - 1].type # stored[j].type

\* The turn up to its n-th frame.
Stream(first, frames, n) ==
  LET of[k \in 0..n] == IF k = 0 THEN first ELSE of[k - 1] \o parseDataLine(frames[k])
  IN of[n]

Streamed(n) == Stream(leading, sent, n)

(***************************************************************************)
(* Replay after a crash or a lost stream shows a beginning of the turn:    *)
(* whichever goroutine wrote last, the row is the compaction of the events *)
(* up to some frame.                                                       *)
(***************************************************************************)
RowIsBeginning == row # NoRow => \E n \in 0..read : CompactionOf(row, Streamed(n))

\* Where Run stops reading unless its context is done: behind query_complete,
\* at the end of the response, or before a line too long for its scanner.
Stopped ==
  \/ read > 0 /\ sent[read].type = "complete"
  \/ read = Len(sent) /\ body = "ended"
  \/ read < Len(sent) /\ ~Scanned(read)

(***************************************************************************)
(* "the browser loads the persisted compacted events" (docs/05): once the  *)
(* default pipeline's Run has returned without error, the row is the       *)
(* compaction of every frame it read, query_complete included, and nothing *)
(* but one of the three stops kept it from reading on.  That is not always *)
(* the whole turn: behind a response that broke off, and behind a line     *)
(* that is too long, the rest of the turn is missing from the row, and Run *)
(* returns without error all the same (pipeline.go:155-162).               *)
(***************************************************************************)
ReadIsStored ==
  pc = "returned" /\ ~err /\ ~cadence /\ collected # <<>>
    => Stopped /\ row # NoRow /\ CompactionOf(row, Streamed(read))

(***************************************************************************)
(* The flush guard (docs/05): the counter is raised while either goroutine *)
(* is about to write, and what one raises only it lowers.                  *)
(***************************************************************************)
Flushing ==
  (IF pc \in {"store", "endFlush"} THEN 1 ELSE 0)
    + (IF flusher \in {"store", "end"} THEN 1 ELSE 0)

GuardCounts == pending = Flushing

(***************************************************************************)
(* "The query is done -- don't wait for the SSE connection to close"       *)
(* (pipeline.go:124): Run returns once query_complete was sent, the        *)
(* response has ended or the client has gone.                              *)
(***************************************************************************)
RunReturns ==
  (ctx = "done" \/ body = "ended" \/ \E j \in DOMAIN sent : sent[j].type = "complete")
    ~> pc = "returned"

=============================================================================
