---------------------------- MODULE SandboxProofs ----------------------------
(***************************************************************************)
(* Proofs about the in-image sandbox, for any sessions, queries, replies,  *)
(* buffer size and number of events.                                       *)
(***************************************************************************)
EXTENDS Sandbox, SequenceTheorems, TLAPS

----------------------------------------------------------------------------
(* The stream service's methods take a key's record to a key's record.     *)

\* Events are what the service makes of kinds and numbers.
LEMMA EventType ==
  ASSUME NEW kind \in Kinds, NEW parts \in Seq(Nat)
  PROVE  Event(kind, parts) \in Events
BY DEF Event, Events

LEMMA NoKeyType == NoKey \in Keys
BY DEF NoKey, Keys

LEMMA Fields ==
  ASSUME NEW k \in Keys
  PROVE  /\ k.streams \in SUBSET Replies /\ k.buffer \in Seq(Events)
         /\ k.delta \in Seq(Nat) /\ k.sent \in Nat
         /\ k.wrote \in [Replies -> Seq(Events)] /\ k.lost \in SUBSET Nat
BY DEF Keys

LEMMA Empty == <<>> \in Seq(Nat) /\ <<>> \in Seq(Events)
BY EmptySeq

\* bufferEvent, evicting or not, leaves a well-formed record.
LEMMA BufferType ==
  ASSUME NEW k \in Keys, NEW e \in Events
  PROVE  bufferEvent(k, e) \in Keys
<1> DEFINE full == Append(k.buffer, e)
<1>1. k.buffer \in Seq(Events)
  BY Fields, Empty DEF Keys
<1>2. full \in Seq(Events) /\ full # <<>> /\ Len(full) > 0
  BY <1>1
<1>3. Tail(full) \in Seq(Events)
  BY <1>2
<1>4. Head(full) \in Events
  BY <1>2
<1>5. Numbers(Head(full)) \subseteq Nat
  BY <1>4 DEF Numbers, Events
<1>6. CASE Len(full) <= MaxBuffer
  BY <1>2, <1>6 DEF bufferEvent, Keys
<1>7. CASE ~(Len(full) <= MaxBuffer)
  <2>1. bufferEvent(k, e) = [k EXCEPT !.buffer = Tail(full),
                                      !.lost = @ \cup Numbers(Head(full))]
    BY <1>7 DEF bufferEvent
  <2>2. k.lost \cup Numbers(Head(full)) \in SUBSET Nat
    BY <1>5 DEF Keys
  <2> HIDE DEF full
  <2> QED BY <2>1, <2>2, <1>3 DEF Keys
<1> QED BY <1>6, <1>7

LEMMA WriteType ==
  ASSUME NEW k \in Keys, NEW e \in Events
  PROVE  write(k, e) \in Keys
<1> DEFINE new == [r \in Replies |-> IF r \in k.streams THEN Append(k.wrote[r], e)
                                                         ELSE k.wrote[r]]
<1>1. k.wrote \in [Replies -> Seq(Events)]
  BY Fields, Empty DEF Keys
<1>2. new \in [Replies -> Seq(Events)]
  BY <1>1
<1>3. write(k, e) = [k EXCEPT !.wrote = new]
  BY DEF write, Keys
<1> HIDE DEF new
<1> QED BY <1>2, <1>3, Fields DEF Keys

LEMMA SendDirectType ==
  ASSUME NEW k \in Keys, NEW e \in Events
  PROVE  sendEventDirect(k, e) \in Keys
BY BufferType, WriteType DEF sendEventDirect

LEMMA FlushType ==
  ASSUME NEW k \in Keys
  PROVE  flushInputDelta(k) \in Keys
<1>1. [k EXCEPT !.delta = <<>>] \in Keys
  BY Fields, Empty DEF Keys
<1>2. Event("input", k.delta) \in Events
  BY EventType, Fields DEF Kinds
<1> QED BY <1>1, <1>2, SendDirectType DEF flushInputDelta

LEMMA NumberedType ==
  ASSUME NEW k \in Keys, NEW n \in Nat
  PROVE  [k EXCEPT !.sent = n] \in Keys /\ [k EXCEPT !.sent = n].sent = n
BY Fields DEF Keys

LEMMA SendEventType ==
  ASSUME NEW k \in Keys, NEW kind \in Kinds
  PROVE  sendEvent(k, kind) \in Keys
<1> DEFINE numbered == [k EXCEPT !.sent = @ + 1]
<1>1. numbered \in Keys /\ numbered.sent \in Nat
  <2>1. k.sent + 1 \in Nat
    BY Fields
  <2> QED BY <2>1, NumberedType
<1>2. Event(kind, <<numbered.sent>>) \in Events
  <2>1. <<numbered.sent>> \in Seq(Nat)
    BY <1>1
  <2> HIDE DEF numbered
  <2> QED BY <2>1, EventType
<1>3. [numbered EXCEPT !.delta = Append(@, numbered.sent)] \in Keys
  <2>1. Append(numbered.delta, numbered.sent) \in Seq(Nat)
    BY <1>1 DEF Keys
  <2> HIDE DEF numbered
  <2> QED BY <1>1, <2>1 DEF Keys
<1>4. flushInputDelta(numbered) \in Keys
  BY <1>1, FlushType
<1>5. sendEvent(k, kind) =
        IF kind = "input" THEN [numbered EXCEPT !.delta = Append(@, numbered.sent)]
        ELSE sendEventDirect(IF kind = "boundary" THEN flushInputDelta(numbered) ELSE numbered,
                             Event(kind, <<numbered.sent>>))
  BY DEF sendEvent
<1> HIDE DEF numbered
<1> QED BY <1>1, <1>2, <1>3, <1>4, <1>5, SendDirectType

LEMMA HeartbeatType ==
  ASSUME NEW k \in Keys
  PROVE  sendHeartbeat(k) \in Keys
<1>1. Event("heartbeat", <<>>) \in Events
  BY EventType, Empty DEF Kinds
<1> QED BY <1>1, BufferType DEF sendHeartbeat

LEMMA AddStreamType ==
  ASSUME NEW k \in Keys, NEW r \in Replies
  PROVE  addStream(k, r) \in Keys
<1>1. k.wrote \in [Replies -> Seq(Events)] /\ k.buffer \in Seq(Events)
  BY Fields, Empty DEF Keys
<1>2. k.wrote[r] \o k.buffer \in Seq(Events)
  BY <1>1
<1>3. [k.wrote EXCEPT ![r] = k.wrote[r] \o k.buffer] \in [Replies -> Seq(Events)]
  BY <1>1, <1>2
<1> DEFINE wrote == [k.wrote EXCEPT ![r] = k.wrote[r] \o k.buffer]
<1>4. addStream(k, r) = [k EXCEPT !.streams = k.streams \cup {r},
                                  !.wrote = wrote, !.buffer = <<>>]
  BY DEF addStream
<1>5. k.streams \cup {r} \in SUBSET Replies
  BY Fields
<1> HIDE DEF wrote
<1> QED BY <1>3, <1>4, <1>5, Fields, Empty DEF Keys, wrote

LEMMA RemoveStreamType ==
  ASSUME NEW k \in Keys, NEW r \in Replies
  PROVE  removeStream(k, r) \in Keys
BY DEF removeStream, Keys

LEMMA EndQueryType ==
  ASSUME NEW k \in Keys
  PROVE  endQuery(k) \in Keys
<1>1. sendEvent(flushInputDelta(k), "complete") \in Keys
  BY FlushType, SendEventType DEF Kinds
<1> QED BY <1>1, Empty DEF endQuery, Keys

LEMMA CloseKeyType ==
  ASSUME NEW k \in Keys
  PROVE  closeKey(k) \in Keys
BY Fields, Empty DEF closeKey, Keys

----------------------------------------------------------------------------
(* Type correctness.                                                       *)

\* The fields a turn's step leaves alone or moves keep their types.
LEMMA StepType ==
  ASSUME TypeOK, NEW q \in Queries, NEW from,
         NEW to \in {"none", "attach", "proxy", "over", "cut"} \cup InLoop, Step(q, from, to)
  PROVE  /\ exists' \subseteq Sessions
         /\ pc' \in [Queries -> {"none", "attach", "proxy", "over", "cut"} \cup InLoop]
         /\ owner' \in [Queries -> Sessions \cup {NoSession}]
         /\ aborted' \subseteq Queries
         /\ aborted' = aborted
         /\ at' \in [Replies -> Queries \cup {NoQuery}]
         /\ line' \in [Replies -> {"new", "open", "ended", "closed"}]
BY DEF TypeOK, Step, replyVars

\* An abort tells the SDK of no query it does not record.
LEMMA AbortType ==
  ASSUME TypeOK, NEW qs \in SUBSET Queries, abort(qs)
  PROVE  aborted' \subseteq Queries /\ stopped' \subseteq aborted'
BY DEF TypeOK, abort

\* destroy, which a delete and a create with another harness share.
LEMMA DestroyType ==
  ASSUME TypeOK, NEW s \in Sessions, destroy(s)
  PROVE  TypeOK'
<1>1. turns[s] \in SUBSET Queries
  BY DEF TypeOK
<1>2. aborted' \subseteq Queries /\ stopped' \subseteq aborted'
  BY <1>1, AbortType DEF destroy
<1>3. key' \in [Queries -> Keys]
  <2>1. \A q \in Queries : key[q] \in Keys /\ closeKey(key[q]) \in Keys
    BY CloseKeyType DEF TypeOK
  <2> QED BY <2>1 DEF destroy
<1>4. line' \in [Replies -> {"new", "open", "ended", "closed"}]
  BY DEF destroy, TypeOK
<1>5. turns' \in [Sessions -> SUBSET Queries]
  BY DEF destroy, TypeOK
<1> QED BY <1>2, <1>3, <1>4, <1>5 DEF destroy, TypeOK

\* Opening a reply's stream, or an event, for one key only.
LEMMA KeyType ==
  ASSUME TypeOK, NEW q, NEW k \in Keys, key' = [key EXCEPT ![q] = k]
  PROVE  key' \in [Queries -> Keys]
BY DEF TypeOK

\* Every component of the state keeps its type, whatever happens.
THEOREM TypeCorrect == Spec => []TypeOK
<1>1. Init => TypeOK
  BY NoKeyType DEF Init, TypeOK
<1>2. TypeOK /\ [Next]_vars => TypeOK'
  <2> SUFFICES ASSUME TypeOK, [Next]_vars
               PROVE  TypeOK'
    OBVIOUS
  <2>0. \A q \in Queries : key[q] \in Keys
    BY DEF TypeOK
  <2>1. ASSUME NEW s \in Sessions, Create(s) PROVE TypeOK'
    BY <2>1 DEF Create, TypeOK, turnVars, replyVars
  <2>2. ASSUME NEW s \in Sessions, CreateUnknown(s) \/ Delete(s) PROVE TypeOK'
    BY <2>2, DestroyType DEF CreateUnknown, Delete
  <2>3. ASSUME NEW s \in Sessions, NEW q \in Queries, NEW r \in Replies, QueryStream(s, q, r)
        PROVE  TypeOK'
    <3>1. abort(turns[s]) /\ turns[s] \in SUBSET Queries
      BY <2>3 DEF QueryStream, startTurn, TypeOK
    <3>2. aborted' \subseteq Queries /\ stopped' \subseteq aborted'
      BY <3>1, AbortType
    <3>3. sendEvent(addStream(key[q], r), "content") \in Keys
      BY <2>0, AddStreamType, SendEventType DEF Kinds
    <3>4. key' \in [Queries -> Keys]
      BY <2>3, <3>3, KeyType DEF QueryStream
    <3>5. turns' \in [Sessions -> SUBSET Queries]
      BY <2>3 DEF QueryStream, startTurn, TypeOK
    <3> QED BY <2>3, <3>2, <3>4, <3>5 DEF QueryStream, TypeOK, InLoop
  <2>4. ASSUME NEW s \in Sessions, NEW qs \in SUBSET Queries, Cancel(s, qs) PROVE TypeOK'
    <3>1. aborted' \subseteq Queries /\ stopped' \subseteq aborted'
      BY <2>4, AbortType DEF Cancel
    <3> QED BY <2>4, <3>1 DEF Cancel, TypeOK, replyVars
  <2>5. ASSUME NEW q \in Queries, TurnStep(q) PROVE TypeOK'
    <3>1. CASE Attached(q)
      BY <3>1, StepType DEF Attached, TypeOK, InLoop
    <3>2. CASE ProxyStarted(q)
      BY <3>2, StepType DEF ProxyStarted, TypeOK, InLoop
    <3>3. CASE Result(q)
      <4>1. endQuery(sendEvent(key[q], "boundary")) \in Keys
        BY <2>0, SendEventType, EndQueryType DEF Kinds
      <4>2. key' \in [Queries -> Keys]
        BY <3>3, <4>1, KeyType DEF Result
      <4> QED BY <3>3, <4>2, StepType DEF Result, TypeOK, InLoop
    <3>4. CASE Drained(q)
      <4>1. turns' \in [Sessions -> SUBSET Queries]
        BY <3>4 DEF Drained, endTurn, TypeOK
      <4> QED BY <3>4, <4>1, StepType DEF Drained, TypeOK
    <3>5. CASE Throws(q)
      <4>1. endQuery(sendEvent(key[q], "content")) \in Keys
        BY <2>0, SendEventType, EndQueryType DEF Kinds
      <4>2. key' \in [Queries -> Keys]
        BY <3>5, <4>1, KeyType DEF Throws
      <4>3. turns' \in [Sessions -> SUBSET Queries]
        BY <3>5 DEF Throws, endTurn, TypeOK
      <4> QED BY <3>5, <4>2, <4>3, StepType DEF Throws, TypeOK
    <3> QED BY <2>5, <3>1, <3>2, <3>3, <3>4, <3>5 DEF TurnStep
  <2>6. ASSUME NEW q \in Queries, FlushTimer(q) PROVE TypeOK'
    <3>1. key' \in [Queries -> Keys]
      BY <2>0, <2>6, FlushType, KeyType DEF FlushTimer
    <3> QED BY <2>6, <3>1 DEF FlushTimer, TypeOK, turnVars, replyVars
  <2>7. ASSUME NEW q \in Queries, NEW kind \in {"content", "input", "boundary"}, Message(q, kind)
        PROVE  TypeOK'
    <3>1. sendEvent(key[q], kind) \in Keys
      BY <2>0, SendEventType DEF Kinds
    <3>2. key' \in [Queries -> Keys]
      BY <2>7, <3>1, KeyType DEF Message
    <3> QED BY <2>7, <3>2, StepType DEF Message, TypeOK, InLoop
  <2>8. ASSUME NEW q \in Queries, NEW r \in Replies, Stream(q, r) PROVE TypeOK'
    <3>1. key' \in [Queries -> Keys]
      BY <2>0, <2>8, AddStreamType, KeyType DEF Stream
    <3> QED BY <2>8, <3>1 DEF Stream, TypeOK, turnVars
  <2>9. ASSUME NEW r \in Replies, Close(r) \/ Heartbeat(r) PROVE TypeOK'
    <3>1. key' \in [Queries -> Keys]
      <4>1. CASE at[r] \in Queries
        BY <2>0, <2>9, <4>1, RemoveStreamType, HeartbeatType, KeyType DEF Close, Heartbeat
      <4>2. CASE at[r] \notin Queries
        BY <2>9, <4>2 DEF Close, Heartbeat, TypeOK
      <4> QED BY <4>1, <4>2
    <3> QED BY <2>9, <3>1 DEF Close, Heartbeat, TypeOK, turnVars, replyVars
  <2>10. CASE UNCHANGED vars
    BY <2>10 DEF vars, turnVars, replyVars, TypeOK
  <2> QED BY <2>1, <2>2, <2>3, <2>4, <2>5, <2>6, <2>7, <2>8, <2>9, <2>10 DEF Next
<1> QED BY <1>1, <1>2, PTL DEF Spec

----------------------------------------------------------------------------
(* One active turn per session, as the manager keeps it.                   *)

\* A turn that is under way was started for a session.
Owned == \A q \in Queries : UnderWay(q) => owner[q] \in Sessions

Inductive == Owned /\ OthersAborted

\* destroy aborts every turn its session has registered.
LEMMA DestroyAborts ==
  ASSUME TypeOK, Inductive, NEW s \in Sessions, destroy(s)
  PROVE  Inductive'
BY DEF TypeOK, Inductive, Owned, OthersAborted, UnderWay, InLoop, destroy, abort

\* A step of a turn that stays under way moves no registration.
LEMMA StaysUnderWay ==
  ASSUME TypeOK, Inductive, NEW q \in Queries, NEW from, NEW to, Step(q, from, to),
         from \in {"attach", "proxy"} \cup InLoop,
         to \in {"attach", "proxy"} \cup InLoop, turns' = turns
  PROVE  Inductive'
BY DEF TypeOK, Inductive, Owned, OthersAborted, UnderWay, InLoop, Step

\* A turn that ends is not registered any more.
LEMMA Ends ==
  ASSUME TypeOK, Inductive, NEW q \in Queries, NEW from, NEW to \in {"over", "cut"},
         Step(q, from, to), from \in {"attach"} \cup InLoop, endTurn(q)
  PROVE  Inductive'
BY DEF TypeOK, Inductive, Owned, OthersAborted, UnderWay, InLoop, Step, endTurn

\* The registered turns are under way, each for its own session.
LEMMA InductiveAlways == Spec => []Inductive
<1>1. Init => Inductive
  BY DEF Init, Inductive, Owned, OthersAborted, UnderWay, InLoop
<1>2. TypeOK /\ Inductive /\ [Next]_vars => Inductive'
  <2> SUFFICES ASSUME TypeOK, Inductive, [Next]_vars
               PROVE  Inductive'
    OBVIOUS
  <2> USE DEF Inductive, Owned, OthersAborted, UnderWay, InLoop
  <2>1. ASSUME NEW s \in Sessions, Create(s) PROVE Inductive'
    BY <2>1 DEF Create, turnVars
  <2>2. ASSUME NEW s \in Sessions, CreateUnknown(s) \/ Delete(s) PROVE Inductive'
    BY <2>2, DestroyAborts DEF CreateUnknown, Delete
  <2>3. ASSUME NEW s \in Sessions, NEW q \in Queries, NEW r \in Replies, QueryStream(s, q, r)
        PROVE  Inductive'
    BY <2>3 DEF QueryStream, startTurn, abort, TypeOK
  <2>4. ASSUME NEW s \in Sessions, NEW qs \in SUBSET Queries, Cancel(s, qs) PROVE Inductive'
    BY <2>4 DEF Cancel, abort, TypeOK
  <2>5. ASSUME NEW q \in Queries, TurnStep(q) PROVE Inductive'
    BY <2>5, StaysUnderWay, Ends
       DEF TurnStep, Attached, ProxyStarted, Result, Drained, Throws
  <2>6. ASSUME NEW q \in Queries, FlushTimer(q) PROVE Inductive'
    BY <2>6 DEF FlushTimer, turnVars
  <2>7. ASSUME NEW q \in Queries, NEW kind \in {"content", "input", "boundary"}, Message(q, kind)
        PROVE  Inductive'
    BY <2>7, StaysUnderWay DEF Message
  <2>8. ASSUME NEW q \in Queries, NEW r \in Replies, Stream(q, r) PROVE Inductive'
    BY <2>8 DEF Stream, turnVars
  <2>9. ASSUME NEW r \in Replies, Close(r) \/ Heartbeat(r) PROVE Inductive'
    BY <2>9 DEF Close, Heartbeat, turnVars
  <2>10. CASE UNCHANGED vars
    BY <2>10 DEF vars, turnVars
  <2> QED BY <2>1, <2>2, <2>3, <2>4, <2>5, <2>6, <2>7, <2>8, <2>9, <2>10 DEF Next
<1> QED BY <1>1, <1>2, TypeCorrect, PTL DEF Spec

\* A session has at most one registered turn, and every other turn under way
\* was aborted (session-manager.ts, startTurn).
THEOREM OthersAbortedAlways == Spec => []OthersAborted
<1>1. Inductive => OthersAborted
  BY DEF Inductive
<1> QED BY <1>1, InductiveAlways, PTL

----------------------------------------------------------------------------
(* No event of a turn that is over is kept.                                *)

\* Nothing but heartbeats, which have no number, waits in the key.
Quiet(k) == k.delta = <<>> /\ \A j \in 1..Len(k.buffer) : k.buffer[j].parts = <<>>

Ended(q) == pc[q] \in {"drain", "over"}

\* A result ends the query before the turn is over.
OverIsQuiet == \A q \in Queries : Ended(q) => Quiet(key[q])

LEMMA QuietIsFreed ==
  ASSUME NEW k \in Keys, Quiet(k)
  PROVE  Kept(k) = {}
<1>1. DOMAIN k.buffer = 1..Len(k.buffer)
  BY Fields
<1>2. \A j \in DOMAIN k.buffer : Numbers(k.buffer[j]) = {}
  BY <1>1 DEF Quiet, Numbers
<1>3. InEvents(k.buffer) = {}
  BY <1>2 DEF InEvents
<1>4. {k.delta[j] : j \in DOMAIN k.delta} = {}
  BY DEF Quiet
<1> QED BY <1>3, <1>4 DEF Kept

\* Sending leaves the deltas that a flush has emptied empty, unless it sends
\* one of them.
LEMMA DirectKeepsDelta ==
  ASSUME NEW k \in Keys, NEW e
  PROVE  sendEventDirect(k, e).delta = k.delta
BY Fields DEF sendEventDirect, bufferEvent, write, Keys

\* endQuery flushes the deltas and clears the buffer.
LEMMA EndQueryIsQuiet ==
  ASSUME NEW k \in Keys
  PROVE  Quiet(endQuery(k))
<1> DEFINE flushed == flushInputDelta(k)
           numbered == [flushed EXCEPT !.sent = @ + 1]
           sent == sendEvent(flushed, "complete")
<1>1. flushed \in Keys /\ flushed.delta = <<>>
  <2>1. [k EXCEPT !.delta = <<>>] \in Keys /\ [k EXCEPT !.delta = <<>>].delta = <<>>
    BY Fields, Empty DEF Keys
  <2> QED BY <2>1, FlushType, DirectKeepsDelta DEF flushInputDelta
<1>2. numbered \in Keys /\ numbered.delta = <<>>
  <2> HIDE DEF flushed
  <2>1. flushed.sent + 1 \in Nat
    BY <1>1, Fields
  <2> QED BY <1>1, <2>1, Fields DEF Keys
<1>3. sent = sendEventDirect(numbered, Event("complete", <<numbered.sent>>))
  BY DEF sendEvent
<1>4. sent \in Keys /\ sent.delta = <<>>
  <2>1. sent \in Keys
    BY <1>1, SendEventType DEF Kinds
  <2> HIDE DEF numbered
  <2> QED BY <2>1, <1>2, <1>3, DirectKeepsDelta
<1>5. endQuery(k) = [sent EXCEPT !.buffer = <<>>]
  BY DEF endQuery
<1> HIDE DEF sent
<1> QED BY <1>4, <1>5, Fields DEF Quiet, Keys

\* What replies do to a quiet key leaves it quiet.
LEMMA StaysQuiet ==
  ASSUME NEW k \in Keys, Quiet(k), NEW r \in Replies
  PROVE  /\ Quiet(addStream(k, r)) /\ Quiet(removeStream(k, r))
         /\ Quiet(closeKey(k)) /\ Quiet(sendHeartbeat(k))
<1>1. Quiet(addStream(k, r))
  BY Fields DEF Quiet, addStream, Keys
<1>2. Quiet(removeStream(k, r))
  BY Fields DEF Quiet, removeStream, Keys
<1>3. Quiet(closeKey(k))
  BY Fields DEF Quiet, closeKey, Keys
<1>4. Quiet(sendHeartbeat(k))
  <2> DEFINE beat == Event("heartbeat", <<>>)
             full == Append(k.buffer, beat)
  <2>1. beat \in Events /\ beat.parts = <<>>
    BY EventType, Empty DEF Kinds, Event
  <2>2. k.buffer \in Seq(Events)
    BY Fields
  <2>3. full \in Seq(Events) /\ Len(full) = Len(k.buffer) + 1 /\ full # <<>>
    <3> HIDE DEF beat
    <3> QED BY <2>1, <2>2
  <2>4. \A j \in 1..Len(full) : full[j].parts = <<>>
    <3> HIDE DEF beat
    <3> QED BY <2>1, <2>2 DEF Quiet
  <2>5. \A j \in 1..Len(Tail(full)) : Tail(full)[j].parts = <<>>
    <3> HIDE DEF full
    <3> QED BY <2>3, <2>4
  <2>6. CASE k.streams = {} /\ Len(full) <= MaxBuffer
    <3>1. sendHeartbeat(k) = [k EXCEPT !.buffer = full]
      BY <2>6 DEF sendHeartbeat, bufferEvent
    <3> HIDE DEF full
    <3> QED BY <3>1, <2>4, Fields DEF Quiet, Keys
  <2>7. CASE k.streams = {} /\ ~(Len(full) <= MaxBuffer)
    <3>1. sendHeartbeat(k) = [k EXCEPT !.buffer = Tail(full),
                                       !.lost = @ \cup Numbers(Head(full))]
      BY <2>7 DEF sendHeartbeat, bufferEvent
    <3> HIDE DEF full
    <3> QED BY <3>1, <2>5, Fields DEF Quiet, Keys
  <2>8. CASE k.streams # {}
    BY <2>8 DEF sendHeartbeat
  <2> QED BY <2>6, <2>7, <2>8
<1> QED BY <1>1, <1>2, <1>3, <1>4

\* From the result on, nothing numbered waits in the key.
LEMMA OverIsQuietAlways == Spec => []OverIsQuiet
<1>1. Init => OverIsQuiet
  BY DEF Init, OverIsQuiet, Ended
<1>2. TypeOK /\ OverIsQuiet /\ [Next]_vars => OverIsQuiet'
  <2> SUFFICES ASSUME TypeOK, OverIsQuiet, [Next]_vars, NEW p \in Queries, Ended(p)'
               PROVE  Quiet(key'[p])
    BY DEF OverIsQuiet
  <2> USE DEF Ended
  <2>0. Ended(p) => Quiet(key[p])
    BY DEF OverIsQuiet
  <2>a. key[p] \in Keys
    BY DEF TypeOK
  <2>1. ASSUME NEW s \in Sessions, Create(s) PROVE Quiet(key'[p])
    BY <2>0, <2>1 DEF Create, turnVars
  <2>2. ASSUME NEW s \in Sessions, CreateUnknown(s) \/ Delete(s) PROVE Quiet(key'[p])
    <3>1. Ended(p) /\ key'[p] \in {key[p], closeKey(key[p])}
      BY <2>2 DEF CreateUnknown, Delete, destroy
    <3>2. Quiet(closeKey(key[p]))
      BY <2>0, <3>1, <2>a, Fields DEF Quiet, closeKey, Keys
    <3> QED BY <2>0, <3>1, <3>2
  <2>3. ASSUME NEW s \in Sessions, NEW q \in Queries, NEW r \in Replies, QueryStream(s, q, r)
        PROVE  Quiet(key'[p])
    <3>1. p # q /\ Ended(p) /\ key'[p] = key[p]
      BY <2>3 DEF QueryStream, TypeOK
    <3> QED BY <2>0, <3>1
  <2>4. ASSUME NEW s \in Sessions, NEW qs \in SUBSET Queries, Cancel(s, qs)
        PROVE  Quiet(key'[p])
    BY <2>0, <2>4 DEF Cancel
  <2>5. ASSUME NEW q \in Queries, TurnStep(q) PROVE Quiet(key'[p])
    <3>1. CASE p # q
      BY <2>0, <2>5, <3>1
         DEF TurnStep, Attached, ProxyStarted, Result, Drained, Throws, Step, TypeOK
    <3>2. CASE p = q /\ (Attached(q) \/ ProxyStarted(q))
      BY <3>2 DEF Attached, ProxyStarted, Step, TypeOK
    <3>3. CASE p = q /\ Throws(q)
      <4>1. sendEvent(key[q], "content") \in Keys
        BY <2>a, <3>3, SendEventType DEF Kinds
      <4>2. key'[q] = endQuery(sendEvent(key[q], "content"))
        BY <3>3 DEF Throws, TypeOK
      <4> QED BY <3>3, <4>1, <4>2, EndQueryIsQuiet
    <3>4. CASE p = q /\ Drained(q)
      BY <2>0, <3>4 DEF Drained, Step, TypeOK
    <3>5. CASE p = q /\ Result(q)
      <4>1. sendEvent(key[q], "boundary") \in Keys
        BY <2>a, <3>5, SendEventType DEF Kinds
      <4>2. key'[q] = endQuery(sendEvent(key[q], "boundary"))
        BY <3>5 DEF Result, TypeOK
      <4> QED BY <3>5, <4>1, <4>2, EndQueryIsQuiet
    <3> QED BY <2>5, <3>1, <3>2, <3>3, <3>4, <3>5 DEF TurnStep
  <2>6. ASSUME NEW q \in Queries, FlushTimer(q) PROVE Quiet(key'[p])
    <3>1. Ended(p) /\ p # q
      BY <2>0, <2>6 DEF FlushTimer, turnVars, Quiet
    <3> QED BY <2>0, <2>6, <3>1 DEF FlushTimer, TypeOK
  <2>7. ASSUME NEW q \in Queries, NEW kind \in {"content", "input", "boundary"}, Message(q, kind)
        PROVE  Quiet(key'[p])
    <3>1. Ended(p) /\ p # q
      BY <2>7 DEF Message, Step, TypeOK
    <3> QED BY <2>0, <2>7, <3>1 DEF Message, TypeOK
  <2>8. ASSUME NEW q \in Queries, NEW r \in Replies, Stream(q, r) PROVE Quiet(key'[p])
    <3>1. Ended(p) /\ key'[p] \in {key[p], addStream(key[p], r)}
      BY <2>8 DEF Stream, TypeOK, turnVars
    <3> QED BY <2>0, <2>a, <3>1, StaysQuiet
  <2>9. ASSUME NEW r \in Replies, Close(r) \/ Heartbeat(r) PROVE Quiet(key'[p])
    <3>1. Ended(p)
          /\ key'[p] \in {key[p], removeStream(key[p], r), sendHeartbeat(key[p])}
      BY <2>9 DEF Close, Heartbeat, TypeOK, turnVars
    <3> QED BY <2>0, <2>a, <3>1, StaysQuiet
  <2>10. CASE UNCHANGED vars
    BY <2>0, <2>10 DEF vars, turnVars
  <2> QED BY <2>1, <2>2, <2>3, <2>4, <2>5, <2>6, <2>7, <2>8, <2>9, <2>10 DEF Next
<1> QED BY <1>1, <1>2, TypeCorrect, PTL DEF Spec

\* The stream service keeps no event of a turn that is over
\* (stream-service.ts, endQuery).
THEOREM MemoryFreedAlways == Spec => []MemoryFreed
<1>1. TypeOK /\ OverIsQuiet => MemoryFreed
  BY QuietIsFreed DEF TypeOK, OverIsQuiet, Ended, MemoryFreed
<1> QED BY <1>1, OverIsQuietAlways, TypeCorrect, PTL

----------------------------------------------------------------------------
(* Sequences of events.                                                    *)

LEMMA InSome ==
  ASSUME NEW events \in Seq(Events), NEW n
  PROVE  n \in InEvents(events) <=> \E j \in 1..Len(events) : n \in Numbers(events[j])
<1>1. DOMAIN events = 1..Len(events)
  OBVIOUS
<1> QED BY <1>1 DEF InEvents

LEMMA InEmpty == InEvents(<<>>) = {}
BY DEF InEvents

LEMMA InAppend ==
  ASSUME NEW events \in Seq(Events), NEW e \in Events
  PROVE  InEvents(Append(events, e)) = InEvents(events) \cup Numbers(e)
<1> DEFINE longer == Append(events, e)
<1>1. longer \in Seq(Events) /\ Len(longer) = Len(events) + 1 /\ Len(events) \in Nat
  OBVIOUS
<1>2. \A j \in 1..Len(events) : longer[j] = events[j]
  OBVIOUS
<1>3. longer[Len(longer)] = e
  OBVIOUS
<1> HIDE DEF longer
<1>4. ASSUME NEW n PROVE n \in InEvents(longer) <=> n \in InEvents(events) \cup Numbers(e)
  <2>1. ASSUME NEW j \in 1..Len(longer), n \in Numbers(longer[j])
        PROVE  n \in InEvents(events) \cup Numbers(e)
    <3>1. CASE j \in 1..Len(events)
      BY <2>1, <3>1, <1>2, InSome
    <3>2. CASE j = Len(longer)
      BY <2>1, <3>2, <1>3
    <3> QED BY <1>1, <3>1, <3>2
  <2>2. ASSUME NEW j \in 1..Len(events), n \in Numbers(events[j])
        PROVE  n \in InEvents(longer)
    BY <2>2, <1>1, <1>2, InSome
  <2>3. ASSUME n \in Numbers(e) PROVE n \in InEvents(longer)
    <3>1. Len(longer) \in 1..Len(longer)
      BY <1>1
    <3> QED BY <2>3, <1>1, <1>3, <3>1, InSome
  <2> QED BY <2>1, <2>2, <2>3, <1>1, InSome
<1> QED BY <1>4 DEF longer

LEMMA InConcat ==
  ASSUME NEW s \in Seq(Events), NEW t \in Seq(Events)
  PROVE  InEvents(s \o t) = InEvents(s) \cup InEvents(t)
<1>1. s \o t \in Seq(Events) /\ Len(s \o t) = Len(s) + Len(t)
      /\ Len(s) \in Nat /\ Len(t) \in Nat
  OBVIOUS
<1>2. \A j \in 1..Len(s) : (s \o t)[j] = s[j]
  OBVIOUS
<1>3. \A j \in 1..Len(t) : (s \o t)[Len(s) + j] = t[j]
  OBVIOUS
<1>4. ASSUME NEW n PROVE n \in InEvents(s \o t) <=> n \in InEvents(s) \cup InEvents(t)
  <2>1. ASSUME NEW j \in 1..Len(s \o t), n \in Numbers((s \o t)[j])
        PROVE  n \in InEvents(s) \cup InEvents(t)
    <3>1. CASE j \in 1..Len(s)
      BY <2>1, <3>1, <1>2, InSome
    <3>2. CASE j \notin 1..Len(s)
      <4>1. j - Len(s) \in 1..Len(t) /\ j = Len(s) + (j - Len(s))
        BY <3>2, <1>1
      <4>2. n \in Numbers(t[j - Len(s)])
        BY <2>1, <4>1, <1>3
      <4> QED BY <4>1, <4>2, InSome
    <3> QED BY <3>1, <3>2
  <2>2. ASSUME NEW j \in 1..Len(s), n \in Numbers(s[j]) PROVE n \in InEvents(s \o t)
    <3>1. j \in 1..Len(s \o t)
      BY <1>1
    <3> QED BY <2>2, <3>1, <1>1, <1>2, InSome
  <2>3. ASSUME NEW j \in 1..Len(t), n \in Numbers(t[j]) PROVE n \in InEvents(s \o t)
    <3>1. Len(s) + j \in 1..Len(s \o t)
      BY <1>1
    <3> QED BY <2>3, <3>1, <1>1, <1>3, InSome
  <2> QED BY <2>1, <2>2, <2>3, <1>1, InSome
<1> QED BY <1>4

LEMMA InHeadTail ==
  ASSUME NEW events \in Seq(Events), events # <<>>
  PROVE  InEvents(events) = Numbers(Head(events)) \cup InEvents(Tail(events))
<1>1. Tail(events) \in Seq(Events) /\ Len(Tail(events)) = Len(events) - 1
      /\ Len(events) \in Nat /\ Len(events) > 0
  OBVIOUS
<1>2. \A j \in 1..Len(Tail(events)) : Tail(events)[j] = events[j + 1]
  OBVIOUS
<1>3. Head(events) = events[1]
  OBVIOUS
<1>4. ASSUME NEW n
      PROVE  n \in InEvents(events)
             <=> n \in Numbers(Head(events)) \cup InEvents(Tail(events))
  <2>1. ASSUME NEW j \in 1..Len(events), n \in Numbers(events[j])
        PROVE  n \in Numbers(Head(events)) \cup InEvents(Tail(events))
    <3>1. CASE j = 1
      BY <2>1, <3>1, <1>3
    <3>2. CASE j # 1
      <4>1. j - 1 \in 1..Len(Tail(events)) /\ Tail(events)[j - 1] = events[j]
        BY <3>2, <1>1, <1>2
      <4> QED BY <2>1, <4>1, <1>1, InSome
    <3> QED BY <3>1, <3>2
  <2>2. ASSUME n \in Numbers(Head(events)) PROVE n \in InEvents(events)
    <3>1. 1 \in 1..Len(events)
      BY <1>1
    <3> QED BY <2>2, <3>1, <1>3, InSome
  <2>3. ASSUME NEW j \in 1..Len(Tail(events)), n \in Numbers(Tail(events)[j])
        PROVE  n \in InEvents(events)
    <3>1. j + 1 \in 1..Len(events) /\ Tail(events)[j] = events[j + 1]
      BY <1>1, <1>2
    <3> QED BY <2>3, <3>1, InSome
  <2> QED BY <2>1, <2>2, <2>3, <1>1, InSome
<1> QED BY <1>4

\* The events of a buffer have no number in common.
Apart(events) ==
  \A i, j \in 1..Len(events) : i # j => Numbers(events[i]) \cap Numbers(events[j]) = {}

LEMMA ApartAppend ==
  ASSUME NEW events \in Seq(Events), NEW e \in Events, Apart(events),
         Numbers(e) \cap InEvents(events) = {}
  PROVE  Apart(Append(events, e))
<1> DEFINE longer == Append(events, e)
<1>1. Len(longer) = Len(events) + 1 /\ Len(events) \in Nat
  OBVIOUS
<1>2. \A j \in 1..Len(events) : longer[j] = events[j]
  OBVIOUS
<1>3. longer[Len(longer)] = e
  OBVIOUS
<1>4. \A j \in 1..Len(events) : Numbers(e) \cap Numbers(events[j]) = {}
  BY InSome
<1> HIDE DEF longer
<1>5. ASSUME NEW i \in 1..Len(longer), NEW j \in 1..Len(longer), i # j
      PROVE  Numbers(longer[i]) \cap Numbers(longer[j]) = {}
  <2>1. CASE i \in 1..Len(events) /\ j \in 1..Len(events)
    BY <2>1, <1>5, <1>2 DEF Apart
  <2>2. CASE i = Len(longer) /\ j \in 1..Len(events)
    BY <2>2, <1>2, <1>3, <1>4
  <2>3. CASE j = Len(longer) /\ i \in 1..Len(events)
    BY <2>3, <1>2, <1>3, <1>4
  <2> QED BY <1>1, <1>5, <2>1, <2>2, <2>3
<1> QED BY <1>5 DEF Apart, longer

LEMMA ApartTail ==
  ASSUME NEW events \in Seq(Events), events # <<>>, Apart(events)
  PROVE  Apart(Tail(events)) /\ Numbers(Head(events)) \cap InEvents(Tail(events)) = {}
<1>1. Tail(events) \in Seq(Events) /\ Len(Tail(events)) = Len(events) - 1
      /\ Len(events) \in Nat /\ Len(events) > 0 /\ Head(events) = events[1]
  OBVIOUS
<1>2. \A j \in 1..Len(Tail(events)) : Tail(events)[j] = events[j + 1]
  OBVIOUS
<1>3. \A j \in 1..Len(Tail(events)) : j + 1 \in 1..Len(events) /\ j + 1 # 1
  BY <1>1
<1>4. Apart(Tail(events))
  <2>1. SUFFICES ASSUME NEW i \in 1..Len(Tail(events)), NEW j \in 1..Len(Tail(events)), i # j
                 PROVE  Numbers(Tail(events)[i]) \cap Numbers(Tail(events)[j]) = {}
    BY DEF Apart
  <2>2. i + 1 # j + 1
    BY <2>1
  <2> QED BY <2>2, <1>2, <1>3 DEF Apart
<1>5. \A j \in 1..Len(Tail(events)) : Numbers(events[1]) \cap Numbers(Tail(events)[j]) = {}
  <2>1. 1 \in 1..Len(events)
    BY <1>1
  <2> QED BY <2>1, <1>2, <1>3 DEF Apart
<1> QED BY <1>1, <1>4, <1>5, InSome

\* What each method does to the fields of the record.
LEMMA DirectFields ==
  ASSUME NEW k \in Keys, NEW e \in Events
  PROVE  LET d == sendEventDirect(k, e)
             full == Append(k.buffer, e) IN
         /\ d \in Keys /\ d.streams = k.streams /\ d.delta = k.delta /\ d.sent = k.sent
         /\ k.streams # {} => /\ d.buffer = k.buffer /\ d.lost = k.lost
                              /\ d.wrote = [r \in Replies |->
                                              IF r \in k.streams THEN Append(k.wrote[r], e)
                                                                 ELSE k.wrote[r]]
         /\ k.streams = {} /\ Len(full) <= MaxBuffer
              => d.wrote = k.wrote /\ d.buffer = full /\ d.lost = k.lost
         /\ k.streams = {} /\ ~(Len(full) <= MaxBuffer)
              => /\ d.wrote = k.wrote /\ d.buffer = Tail(full)
                 /\ d.lost = k.lost \cup Numbers(Head(full))
<1> DEFINE full == Append(k.buffer, e)
           new == [r \in Replies |-> IF r \in k.streams THEN Append(k.wrote[r], e)
                                                         ELSE k.wrote[r]]
<1>1. sendEventDirect(k, e) \in Keys
  BY SendDirectType
<1>2. CASE k.streams # {}
  <2>1. sendEventDirect(k, e) = [k EXCEPT !.wrote = new]
    BY <1>2 DEF sendEventDirect, write, Keys
  <2> HIDE DEF new
  <2>2. sendEventDirect(k, e).wrote = new
    BY <2>1 DEF Keys
  <2>3. /\ sendEventDirect(k, e).streams = k.streams /\ sendEventDirect(k, e).delta = k.delta
        /\ sendEventDirect(k, e).sent = k.sent /\ sendEventDirect(k, e).buffer = k.buffer
        /\ sendEventDirect(k, e).lost = k.lost
    BY <2>1 DEF Keys
  <2> QED BY <1>1, <1>2, <2>2, <2>3 DEF new
<1>3. CASE k.streams = {} /\ Len(full) <= MaxBuffer
  <2>1. sendEventDirect(k, e) = [k EXCEPT !.buffer = full]
    BY <1>3 DEF sendEventDirect, bufferEvent
  <2> HIDE DEF full
  <2>2. /\ sendEventDirect(k, e).streams = k.streams /\ sendEventDirect(k, e).delta = k.delta
        /\ sendEventDirect(k, e).sent = k.sent /\ sendEventDirect(k, e).buffer = full
        /\ sendEventDirect(k, e).lost = k.lost /\ sendEventDirect(k, e).wrote = k.wrote
    BY <2>1 DEF Keys
  <2> QED BY <1>1, <1>3, <2>2 DEF full
<1>4. CASE k.streams = {} /\ ~(Len(full) <= MaxBuffer)
  <2>1. sendEventDirect(k, e) = [k EXCEPT !.buffer = Tail(full),
                                          !.lost = k.lost \cup Numbers(Head(full))]
    BY <1>4 DEF sendEventDirect, bufferEvent
  <2> HIDE DEF full
  <2>2. /\ sendEventDirect(k, e).streams = k.streams /\ sendEventDirect(k, e).delta = k.delta
        /\ sendEventDirect(k, e).sent = k.sent /\ sendEventDirect(k, e).buffer = Tail(full)
        /\ sendEventDirect(k, e).lost = k.lost \cup Numbers(Head(full))
        /\ sendEventDirect(k, e).wrote = k.wrote
    BY <2>1 DEF Keys
  <2> QED BY <1>1, <1>4, <2>2 DEF full
<1> QED BY <1>2, <1>3, <1>4

\* The record between two calls of a method: the deltas taken out of it, or
\* the next number given.
LEMMA TakenFields ==
  ASSUME NEW k \in Keys
  PROVE  LET t == [k EXCEPT !.delta = <<>>] IN
         /\ t \in Keys /\ t.delta = <<>> /\ t.streams = k.streams /\ t.buffer = k.buffer
         /\ t.sent = k.sent /\ t.wrote = k.wrote /\ t.lost = k.lost
BY Fields, Empty DEF Keys

LEMMA NumberedFields ==
  ASSUME NEW k \in Keys
  PROVE  LET t == [k EXCEPT !.sent = @ + 1] IN
         /\ t \in Keys /\ t.sent = k.sent + 1 /\ t.streams = k.streams /\ t.buffer = k.buffer
         /\ t.delta = k.delta /\ t.wrote = k.wrote /\ t.lost = k.lost
<1>1. k.sent + 1 \in Nat
  BY Fields
<1> QED BY <1>1, Fields DEF Keys

LEMMA AddStreamFields ==
  ASSUME NEW k \in Keys, NEW r \in Replies
  PROVE  LET t == addStream(k, r) IN
         /\ t \in Keys /\ t.streams = k.streams \cup {r} /\ t.buffer = <<>>
         /\ t.delta = k.delta /\ t.sent = k.sent /\ t.lost = k.lost
         /\ t.wrote = [k.wrote EXCEPT ![r] = k.wrote[r] \o k.buffer]
<1> DEFINE new == [k.wrote EXCEPT ![r] = k.wrote[r] \o k.buffer]
<1>1. addStream(k, r) = [k EXCEPT !.streams = k.streams \cup {r}, !.wrote = new,
                                  !.buffer = <<>>]
  BY DEF addStream
<1>2. addStream(k, r) \in Keys
  BY AddStreamType
<1> HIDE DEF new
<1>3. /\ addStream(k, r).streams = k.streams \cup {r} /\ addStream(k, r).buffer = <<>>
      /\ addStream(k, r).delta = k.delta /\ addStream(k, r).sent = k.sent
      /\ addStream(k, r).lost = k.lost /\ addStream(k, r).wrote = new
  BY <1>1 DEF Keys
<1> QED BY <1>2, <1>3 DEF new

LEMMA OneEventFields ==
  ASSUME NEW kind \in Kinds, NEW n \in Nat
  PROVE  /\ Event(kind, <<n>>) \in Events /\ Event(kind, <<n>>).kind = kind
         /\ Numbers(Event(kind, <<n>>)) = {n}
<1>1. <<n>> \in Seq(Nat) /\ DOMAIN <<n>> = {1} /\ <<n>>[1] = n
  OBVIOUS
<1> QED BY <1>1, EventType DEF Event, Numbers

LEMMA DeltaEventFields ==
  ASSUME NEW parts \in Seq(Nat)
  PROVE  /\ Event("input", parts) \in Events /\ Event("input", parts).kind = "input"
         /\ Numbers(Event("input", parts)) = {parts[j] : j \in DOMAIN parts}
BY EventType DEF Event, Numbers, Kinds

\* Every numbered event was written, waits, or was evicted.
Deltas(k) == {k.delta[j] : j \in DOMAIN k.delta}

\* Where a method takes several steps, rest is the numbers it has in hand.
Accounted(k, rest) ==
  /\ 1..k.sent = Written(k) \cup InEvents(k.buffer) \cup Deltas(k) \cup k.lost \cup rest
  /\ Written(k) \cap (InEvents(k.buffer) \cup Deltas(k) \cup k.lost \cup rest) = {}
  /\ InEvents(k.buffer) \cap (Deltas(k) \cup k.lost \cup rest) = {}
  /\ Deltas(k) \cap (k.lost \cup rest) = {}
  /\ k.lost \cap rest = {}
  /\ Apart(k.buffer)

\* What the definition says of six sets: they split the numbers given.
Split(all, written, buffer, delta, lost, rest) ==
  /\ all = written \cup buffer \cup delta \cup lost \cup rest
  /\ written \cap (buffer \cup delta \cup lost \cup rest) = {}
  /\ buffer \cap (delta \cup lost \cup rest) = {}
  /\ delta \cap (lost \cup rest) = {}
  /\ lost \cap rest = {}

LEMMA AccountedSplit ==
  ASSUME NEW k, NEW rest
  PROVE  Accounted(k, rest)
         <=> /\ Split(1..k.sent, Written(k), InEvents(k.buffer), Deltas(k), k.lost, rest)
             /\ Apart(k.buffer)
BY DEF Accounted, Split

\* Where the numbers in hand may go.
LEMMA SplitMoves ==
  ASSUME NEW A, NEW W, NEW B, NEW D, NEW L, NEW E, NEW R,
         Split(A, W, B, D, L, E \cup R), E \cap R = {}
  PROVE  /\ Split(A, W \cup E, B, D, L, R)
         /\ Split(A, W, B \cup E, D, L, R)
         /\ \A H, T : B \cup E = H \cup T /\ H \cap T = {} => Split(A, W, T, D, L \cup H, R)
<1>1. Split(A, W \cup E, B, D, L, R)
  BY DEF Split
<1>2. Split(A, W, B \cup E, D, L, R)
  BY DEF Split
<1>3. ASSUME NEW H, NEW T, B \cup E = H \cup T, H \cap T = {}
      PROVE  Split(A, W, T, D, L \cup H, R)
  <2>1. Split(A, W, H \cup T, D, L, R)
    BY <1>2, <1>3
  <2> QED BY <2>1, <1>3 DEF Split
<1> QED BY <1>1, <1>2, <1>3

LEMMA WrittenIn ==
  ASSUME NEW k \in Keys, NEW n
  PROVE  n \in Written(k) <=> \E r \in Replies : n \in InEvents(k.wrote[r])
BY DEF Written

\* An event that is sent is accounted for, by whatever way it goes.
LEMMA DirectAccounts ==
  ASSUME NEW k \in Keys, NEW e \in Events, NEW rest,
         Accounted(k, Numbers(e) \cup rest), Numbers(e) \cap rest = {}
  PROVE  Accounted(sendEventDirect(k, e), rest)
<1> DEFINE d == sendEventDirect(k, e)
           full == Append(k.buffer, e)
<1>1. k.buffer \in Seq(Events) /\ k.wrote \in [Replies -> Seq(Events)] /\ k.delta \in Seq(Nat)
      /\ k.streams \subseteq Replies
  BY Fields
<1>2. /\ d \in Keys /\ d.streams = k.streams /\ d.delta = k.delta /\ d.sent = k.sent
  BY DirectFields
<1>3. Deltas(d) = Deltas(k)
  BY <1>2 DEF Deltas
<1>4. Apart(k.buffer) /\ Numbers(e) \cap InEvents(k.buffer) = {}
  BY DEF Accounted
<1>5. full \in Seq(Events) /\ full # <<>>
  BY <1>1, SMTT(30)
<1>6. InEvents(full) = InEvents(k.buffer) \cup Numbers(e) /\ Apart(full)
  BY <1>1, <1>4, InAppend, ApartAppend
<1>10. /\ Split(1..k.sent, Written(k) \cup Numbers(e), InEvents(k.buffer), Deltas(k), k.lost, rest)
       /\ Split(1..k.sent, Written(k), InEvents(k.buffer) \cup Numbers(e), Deltas(k), k.lost, rest)
       /\ \A H, T : InEvents(k.buffer) \cup Numbers(e) = H \cup T /\ H \cap T = {}
            => Split(1..k.sent, Written(k), T, Deltas(k), k.lost \cup H, rest)
  BY AccountedSplit, SplitMoves
<1>11. Apart(k.buffer)
  BY DEF Accounted
<1>7. ASSUME k.streams # {} PROVE Accounted(d, rest)
  <2>1. d.buffer = k.buffer /\ d.lost = k.lost
        /\ d.wrote = [r \in Replies |-> IF r \in k.streams THEN Append(k.wrote[r], e)
                                                           ELSE k.wrote[r]]
    BY <1>7, DirectFields
  <2>2. \A r \in k.streams : InEvents(d.wrote[r]) = InEvents(k.wrote[r]) \cup Numbers(e)
    BY <1>1, <2>1, InAppend
  <2>3. \A r \in Replies \ k.streams : d.wrote[r] = k.wrote[r]
    BY <2>1
  <2>4. PICK r \in Replies : r \in k.streams
    BY <1>1, <1>7
  <2> HIDE DEF d
  <2>5. ASSUME NEW n PROVE n \in Written(d) <=> n \in Written(k) \cup Numbers(e)
    <3>1. ASSUME n \in Written(d) PROVE n \in Written(k) \cup Numbers(e)
      <4>1. PICK p \in Replies : n \in InEvents(d.wrote[p])
        BY <1>2, <3>1, WrittenIn
      <4> QED BY <4>1, <2>2, <2>3, WrittenIn
    <3>2. ASSUME n \in Written(k) PROVE n \in Written(d)
      <4>1. PICK p \in Replies : n \in InEvents(k.wrote[p])
        BY <3>2, WrittenIn
      <4>2. n \in InEvents(d.wrote[p])
        BY <4>1, <2>2, <2>3
      <4> QED BY <4>2, <1>2, WrittenIn
    <3>3. ASSUME n \in Numbers(e) PROVE n \in Written(d)
      BY <3>3, <1>2, <2>2, <2>4, WrittenIn
    <3> QED BY <3>1, <3>2, <3>3
  <2>6. Written(d) = Written(k) \cup Numbers(e)
    BY <2>5
  <2> QED BY <1>2, <1>3, <1>10, <1>11, <2>1, <2>6, AccountedSplit
<1>8. ASSUME k.streams = {} /\ Len(full) <= MaxBuffer PROVE Accounted(d, rest)
  <2>1. d.wrote = k.wrote /\ d.buffer = full /\ d.lost = k.lost
    BY <1>8, DirectFields
  <2>2. Written(d) = Written(k)
    BY <2>1 DEF Written
  <2> HIDE DEF d, full
  <2> QED BY <1>2, <1>3, <1>6, <1>10, <2>1, <2>2, AccountedSplit
<1>9. ASSUME k.streams = {} /\ ~(Len(full) <= MaxBuffer) PROVE Accounted(d, rest)
  <2>1. d.wrote = k.wrote /\ d.buffer = Tail(full) /\ d.lost = k.lost \cup Numbers(Head(full))
    BY <1>9, DirectFields
  <2>2. Written(d) = Written(k)
    BY <2>1 DEF Written
  <2>3. /\ Apart(Tail(full)) /\ Numbers(Head(full)) \cap InEvents(Tail(full)) = {}
        /\ InEvents(full) = Numbers(Head(full)) \cup InEvents(Tail(full))
    BY <1>5, <1>6, ApartTail, InHeadTail
  <2> HIDE DEF d, full
  <2>4. Split(1..k.sent, Written(k), InEvents(Tail(full)), Deltas(k),
              k.lost \cup Numbers(Head(full)), rest)
    BY <1>6, <1>10, <2>3
  <2> QED BY <1>2, <1>3, <2>1, <2>2, <2>3, <2>4, AccountedSplit
<1> QED BY <1>7, <1>8, <1>9

\* The deltas that a flush sends stay accounted for.
LEMMA FlushAccounts ==
  ASSUME NEW k \in Keys, NEW rest, Accounted(k, rest)
  PROVE  Accounted(flushInputDelta(k), rest)
<1> DEFINE t == [k EXCEPT !.delta = <<>>]
           e == Event("input", k.delta)
<1>1. CASE k.delta = <<>>
  BY <1>1 DEF flushInputDelta
<1>2. CASE k.delta # <<>>
  <2>1. /\ t \in Keys /\ t.delta = <<>> /\ t.buffer = k.buffer
        /\ t.sent = k.sent /\ t.wrote = k.wrote /\ t.lost = k.lost
    BY TakenFields
  <2>2. e \in Events /\ Numbers(e) = Deltas(k)
    BY Fields, DeltaEventFields DEF Deltas
  <2>3. flushInputDelta(k) = sendEventDirect(t, e)
    BY <1>2 DEF flushInputDelta
  <2> HIDE DEF t, e
  <2>4. Deltas(t) = {} /\ Written(t) = Written(k)
    BY <2>1 DEF Deltas, Written
  <2>5. Accounted(t, Numbers(e) \cup rest) /\ Numbers(e) \cap rest = {}
    BY <2>1, <2>2, <2>4 DEF Accounted
  <2> QED BY <2>1, <2>2, <2>3, <2>5, DirectAccounts
<1> QED BY <1>1, <1>2

\* A new event gets the next number, which nothing has.
LEMMA NumberedAccounts ==
  ASSUME NEW k \in Keys, Accounted(k, {})
  PROVE  Accounted([k EXCEPT !.sent = @ + 1], {k.sent + 1})
<1> DEFINE t == [k EXCEPT !.sent = @ + 1]
<1>1. /\ t \in Keys /\ t.sent = k.sent + 1 /\ t.buffer = k.buffer
      /\ t.delta = k.delta /\ t.wrote = k.wrote /\ t.lost = k.lost
  BY NumberedFields
<1>2. 1..(k.sent + 1) = 1..k.sent \cup {k.sent + 1} /\ k.sent + 1 \notin 1..k.sent
  BY Fields
<1> HIDE DEF t
<1>3. Deltas(t) = Deltas(k) /\ Written(t) = Written(k)
  BY <1>1 DEF Deltas, Written
<1>4. Accounted(t, {k.sent + 1})
  BY <1>1, <1>2, <1>3 DEF Accounted
<1> QED BY <1>4 DEF t

\* sendEvent loses no event, whatever its kind.
LEMMA SendAccounts ==
  ASSUME NEW k \in Keys, NEW kind \in Kinds, Accounted(k, {})
  PROVE  Accounted(sendEvent(k, kind), {})
<1> DEFINE t == [k EXCEPT !.sent = @ + 1]
           n == k.sent + 1
<1>1. t \in Keys /\ t.sent = n /\ n \in Nat /\ Accounted(t, {n}) /\ t.delta \in Seq(Nat)
  <2>1. t \in Keys /\ t.sent = n
    BY NumberedFields
  <2>2. Accounted(t, {n})
    BY NumberedAccounts
  <2>3. n \in Nat
    BY Fields
  <2> HIDE DEF t
  <2> QED BY <2>1, <2>2, <2>3, Fields
<1>2. CASE kind = "input"
  <2> DEFINE w == [t EXCEPT !.delta = Append(@, t.sent)]
  <2>1. sendEvent(k, kind) = w
    BY <1>2 DEF sendEvent
  <2>2. Append(t.delta, n) \in Seq(Nat)
    BY <1>1
  <2> HIDE DEF t
  <2>3. /\ w.delta = Append(t.delta, n) /\ w.buffer = t.buffer /\ w.sent = t.sent
        /\ w.wrote = t.wrote /\ w.lost = t.lost
    BY <1>1 DEF Keys
  <2> HIDE DEF w
  <2>4. Written(w) = Written(t)
    BY <2>3 DEF Written
  <2>5. Deltas(w) = Deltas(t) \cup {n}
    <3>1. DOMAIN w.delta = 1..(Len(t.delta) + 1) /\ DOMAIN t.delta = 1..Len(t.delta)
          /\ Len(t.delta) \in Nat
      BY <1>1, <2>3
    <3>2. \A j \in 1..Len(t.delta) : w.delta[j] = t.delta[j]
      BY <1>1, <2>3
    <3>3. w.delta[Len(t.delta) + 1] = n
      BY <1>1, <2>3
    <3> QED BY <3>1, <3>2, <3>3, SMTT(30) DEF Deltas
  <2>6. Accounted(w, {})
    BY <1>1, <2>3, <2>4, <2>5 DEF Accounted
  <2> QED BY <2>1, <2>6
<1>3. CASE kind # "input"
  <2> DEFINE f == IF kind = "boundary" THEN flushInputDelta(t) ELSE t
             e == Event(kind, <<t.sent>>)
  <2>1. sendEvent(k, kind) = sendEventDirect(f, e)
    BY <1>3 DEF sendEvent
  <2>2. e \in Events /\ Numbers(e) = {n}
    BY <1>1, OneEventFields
  <2> HIDE DEF t, e
  <2>3. f \in Keys /\ Accounted(f, {n})
    BY <1>1, FlushType, FlushAccounts
  <2> HIDE DEF f
  <2>4. Accounted(f, Numbers(e) \cup {})
    BY <2>2, <2>3
  <2>5. Accounted(sendEventDirect(f, e), {})
    BY <2>2, <2>3, <2>4, DirectAccounts
  <2> QED BY <2>1, <2>5
<1> QED BY <1>2, <1>3

\* A reply that attaches is written the buffer.
LEMMA AddStreamAccounts ==
  ASSUME NEW k \in Keys, NEW r \in Replies, Accounted(k, {})
  PROVE  Accounted(addStream(k, r), {})
<1> DEFINE t == addStream(k, r)
<1>1. /\ t \in Keys /\ t.buffer = <<>> /\ t.delta = k.delta /\ t.sent = k.sent
      /\ t.lost = k.lost /\ t.wrote = [k.wrote EXCEPT ![r] = k.wrote[r] \o k.buffer]
  BY AddStreamFields
<1> HIDE DEF t
<1>2. k.buffer \in Seq(Events) /\ k.wrote \in [Replies -> Seq(Events)]
  BY Fields
<1>3. InEvents(t.wrote[r]) = InEvents(k.wrote[r]) \cup InEvents(k.buffer)
  BY <1>1, <1>2, InConcat
<1>4. \A p \in Replies \ {r} : t.wrote[p] = k.wrote[p]
  BY <1>1, <1>2
<1>5. ASSUME NEW n PROVE n \in Written(t) <=> n \in Written(k) \cup InEvents(k.buffer)
  BY <1>1, <1>3, <1>4, WrittenIn
<1>6. Written(t) = Written(k) \cup InEvents(k.buffer)
  BY <1>5
<1>7. Deltas(t) = Deltas(k) /\ InEvents(t.buffer) = {} /\ Apart(t.buffer)
  BY <1>1, InEmpty DEF Deltas, Apart
<1>8. Accounted(t, {})
  BY <1>1, <1>6, <1>7 DEF Accounted
<1> QED BY <1>8 DEF t

LEMMA RemoveStreamAccounts ==
  ASSUME NEW k \in Keys, NEW r \in Replies, Accounted(k, {})
  PROVE  Accounted(removeStream(k, r), {})
<1> DEFINE t == removeStream(k, r)
<1>1. t.buffer = k.buffer /\ t.delta = k.delta /\ t.sent = k.sent /\ t.lost = k.lost
      /\ t.wrote = k.wrote
  BY DEF removeStream, Keys
<1> QED BY <1>1 DEF Accounted, Written, Deltas

LEMMA HeartbeatAccounts ==
  ASSUME NEW k \in Keys, Accounted(k, {})
  PROVE  Accounted(sendHeartbeat(k), {})
<1> DEFINE beat == Event("heartbeat", <<>>)
<1>1. beat \in Events /\ Numbers(beat) = {}
  <2>1. beat \in Events
    BY EventType, Empty DEF Kinds
  <2>2. beat.parts = <<>> /\ DOMAIN <<>> = {}
    BY DEF Event
  <2> QED BY <2>1, <2>2 DEF Numbers
<1>2. CASE k.streams = {}
  <2>1. sendHeartbeat(k) = sendEventDirect(k, beat)
    BY <1>2 DEF sendHeartbeat, sendEventDirect
  <2> HIDE DEF beat
  <2>2. Accounted(k, Numbers(beat) \cup {})
    BY <1>1
  <2> QED BY <1>1, <2>1, <2>2, DirectAccounts
<1>3. CASE k.streams # {}
  BY <1>3 DEF sendHeartbeat
<1> QED BY <1>2, <1>3

LEMMA NoKeyAccounts == Accounted(NoKey, {})
<1>1. NoKey.sent = 0 /\ NoKey.buffer = <<>> /\ NoKey.delta = <<>> /\ NoKey.lost = {}
      /\ NoKey.wrote = [r \in Replies |-> <<>>]
  BY DEF NoKey
<1>2. Written(NoKey) = {} /\ Deltas(NoKey) = {} /\ InEvents(NoKey.buffer) = {}
  BY <1>1, InEmpty DEF Written, Deltas
<1>3. 1..NoKey.sent = {} /\ Apart(NoKey.buffer)
  BY <1>1 DEF Apart
<1> QED BY <1>1, <1>2, <1>3 DEF Accounted

----------------------------------------------------------------------------
(* No event of a registered turn is lost.                                  *)

Running(q) == pc[q] \in {"attach", "proxy", "loop"}

\* A query no turn has drawn has no key, no session and no reply.
Unstarted ==
  \A q \in Queries : pc[q] = "none" => /\ key[q] = NoKey
                                       /\ owner[q] = NoSession
                                       /\ \A r \in Replies : at[r] # q

Registered ==
  \A q \in Queries : Running(q) /\ q \in turns[owner[q]] => Accounted(key[q], {})

\* Every action leaves what has not started alone, or starts it.
LEMMA UnstartedStays ==
  ASSUME TypeOK, Unstarted, [Next]_vars
  PROVE  Unstarted'
<1> SUFFICES ASSUME NEW p \in Queries, pc'[p] = "none"
             PROVE  /\ key'[p] = NoKey
                    /\ owner'[p] = NoSession
                    /\ \A r \in Replies : at'[r] # p
  BY DEF Unstarted
<1> DEFINE Goal == key'[p] = NoKey /\ owner'[p] = NoSession /\ \A r \in Replies : at'[r] # p
<1>1. pc[p] = "none" => /\ key[p] = NoKey /\ owner[p] = NoSession
                        /\ \A r \in Replies : at[r] # p
  BY DEF Unstarted
<1>2. ASSUME NEW s \in Sessions, Create(s) PROVE Goal
  BY <1>1, <1>2 DEF Create, turnVars, replyVars
<1>3. ASSUME NEW s \in Sessions, CreateUnknown(s) \/ Delete(s) PROVE Goal
  BY <1>1, <1>3, SandboxAssumption DEF CreateUnknown, Delete, destroy
<1>4. ASSUME NEW s \in Sessions, NEW q \in Queries, NEW r \in Replies, QueryStream(s, q, r)
      PROVE  Goal
  <2>1. p # q
    BY <1>4 DEF QueryStream, TypeOK
  <2> QED BY <1>1, <1>4, <2>1 DEF QueryStream, TypeOK
<1>5. ASSUME NEW s \in Sessions, NEW qs \in SUBSET Queries, Cancel(s, qs) PROVE Goal
  BY <1>1, <1>5 DEF Cancel, replyVars
<1>6. ASSUME NEW q \in Queries, TurnStep(q) PROVE Goal
  <2>1. p # q
    BY <1>6 DEF TurnStep, Attached, ProxyStarted, Result, Drained, Throws, Step, TypeOK
  <2> QED BY <1>1, <1>6, <2>1
          DEF TurnStep, Attached, ProxyStarted, Result, Drained, Throws, Step, TypeOK, replyVars
<1>7. ASSUME NEW q \in Queries, FlushTimer(q) PROVE Goal
  <2>1. p # q
    BY <1>1, <1>7 DEF FlushTimer, turnVars, NoKey
  <2> QED BY <1>1, <1>7, <2>1 DEF FlushTimer, TypeOK, turnVars, replyVars
<1>8. ASSUME NEW q \in Queries, NEW kind \in {"content", "input", "boundary"}, Message(q, kind)
      PROVE  Goal
  <2>1. p # q
    BY <1>8 DEF Message, Step, TypeOK
  <2> QED BY <1>1, <1>8, <2>1 DEF Message, Step, TypeOK, replyVars
<1>9. ASSUME NEW q \in Queries, NEW r \in Replies, Stream(q, r) PROVE Goal
  <2>1. p # q
    BY <1>9 DEF Stream, turnVars
  <2> QED BY <1>1, <1>9, <2>1 DEF Stream, TypeOK, turnVars
<1>10. ASSUME NEW r \in Replies, Close(r) \/ Heartbeat(r) PROVE Goal
  BY <1>1, <1>10 DEF Close, Heartbeat, TypeOK, turnVars, replyVars
<1>11. CASE UNCHANGED vars
  BY <1>1, <1>11 DEF vars
<1> QED BY <1>2, <1>3, <1>4, <1>5, <1>6, <1>7, <1>8, <1>9, <1>10, <1>11 DEF Next

\* What may have happened to a registered turn's key.
LEMMA RegisteredSteps ==
  ASSUME TypeOK, Unstarted, Inductive, [Next]_vars,
         NEW p \in Queries, Running(p)', p \in turns'[owner'[p]]
  PROVE  \/ /\ Running(p) /\ p \in turns[owner[p]]
            /\ \/ key'[p] = key[p]
               \/ \E kind \in Kinds : key'[p] = sendEvent(key[p], kind)
               \/ key'[p] = flushInputDelta(key[p])
               \/ key'[p] = sendHeartbeat(key[p])
               \/ \E r \in Replies : key'[p] = addStream(key[p], r)
               \/ \E r \in Replies : key'[p] = removeStream(key[p], r)
         \/ \E r \in Replies : key'[p] = sendEvent(addStream(NoKey, r), "content")
<1> DEFINE Same == Running(p) /\ p \in turns[owner[p]]
           Goal == \/ Same /\ \/ key'[p] = key[p]
                              \/ \E kind \in Kinds : key'[p] = sendEvent(key[p], kind)
                              \/ key'[p] = flushInputDelta(key[p])
                              \/ key'[p] = sendHeartbeat(key[p])
                              \/ \E r \in Replies : key'[p] = addStream(key[p], r)
                              \/ \E r \in Replies : key'[p] = removeStream(key[p], r)
                   \/ \E r \in Replies : key'[p] = sendEvent(addStream(NoKey, r), "content")
<1>0. Running(p) => owner[p] \in Sessions
  BY DEF Inductive, Owned, UnderWay, Running, InLoop
<1>1. ASSUME NEW s \in Sessions, Create(s) PROVE Goal
  BY <1>1 DEF Create, turnVars, Running
<1>2. ASSUME NEW s \in Sessions, CreateUnknown(s) \/ Delete(s) PROVE Goal
  BY <1>0, <1>2 DEF CreateUnknown, Delete, destroy, TypeOK, Running
<1>3. ASSUME NEW s \in Sessions, NEW q \in Queries, NEW r \in Replies, QueryStream(s, q, r)
      PROVE  Goal
  <2>1. CASE p = q
    <3>1. key[q] = NoKey
      BY <1>3 DEF QueryStream, Unstarted
    <3>2. key'[q] = sendEvent(addStream(key[q], r), "content")
      BY <1>3 DEF QueryStream, TypeOK
    <3> QED BY <2>1, <3>1, <3>2
  <2>2. CASE p # q
    BY <1>0, <1>3, <2>2 DEF QueryStream, startTurn, TypeOK, Running
  <2> QED BY <2>1, <2>2
<1>4. ASSUME NEW s \in Sessions, NEW qs \in SUBSET Queries, Cancel(s, qs) PROVE Goal
  BY <1>0, <1>4 DEF Cancel, TypeOK, Running
<1>5. ASSUME NEW q \in Queries, TurnStep(q) PROVE Goal
  <2>1. CASE Attached(q) \/ ProxyStarted(q)
    <3>1. key' = key /\ turns' = turns /\ owner' = owner
      BY <2>1 DEF Attached, ProxyStarted, Step
    <3>2. Running(p)
      BY <2>1 DEF Attached, ProxyStarted, Step, Running, TypeOK
    <3> QED BY <3>1, <3>2
  <2>2. CASE Result(q) \/ Drained(q) \/ Throws(q)
    <3>1. p # q
      BY <2>2 DEF Result, Drained, Throws, Step, Running, TypeOK
    <3>2. Running(p) /\ key'[p] = key[p] /\ owner'[p] = owner[p]
      BY <2>2, <3>1 DEF Result, Drained, Throws, Step, Running, TypeOK
    <3>3. p \in turns[owner[p]]
      BY <1>0, <2>2, <3>1, <3>2 DEF Result, Drained, Throws, endTurn, TypeOK
    <3> QED BY <3>2, <3>3
  <2> QED BY <1>5, <2>1, <2>2 DEF TurnStep
<1>6. ASSUME NEW q \in Queries, FlushTimer(q) PROVE Goal
  BY <1>6 DEF FlushTimer, TypeOK, turnVars, Running
<1>7. ASSUME NEW q \in Queries, NEW kind \in {"content", "input", "boundary"}, Message(q, kind)
      PROVE  Goal
  <2>1. Running(p) /\ turns' = turns /\ owner' = owner
    BY <1>7 DEF Message, Step, TypeOK, Running
  <2>2. key'[p] \in {key[p], sendEvent(key[p], kind)} /\ kind \in Kinds
    BY <1>7 DEF Message, TypeOK, Kinds
  <2> QED BY <2>1, <2>2
<1>8. ASSUME NEW q \in Queries, NEW r \in Replies, Stream(q, r) PROVE Goal
  <2>1. key'[p] \in {key[p], addStream(key[p], r)}
    BY <1>8 DEF Stream, TypeOK
  <2> QED BY <1>8, <2>1 DEF Stream, turnVars, Running
<1>9. ASSUME NEW r \in Replies, Close(r) \/ Heartbeat(r) PROVE Goal
  <2>1. key'[p] \in {key[p], removeStream(key[p], r), sendHeartbeat(key[p])}
    BY <1>9 DEF Close, Heartbeat, TypeOK
  <2> QED BY <1>9, <2>1 DEF Close, Heartbeat, turnVars, Running
<1>10. CASE UNCHANGED vars
  BY <1>10 DEF vars, Running
<1> QED BY <1>1, <1>2, <1>3, <1>4, <1>5, <1>6, <1>7, <1>8, <1>9, <1>10 DEF Next

LEMMA AccountedEntails ==
  ASSUME NEW q \in Queries, Accounted(key[q], {})
  PROVE  /\ 1..key[q].sent = Written(key[q]) \cup Kept(key[q]) \cup key[q].lost
         /\ Written(key[q]) \cap Kept(key[q]) = {}
         /\ key[q].lost \cap (Written(key[q]) \cup Kept(key[q])) = {}
<1>1. Kept(key[q]) = InEvents(key[q].buffer) \cup Deltas(key[q])
  BY DEF Kept, Deltas
<1> QED BY <1>1 DEF Accounted

\* While a registered turn runs, each of its events was written to a reply,
\* waits to be, or was evicted from a full buffer, and just one of these,
\* however replies come and go (stream-service.ts, sendEventByKey, addStream).
THEOREM NothingLostAlways == Spec => []NothingLost
<1>1. Init => Unstarted /\ Registered
  BY SandboxAssumption DEF Init, Unstarted, Registered, Running
<1>2. TypeOK /\ Inductive /\ Unstarted /\ Registered /\ [Next]_vars => Unstarted' /\ Registered'
  <2> SUFFICES ASSUME TypeOK, Inductive, Unstarted, Registered, [Next]_vars
               PROVE  Unstarted' /\ Registered'
    OBVIOUS
  <2>1. ASSUME NEW p \in Queries, Running(p)', p \in turns'[owner'[p]]
        PROVE  Accounted(key'[p], {})
    <3>1. key[p] \in Keys
      BY DEF TypeOK
    <3>2. Running(p) /\ p \in turns[owner[p]] => Accounted(key[p], {})
      BY DEF Registered
    <3>3. \A r \in Replies : Accounted(sendEvent(addStream(NoKey, r), "content"), {})
      BY NoKeyType, NoKeyAccounts, AddStreamType, AddStreamAccounts, SendAccounts DEF Kinds
    <3> QED BY <2>1, <3>1, <3>2, <3>3, RegisteredSteps, SendAccounts, FlushAccounts,
               HeartbeatAccounts, AddStreamAccounts, RemoveStreamAccounts
  <2>2. Registered'
    BY <2>1 DEF Registered
  <2> QED BY <2>2, UnstartedStays
<1>3. Registered => NothingLost
  <2> SUFFICES ASSUME Registered, NEW q \in Queries, Running(q), q \in turns[owner[q]]
               PROVE  /\ 1..key[q].sent = Written(key[q]) \cup Kept(key[q]) \cup key[q].lost
                      /\ Written(key[q]) \cap Kept(key[q]) = {}
                      /\ key[q].lost \cap (Written(key[q]) \cup Kept(key[q])) = {}
    BY DEF NothingLost, Running
  <2> QED BY AccountedEntails DEF Registered
<1> QED BY <1>1, <1>2, <1>3, TypeCorrect, InductiveAlways, PTL DEF Spec

----------------------------------------------------------------------------
(* A reply gets its events in order.                                       *)

Fits(e, f) == (e.kind = "content" /\ f.kind = "input") \/ Before(e, f)

InLine(events) ==
  \A j \in 1..Len(events) : \A i \in 1..(j - 1) : Fits(events[i], events[j])

\* No number is above n, and only content may have been sent before a delta
\* it follows.
Fitting(e, n, deltas) ==
  /\ Numbers(e) \subseteq 1..n
  /\ e.kind # "content" => \A m \in Numbers(e), d \in deltas : m < d

Line(events, n, deltas) ==
  InLine(events) /\ \A i \in 1..Len(events) : Fitting(events[i], n, deltas)

LEMMA LineEmpty ==
  ASSUME NEW n, NEW deltas
  PROVE  Line(<<>>, n, deltas)
BY DEF Line, InLine

\* A line stays one when numbers and deltas above all of it are added.
LEMMA LineWidens ==
  ASSUME NEW events \in Seq(Events), NEW n \in Nat, NEW m \in Nat, n <= m,
         NEW deltas, NEW more, Line(events, n, deltas),
         \A d \in more : d \in deltas \/ (d \in Nat /\ d > n)
  PROVE  Line(events, m, more)
<1>1. ASSUME NEW i \in 1..Len(events) PROVE Fitting(events[i], m, more)
  <2>1. Fitting(events[i], n, deltas)
    BY DEF Line
  <2> QED BY <2>1 DEF Fitting
<1> QED BY <1>1 DEF Line

LEMMA LineAppend ==
  ASSUME NEW events \in Seq(Events), NEW e \in Events, NEW n \in Nat, NEW deltas,
         Line(events, n, deltas), Fitting(e, n, deltas),
         \A i \in 1..Len(events) : Fits(events[i], e)
  PROVE  Line(Append(events, e), n, deltas)
<1> DEFINE longer == Append(events, e)
<1>1. Len(longer) = Len(events) + 1 /\ Len(events) \in Nat
  OBVIOUS
<1>2. \A j \in 1..Len(events) : longer[j] = events[j]
  OBVIOUS
<1>3. longer[Len(events) + 1] = e
  OBVIOUS
<1> HIDE DEF longer
<1>4. \A i \in 1..Len(longer) : Fitting(longer[i], n, deltas)
  <2>1. \A i \in 1..Len(longer) : i \in 1..Len(events) \/ i = Len(events) + 1
    BY <1>1
  <2> QED BY <1>2, <1>3, <2>1 DEF Line
<1>5. ASSUME NEW j \in 1..Len(longer), NEW i \in 1..(j - 1) PROVE Fits(longer[i], longer[j])
  <2>1. CASE j \in 1..Len(events)
    <3>1. i \in 1..Len(events) /\ Fits(events[i], events[j])
      BY <2>1, <1>1 DEF Line, InLine
    <3> QED BY <2>1, <3>1, <1>2
  <2>2. CASE j = Len(events) + 1
    <3>1. i \in 1..Len(events)
      BY <2>2, <1>1
    <3> QED BY <2>2, <3>1, <1>2, <1>3
  <2> QED BY <2>1, <2>2, <1>1
<1>6. Line(longer, n, deltas)
  BY <1>4, <1>5 DEF Line, InLine
<1> QED BY <1>6 DEF longer

LEMMA LineTail ==
  ASSUME NEW events \in Seq(Events), events # <<>>, NEW n, NEW deltas,
         Line(events, n, deltas)
  PROVE  Line(Tail(events), n, deltas)
<1> DEFINE rest == Tail(events)
<1>1. Len(rest) = Len(events) - 1 /\ Len(events) \in Nat
  OBVIOUS
<1>2. \A j \in 1..Len(rest) : rest[j] = events[j + 1]
  OBVIOUS
<1> HIDE DEF rest
<1>3. \A j \in 1..Len(rest) : j + 1 \in 1..Len(events)
  BY <1>1
<1>4. \A i \in 1..Len(rest) : Fitting(rest[i], n, deltas)
  BY <1>2, <1>3 DEF Line
<1>5. ASSUME NEW j \in 1..Len(rest), NEW i \in 1..(j - 1) PROVE Fits(rest[i], rest[j])
  <2>1. i \in 1..Len(rest) /\ i + 1 \in 1..((j + 1) - 1) /\ j + 1 \in 1..Len(events)
    BY <1>1
  <2>2. Fits(events[i + 1], events[j + 1])
    BY <2>1 DEF Line, InLine
  <2> QED BY <2>1, <2>2, <1>2
<1>6. Line(rest, n, deltas)
  BY <1>4, <1>5 DEF Line, InLine
<1> QED BY <1>6 DEF rest

\* The record's lines: what each reply was written, and what waits for one.
Tidy(k, n) ==
  /\ Deltas(k) \subseteq 1..n
  /\ \A r \in Replies : Line(k.wrote[r], n, Deltas(k))
  /\ Line(k.buffer, n, Deltas(k))

\* An event that every line may end with.
Follows(k, e) ==
  /\ \A r \in Replies : \A i \in 1..Len(k.wrote[r]) : Fits(k.wrote[r][i], e)
  /\ \A i \in 1..Len(k.buffer) : Fits(k.buffer[i], e)

LEMMA DirectTidy ==
  ASSUME NEW k \in Keys, NEW e \in Events, NEW n \in Nat,
         Tidy(k, n), Follows(k, e), Fitting(e, n, Deltas(k))
  PROVE  Tidy(sendEventDirect(k, e), n)
<1> DEFINE d == sendEventDirect(k, e)
           full == Append(k.buffer, e)
<1>1. k.buffer \in Seq(Events) /\ k.wrote \in [Replies -> Seq(Events)]
  BY Fields
<1>2. Deltas(d) = Deltas(k)
  <2>1. d.delta = k.delta
    BY DirectFields
  <2> HIDE DEF d
  <2> QED BY <2>1 DEF Deltas
<1>3. full \in Seq(Events) /\ full # <<>> /\ Line(full, n, Deltas(k))
  <2>1. full \in Seq(Events) /\ full # <<>>
    BY <1>1
  <2>2. Line(full, n, Deltas(k))
    BY <1>1, LineAppend DEF Tidy, Follows
  <2> QED BY <2>1, <2>2
<1>4. Line(Tail(full), n, Deltas(k))
  BY <1>3, LineTail
<1>5. \A r \in Replies : Line(k.wrote[r], n, Deltas(k))
                         /\ Line(Append(k.wrote[r], e), n, Deltas(k))
  BY <1>1, LineAppend DEF Tidy, Follows
<1>6. \A r \in Replies : Line(d.wrote[r], n, Deltas(k))
  <2>1. CASE k.streams = {}
    BY <2>1, <1>5, DirectFields
  <2>2. CASE k.streams # {}
    <3>1. d.wrote = [r \in Replies |-> IF r \in k.streams THEN Append(k.wrote[r], e)
                                                          ELSE k.wrote[r]]
      BY <2>2, DirectFields
    <3> HIDE DEF d
    <3> QED BY <3>1, <1>5
  <2> QED BY <2>1, <2>2
<1>7. d.buffer \in {k.buffer, full, Tail(full)}
  BY DirectFields
<1>8. Line(d.buffer, n, Deltas(k))
  BY <1>3, <1>4, <1>7 DEF Tidy
<1>9. Tidy(d, n)
  <2> HIDE DEF d
  <2> QED BY <1>2, <1>6, <1>8 DEF Tidy
<1> QED BY <1>9

\* A number above all that a tidy record holds may end every line, and the
\* deltas of a tidy record, in one event, as well.
LEMMA TidyFollows ==
  ASSUME NEW k \in Keys, NEW n \in Nat, Tidy(k, n), NEW e \in Events,
         \/ \A m \in Numbers(e) : m \in Nat /\ m > n
         \/ e.kind = "input" /\ Numbers(e) = Deltas(k)
  PROVE  Follows(k, e)
<1>1. ASSUME NEW f, Fitting(f, n, Deltas(k)) PROVE Fits(f, e)
  <2>1. Numbers(f) \subseteq 1..n
    BY <1>1 DEF Fitting
  <2>2. CASE \A m \in Numbers(e) : m \in Nat /\ m > n
    <3>1. ASSUME NEW m \in Numbers(f), NEW j \in Numbers(e) PROVE m < j
      <4>1. m \in 1..n /\ j \in Nat /\ j > n
        BY <2>1, <2>2
      <4> QED BY <4>1
    <3> QED BY <3>1 DEF Fits, Before
  <2>3. CASE e.kind = "input" /\ Numbers(e) = Deltas(k)
    BY <1>1, <2>3 DEF Fitting, Fits, Before
  <2> QED BY <2>2, <2>3
<1>2. \A r \in Replies : \A i \in 1..Len(k.wrote[r]) : Fitting(k.wrote[r][i], n, Deltas(k))
  BY DEF Tidy, Line
<1>3. \A i \in 1..Len(k.buffer) : Fitting(k.buffer[i], n, Deltas(k))
  BY DEF Tidy, Line
<1> QED BY <1>1, <1>2, <1>3 DEF Follows

\* Fewer deltas, or more numbers to give, leave a record tidy.
LEMMA TidyTaken ==
  ASSUME NEW k \in Keys, NEW n \in Nat, Tidy(k, n)
  PROVE  Tidy([k EXCEPT !.delta = <<>>], n)
<1> DEFINE t == [k EXCEPT !.delta = <<>>]
<1>1. t.delta = <<>> /\ t.wrote = k.wrote /\ t.buffer = k.buffer
  BY TakenFields
<1> HIDE DEF t
<1>2. Deltas(t) = {}
  BY <1>1 DEF Deltas
<1>3. \A r \in Replies : k.wrote[r] \in Seq(Events)
  BY Fields
<1>4. Line(k.buffer, n, {}) /\ \A r \in Replies : Line(k.wrote[r], n, {})
  BY <1>3, Fields, LineWidens DEF Tidy
<1>5. Tidy(t, n)
  BY <1>1, <1>2, <1>4 DEF Tidy
<1> QED BY <1>5 DEF t

LEMMA FlushTidy ==
  ASSUME NEW k \in Keys, NEW n \in Nat, Tidy(k, n)
  PROVE  /\ Tidy(flushInputDelta(k), n)
         /\ flushInputDelta(k) \in Keys
         /\ flushInputDelta(k).delta = <<>>
         /\ flushInputDelta(k).sent = k.sent
<1> DEFINE t == [k EXCEPT !.delta = <<>>]
           e == Event("input", k.delta)
<1>1. CASE k.delta = <<>>
  BY <1>1 DEF flushInputDelta
<1>2. CASE k.delta # <<>>
  <2>1. /\ t \in Keys /\ t.delta = <<>> /\ t.buffer = k.buffer /\ t.wrote = k.wrote
        /\ t.sent = k.sent /\ Tidy(t, n)
    BY TakenFields, TidyTaken
  <2>2. e \in Events /\ Numbers(e) = Deltas(k) /\ e.kind = "input"
    BY Fields, DeltaEventFields DEF Deltas
  <2>3. flushInputDelta(k) = sendEventDirect(t, e)
    BY <1>2 DEF flushInputDelta
  <2> HIDE DEF t, e
  <2>4. Follows(k, e)
    BY <2>2, TidyFollows
  <2>5. Follows(t, e)
    BY <2>1, <2>4 DEF Follows
  <2>6. Deltas(t) = {}
    BY <2>1 DEF Deltas
  <2>7. Fitting(e, n, Deltas(t))
    BY <2>2, <2>6 DEF Fitting, Tidy
  <2>8. Tidy(sendEventDirect(t, e), n)
    BY <2>1, <2>2, <2>5, <2>7, DirectTidy
  <2>9. /\ sendEventDirect(t, e).delta = <<>> /\ sendEventDirect(t, e).sent = k.sent
        /\ sendEventDirect(t, e) \in Keys
    BY <2>1, <2>2, DirectFields
  <2> QED BY <2>3, <2>8, <2>9
<1> QED BY <1>1, <1>2

\* The record with the next number given, before anything has it.
LEMMA NumberedTidy ==
  ASSUME NEW k \in Keys, NEW n \in Nat, Tidy(k, n)
  PROVE  Tidy([k EXCEPT !.sent = @ + 1], n)
<1> DEFINE t == [k EXCEPT !.sent = @ + 1]
<1>1. t.delta = k.delta /\ t.wrote = k.wrote /\ t.buffer = k.buffer
  BY NumberedFields
<1> HIDE DEF t
<1>2. Tidy(t, n)
  BY <1>1 DEF Tidy, Deltas
<1> QED BY <1>2 DEF t

LEMMA TidyWidens ==
  ASSUME NEW k \in Keys, NEW n \in Nat, NEW m \in Nat, n <= m, Tidy(k, n)
  PROVE  Tidy(k, m)
<1>1. \A r \in Replies : k.wrote[r] \in Seq(Events)
  BY Fields
<1>2. Line(k.buffer, m, Deltas(k)) /\ \A r \in Replies : Line(k.wrote[r], m, Deltas(k))
  BY <1>1, Fields, LineWidens DEF Tidy
<1>3. Deltas(k) \subseteq 1..m
  BY DEF Tidy
<1> QED BY <1>2, <1>3 DEF Tidy

\* An event with the next number, sent when the deltas that it may not
\* overtake are flushed, leaves a tidy record.
LEMMA NextTidy ==
  ASSUME NEW k \in Keys, NEW n \in Nat, Tidy(k, n), NEW kind \in Kinds,
         kind = "content" \/ k.delta = <<>>
  PROVE  Tidy(sendEventDirect(k, Event(kind, <<n + 1>>)), n + 1)
<1> DEFINE e == Event(kind, <<n + 1>>)
<1>1. e \in Events /\ e.kind = kind /\ Numbers(e) = {n + 1}
  BY OneEventFields
<1>2. Tidy(k, n + 1)
  BY TidyWidens
<1> HIDE DEF e
<1>3. Follows(k, e)
  <2>1. \A m \in Numbers(e) : m \in Nat /\ m > n
    BY <1>1
  <2> QED BY <1>1, <2>1, TidyFollows
<1>4. Fitting(e, n + 1, Deltas(k))
  BY <1>1 DEF Fitting, Deltas
<1>5. Tidy(sendEventDirect(k, e), n + 1)
  BY <1>1, <1>2, <1>3, <1>4, DirectTidy
<1> QED BY <1>5 DEF e

\* sendEvent keeps the record tidy: a boundary event sends the deltas before
\* itself; query_complete comes where there are none.
LEMMA SendTidy ==
  ASSUME NEW k \in Keys, NEW kind \in Kinds, Tidy(k, k.sent),
         kind \in {"content", "input", "boundary"} \/ k.delta = <<>>
  PROVE  Tidy(sendEvent(k, kind), k.sent + 1) /\ sendEvent(k, kind).sent = k.sent + 1
<1> DEFINE t == [k EXCEPT !.sent = @ + 1]
           n == k.sent
<1>1. t \in Keys /\ t.sent = n + 1 /\ t.delta = k.delta /\ t.wrote = k.wrote
      /\ t.buffer = k.buffer /\ Tidy(t, n) /\ n \in Nat /\ t.delta \in Seq(Nat)
  <2>1. t \in Keys /\ t.sent = n + 1 /\ t.delta = k.delta /\ t.wrote = k.wrote
        /\ t.buffer = k.buffer
    BY NumberedFields
  <2>2. Tidy(t, n) /\ n \in Nat
    BY Fields, NumberedTidy
  <2> HIDE DEF t
  <2> QED BY <2>1, <2>2, Fields
<1>2. CASE kind = "input"
  <2> DEFINE w == [t EXCEPT !.delta = Append(@, t.sent)]
  <2>1. sendEvent(k, kind) = w
    BY <1>2 DEF sendEvent
  <2> HIDE DEF t
  <2>2. /\ w.delta = Append(t.delta, n + 1) /\ w.buffer = t.buffer /\ w.sent = t.sent
        /\ w.wrote = t.wrote
    BY <1>1 DEF Keys
  <2> HIDE DEF w
  <2>3. Deltas(w) = Deltas(t) \cup {n + 1}
    <3>1. DOMAIN w.delta = 1..(Len(t.delta) + 1) /\ DOMAIN t.delta = 1..Len(t.delta)
          /\ Len(t.delta) \in Nat
      BY <1>1, <2>2
    <3>2. \A j \in 1..Len(t.delta) : w.delta[j] = t.delta[j]
      BY <1>1, <2>2
    <3>3. w.delta[Len(t.delta) + 1] = n + 1
      BY <1>1, <2>2
    <3> QED BY <3>1, <3>2, <3>3 DEF Deltas
  <2>4. \A r \in Replies : t.wrote[r] \in Seq(Events)
    BY <1>1, Fields
  <2>5. n + 1 \in Nat /\ n <= n + 1 /\ n + 1 > n
    BY <1>1
  <2>6. /\ Line(t.buffer, n + 1, Deltas(w))
        /\ \A r \in Replies : Line(t.wrote[r], n + 1, Deltas(w))
    BY <1>1, <2>3, <2>4, <2>5, Fields, LineWidens DEF Tidy
  <2>7. Deltas(w) \subseteq 1..(n + 1)
    BY <1>1, <2>3 DEF Tidy
  <2>8. Tidy(w, n + 1)
    BY <2>2, <2>6, <2>7 DEF Tidy
  <2> QED BY <1>1, <2>1, <2>2, <2>8
<1>3. CASE kind # "input"
  <2> DEFINE f == IF kind = "boundary" THEN flushInputDelta(t) ELSE t
  <2>1. sendEvent(k, kind) = sendEventDirect(f, Event(kind, <<n + 1>>))
    BY <1>1, <1>3 DEF sendEvent
  <2> HIDE DEF t
  <2>2. f \in Keys /\ Tidy(f, n) /\ f.sent = n + 1 /\ (kind = "content" \/ f.delta = <<>>)
    <3>1. CASE kind = "boundary"
      BY <1>1, <3>1, FlushTidy
    <3>2. CASE kind # "boundary"
      BY <1>1, <1>3, <3>2
    <3> QED BY <3>1, <3>2
  <2> HIDE DEF f, n
  <2>3. Tidy(sendEventDirect(f, Event(kind, <<n + 1>>)), n + 1)
    BY <1>1, <2>2, NextTidy
  <2>4. Event(kind, <<n + 1>>) \in Events
    BY <1>1, OneEventFields
  <2>5. sendEventDirect(f, Event(kind, <<n + 1>>)).sent = n + 1
    BY <2>2, <2>4, DirectFields
  <2> QED BY <2>1, <2>3, <2>5 DEF n
<1> QED BY <1>2, <1>3

\* The end of a query, what replies do, and the closing of the session.
LEMMA EndQueryTidy ==
  ASSUME NEW k \in Keys, Tidy(k, k.sent)
  PROVE  Tidy(endQuery(k), endQuery(k).sent)
<1> DEFINE f == flushInputDelta(k)
           c == sendEvent(f, "complete")
           t == [c EXCEPT !.buffer = <<>>]
<1>1. f \in Keys /\ f.delta = <<>> /\ f.sent = k.sent /\ Tidy(f, k.sent)
  BY Fields, FlushTidy
<1>2. endQuery(k) = t
  BY DEF endQuery
<1> HIDE DEF f
<1>3. c \in Keys /\ Tidy(c, c.sent)
  BY <1>1, SendTidy, SendEventType DEF Kinds
<1> HIDE DEF c
<1>4. t.sent = c.sent /\ t.buffer = <<>> /\ t.delta = c.delta /\ t.wrote = c.wrote
  BY <1>3 DEF Keys
<1> HIDE DEF t
<1>5. Tidy(t, t.sent)
  BY <1>3, <1>4, LineEmpty DEF Tidy, Deltas
<1> QED BY <1>2, <1>5

\* A reply attaches once, when it has been written nothing.
LEMMA AddStreamTidy ==
  ASSUME NEW k \in Keys, NEW r \in Replies, Tidy(k, k.sent), k.wrote[r] = <<>>
  PROVE  Tidy(addStream(k, r), addStream(k, r).sent)
<1> DEFINE t == addStream(k, r)
<1>1. /\ t \in Keys /\ t.buffer = <<>> /\ t.delta = k.delta /\ t.sent = k.sent
      /\ t.wrote = [k.wrote EXCEPT ![r] = k.wrote[r] \o k.buffer]
  BY AddStreamFields
<1> HIDE DEF t
<1>2. k.buffer \in Seq(Events) /\ k.wrote \in [Replies -> Seq(Events)]
  BY Fields
<1>3. <<>> \o k.buffer = k.buffer
  BY <1>2, ConcatEmptySeq
<1>4. \A p \in Replies : t.wrote[p] \in {k.wrote[p], k.buffer}
  BY <1>1, <1>2, <1>3
<1>5. Deltas(t) = Deltas(k)
  BY <1>1 DEF Deltas
<1>6. \A p \in Replies : Line(t.wrote[p], t.sent, Deltas(t))
  BY <1>1, <1>4, <1>5 DEF Tidy
<1>7. Tidy(t, t.sent)
  BY <1>1, <1>5, <1>6, LineEmpty DEF Tidy
<1> QED BY <1>7 DEF t

LEMMA RemoveStreamTidy ==
  ASSUME NEW k \in Keys, NEW r \in Replies, Tidy(k, k.sent)
  PROVE  Tidy(removeStream(k, r), removeStream(k, r).sent)
<1> DEFINE t == removeStream(k, r)
<1>1. t.buffer = k.buffer /\ t.delta = k.delta /\ t.sent = k.sent /\ t.wrote = k.wrote
  BY DEF removeStream, Keys
<1> HIDE DEF t
<1>2. Tidy(t, t.sent)
  BY <1>1 DEF Tidy, Deltas
<1> QED BY <1>2 DEF t

LEMMA CloseKeyTidy ==
  ASSUME NEW k \in Keys, Tidy(k, k.sent)
  PROVE  Tidy(closeKey(k), closeKey(k).sent)
<1> DEFINE t == closeKey(k)
<1>1. t.buffer = <<>> /\ t.delta = <<>> /\ t.sent = k.sent /\ t.wrote = k.wrote
  BY DEF closeKey, Keys
<1> HIDE DEF t
<1>2. Deltas(t) = {}
  BY <1>1 DEF Deltas
<1>3. k.sent \in Nat /\ k.sent <= k.sent /\ \A r \in Replies : k.wrote[r] \in Seq(Events)
  BY Fields
<1>4. ASSUME NEW r \in Replies PROVE Line(k.wrote[r], k.sent, {})
  <2>1. Line(k.wrote[r], k.sent, Deltas(k))
    BY DEF Tidy
  <2> QED BY <1>3, <2>1, LineWidens
<1>5. Tidy(t, t.sent)
  BY <1>1, <1>2, <1>4, LineEmpty DEF Tidy
<1> QED BY <1>5 DEF t

LEMMA HeartbeatTidy ==
  ASSUME NEW k \in Keys, Tidy(k, k.sent)
  PROVE  Tidy(sendHeartbeat(k), sendHeartbeat(k).sent)
<1> DEFINE beat == Event("heartbeat", <<>>)
<1>1. beat \in Events /\ Numbers(beat) = {}
  <2>1. beat \in Events
    BY EventType, Empty DEF Kinds
  <2>2. beat.parts = <<>> /\ DOMAIN <<>> = {}
    BY DEF Event
  <2> QED BY <2>1, <2>2 DEF Numbers
<1>2. CASE k.streams = {}
  <2>1. sendHeartbeat(k) = sendEventDirect(k, beat)
    BY <1>2 DEF sendHeartbeat, sendEventDirect
  <2> HIDE DEF beat
  <2>2. k.sent \in Nat /\ Follows(k, beat)
    BY <1>1, Fields, TidyFollows
  <2>3. Fitting(beat, k.sent, Deltas(k))
    BY <1>1 DEF Fitting
  <2>4. Tidy(sendEventDirect(k, beat), k.sent) /\ sendEventDirect(k, beat).sent = k.sent
    BY <1>1, <2>2, <2>3, DirectTidy, DirectFields
  <2> QED BY <2>1, <2>4
<1>3. CASE k.streams # {}
  BY <1>3 DEF sendHeartbeat
<1> QED BY <1>2, <1>3

LEMMA NoKeyTidy == Tidy(NoKey, NoKey.sent)
<1>1. NoKey.buffer = <<>> /\ NoKey.delta = <<>> /\ \A r \in Replies : NoKey.wrote[r] = <<>>
  BY DEF NoKey
<1> QED BY <1>1, LineEmpty DEF Tidy, Deltas

\* A method other than addStream attaches no reply, and writes to none that
\* is not attached.
Untouched(k, j) ==
  /\ j.streams \subseteq k.streams
  /\ \A r \in Replies \ k.streams : j.wrote[r] = k.wrote[r]

LEMMA DirectUntouched ==
  ASSUME NEW k \in Keys, NEW e \in Events
  PROVE  Untouched(k, sendEventDirect(k, e))
<1> DEFINE d == sendEventDirect(k, e)
<1>1. d.streams = k.streams
  BY DirectFields
<1>2. CASE k.streams = {}
  BY <1>1, <1>2, DirectFields DEF Untouched
<1>3. CASE k.streams # {}
  <2>1. d.wrote = [r \in Replies |-> IF r \in k.streams THEN Append(k.wrote[r], e)
                                                        ELSE k.wrote[r]]
    BY <1>3, DirectFields
  <2> HIDE DEF d
  <2>2. Untouched(k, d)
    BY <1>1, <2>1 DEF Untouched
  <2> QED BY <2>2 DEF d
<1> QED BY <1>2, <1>3

LEMMA FlushUntouched ==
  ASSUME NEW k \in Keys
  PROVE  Untouched(k, flushInputDelta(k))
<1> DEFINE t == [k EXCEPT !.delta = <<>>]
           e == Event("input", k.delta)
<1>1. t \in Keys /\ t.streams = k.streams /\ t.wrote = k.wrote
  BY TakenFields
<1>2. e \in Events
  BY Fields, DeltaEventFields
<1>3. flushInputDelta(k) \in {k, sendEventDirect(t, e)}
  BY DEF flushInputDelta
<1> HIDE DEF t, e
<1>4. Untouched(t, sendEventDirect(t, e))
  BY <1>1, <1>2, DirectUntouched
<1> QED BY <1>1, <1>3, <1>4 DEF Untouched

LEMMA SendUntouched ==
  ASSUME NEW k \in Keys, NEW kind \in Kinds
  PROVE  Untouched(k, sendEvent(k, kind))
<1> DEFINE t == [k EXCEPT !.sent = @ + 1]
           w == [t EXCEPT !.delta = Append(@, t.sent)]
           f == IF kind = "boundary" THEN flushInputDelta(t) ELSE t
           e == Event(kind, <<t.sent>>)
<1>1. t \in Keys /\ t.streams = k.streams /\ t.wrote = k.wrote /\ t.sent \in Nat
  <2>1. t \in Keys /\ t.streams = k.streams /\ t.wrote = k.wrote
    BY NumberedFields
  <2> HIDE DEF t
  <2> QED BY <2>1, Fields
<1>2. sendEvent(k, kind) \in {w, sendEventDirect(f, e)}
  BY DEF sendEvent
<1> HIDE DEF t
<1>3. e \in Events
  BY <1>1, OneEventFields
<1>4. w.streams = t.streams /\ w.wrote = t.wrote
  BY <1>1 DEF Keys
<1>5. f \in Keys /\ Untouched(t, f)
  BY <1>1, FlushType, FlushUntouched DEF Untouched
<1> HIDE DEF w, f, e
<1>6. Untouched(f, sendEventDirect(f, e))
  BY <1>3, <1>5, DirectUntouched
<1> QED BY <1>1, <1>2, <1>4, <1>5, <1>6 DEF Untouched

LEMMA EndQueryUntouched ==
  ASSUME NEW k \in Keys
  PROVE  Untouched(k, endQuery(k))
<1> DEFINE f == flushInputDelta(k)
           c == sendEvent(f, "complete")
           t == [c EXCEPT !.buffer = <<>>]
<1>1. f \in Keys /\ Untouched(k, f)
  BY FlushType, FlushUntouched
<1>2. endQuery(k) = t
  BY DEF endQuery
<1> HIDE DEF f
<1>3. c \in Keys /\ Untouched(f, c)
  BY <1>1, SendEventType, SendUntouched DEF Kinds
<1> HIDE DEF c
<1>4. t.streams = c.streams /\ t.wrote = c.wrote
  BY <1>3 DEF Keys
<1> HIDE DEF t
<1> QED BY <1>1, <1>2, <1>3, <1>4 DEF Untouched

LEMMA RepliesUntouched ==
  ASSUME NEW k \in Keys, NEW r \in Replies
  PROVE  /\ Untouched(k, removeStream(k, r))
         /\ Untouched(k, closeKey(k))
         /\ Untouched(k, sendHeartbeat(k))
<1>1. Untouched(k, removeStream(k, r))
  BY DEF Untouched, removeStream, Keys
<1>2. Untouched(k, closeKey(k))
  BY DEF Untouched, closeKey, Keys
<1>3. Untouched(k, sendHeartbeat(k))
  <2> DEFINE beat == Event("heartbeat", <<>>)
  <2>1. beat \in Events
    BY EventType, Empty DEF Kinds
  <2>2. sendHeartbeat(k) \in {k, sendEventDirect(k, beat)}
    BY DEF sendHeartbeat, sendEventDirect
  <2> HIDE DEF beat
  <2> QED BY <2>1, <2>2, DirectUntouched DEF Untouched
<1> QED BY <1>1, <1>2, <1>3

\* Whatever happens to a key.
Kind3 == {"content", "input", "boundary"}

LEMMA KeySteps ==
  ASSUME TypeOK, [Next]_vars, NEW p \in Queries
  PROVE  \/ key'[p] = key[p]
         \/ \E kind \in Kind3 : key'[p] = sendEvent(key[p], kind)
         \/ key'[p] = endQuery(sendEvent(key[p], "boundary"))
         \/ key'[p] = endQuery(sendEvent(key[p], "content"))
         \/ key'[p] = flushInputDelta(key[p])
         \/ key'[p] = sendHeartbeat(key[p])
         \/ key'[p] = closeKey(key[p])
         \/ \E r \in Replies : key'[p] = removeStream(key[p], r)
         \/ \E r \in Replies : /\ line[r] = "new" /\ line'[r] = "open"
                               /\ key'[p] \in {addStream(key[p], r),
                                               sendEvent(addStream(key[p], r), "content")}
<1> DEFINE Opened == \E r \in Replies : /\ line[r] = "new" /\ line'[r] = "open"
                                        /\ key'[p] \in {addStream(key[p], r),
                                                        sendEvent(addStream(key[p], r), "content")}
           Goal == \/ key'[p] = key[p]
                   \/ \E kind \in Kind3 : key'[p] = sendEvent(key[p], kind)
                   \/ key'[p] = endQuery(sendEvent(key[p], "boundary"))
                   \/ key'[p] = endQuery(sendEvent(key[p], "content"))
                   \/ key'[p] = flushInputDelta(key[p])
                   \/ key'[p] = sendHeartbeat(key[p])
                   \/ key'[p] = closeKey(key[p])
                   \/ \E r \in Replies : key'[p] = removeStream(key[p], r)
                   \/ Opened
<1>1. ASSUME NEW s \in Sessions, Create(s) \/ CreateUnknown(s) \/ Delete(s) PROVE Goal
  BY <1>1 DEF Create, CreateUnknown, Delete, destroy
<1>2. ASSUME NEW s \in Sessions, NEW q \in Queries, NEW r \in Replies, QueryStream(s, q, r)
      PROVE  Goal
  <2>1. line[r] = "new" /\ line'[r] = "open"
    BY <1>2 DEF QueryStream, TypeOK
  <2>2. key'[p] \in {key[p], sendEvent(addStream(key[p], r), "content")}
    BY <1>2 DEF QueryStream, TypeOK
  <2> QED BY <2>1, <2>2
<1>3. ASSUME NEW s \in Sessions, NEW qs \in SUBSET Queries, Cancel(s, qs) PROVE Goal
  BY <1>3 DEF Cancel
<1>4. ASSUME NEW q \in Queries, TurnStep(q) PROVE Goal
  BY <1>4 DEF TurnStep, Attached, ProxyStarted, Result, Drained, Throws, TypeOK
<1>5. ASSUME NEW q \in Queries, FlushTimer(q) PROVE Goal
  BY <1>5 DEF FlushTimer, TypeOK
<1>6. ASSUME NEW q \in Queries, NEW kind \in {"content", "input", "boundary"}, Message(q, kind)
      PROVE  Goal
  BY <1>6 DEF Message, TypeOK, Kind3
<1>7. ASSUME NEW q \in Queries, NEW r \in Replies, Stream(q, r) PROVE Goal
  <2>1. line[r] = "new" /\ line'[r] = "open"
    BY <1>7 DEF Stream, TypeOK
  <2>2. key'[p] \in {key[p], addStream(key[p], r)}
    BY <1>7 DEF Stream, TypeOK
  <2> QED BY <2>1, <2>2
<1>8. ASSUME NEW r \in Replies, Close(r) \/ Heartbeat(r) PROVE Goal
  BY <1>8 DEF Close, Heartbeat, TypeOK
<1>9. CASE UNCHANGED vars
  BY <1>9 DEF vars
<1> QED BY <1>1, <1>2, <1>3, <1>4, <1>5, <1>6, <1>7, <1>8, <1>9 DEF Next

\* A reply is new only before it attaches.
LEMMA NewBefore ==
  ASSUME TypeOK, [Next]_vars, NEW r \in Replies, line'[r] = "new"
  PROVE  line[r] = "new"
<1>1. ASSUME NEW s \in Sessions, Create(s) \/ CreateUnknown(s) \/ Delete(s)
      PROVE  line[r] = "new"
  BY <1>1 DEF Create, CreateUnknown, Delete, destroy, replyVars
<1>2. ASSUME NEW s \in Sessions, NEW q \in Queries, NEW x \in Replies, QueryStream(s, q, x)
      PROVE  line[r] = "new"
  BY <1>2 DEF QueryStream, TypeOK
<1>8. ASSUME NEW q \in Queries, NEW x \in Replies, Stream(q, x) PROVE line[r] = "new"
  BY <1>8 DEF Stream, TypeOK
<1>3. ASSUME NEW x \in Replies, Close(x) \/ Heartbeat(x) PROVE line[r] = "new"
  BY <1>3 DEF Close, Heartbeat, TypeOK, replyVars
<1>4. ASSUME NEW s \in Sessions, NEW qs \in SUBSET Queries, Cancel(s, qs)
      PROVE  line[r] = "new"
  BY <1>4 DEF Cancel, replyVars
<1>5. ASSUME NEW q \in Queries, TurnStep(q) \/ FlushTimer(q) PROVE line[r] = "new"
  BY <1>5 DEF TurnStep, Attached, ProxyStarted, Result, Drained, Throws, Step, FlushTimer,
              replyVars
<1>6. ASSUME NEW q \in Queries, NEW kind \in {"content", "input", "boundary"}, Message(q, kind)
      PROVE  line[r] = "new"
  BY <1>6 DEF Message, Step, replyVars
<1>7. CASE UNCHANGED vars
  BY <1>7 DEF vars
<1> QED BY <1>1, <1>2, <1>3, <1>4, <1>5, <1>6, <1>7, <1>8 DEF Next

\* A reply that has not attached was written nothing.
Fresh ==
  \A r \in Replies : line[r] = "new" =>
    \A q \in Queries : r \notin key[q].streams /\ key[q].wrote[r] = <<>>

AllTidy == \A q \in Queries : Tidy(key[q], key[q].sent)

LEMMA FreshStays ==
  ASSUME TypeOK, Fresh, [Next]_vars
  PROVE  Fresh'
<1> SUFFICES ASSUME NEW r \in Replies, line'[r] = "new", NEW p \in Queries
             PROVE  r \notin key'[p].streams /\ key'[p].wrote[r] = <<>>
  BY DEF Fresh
<1> DEFINE k == key[p]
<1>1. line[r] = "new" /\ r \notin k.streams /\ k.wrote[r] = <<>>
  BY NewBefore DEF Fresh
<1>2. k \in Keys /\ sendEvent(k, "boundary") \in Keys /\ sendEvent(k, "content") \in Keys
  BY SendEventType DEF TypeOK, Kinds
<1>3. CASE key'[p] = k \/ Untouched(k, key'[p])
  BY <1>1, <1>3 DEF Untouched
<1>4. CASE \/ key'[p] = endQuery(sendEvent(k, "boundary"))
           \/ key'[p] = endQuery(sendEvent(k, "content"))
  <2>1. PICK kind \in Kinds : key'[p] = endQuery(sendEvent(k, kind))
    BY <1>4 DEF Kinds
  <2>2. sendEvent(k, kind) \in Keys /\ Untouched(k, sendEvent(k, kind))
    BY <1>2, SendEventType, SendUntouched
  <2>3. Untouched(sendEvent(k, kind), endQuery(sendEvent(k, kind)))
    BY <2>2, EndQueryUntouched
  <2>4. Untouched(k, key'[p])
    BY <2>1, <2>2, <2>3 DEF Untouched
  <2> QED BY <1>3, <2>4
<1>5. ASSUME NEW x \in Replies, line'[x] = "open",
             key'[p] \in {addStream(k, x), sendEvent(addStream(k, x), "content")}
      PROVE  r \notin key'[p].streams /\ key'[p].wrote[r] = <<>>
  <2> DEFINE t == addStream(k, x)
  <2>1. r # x
    BY <1>5
  <2>2. t \in Keys /\ t.streams = k.streams \cup {x}
        /\ t.wrote = [k.wrote EXCEPT ![x] = k.wrote[x] \o k.buffer]
    BY <1>2, AddStreamFields
  <2> HIDE DEF t
  <2>3. r \notin t.streams /\ t.wrote[r] = <<>>
    BY <1>1, <1>2, <2>1, <2>2, Fields
  <2>4. Untouched(t, sendEvent(t, "content"))
    BY <2>2, SendUntouched DEF Kinds
  <2>5. key'[p] = t \/ key'[p] = sendEvent(t, "content")
    BY <1>5 DEF t
  <2> QED BY <2>3, <2>4, <2>5 DEF Untouched
<1>6. /\ \A kind \in Kind3 : Untouched(k, sendEvent(k, kind))
      /\ Untouched(k, flushInputDelta(k))
      /\ Untouched(k, sendHeartbeat(k)) /\ Untouched(k, closeKey(k))
      /\ \A x \in Replies : Untouched(k, removeStream(k, x))
  BY <1>2, SendUntouched, FlushUntouched, RepliesUntouched DEF Kinds, Kind3
<1> HIDE DEF k
<1> QED BY <1>3, <1>4, <1>5, <1>6, KeySteps DEF k

LEMMA TidyStays ==
  ASSUME TypeOK, Fresh, AllTidy, [Next]_vars
  PROVE  AllTidy'
<1> SUFFICES ASSUME NEW p \in Queries PROVE Tidy(key'[p], key'[p].sent)
  BY DEF AllTidy
<1> DEFINE k == key[p]
<1>1. k \in Keys /\ Tidy(k, k.sent)
  BY DEF TypeOK, AllTidy
<1>2. \A kind \in Kind3 : /\ sendEvent(k, kind) \in Keys
                          /\ Tidy(sendEvent(k, kind), sendEvent(k, kind).sent)
  <2> SUFFICES ASSUME NEW kind \in Kind3
               PROVE  /\ sendEvent(k, kind) \in Keys
                      /\ Tidy(sendEvent(k, kind), sendEvent(k, kind).sent)
    OBVIOUS
  <2>1. kind \in Kinds /\ kind \in {"content", "input", "boundary"}
    BY DEF Kinds, Kind3
  <2> HIDE DEF k
  <2> QED BY <1>1, <2>1, SendEventType, SendTidy
<1>3. \A kind \in Kind3 : Tidy(endQuery(sendEvent(k, kind)), endQuery(sendEvent(k, kind)).sent)
  BY <1>2, EndQueryTidy
<1>4. ASSUME NEW r \in Replies, line[r] = "new"
      PROVE  /\ Tidy(addStream(k, r), addStream(k, r).sent)
             /\ Tidy(sendEvent(addStream(k, r), "content"),
                     sendEvent(addStream(k, r), "content").sent)
  <2>1. k.wrote[r] = <<>>
    BY <1>4 DEF Fresh
  <2>2. addStream(k, r) \in Keys /\ Tidy(addStream(k, r), addStream(k, r).sent)
    BY <1>1, <2>1, AddStreamType, AddStreamTidy
  <2> DEFINE t == addStream(k, r)
  <2> HIDE DEF t
  <2>3. t \in Keys /\ Tidy(t, t.sent)
    BY <2>2 DEF t
  <2>4. Tidy(sendEvent(t, "content"), sendEvent(t, "content").sent)
    BY <2>3, SendTidy DEF Kinds
  <2> QED BY <2>2, <2>4 DEF t
<1>5. Tidy(flushInputDelta(k), flushInputDelta(k).sent)
  BY <1>1, Fields, FlushTidy
<1>6. /\ Tidy(sendHeartbeat(k), sendHeartbeat(k).sent)
      /\ Tidy(closeKey(k), closeKey(k).sent)
      /\ \A r \in Replies : Tidy(removeStream(k, r), removeStream(k, r).sent)
  BY <1>1, HeartbeatTidy, CloseKeyTidy, RemoveStreamTidy
<1>7. "boundary" \in Kind3 /\ "content" \in Kind3
  BY DEF Kind3
<1> HIDE DEF k
<1> QED BY <1>1, <1>2, <1>3, <1>4, <1>5, <1>6, <1>7, KeySteps DEF k

\* A reply gets its events in the order they were emitted, each once, but
\* that input deltas may come after content they preceded, and never after a
\* boundary event they preceded (stream-service.ts, flushInputDelta).
THEOREM InOrderAlways == Spec => []InOrder
<1>1. Init => Fresh /\ AllTidy
  <2>1. NoKey.streams = {} /\ \A r \in Replies : NoKey.wrote[r] = <<>>
    BY DEF NoKey
  <2> QED BY <2>1, NoKeyTidy DEF Init, Fresh, AllTidy
<1>2. TypeOK /\ Fresh /\ AllTidy /\ [Next]_vars => Fresh' /\ AllTidy'
  BY FreshStays, TidyStays
<1>3. TypeOK /\ AllTidy => InOrder
  <2> SUFFICES ASSUME TypeOK, AllTidy, NEW q \in Queries, NEW r \in Replies,
                      NEW j \in DOMAIN key[q].wrote[r], NEW i \in 1..(j - 1)
               PROVE  \/ key[q].wrote[r][i].kind = "content" /\ key[q].wrote[r][j].kind = "input"
                      \/ Before(key[q].wrote[r][i], key[q].wrote[r][j])
    BY DEF InOrder
  <2>1. DOMAIN key[q].wrote[r] = 1..Len(key[q].wrote[r])
    BY Fields DEF TypeOK
  <2>2. InLine(key[q].wrote[r])
    BY DEF AllTidy, Tidy, Line
  <2> QED BY <2>1, <2>2 DEF InLine, Fits
<1> QED BY <1>1, <1>2, <1>3, TypeCorrect, PTL DEF Spec

----------------------------------------------------------------------------
(* query_complete ends the stream.                                         *)

\* Every attached reply that heard of the turn heard its end last.
Told(k) ==
  \A r \in k.streams :
    InEvents(k.wrote[r]) # {} => k.wrote[r][Len(k.wrote[r])].kind = "complete"

AllTold == \A q \in Queries : Ended(q) => Told(key[q])

LEMMA EndQueryTold ==
  ASSUME NEW k \in Keys
  PROVE  Told(endQuery(k))
<1> DEFINE f == flushInputDelta(k)
           t == [f EXCEPT !.sent = @ + 1]
           e == Event("complete", <<t.sent>>)
           c == sendEventDirect(t, e)
           z == [c EXCEPT !.buffer = <<>>]
<1>1. f \in Keys
  BY FlushType
<1>2. sendEvent(f, "complete") = c
  BY DEF sendEvent
<1>3. endQuery(k) = z
  BY <1>2 DEF endQuery
<1> HIDE DEF f
<1>4. t \in Keys /\ t.sent \in Nat
  <2>1. t \in Keys
    BY <1>1, NumberedFields
  <2> HIDE DEF t
  <2> QED BY <2>1, Fields
<1> HIDE DEF t
<1>5. e \in Events /\ e.kind = "complete"
  BY <1>4, OneEventFields DEF Kinds
<1> HIDE DEF e
<1>6. /\ c \in Keys /\ c.streams = t.streams
      /\ t.streams # {} => c.wrote = [r \in Replies |-> IF r \in t.streams
                                                          THEN Append(t.wrote[r], e)
                                                          ELSE t.wrote[r]]
  BY <1>4, <1>5, DirectFields
<1> HIDE DEF c
<1>7. z.streams = c.streams /\ z.wrote = c.wrote
  BY <1>6 DEF Keys
<1> HIDE DEF z
<1>8. ASSUME NEW r \in z.streams PROVE z.wrote[r][Len(z.wrote[r])].kind = "complete"
  <2>1. r \in t.streams /\ r \in Replies
    BY <1>4, <1>6, <1>7, <1>8, Fields
  <2>2. z.wrote[r] = Append(t.wrote[r], e) /\ t.wrote[r] \in Seq(Events)
    BY <1>4, <1>6, <1>7, <2>1, Fields
  <2>3. Append(t.wrote[r], e)[Len(Append(t.wrote[r], e))] = e
    BY <2>2
  <2> QED BY <1>5, <2>2, <2>3
<1> QED BY <1>3, <1>8 DEF Told

\* A reply that attaches when a turn has ended hears of nothing.
LEMMA AddStreamTold ==
  ASSUME NEW k \in Keys, NEW r \in Replies, Told(k), Quiet(k), k.wrote[r] = <<>>,
         r \notin k.streams
  PROVE  Told(addStream(k, r))
<1> DEFINE t == addStream(k, r)
<1>1. /\ t.streams = k.streams \cup {r}
      /\ t.wrote = [k.wrote EXCEPT ![r] = k.wrote[r] \o k.buffer]
  BY AddStreamFields
<1> HIDE DEF t
<1>2. k.buffer \in Seq(Events) /\ k.wrote \in [Replies -> Seq(Events)]
      /\ k.streams \subseteq Replies
  BY Fields
<1>3. t.wrote[r] = k.buffer
  BY <1>1, <1>2, ConcatEmptySeq
<1>4. InEvents(t.wrote[r]) = {}
  <2>1. \A j \in 1..Len(k.buffer) : Numbers(k.buffer[j]) = {}
    BY DEF Quiet, Numbers
  <2> QED BY <1>2, <1>3, <2>1, InSome
<1>5. \A p \in k.streams : t.wrote[p] = k.wrote[p]
  BY <1>1, <1>2
<1>6. Told(t)
  BY <1>1, <1>4, <1>5 DEF Told
<1> QED BY <1>6 DEF t

LEMMA RemoveStreamTold ==
  ASSUME NEW k \in Keys, NEW r \in Replies, Told(k)
  PROVE  Told(removeStream(k, r))
BY DEF Told, removeStream, Keys

LEMMA CloseKeyTold ==
  ASSUME NEW k \in Keys
  PROVE  Told(closeKey(k))
BY DEF Told, closeKey, Keys

LEMMA HeartbeatTold ==
  ASSUME NEW k \in Keys, Told(k)
  PROVE  Told(sendHeartbeat(k))
<1> DEFINE beat == Event("heartbeat", <<>>)
<1>1. beat \in Events
  BY EventType, Empty DEF Kinds
<1>2. CASE k.streams = {}
  <2>1. sendHeartbeat(k) = sendEventDirect(k, beat)
    BY <1>2 DEF sendHeartbeat, sendEventDirect
  <2> HIDE DEF beat
  <2>2. sendEventDirect(k, beat).streams = {}
    BY <1>1, <1>2, DirectFields
  <2> QED BY <2>1, <2>2 DEF Told
<1>3. CASE k.streams # {}
  BY <1>3 DEF sendHeartbeat
<1> QED BY <1>2, <1>3

\* What happens to the key of a turn that has ended, or ends.
LEMMA EndedSteps ==
  ASSUME TypeOK, OverIsQuiet, [Next]_vars, NEW p \in Queries, Ended(p)'
  PROVE  \/ \E kind \in Kind3 : key'[p] = endQuery(sendEvent(key[p], kind))
         \/ /\ Ended(p)
            /\ \/ key'[p] \in {key[p], sendHeartbeat(key[p]), closeKey(key[p])}
               \/ \E r \in Replies : key'[p] = removeStream(key[p], r)
               \/ \E r \in Replies : line[r] = "new" /\ key'[p] = addStream(key[p], r)
<1> DEFINE Stays == /\ Ended(p)
                    /\ \/ key'[p] \in {key[p], sendHeartbeat(key[p]), closeKey(key[p])}
                       \/ \E r \in Replies : key'[p] = removeStream(key[p], r)
                       \/ \E r \in Replies : line[r] = "new" /\ key'[p] = addStream(key[p], r)
           Goal == Stays \/ \E kind \in Kind3 : key'[p] = endQuery(sendEvent(key[p], kind))
<1> USE DEF Ended
<1>1. ASSUME NEW s \in Sessions, Create(s) \/ CreateUnknown(s) \/ Delete(s) PROVE Goal
  BY <1>1 DEF Create, CreateUnknown, Delete, destroy, turnVars
<1>2. ASSUME NEW s \in Sessions, NEW q \in Queries, NEW r \in Replies, QueryStream(s, q, r)
      PROVE  Goal
  <2>1. p # q /\ pc'[p] = pc[p] /\ key'[p] = key[p]
    BY <1>2 DEF QueryStream, TypeOK
  <2> QED BY <2>1
<1>3. ASSUME NEW s \in Sessions, NEW qs \in SUBSET Queries, Cancel(s, qs) PROVE Goal
  BY <1>3 DEF Cancel
<1>4. ASSUME NEW q \in Queries, TurnStep(q) PROVE Goal
  <2>1. CASE p = q
    <3>1. CASE Result(q) \/ Throws(q)
      BY <2>1, <3>1 DEF Result, Throws, TypeOK, Kind3
    <3>2. CASE Attached(q) \/ ProxyStarted(q)
      BY <2>1, <3>2 DEF Attached, ProxyStarted, Step, TypeOK
    <3>3. CASE Drained(q)
      BY <2>1, <3>3 DEF Drained, Step, TypeOK
    <3> QED BY <1>4, <3>1, <3>2, <3>3 DEF TurnStep
  <2>2. CASE p # q
    BY <1>4, <2>2 DEF TurnStep, Attached, ProxyStarted, Result, Drained, Throws, Step, TypeOK
  <2> QED BY <2>1, <2>2
<1>5. ASSUME NEW q \in Queries, FlushTimer(q) PROVE Goal
  <2>1. Ended(p) /\ p # q
    BY <1>5 DEF FlushTimer, turnVars, OverIsQuiet, Quiet
  <2> QED BY <1>5, <2>1 DEF FlushTimer, TypeOK
<1>6. ASSUME NEW q \in Queries, NEW kind \in {"content", "input", "boundary"}, Message(q, kind)
      PROVE  Goal
  <2>1. Ended(p) /\ p # q
    BY <1>6 DEF Message, Step, TypeOK
  <2> QED BY <1>6, <2>1 DEF Message, TypeOK
<1>7. ASSUME NEW q \in Queries, NEW r \in Replies, Stream(q, r) PROVE Goal
  <2>1. Ended(p) /\ line[r] = "new" /\ key'[p] \in {key[p], addStream(key[p], r)}
    BY <1>7 DEF Stream, TypeOK, turnVars
  <2> QED BY <2>1
<1>8. ASSUME NEW r \in Replies, Close(r) \/ Heartbeat(r) PROVE Goal
  <2>1. Ended(p)
        /\ key'[p] \in {key[p], removeStream(key[p], r), sendHeartbeat(key[p])}
    BY <1>8 DEF Close, Heartbeat, TypeOK, turnVars
  <2> QED BY <2>1
<1>9. CASE UNCHANGED vars
  BY <1>9 DEF vars
<1> QED BY <1>1, <1>2, <1>3, <1>4, <1>5, <1>6, <1>7, <1>8, <1>9 DEF Next

\* A reply that heard of a turn and is still attached when it is over was told
\* so, and nothing after it (stream-service.ts, endQuery).
THEOREM CompleteIsLastAlways == Spec => []CompleteIsLast
<1>1. Init => Fresh /\ AllTold
  <2>1. NoKey.streams = {} /\ \A r \in Replies : NoKey.wrote[r] = <<>>
    BY DEF NoKey
  <2> QED BY <2>1 DEF Init, Fresh, AllTold, Ended
<1>2. TypeOK /\ OverIsQuiet /\ Fresh /\ AllTold /\ [Next]_vars => Fresh' /\ AllTold'
  <2> SUFFICES ASSUME TypeOK, OverIsQuiet, Fresh, AllTold, [Next]_vars
               PROVE  AllTold'
    BY FreshStays
  <2> SUFFICES ASSUME NEW p \in Queries, Ended(p)' PROVE Told(key'[p])
    BY DEF AllTold
  <2>1. key[p] \in Keys /\ \A kind \in Kind3 : sendEvent(key[p], kind) \in Keys
    BY SendEventType DEF TypeOK, Kinds, Kind3
  <2>2. \A kind \in Kind3 : Told(endQuery(sendEvent(key[p], kind)))
    BY <2>1, EndQueryTold
  <2>3. Ended(p) => Told(key[p]) /\ Quiet(key[p])
    BY DEF AllTold, OverIsQuiet
  <2>4. ASSUME Ended(p), NEW r \in Replies, line[r] = "new" PROVE Told(addStream(key[p], r))
    BY <2>1, <2>3, <2>4, AddStreamTold DEF Fresh
  <2>5. Ended(p) => /\ Told(closeKey(key[p])) /\ Told(sendHeartbeat(key[p]))
                    /\ \A r \in Replies : Told(removeStream(key[p], r))
    BY <2>1, <2>3, CloseKeyTold, HeartbeatTold, RemoveStreamTold
  <2> QED BY <2>2, <2>3, <2>4, <2>5, EndedSteps
<1>3. AllTold => CompleteIsLast
  BY DEF AllTold, Told, CompleteIsLast, Ended
<1> QED BY <1>1, <1>2, <1>3, TypeCorrect, OverIsQuietAlways, PTL DEF Spec

=============================================================================
