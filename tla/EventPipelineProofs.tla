------------------------- MODULE EventPipelineProofs -------------------------
(***************************************************************************)
(* Proofs about the event pipeline, for any frames, compaction, text and   *)
(* number of ticks and failures.                                           *)
(***************************************************************************)
EXTENDS EventPipeline, WellFoundedInduction, TLAPS

Actions ==
  \/ \E type \in (Types \ {"user"}) \cup {"long"} : AgentSends(type)
  \/ BodyEnds \/ Cancel \/ Tick

\* What is outside Run and the flusher moves neither of them, nor the store.
LEMMA OutsideMoves ==
  ASSUME Actions
  PROVE  UNCHANGED <<runVars, flusher, snap, storeVars>>
BY DEF Actions, AgentSends, BodyEnds, Cancel, Tick, flusherVars

GuardInv == pending \in Nat /\ GuardCounts

\* The flush counter is at every moment the number of flushes that were begun
\* and not ended, by Run or by the ticker's goroutine (pipeline.go).
THEOREM GuardAlwaysCounts == Spec => []GuardCounts
<1> USE DEF GuardInv, GuardCounts, Flushing
<1>1. Init => GuardInv
  BY DEF Init
<1>2. GuardInv /\ [Next]_vars => GuardInv'
  <2> SUFFICES ASSUME GuardInv, [Next]_vars
               PROVE  GuardInv'
    OBVIOUS
  <2>1. CASE Actions
    BY <2>1, OutsideMoves DEF runVars, storeVars
  <2>2. CASE Scan \/ ScanEnds \/ Store
    BY <2>2 DEF Scan, ScanEnds, Store, StoreAccepts, StoreFails, flusherVars, storeVars
  <2>3. CASE Persist
    BY <2>3 DEF Persist, BeginFlush, flusherVars
  <2>4. CASE Return
    BY <2>4 DEF Return, EndFlush, flusherVars
  <2>5. CASE Snapshot \/ FlushStores \/ FlusherStops
    BY <2>5 DEF Snapshot, FlushStores, FlusherStops, runVars, storeVars, StoreAccepts, StoreFails
  <2>6. CASE FlushBegins
    BY <2>6 DEF FlushBegins, BeginFlush, runVars
  <2>7. CASE FlushEnds
    BY <2>7 DEF FlushEnds, EndFlush, runVars
  <2>8. CASE UNCHANGED vars
    BY <2>8 DEF vars, runVars, flusherVars, storeVars
  <2> QED BY <2>1, <2>2, <2>3, <2>4, <2>5, <2>6, <2>7, <2>8 DEF Next, Run, Flusher, Actions
<1> QED BY <1>1, <1>2, PTL DEF Spec

----------------------------------------------------------------------------
(* What the default pipeline stores.                                       *)

\* The row of a turn that was stored is the compaction of all that Run
\* collected, and Run had read on until one of its stops.
WholeRow ==
  pc = "returned" /\ ~err /\ ~cadence /\ collected # <<>>
    => Stopped /\ row = Compacted(collected)

Frames == [type : Types \cup {"cut", "long"}, text : Seq(Nat)]

ReadInv ==
  /\ sent \in Seq(Frames)
  /\ read \in 0..Len(sent)
  /\ pc \in {"scan", "persist", "store", "endFlush", "returned"}
  /\ body \in {"open", "ended"} /\ ctx \in {"live", "done"}
  /\ cadence = FALSE => flusher = "off"
  /\ pc # "scan" => ctx = "done" \/ Stopped

StoredInv ==
  /\ err \in BOOLEAN
  /\ pc = "store" => collected # <<>>
  /\ pc \in {"scan", "persist", "store"} => err = FALSE
  /\ pc \in {"endFlush", "returned"} /\ ~err /\ ~cadence /\ collected # <<>>
       => Stopped /\ row = Compacted(collected)

\* What has been read stays read, whatever the agent or the client does.
LEMMA StoppedStays ==
  ASSUME ReadInv, Stopped, BodyEnds \/ UNCHANGED <<sent, body>>,
         read' = read
  PROVE  Stopped'
<1>1. CASE UNCHANGED <<sent, body>>
  BY <1>1 DEF Stopped, Scanned
<1>2. CASE BodyEnds
  <2>1. sent' = sent \/ sent' = Append(sent, Envelope("cut", <<Len(sent) + 1>>))
    BY <1>2 DEF BodyEnds
  <2>2. CASE sent' = sent
    BY <1>2, <2>2 DEF Stopped, Scanned, BodyEnds
  <2>3. CASE sent' = Append(sent, Envelope("cut", <<Len(sent) + 1>>))
    <3> DEFINE e == Envelope("cut", <<Len(sent) + 1>>)
    <3>1. Len(sent') = Len(sent) + 1 /\ \A j \in 1..Len(sent) : sent'[j] = sent[j]
      <4> HIDE DEF e
      <4>1. sent' = Append(sent, e)
        BY <2>3 DEF e
      <4> QED BY <4>1 DEF ReadInv
    <3>2. body = "open"
      BY <1>2 DEF BodyEnds
    <3>3. Len(sent) \in Nat /\ read \in Nat
      BY DEF ReadInv
    <3>4. CASE read > 0 /\ sent[read].type = "complete"
      BY <3>1, <3>3, <3>4 DEF Stopped, ReadInv
    <3>5. CASE read < Len(sent) /\ ~Scanned(read)
      BY <3>1, <3>3, <3>5 DEF Stopped, Scanned, ReadInv
    <3> QED BY <3>2, <3>4, <3>5 DEF Stopped
  <2> QED BY <2>1, <2>2, <2>3
<1> QED BY <1>1, <1>2

\* A frame of the agent is a frame.
LEMMA FrameType ==
  ASSUME ReadInv, NEW type \in Types \cup {"cut", "long"}
  PROVE  Append(sent, Envelope(type, <<Len(sent) + 1>>)) \in Seq(Frames)
<1>1. <<Len(sent) + 1>> \in Seq(Nat)
  BY DEF ReadInv
<1>2. Envelope(type, <<Len(sent) + 1>>) \in Frames
  BY <1>1 DEF Envelope, Frames
<1> HIDE DEF Envelope
<1> QED BY <1>2 DEF ReadInv

\* ReadInv is inductive.
LEMMA ReadStep ==
  ASSUME ReadInv, [Next]_vars
  PROVE  ReadInv'
<1>1. ASSUME NEW type \in (Types \ {"user"}) \cup {"long"}, AgentSends(type) PROVE ReadInv'
  <2>1. sent' \in Seq(Frames) /\ Len(sent') = Len(sent) + 1
    <3> DEFINE e == Envelope(type, <<Len(sent) + 1>>)
    <3>1. sent' = Append(sent, e) /\ Append(sent, e) \in Seq(Frames)
      BY <1>1, FrameType DEF AgentSends
    <3> HIDE DEF e
    <3> QED BY <3>1 DEF ReadInv
  <2>2. pc' = "scan" /\ UNCHANGED <<read, body, ctx, cadence, flusher>>
    BY <1>1 DEF AgentSends, runVars, flusherVars
  <2> QED BY <2>1, <2>2 DEF ReadInv
<1>2. CASE BodyEnds
  <2>1. sent' \in Seq(Frames) /\ Len(sent') >= Len(sent)
    <3> DEFINE e == Envelope("cut", <<Len(sent) + 1>>)
    <3>1. sent' \in {sent, Append(sent, e)} /\ Append(sent, e) \in Seq(Frames)
      BY <1>2, FrameType DEF BodyEnds
    <3> HIDE DEF e
    <3> QED BY <3>1 DEF ReadInv
  <2>2. body' = "ended" /\ UNCHANGED <<read, pc, ctx, cadence, flusher>>
    BY <1>2 DEF BodyEnds, runVars, flusherVars
  <2>3. Stopped => Stopped'
    BY <1>2, <2>2, StoppedStays
  <2> QED BY <2>1, <2>2, <2>3 DEF ReadInv
<1>3. CASE Cancel
  BY <1>3 DEF Cancel, ReadInv, runVars, flusherVars
<1>4. CASE Tick \/ Snapshot \/ FlushBegins \/ FlushStores \/ FlushEnds \/ FlusherStops
           \/ UNCHANGED vars
  <2>1. /\ UNCHANGED <<sent, body, read, pc, ctx, cadence>>
        /\ (cadence = FALSE => flusher' = "off")
    BY <1>4 DEF Tick, Snapshot, FlushBegins, FlushStores, FlushEnds, FlusherStops, outside,
       runVars, flusherVars, vars, ReadInv
  <2>2. Stopped => Stopped'
    BY <2>1, StoppedStays
  <2> QED BY <2>1, <2>2 DEF ReadInv
<1>5. CASE Scan
  BY <1>5 DEF Scan, ReadInv, Stopped, Scanned, outside, flusherVars
<1>6. CASE ScanEnds
  BY <1>6 DEF ScanEnds, ReadInv, Stopped, Scanned, outside, flusherVars
<1>7. CASE Persist \/ Store \/ Return
  <2>1. /\ UNCHANGED <<sent, body, read, ctx, cadence, flusher>>
        /\ pc # "scan" /\ pc' \in {"store", "endFlush", "returned"}
    BY <1>7 DEF Persist, Store, Return, outside, flusherVars
  <2>2. Stopped => Stopped'
    BY <2>1, StoppedStays
  <2> QED BY <2>1, <2>2 DEF ReadInv
<1> QED BY <1>1, <1>2, <1>3, <1>4, <1>5, <1>6, <1>7 DEF Next, Run, Flusher

\* StoredInv is inductive relative to ReadInv.
LEMMA StoredStep ==
  ASSUME ReadInv, StoredInv, [Next]_vars
  PROVE  StoredInv'
<1>1. CASE Actions
  <2>1. UNCHANGED <<pc, err, collected, row, read, cadence>>
    BY <1>1, OutsideMoves DEF Actions, AgentSends, BodyEnds, Cancel, Tick, runVars, storeVars,
       outside
  <2>2. pc # "scan" => BodyEnds \/ UNCHANGED <<sent, body>>
    BY <1>1 DEF Actions, AgentSends, Cancel, Tick, outside
  <2>3. pc # "scan" /\ Stopped => Stopped'
    BY <2>1, <2>2, StoppedStays
  <2> QED BY <2>1, <2>3 DEF StoredInv
<1>2. CASE Snapshot \/ FlushBegins \/ FlushStores \/ FlushEnds \/ FlusherStops \/ UNCHANGED vars
  <2>1. UNCHANGED <<pc, err, collected, read, cadence, sent, body>>
    BY <1>2 DEF Snapshot, FlushBegins, FlushStores, FlushEnds, FlusherStops, outside, runVars, vars
  <2>2. cadence = FALSE => row' = row
    BY <1>2 DEF Snapshot, FlushBegins, FlushStores, FlushEnds, FlusherStops, storeVars, vars, ReadInv
  <2>3. Stopped => Stopped'
    BY <2>1, StoppedStays
  <2> QED BY <2>1, <2>2, <2>3 DEF StoredInv
<1>3. CASE Scan \/ ScanEnds
  BY <1>3 DEF Scan, ScanEnds, StoredInv, ReadInv
<1>4. CASE Persist
  BY <1>4 DEF Persist, StoredInv
<1>5. CASE Store
  <2>1. CASE StoreAccepts(collected) /\ UNCHANGED err
    <3>1. Stopped
      BY <1>5, <2>1 DEF Store, StoreAccepts, ReadInv
    <3>2. Stopped'
      BY <1>5, <3>1, StoppedStays DEF Store, outside
    <3> QED BY <1>5, <2>1, <3>2 DEF Store, StoreAccepts, StoredInv
  <2>2. CASE StoreFails(collected) /\ err' = TRUE
    BY <1>5, <2>2 DEF Store, StoredInv
  <2> QED BY <1>5, <2>1, <2>2 DEF Store
<1>6. CASE Return
  <2>1. Stopped => Stopped'
    BY <1>6, StoppedStays DEF Return, outside
  <2> QED BY <1>6, <2>1 DEF Return, StoredInv, outside
<1> QED BY <1>1, <1>2, <1>3, <1>4, <1>5, <1>6 DEF Next, Run, Flusher, Actions

\* When Run of the default pipeline has returned without error, it has read
\* on until one of its stops and the row is the compaction of all it read
\* (pipeline.go, Run and persist).
THEOREM StoredWhole == Spec => []WholeRow
<1>1. Init => ReadInv /\ StoredInv
  <2> SUFFICES ASSUME Init
               PROVE  ReadInv /\ StoredInv
    OBVIOUS
  <2>1. sent \in Seq(Frames) /\ Len(sent) = 0 /\ read = 0
    BY DEF Init
  <2>2. cadence = FALSE => flusher = "off"
    BY DEF Init
  <2>3. pc = "scan" /\ err = FALSE /\ body = "open" /\ ctx = "live"
    BY DEF Init
  <2>4. ReadInv
    BY <2>1, <2>2, <2>3 DEF ReadInv
  <2>5. err \in BOOLEAN /\ pc # "store" /\ pc \notin {"endFlush", "returned"}
    BY <2>3
  <2>6. StoredInv
    BY <2>3, <2>5 DEF StoredInv
  <2> QED BY <2>4, <2>6
<1>2. ReadInv /\ StoredInv /\ [Next]_vars => (ReadInv /\ StoredInv)'
  BY ReadStep, StoredStep
<1>3. StoredInv => WholeRow
  BY DEF StoredInv, WholeRow
<1> QED BY <1>1, <1>2, <1>3, PTL DEF Spec

----------------------------------------------------------------------------
(* Recursive functions, and what holds along them.                         *)

Less == OpToRel(<, Nat)

LEMMA LessContains == \A x, y \in Nat : x < y => <<x, y>> \in Less
BY DEF Less, OpToRel

\* What holds of 0, and of the next number whenever of a number, holds up to n.
LEMMA Induction ==
  ASSUME NEW P, NEW n \in Nat, 0 \in P, \A k \in 0..n : k \in P /\ k < n => k + 1 \in P
  PROVE  0..n \subseteq P
<1> SUFFICES ASSUME NEW m \in 0..n, m \notin P PROVE FALSE
  OBVIOUS
<1> DEFINE bad == {k \in 0..n : k \notin P}
<1>1. bad \subseteq 0..n /\ m \in bad
  OBVIOUS
<1>2. \A k \in 0..n : k \in bad <=> k \notin P
  OBVIOUS
<1> HIDE DEF bad
<1>3. bad \subseteq Nat
  BY <1>1
<1>4. PICK k \in bad : \A j \in bad : ~(<<j, k>> \in Less)
  BY <1>1, <1>3, WFMin, NatLessThanWellFounded, Zenon DEF Less
<1>5. \A j \in bad : ~(j < k)
  BY <1>3, <1>4, LessContains, Zenon
<1>6. k \in 0..n /\ k \notin P /\ k # 0
  BY <1>1, <1>2
<1>7. k - 1 \in 0..n /\ k - 1 < n /\ k - 1 < k /\ (k - 1) + 1 = k
  BY <1>6
<1>8. k - 1 \in P
  BY <1>2, <1>5, <1>7
<1> QED BY <1>6, <1>7, <1>8

\* A function may be defined by its value at 0 and, at each k, by a function
\* step[k] of its value before.
LEMMA Recursion ==
  ASSUME NEW S, NEW base \in S, NEW n \in Nat, NEW step \in [1..n -> [S -> S]]
  PROVE  \E f \in [0..n -> S] : f[0] = base /\ \A k \in 1..n : f[k] = step[k][f[k - 1]]
<1> DEFINE Defined(f, m) ==
      f \in [0..m -> S] /\ f[0] = base /\ \A k \in 1..m : f[k] = step[k][f[k - 1]]
<1> DEFINE P == {m \in 0..n : \E f : Defined(f, m)}
<1>1. 0 \in P
  <2>1. Defined([k \in 0..0 |-> base], 0) /\ 0 \in 0..n
    OBVIOUS
  <2> HIDE DEF Defined
  <2> QED BY <2>1
<1>2. ASSUME NEW m \in 0..n, m \in P, m < n PROVE m + 1 \in P
  <2>1. PICK f : Defined(f, m)
    BY <1>2
  <2> DEFINE h == [k \in 0..(m + 1) |-> IF k = m + 1 THEN step[m + 1][f[m]] ELSE f[k]]
  <2>2. f[m] \in S /\ step[m + 1][f[m]] \in S
    BY <1>2, <2>1
  <2>3. h \in [0..(m + 1) -> S]
    BY <1>2, <2>1, <2>2
  <2>4. h[0] = base
    BY <1>2, <2>1
  <2>5. \A k \in 1..(m + 1) : h[k] = step[k][h[k - 1]]
    BY <1>2, <2>1
  <2>6. Defined(h, m + 1)
    BY <2>3, <2>4, <2>5
  <2> HIDE DEF Defined, h
  <2> QED BY <1>2, <2>6
<1>3. 0..n \subseteq P
  <2> HIDE DEF P
  <2> QED BY <1>1, <1>2, Induction
<1> QED BY <1>3

\* Two functions that begin and go on alike are alike.
Tracks(f, g, n) == f[0] = g[0] /\ \A k \in 1..n : f[k - 1] = g[k - 1] => f[k] = g[k]

LEMMA Tracked ==
  ASSUME NEW n \in Nat, NEW f, NEW g, Tracks(f, g, n)
  PROVE  f[n] = g[n]
<1> DEFINE P == {k \in 0..n : f[k] = g[k]}
<1>1. 0 \in P
  BY DEF Tracks
<1>2. ASSUME NEW k \in 0..n, k \in P, k < n PROVE k + 1 \in P
  <2>1. k + 1 \in 1..n /\ (k + 1) - 1 = k /\ k + 1 \in 0..n
    BY <1>2
  <2>2. f[k + 1] = g[k + 1]
    BY <1>2, <2>1 DEF Tracks
  <2> QED BY <2>1, <2>2
<1>3. 0..n \subseteq P
  <2> HIDE DEF P
  <2> QED BY <1>1, <1>2, Induction
<1> QED BY <1>3

----------------------------------------------------------------------------
(* Sequences.                                                              *)

LEMMA Empty ==
  ASSUME NEW S, NEW s, s \in Seq(S)
  PROVE  s \o <<>> = s /\ <<>> \o s = s
OBVIOUS

LEMMA Associates ==
  ASSUME NEW S, NEW a, a \in Seq(S), NEW b, b \in Seq(S), NEW c, c \in Seq(S)
  PROVE  (a \o b) \o c = a \o (b \o c)
OBVIOUS

LEMMA Joined ==
  ASSUME NEW S, NEW a, a \in Seq(S), NEW b, b \in Seq(S), NEW s, s \in Seq(S),
         Len(s) = Len(a) + Len(b),
         \A k \in 1..(Len(a) + Len(b)) : s[k] = IF k <= Len(a) THEN a[k] ELSE b[k - Len(a)]
  PROVE  a \o b = s
<1>1. Len(a) \in Nat /\ Len(b) \in Nat
  OBVIOUS
<1> QED BY <1>1, SMTT(30)

\* A sequence but for its last.
LEMMA AllButLast ==
  ASSUME NEW S, NEW s, s \in Seq(S), Len(s) # 0
  PROVE  \E front : /\ front \in Seq(S) /\ Len(front) + 1 = Len(s)
                    /\ \A k \in 1..Len(front) : front[k] = s[k]
<1>0. Len(s) \in Nat
  OBVIOUS
<1>1. PICK n \in Nat : n = Len(s) - 1
  BY <1>0
<1> DEFINE front == SubSeq(s, 1, n)
<1>2. front \in Seq(S) /\ Len(front) = n /\ \A k \in 1..n : front[k] = s[k]
  BY <1>1
<1> HIDE DEF front
<1> QED BY <1>1, <1>2

\* What begins as another and is one longer is the other with one more.
LEMMA Grown ==
  ASSUME NEW S, NEW front, front \in Seq(S), NEW s, s \in Seq(S), Len(front) + 1 = Len(s),
         \A k \in 1..Len(front) : front[k] = s[k]
  PROVE  s = Append(front, s[Len(s)])
<1>1. Len(front) \in Nat /\ s[Len(s)] \in S
  OBVIOUS
<1> QED BY <1>1

----------------------------------------------------------------------------
(* Compaction.                                                             *)

\* The loop of Compact, after n of the events.
LEMMA MergeType ==
  ASSUME NEW out, out \in Seq(Envelopes), NEW e \in Envelopes
  PROVE  merge(out, e) \in Seq(Envelopes)
<1>1. CASE ~keeps(e)
  BY <1>1 DEF merge
<1>2. CASE e.type \in Deltas /\ out # <<>> /\ Last(out).type = e.type /\ keeps(e)
  <2>1. out[Len(out)] \in Envelopes
    BY <1>2
  <2>2. out[Len(out)].text \o e.text \in Seq(Nat)
    BY <2>1 DEF Envelopes
  <2>3. [out[Len(out)] EXCEPT !.text = out[Len(out)].text \o e.text] \in Envelopes
    BY <2>1, <2>2 DEF Envelopes
  <2>4. merge(out, e) = [out EXCEPT ![Len(out)] = [out[Len(out)] EXCEPT !.text = out[Len(out)].text \o e.text]]
    BY <1>2 DEF merge
  <2> QED BY <1>2, <2>3, <2>4
<1>3. CASE keeps(e) /\ ~(e.type \in Deltas /\ out # <<>> /\ Last(out).type = e.type)
  <2>1. merge(out, e) = Append(out, e)
    BY <1>3 DEF merge
  <2> QED BY <2>1
<1> QED BY <1>1, <1>2, <1>3

LEMMA CompactedLoop ==
  ASSUME NEW in, in \in Seq(Envelopes)
  PROVE  \E out :
           /\ \A n \in 0..Len(in) : out[n] \in Seq(Envelopes)
           /\ out[0] = <<>>
           /\ \A n \in 1..Len(in) : out[n] = merge(out[n - 1], in[n])
           /\ Compacted(in) = out[Len(in)]
<1> DEFINE S == Seq(Envelopes)
<1> DEFINE step == [n \in 1..Len(in) |-> [out \in S |-> merge(out, in[n])]]
<1>1. Len(in) \in Nat /\ <<>> \in S /\ \A n \in 1..Len(in) : in[n] \in Envelopes
  OBVIOUS
<1>2. step \in [1..Len(in) -> [S -> S]]
  BY <1>1, MergeType
<1> HIDE DEF S
<1>3. \A n \in 1..Len(in), out \in S : step[n][out] = merge(out, in[n])
  OBVIOUS
<1> HIDE DEF step
<1>4. PICK f \in [0..Len(in) -> S] :
        f[0] = <<>> /\ \A n \in 1..Len(in) : f[n] = step[n][f[n - 1]]
  <2>1. PICK m \in Nat : m = Len(in)
    BY <1>1
  <2>2. PICK none \in S : none = <<>>
    BY <1>1
  <2>3. step \in [1..m -> [S -> S]]
    BY <1>2, <2>1
  <2>4. \E f \in [0..m -> S] : f[0] = none /\ \A n \in 1..m : f[n] = step[n][f[n - 1]]
    BY <2>3, Recursion
  <2> QED BY <2>1, <2>2, <2>4
<1>5. \A n \in 0..Len(in) : f[n] = IF n = 0 THEN <<>> ELSE merge(f[n - 1], in[n])
  BY <1>1, <1>3, <1>4
<1>6. f = [n \in 0..Len(in) |-> IF n = 0 THEN <<>> ELSE merge(f[n - 1], in[n])]
  BY <1>4, <1>5
<1> DEFINE g == CHOOSE g : g = [n \in 0..Len(in) |-> IF n = 0 THEN <<>> ELSE merge(g[n - 1], in[n])]
<1>7. Compacted(in) = g[Len(in)]
  BY DEF Compacted
<1>8. g = [n \in 0..Len(in) |-> IF n = 0 THEN <<>> ELSE merge(g[n - 1], in[n])]
  BY <1>6, Zenon
<1> HIDE DEF g
<1>9. g[0] = f[0] /\ \A n \in 1..Len(in) : g[n - 1] = f[n - 1] => g[n] = f[n]
  BY <1>1, <1>5, <1>8
<1>10. g[Len(in)] = f[Len(in)]
  <2>1. Tracks(g, f, Len(in))
    BY <1>9 DEF Tracks
  <2> QED BY <1>1, <2>1, Tracked
<1>11. Compacted(in) = f[Len(in)]
  BY <1>1, <1>7, <1>10
<1>12. \A n \in 1..Len(in) : f[n] = merge(f[n - 1], in[n])
  BY <1>1, <1>5
<1> QED BY <1>4, <1>11, <1>12 DEF S

Piece == [type : Types, char : Nat]

LEMMA PiecesOfType ==
  ASSUME NEW e \in Envelopes, NEW without
  PROVE  PiecesOf(e, without) \in Seq(Piece)
<1>1. e.text \in Seq(Nat) /\ e.type \in Types
  BY DEF Envelopes
<1>2. PICK n \in Nat : DOMAIN e.text = 1..n /\ \A c \in 1..n : e.text[c] \in Nat
  BY <1>1
<1>3. [c \in 1..n |-> [type |-> e.type, char |-> e.text[c]]] \in Seq(Piece)
  BY <1>1, <1>2 DEF Piece
<1> QED BY <1>2, <1>3 DEF PiecesOf

LEMMA PiecesLoop ==
  ASSUME NEW events, events \in Seq(Envelopes), NEW without
  PROVE  \E of :
           /\ \A n \in 0..Len(events) : of[n] \in Seq(Piece)
           /\ of[0] = <<>>
           /\ \A n \in 1..Len(events) : of[n] = of[n - 1] \o PiecesOf(events[n], without)
           /\ Pieces(events, without) = of[Len(events)]
<1> DEFINE S == Seq(Piece)
<1> DEFINE step == [n \in 1..Len(events) |-> [of \in S |-> of \o PiecesOf(events[n], without)]]
<1>1. Len(events) \in Nat /\ <<>> \in S /\ \A n \in 1..Len(events) : events[n] \in Envelopes
  OBVIOUS
<1>2. step \in [1..Len(events) -> [S -> S]]
  <2>1. \A n \in 1..Len(events) : PiecesOf(events[n], without) \in S
    BY <1>1, PiecesOfType
  <2>2. \A a, b \in S : a \o b \in S
    OBVIOUS
  <2> HIDE DEF S
  <2> QED BY <2>1, <2>2
<1> HIDE DEF S
<1>3. \A n \in 1..Len(events), of \in S : step[n][of] = of \o PiecesOf(events[n], without)
  OBVIOUS
<1> HIDE DEF step
<1>4. PICK f \in [0..Len(events) -> S] :
        f[0] = <<>> /\ \A n \in 1..Len(events) : f[n] = step[n][f[n - 1]]
  <2>1. PICK m \in Nat : m = Len(events)
    BY <1>1
  <2>2. PICK none \in S : none = <<>>
    BY <1>1
  <2>3. step \in [1..m -> [S -> S]]
    BY <1>2, <2>1
  <2>4. \E f \in [0..m -> S] : f[0] = none /\ \A n \in 1..m : f[n] = step[n][f[n - 1]]
    BY <2>3, Recursion
  <2> QED BY <2>1, <2>2, <2>4
<1>5. \A n \in 0..Len(events) : f[n] = IF n = 0 THEN <<>> ELSE f[n - 1] \o PiecesOf(events[n], without)
  <2> TAKE n \in 0..Len(events)
  <2>1. CASE n = 0
    BY <1>4, <2>1
  <2>2. CASE n # 0
    <3>1. n \in 1..Len(events) /\ n - 1 \in 0..Len(events)
      BY <1>1, <2>2
    <3>2. f[n - 1] \in S
      BY <1>4, <3>1
    <3>3. f[n] = step[n][f[n - 1]]
      BY <1>4, <3>1
    <3>4. f[n] = f[n - 1] \o PiecesOf(events[n], without)
      BY <1>3, <3>1, <3>2, <3>3
    <3> QED BY <2>2, <3>4
  <2> QED BY <2>1, <2>2
<1>6. f = [n \in 0..Len(events) |->
             IF n = 0 THEN <<>> ELSE f[n - 1] \o PiecesOf(events[n], without)]
  BY <1>4, <1>5
<1> DEFINE g == CHOOSE g : g = [n \in 0..Len(events) |->
                                  IF n = 0 THEN <<>> ELSE g[n - 1] \o PiecesOf(events[n], without)]
<1>7. Pieces(events, without) = g[Len(events)]
  BY DEF Pieces
<1>8. g = [n \in 0..Len(events) |-> IF n = 0 THEN <<>> ELSE g[n - 1] \o PiecesOf(events[n], without)]
  BY <1>6, Zenon
<1> HIDE DEF g
<1>9. g[0] = f[0] /\ \A n \in 1..Len(events) : g[n - 1] = f[n - 1] => g[n] = f[n]
  BY <1>1, <1>5, <1>8
<1>10. g[Len(events)] = f[Len(events)]
  <2>1. Tracks(g, f, Len(events))
    BY <1>9 DEF Tracks
  <2> QED BY <1>1, <2>1, Tracked
<1>11. Pieces(events, without) = f[Len(events)]
  BY <1>1, <1>7, <1>10
<1>12. \A n \in 1..Len(events) : f[n] = f[n - 1] \o PiecesOf(events[n], without)
  BY <1>1, <1>5
<1> QED BY <1>4, <1>11, <1>12 DEF S

LEMMA PiecesAppend ==
  ASSUME NEW s, s \in Seq(Envelopes), NEW e \in Envelopes, NEW without
  PROVE  /\ Pieces(s, without) \in Seq(Piece)
         /\ Pieces(Append(s, e), without) = Pieces(s, without) \o PiecesOf(e, without)
<1>1. PICK t : t = Append(s, e)
  OBVIOUS
<1>2. /\ t \in Seq(Envelopes) /\ Len(s) \in Nat /\ Len(t) = Len(s) + 1 /\ t[Len(s) + 1] = e
      /\ \A n \in 1..Len(s) : t[n] = s[n]
  BY <1>1
<1>3. PICK f :
           /\ \A n \in 0..Len(s) : f[n] \in Seq(Piece)
           /\ f[0] = <<>>
           /\ \A n \in 1..Len(s) : f[n] = f[n - 1] \o PiecesOf(s[n], without)
           /\ Pieces(s, without) = f[Len(s)]
  BY PiecesLoop
<1>4. PICK g :
           /\ \A n \in 0..Len(t) : g[n] \in Seq(Piece)
           /\ g[0] = <<>>
           /\ \A n \in 1..Len(t) : g[n] = g[n - 1] \o PiecesOf(t[n], without)
           /\ Pieces(t, without) = g[Len(t)]
  BY <1>2, PiecesLoop
<1>5. \A n \in 1..Len(s) : g[n - 1] = f[n - 1] => g[n] = f[n]
  <2> TAKE n \in 1..Len(s)
  <2>1. n \in 1..Len(t) /\ t[n] = s[n]
    BY <1>2
  <2> QED BY <1>3, <1>4, <2>1
<1>6. g[Len(s)] = f[Len(s)]
  <2>1. Tracks(g, f, Len(s))
    BY <1>3, <1>4, <1>5 DEF Tracks
  <2> QED BY <1>2, <2>1, Tracked
<1>7. g[Len(s) + 1] = g[Len(s)] \o PiecesOf(e, without)
  <2>1. Len(s) + 1 \in 1..Len(t) /\ (Len(s) + 1) - 1 = Len(s)
    BY <1>2
  <2> QED BY <1>2, <1>4, <2>1
<1>8. f[Len(s)] \in Seq(Piece)
  BY <1>2, <1>3
<1> QED BY <1>1, <1>2, <1>3, <1>4, <1>6, <1>7, <1>8

\* No delta stands beside another of its type.
Apart(stored) ==
  \A j \in 2..Len(stored) : stored[j].type \in Deltas => stored[j - 1].type # stored[j].type

LEMMA NoPieces ==
  ASSUME NEW e \in Envelopes, ~keeps(e)
  PROVE  PiecesOf(e, {"transient"}) = <<>>
<1>1. CASE e.type = "transient"
  BY <1>1 DEF PiecesOf
<1>2. CASE e.text = <<>>
  BY <1>2 DEF PiecesOf
<1> QED BY <1>1, <1>2 DEF keeps

\* The text of two deltas in one envelope is in as many pieces.
LEMMA PiecesOfJoined ==
  ASSUME NEW e \in Envelopes, NEW text, text \in Seq(Nat), NEW d \in Envelopes,
         d = [e EXCEPT !.text = e.text \o text],
         NEW c \in Envelopes, c.type = e.type, c.text = text
  PROVE  PiecesOf(d, {}) = PiecesOf(e, {}) \o PiecesOf(c, {})
<1> DEFINE P(s) == [k \in DOMAIN s |-> [type |-> e.type, char |-> s[k]]]
<1>1. e.text \in Seq(Nat) /\ d.text = e.text \o text /\ d.type = e.type
  BY DEF Envelopes
<1>2. PiecesOf(d, {}) = P(e.text \o text) /\ PiecesOf(e, {}) = P(e.text) /\ PiecesOf(c, {}) = P(text)
  BY <1>1 DEF PiecesOf
<1>3. ASSUME NEW a, a \in Seq(Nat), NEW b, b \in Seq(Nat)
      PROVE  P(a \o b) = P(a) \o P(b)
  <2>1. /\ Len(a) \in Nat /\ Len(b) \in Nat /\ DOMAIN a = 1..Len(a) /\ DOMAIN b = 1..Len(b)
        /\ DOMAIN (a \o b) = 1..(Len(a) + Len(b))
        /\ \A k \in 1..(Len(a) + Len(b)) : (a \o b)[k] = IF k <= Len(a) THEN a[k] ELSE b[k - Len(a)]
    BY <1>3
  <2> DEFINE pa == P(a)
  <2> DEFINE pb == P(b)
  <2> DEFINE R == [type : {e.type}, char : Nat]
  <2>2. pa \in Seq(R) /\ Len(pa) = Len(a)
    BY <1>3, <2>1
  <2>3. pb \in Seq(R) /\ Len(pb) = Len(b)
    BY <1>3, <2>1
  <2>4. /\ \A k \in 1..Len(a) : pa[k] = [type |-> e.type, char |-> a[k]]
        /\ \A k \in 1..Len(b) : pb[k] = [type |-> e.type, char |-> b[k]]
    BY <2>1
  <2> DEFINE ps == P(a \o b)
  <2>5. ps \in Seq(R) /\ Len(ps) = Len(a) + Len(b)
    BY <1>3, <2>1, SMTT(30)
  <2>6. \A k \in 1..(Len(a) + Len(b)) : ps[k] = IF k <= Len(a) THEN pa[k] ELSE pb[k - Len(a)]
    BY <2>1, <2>4
  <2> HIDE DEF P, pa, pb, ps, R
  <2>7. pa \o pb = ps
    BY <2>2, <2>3, <2>5, <2>6, Joined
  <2> QED BY <2>7 DEF pa, pb, ps
<1> HIDE DEF P
<1>4. P(e.text \o text) = P(e.text) \o P(text)
  BY <1>1, <1>3
<1> QED BY <1>2, <1>4

\* What one event does to what is kept: its pieces go to the end.
LEMMA MergeKeeps ==
  ASSUME NEW out, out \in Seq(Envelopes), NEW e \in Envelopes, Apart(out)
  PROVE  /\ Pieces(merge(out, e), {}) = Pieces(out, {}) \o PiecesOf(e, {"transient"})
         /\ Apart(merge(out, e))
<1>1. CASE ~keeps(e)
  <2>1. Pieces(out, {}) \in Seq(Piece)
    BY PiecesAppend
  <2>2. Pieces(out, {}) \o <<>> = Pieces(out, {})
    BY <2>1, Empty
  <2> QED BY <1>1, <2>2, NoPieces DEF merge
<1>2. CASE keeps(e) /\ ~(e.type \in Deltas /\ out # <<>> /\ Last(out).type = e.type)
  <2>1. merge(out, e) = Append(out, e)
    BY <1>2 DEF merge
  <2>2. PiecesOf(e, {}) = PiecesOf(e, {"transient"})
    BY <1>2 DEF PiecesOf, keeps
  <2>3. Pieces(Append(out, e), {}) = Pieces(out, {}) \o PiecesOf(e, {})
    BY PiecesAppend
  <2>4. e.type \in Deltas /\ out # <<>> => out[Len(out)].type # e.type
    BY <1>2 DEF Last
  <2>5. Apart(Append(out, e))
    <3> SUFFICES ASSUME NEW j \in 2..Len(Append(out, e)), Append(out, e)[j].type \in Deltas
                 PROVE  Append(out, e)[j - 1].type # Append(out, e)[j].type
      BY DEF Apart
    <3>1. Len(out) \in Nat /\ Len(Append(out, e)) = Len(out) + 1
      OBVIOUS
    <3>2. CASE j <= Len(out)
      BY <3>1, <3>2 DEF Apart
    <3>3. CASE j = Len(out) + 1
      BY <2>4, <3>1, <3>3
    <3> QED BY <3>1, <3>2, <3>3
  <2> QED BY <2>1, <2>2, <2>3, <2>5
<1>3. CASE keeps(e) /\ e.type \in Deltas /\ out # <<>> /\ Last(out).type = e.type
  <2> DEFINE l == out[Len(out)]
  <2> DEFINE d == [l EXCEPT !.text = l.text \o e.text]
  <2>1. l \in Envelopes /\ l.type = e.type /\ e.text \in Seq(Nat) /\ l.text \in Seq(Nat)
    <3>1. l \in Envelopes
      BY <1>3
    <3>2. l.type = e.type
      BY <1>3 DEF Last
    <3> HIDE DEF l
    <3> QED BY <3>1, <3>2 DEF Envelopes
  <2>2. d \in Envelopes /\ d.type = e.type
    <3>1. l.text \o e.text \in Seq(Nat)
      BY <2>1
    <3> HIDE DEF l
    <3> QED BY <2>1, <3>1 DEF Envelopes
  <2>3. merge(out, e) = [out EXCEPT ![Len(out)] = d]
    BY <1>3 DEF merge
  <2>4. PiecesOf(d, {}) = PiecesOf(l, {}) \o PiecesOf(e, {})
    <3> HIDE DEF l
    <3> QED BY <2>1, <2>2, PiecesOfJoined
  <2>5. PiecesOf(e, {}) = PiecesOf(e, {"transient"})
    BY <1>3 DEF PiecesOf, keeps
  <2> HIDE DEF d
  <2>6. PICK front : /\ front \in Seq(Envelopes)
                     /\ out = Append(front, l)
                     /\ [out EXCEPT ![Len(out)] = d] = Append(front, d)
    <3>1. PICK front : /\ front \in Seq(Envelopes) /\ Len(front) + 1 = Len(out)
                       /\ \A k \in 1..Len(front) : front[k] = out[k]
      <4>1. Len(out) # 0
        BY <1>3
      <4> HIDE DEF l
      <4> QED BY <4>1, AllButLast
    <3>2. out = Append(front, l)
      BY <3>1, Grown
    <3> DEFINE s == [out EXCEPT ![Len(out)] = d]
    <3>3. /\ s \in Seq(Envelopes) /\ Len(s) = Len(out) /\ s[Len(s)] = d
          /\ \A k \in 1..Len(front) : front[k] = s[k]
      <4> HIDE DEF l
      <4>1. Len(out) \in Nat /\ Len(out) >= 1 /\ Len(front) \in Nat
        BY <1>3, <3>1
      <4> QED BY <2>2, <3>1, <4>1
    <3> HIDE DEF l, s
    <3>4. s = Append(front, d)
      BY <3>1, <3>3, Grown
    <3> QED BY <3>1, <3>2, <3>4 DEF s
  <2>7. Pieces(out, {}) = Pieces(front, {}) \o PiecesOf(l, {})
    <3> HIDE DEF l
    <3>1. Pieces(Append(front, l), {}) = Pieces(front, {}) \o PiecesOf(l, {})
      BY <2>1, <2>6, PiecesAppend
    <3> QED BY <2>6, <3>1, Zenon
  <2>8. Pieces(merge(out, e), {}) = Pieces(front, {}) \o PiecesOf(d, {})
    <3>1. Pieces(Append(front, d), {}) = Pieces(front, {}) \o PiecesOf(d, {})
      BY <2>2, <2>6, PiecesAppend
    <3> QED BY <2>3, <2>6, <3>1, Zenon
  <2>9. /\ Pieces(front, {}) \in Seq(Piece) /\ PiecesOf(l, {}) \in Seq(Piece)
        /\ PiecesOf(e, {}) \in Seq(Piece)
    <3> HIDE DEF l
    <3>1. PiecesOf(l, {}) \in Seq(Piece) /\ PiecesOf(e, {}) \in Seq(Piece)
      BY <2>1, PiecesOfType
    <3>2. Pieces(front, {}) \in Seq(Piece)
      BY <2>1, <2>6, PiecesAppend
    <3> QED BY <3>1, <3>2
  <2>10. Pieces(merge(out, e), {}) = Pieces(out, {}) \o PiecesOf(e, {"transient"})
    <3> DEFINE a == Pieces(front, {})
    <3> DEFINE b == PiecesOf(l, {})
    <3> DEFINE c == PiecesOf(e, {})
    <3>1. a \in Seq(Piece) /\ b \in Seq(Piece) /\ c \in Seq(Piece)
      BY <2>9
    <3>2. Pieces(merge(out, e), {}) = a \o (b \o c) /\ Pieces(out, {}) = a \o b
      BY <2>4, <2>7, <2>8, Zenon
    <3>3. c = PiecesOf(e, {"transient"})
      BY <2>5
    <3> HIDE DEF a, b, c
    <3>4. (a \o b) \o c = a \o (b \o c)
      BY <3>1, Associates, SMTT(30)
    <3> QED BY <3>2, <3>3, <3>4, Zenon
  <2>11. Apart([out EXCEPT ![Len(out)] = d])
    <3> DEFINE s == [out EXCEPT ![Len(out)] = d]
    <3>1. Len(s) = Len(out) /\ \A j \in 1..Len(out) : s[j].type = out[j].type
      BY <2>1, <2>2
    <3> HIDE DEF s
    <3>2. Apart(s)
      <4> SUFFICES ASSUME NEW j \in 2..Len(out), s[j].type \in Deltas
                   PROVE  s[j - 1].type # s[j].type
        BY <3>1 DEF Apart
      <4>1. j \in 1..Len(out) /\ j - 1 \in 1..Len(out)
        OBVIOUS
      <4> QED BY <3>1, <4>1 DEF Apart
    <3> QED BY <3>2 DEF s
  <2> QED BY <2>3, <2>10, <2>11
<1> QED BY <1>1, <1>2, <1>3

(***************************************************************************)
(* Compaction is what it is for, of any events: nothing durable is lost,   *)
(* moved or retyped, and no two deltas of a type stand side by side        *)
(* (Compact of compact.go, an induction along its loop).                   *)
(***************************************************************************)
THEOREM CompactionKeepsText ==
  \A in \in Seq(Envelopes) : Compacted(in) \in Seq(Envelopes) /\ CompactionOf(Compacted(in), in)
<1> SUFFICES ASSUME NEW in, in \in Seq(Envelopes)
             PROVE  Compacted(in) \in Seq(Envelopes) /\ CompactionOf(Compacted(in), in)
  OBVIOUS
<1>1. PICK out : /\ \A n \in 0..Len(in) : out[n] \in Seq(Envelopes)
                 /\ out[0] = <<>>
                 /\ \A n \in 1..Len(in) : out[n] = merge(out[n - 1], in[n])
                 /\ Compacted(in) = out[Len(in)]
  BY CompactedLoop
<1>2. PICK of : /\ \A n \in 0..Len(in) : of[n] \in Seq(Piece)
                /\ of[0] = <<>>
                /\ \A n \in 1..Len(in) : of[n] = of[n - 1] \o PiecesOf(in[n], {"transient"})
                /\ Pieces(in, {"transient"}) = of[Len(in)]
  BY PiecesLoop
<1>3. PICK m \in Nat : m = Len(in)
  OBVIOUS
<1> DEFINE P == {n \in 0..m : Pieces(out[n], {}) = of[n] /\ Apart(out[n])}
<1>4. 0 \in P
  <2>1. Pieces(<<>>, {}) = <<>>
    <3>1. <<>> \in Seq(Envelopes) /\ Len(<<>>) = 0
      OBVIOUS
    <3> QED BY <3>1, PiecesLoop
  <2>2. Apart(<<>>)
    BY DEF Apart
  <2> QED BY <1>1, <1>2, <2>1, <2>2
<1>5. ASSUME NEW n \in 0..m, n \in P, n < m PROVE n + 1 \in P
  <2>1. n + 1 \in 1..Len(in) /\ n + 1 \in 0..m /\ (n + 1) - 1 = n /\ n \in 0..Len(in)
    BY <1>3, <1>5
  <2>2. in[n + 1] \in Envelopes /\ out[n] \in Seq(Envelopes)
    BY <1>1, <2>1
  <2>3. Pieces(out[n], {}) = of[n] /\ Apart(out[n])
    BY <1>5
  <2>4. out[n + 1] = merge(out[n], in[n + 1])
    BY <1>1, <2>1
  <2>5. of[n + 1] = of[n] \o PiecesOf(in[n + 1], {"transient"})
    BY <1>2, <2>1
  <2>6. Pieces(out[n + 1], {}) = of[n + 1] /\ Apart(out[n + 1])
    BY <2>2, <2>3, <2>4, <2>5, MergeKeeps
  <2> QED BY <2>1, <2>6
<1>6. 0..m \subseteq P
  <2> HIDE DEF P
  <2> QED BY <1>4, <1>5, Induction
<1>7. Pieces(out[m], {}) = of[m] /\ Apart(out[m]) /\ out[m] \in Seq(Envelopes)
  BY <1>1, <1>3, <1>6
<1> QED BY <1>1, <1>2, <1>3, <1>7 DEF CompactionOf, Apart

----------------------------------------------------------------------------
(* The turn up to a frame.                                                 *)

LEMMA ParsedType ==
  ASSUME NEW f \in Frames
  PROVE  /\ parseDataLine(f) \in Seq(Frames)
         /\ f.type # "long" => parseDataLine(f) \in Seq(Envelopes)
<1>1. CASE f.type = "cut"
  BY <1>1 DEF parseDataLine
<1>2. CASE f.type # "cut"
  <2>1. <<f>> \in Seq(Frames)
    OBVIOUS
  <2>2. f.type # "long" => f \in Envelopes
    BY <1>2 DEF Frames, Envelopes
  <2>3. f \in Envelopes => <<f>> \in Seq(Envelopes)
    OBVIOUS
  <2> QED BY <1>2, <2>1, <2>2, <2>3 DEF parseDataLine
<1> QED BY <1>1, <1>2

\* What is put first, and n frames.
Framed(first, frames, n) ==
  first \in Seq(Frames) /\ n \in Nat /\ \A k \in 1..n : frames[k] \in Frames

\* The turn up to each of them.
Turns(of, first, frames, n) ==
  of[0] = first /\ \A k \in 1..n : of[k] = of[k - 1] \o parseDataLine(frames[k])

Looped(first, frames, n) ==
  \E of : Turns(of, first, frames, n) /\ Stream(first, frames, n) = of[n]

LEMMA StreamLoop ==
  ASSUME NEW first, NEW frames, NEW n, Framed(first, frames, n)
  PROVE  Looped(first, frames, n)
<1> DEFINE S == Seq(Frames)
<1>0. n \in Nat /\ first \in Seq(Frames)
  BY DEF Framed
<1> DEFINE step == [k \in 1..n |-> [of \in S |-> of \o parseDataLine(frames[k])]]
<1>1. step \in [1..n -> [S -> S]]
  <2>1. \A k \in 1..n : parseDataLine(frames[k]) \in S
    <3>1. \A k \in 1..n : frames[k] \in Frames
      BY DEF Framed
    <3> QED BY <3>1, ParsedType
  <2>2. \A a, b \in S : a \o b \in S
    OBVIOUS
  <2> HIDE DEF S
  <2> QED BY <2>1, <2>2
<1> HIDE DEF S
<1>2. \A k \in 1..n, of \in S : step[k][of] = of \o parseDataLine(frames[k])
  OBVIOUS
<1> HIDE DEF step
<1>3. PICK f \in [0..n -> S] : f[0] = first /\ \A k \in 1..n : f[k] = step[k][f[k - 1]]
  <2>1. PICK m \in Nat : m = n
    BY <1>0
  <2>2. PICK base \in S : base = first
    BY <1>0 DEF S
  <2>3. step \in [1..m -> [S -> S]]
    BY <1>1, <2>1
  <2>4. \E f \in [0..m -> S] : f[0] = base /\ \A k \in 1..m : f[k] = step[k][f[k - 1]]
    BY <2>3, Recursion
  <2> QED BY <2>1, <2>2, <2>4
<1>4. \A k \in 1..n : f[k] = f[k - 1] \o parseDataLine(frames[k])
  <2> TAKE k \in 1..n
  <2>1. k - 1 \in 0..n
    BY <1>0
  <2>2. f[k - 1] \in S /\ f[k] = step[k][f[k - 1]]
    BY <1>3, <2>1
  <2> QED BY <1>2, <2>2
<1>5. \A k \in 0..n : f[k] = IF k = 0 THEN first ELSE f[k - 1] \o parseDataLine(frames[k])
  <2>1. \A k \in 0..n : k = 0 \/ (k # 0 /\ k \in 1..n)
    BY <1>0
  <2> QED BY <1>3, <1>4, <2>1
<1>6. f = [k \in 0..n |-> IF k = 0 THEN first ELSE f[k - 1] \o parseDataLine(frames[k])]
  BY <1>3, <1>5
<1> DEFINE g == CHOOSE g : g = [k \in 0..n |->
                                  IF k = 0 THEN first ELSE g[k - 1] \o parseDataLine(frames[k])]
<1>7. Stream(first, frames, n) = g[n]
  BY DEF Stream
<1>8. g = [k \in 0..n |-> IF k = 0 THEN first ELSE g[k - 1] \o parseDataLine(frames[k])]
  BY <1>6, Zenon
<1> HIDE DEF g
<1>9. Turns(f, first, frames, n)
  BY <1>3, <1>4 DEF Turns
<1>10. Turns(g, first, frames, n)
  <2>1. \A k \in 1..n : k \in 0..n /\ k # 0 /\ 0 \in 0..n
    BY <1>0
  <2>2. \A k \in 1..n : g[k] = g[k - 1] \o parseDataLine(frames[k])
    BY <1>8, <2>1
  <2>3. g[0] = first
    BY <1>0, <1>8
  <2> QED BY <2>2, <2>3 DEF Turns
<1>11. g[n] = f[n]
  <2>1. Tracks(g, f, n)
    BY <1>9, <1>10 DEF Turns, Tracks
  <2> QED BY <1>0, <2>1, Tracked
<1> QED BY <1>7, <1>9, <1>11 DEF Looped

LEMMA StreamBegins ==
  ASSUME NEW first, NEW frames, Framed(first, frames, 0)
  PROVE  Stream(first, frames, 0) = first
<1>1. Looped(first, frames, 0)
  BY StreamLoop
<1> QED BY <1>1 DEF Looped, Turns

\* What was sent after the n-th frame, or will be, does not change the turn up
\* to it.
LEMMA StreamStays ==
  ASSUME NEW first, NEW frames, NEW more, NEW n, Framed(first, frames, n),
         \A k \in 1..n : more[k] = frames[k]
  PROVE  Stream(first, more, n) = Stream(first, frames, n)
<1>1. n \in Nat /\ Framed(first, more, n)
  BY DEF Framed
<1>2. Looped(first, frames, n) /\ Looped(first, more, n)
  BY <1>1, StreamLoop
<1>3. PICK f : Turns(f, first, frames, n) /\ Stream(first, frames, n) = f[n]
  BY <1>2 DEF Looped
<1>4. PICK g : Turns(g, first, more, n) /\ Stream(first, more, n) = g[n]
  BY <1>2 DEF Looped
<1>5. Tracks(f, g, n)
  BY <1>3, <1>4 DEF Turns, Tracks
<1> QED BY <1>1, <1>3, <1>4, <1>5, Tracked

LEMMA StreamGrows ==
  ASSUME NEW first, NEW frames, NEW n, Framed(first, frames, n), NEW m, m = n + 1,
         frames[m] \in Frames
  PROVE  Stream(first, frames, m) = Stream(first, frames, n) \o parseDataLine(frames[m])
<1>1. n \in Nat /\ m \in 1..m /\ m - 1 = n /\ \A k \in 1..n : k \in 1..m
  BY DEF Framed
<1>2. Framed(first, frames, m)
  BY DEF Framed
<1>3. Looped(first, frames, n) /\ Looped(first, frames, m)
  BY <1>2, StreamLoop
<1>4. PICK f : Turns(f, first, frames, n) /\ Stream(first, frames, n) = f[n]
  BY <1>3 DEF Looped
<1>5. PICK g : Turns(g, first, frames, m) /\ Stream(first, frames, m) = g[m]
  BY <1>3 DEF Looped
<1>6. Tracks(f, g, n)
  BY <1>1, <1>4, <1>5 DEF Turns, Tracks
<1>7. f[n] = g[n]
  BY <1>1, <1>6, Tracked
<1>8. g[m] = g[n] \o parseDataLine(frames[m])
  BY <1>1, <1>5 DEF Turns
<1> QED BY <1>4, <1>5, <1>7, <1>8

----------------------------------------------------------------------------
(* What either pipeline stores, at any moment.                             *)

RowIsOf == row # NoRow =>
  \E n \in 0..read : Streamed(n) \in Seq(Envelopes) /\ row = Compacted(Streamed(n))

SnapIsOf == flusher \in {"begin", "store"} =>
  \E n \in 0..read : snap = Streamed(n) /\ snap \in Seq(Envelopes)

\* What was collected is the turn so far; what was copied and what is stored
\* are the turn up to some frame.
StreamInv ==
  /\ leading \in Seq(Envelopes)
  /\ collected = Streamed(read) /\ collected \in Seq(Envelopes)
  /\ SnapIsOf
  /\ RowIsOf

LEMMA EnvelopesAreFrames ==
  ASSUME NEW s, s \in Seq(Envelopes)
  PROVE  s \in Seq(Frames)
<1>1. Envelopes \subseteq Frames
  BY DEF Envelopes, Frames
<1> HIDE DEF Envelopes, Frames
<1> QED BY <1>1

LEMMA FramedSoFar ==
  ASSUME ReadInv, leading \in Seq(Envelopes), NEW n \in 0..Len(sent)
  PROVE  Framed(leading, sent, n)
<1>1. leading \in Seq(Frames)
  BY EnvelopesAreFrames
<1>2. sent \in Seq(Frames) /\ Len(sent) \in Nat
  BY DEF ReadInv
<1>3. \A k \in 1..n : sent[k] \in Frames
  BY <1>2
<1> QED BY <1>1, <1>3 DEF Framed

\* Frames to come leave the turn up to an earlier one as it is.
LEMMA StreamedStays ==
  ASSUME ReadInv, leading \in Seq(Envelopes), UNCHANGED leading,
         UNCHANGED sent \/ \E e \in Frames : sent' = Append(sent, e),
         NEW n \in 0..Len(sent)
  PROVE  Streamed(n)' = Streamed(n)
<1>1. CASE UNCHANGED sent
  BY <1>1 DEF Streamed
<1>2. ASSUME NEW e \in Frames, sent' = Append(sent, e) PROVE Streamed(n)' = Streamed(n)
  <2>1. sent \in Seq(Frames) /\ Len(sent) \in Nat
    BY DEF ReadInv
  <2>2. \A k \in 1..n : sent'[k] = sent[k]
    BY <1>2, <2>1
  <2>3. Framed(leading, sent, n)
    BY FramedSoFar
  <2>4. Stream(leading, sent', n) = Stream(leading, sent, n)
    BY <2>2, <2>3, StreamStays
  <2> QED BY <2>4 DEF Streamed
<1> QED BY <1>1, <1>2

LEMMA StreamKept == ASSUME ReadInv, StreamInv, [Next]_vars PROVE StreamInv'
<1>0. leading \in Seq(Envelopes) /\ collected = Streamed(read) /\ collected \in Seq(Envelopes)
  BY DEF StreamInv
<1>1. read \in 0..Len(sent) /\ Len(sent) \in Nat
  BY DEF ReadInv
<1>2. CASE Actions
  <2>1. UNCHANGED <<leading, read, collected, flusher, snap, row>>
    BY <1>2, OutsideMoves DEF Actions, AgentSends, BodyEnds, Cancel, Tick, runVars, storeVars, outside
  <2>2. UNCHANGED sent \/ \E e \in Frames : sent' = Append(sent, e)
    <3>1. \A type \in Types \cup {"cut", "long"} : Envelope(type, <<Len(sent) + 1>>) \in Frames
      BY <1>1 DEF Envelope, Frames
    <3> QED BY <1>2, <3>1 DEF Actions, AgentSends, BodyEnds, Cancel, Tick, outside
  <2>3. \A n \in 0..read : Streamed(n)' = Streamed(n)
    BY <1>0, <1>1, <2>1, <2>2, StreamedStays
  <2>4. PICK r \in 0..read : r = read
    BY <1>1
  <2>5. collected' = Streamed(r)' /\ r = read'
    BY <1>0, <2>1, <2>3, <2>4
  <2>6. SnapIsOf'
    BY <2>1, <2>3 DEF StreamInv, SnapIsOf
  <2>7. RowIsOf'
    BY <2>1, <2>3 DEF StreamInv, RowIsOf
  <2>8. collected' = Streamed(read)'
    BY <2>5
  <2> QED BY <1>0, <2>1, <2>6, <2>7, <2>8 DEF StreamInv
<1>3. CASE Scan
  <2> DEFINE f == sent[read + 1]
  <2>1. /\ read < Len(sent) /\ f.type # "long"
        /\ read' = read + 1 /\ collected' = collected \o parseDataLine(f)
        /\ UNCHANGED <<sent, leading, flusher, snap, row>>
    BY <1>3 DEF Scan, Scanned, outside, flusherVars, storeVars
  <2>2. \A n : Streamed(n)' = Streamed(n)
    BY <2>1 DEF Streamed
  <2>3. f \in Frames
    BY <1>1, <2>1 DEF ReadInv
  <2>4. Framed(leading, sent, read)
    BY <1>0, <1>1, FramedSoFar
  <2>5. PICK m : m = read + 1
    OBVIOUS
  <2>6. Stream(leading, sent, m) = Stream(leading, sent, read) \o parseDataLine(sent[m])
    BY <2>3, <2>4, <2>5, StreamGrows
  <2>7. collected' = Streamed(m)'
    BY <1>0, <2>1, <2>2, <2>5, <2>6 DEF Streamed
  <2>8. parseDataLine(f) \in Seq(Envelopes)
    BY <2>1, <2>3, ParsedType
  <2>9. collected' \in Seq(Envelopes)
    <3> HIDE DEF f
    <3> QED BY <1>0, <2>1, <2>8
  <2>10. 0..read \subseteq 0..read'
    BY <1>1, <2>1
  <2>11. SnapIsOf'
    BY <2>1, <2>2, <2>10 DEF StreamInv, SnapIsOf
  <2>12. RowIsOf'
    BY <2>1, <2>2, <2>10 DEF StreamInv, RowIsOf
  <2>13. collected' = Streamed(read)'
    BY <2>1, <2>5, <2>7
  <2> QED BY <1>0, <2>1, <2>9, <2>11, <2>12, <2>13 DEF StreamInv
<1>4. ASSUME UNCHANGED <<sent, leading, read, collected>>,
             flusher' \in {"begin", "store"} =>
               snap' = collected \/ (flusher \in {"begin", "store"} /\ snap' = snap),
             \/ UNCHANGED row
             \/ row' = Compacted(collected)
             \/ flusher = "store" /\ row' = Compacted(snap)
      PROVE  StreamInv'
  <2>1. \A n : Streamed(n)' = Streamed(n)
    BY <1>4 DEF Streamed
  <2>2. \E n \in 0..read : collected = Streamed(n) /\ collected \in Seq(Envelopes)
    BY <1>0, <1>1
  <2>3. SnapIsOf /\ RowIsOf
    BY DEF StreamInv
  <2>4. flusher' \in {"begin", "store"} =>
          \E n \in 0..read : snap' = Streamed(n) /\ snap' \in Seq(Envelopes)
    BY <1>4, <2>2, <2>3 DEF SnapIsOf
  <2>5. row' # NoRow =>
          \E n \in 0..read : Streamed(n) \in Seq(Envelopes) /\ row' = Compacted(Streamed(n))
    BY <1>4, <2>2, <2>3 DEF SnapIsOf, RowIsOf
  <2>6. SnapIsOf'
    BY <1>4, <2>1, <2>4 DEF SnapIsOf
  <2>7. RowIsOf'
    BY <1>4, <2>1, <2>5 DEF RowIsOf
  <2>8. PICK r : r = read
    OBVIOUS
  <2>9. collected' = Streamed(r)' /\ r = read'
    BY <1>0, <1>4, <2>1, <2>8
  <2>10. collected' = Streamed(read)'
    BY <2>9
  <2> QED BY <1>0, <1>4, <2>6, <2>7, <2>10 DEF StreamInv
<1>5. CASE ScanEnds \/ Persist \/ Store \/ Return
  BY <1>4, <1>5 DEF ScanEnds, Persist, Store, StoreAccepts, StoreFails, Return, outside, flusherVars,
                    storeVars
<1>6. CASE Flusher \/ UNCHANGED vars
  BY <1>4, <1>6 DEF Flusher, Snapshot, FlushBegins, FlushStores, StoreAccepts, StoreFails, FlushEnds,
                    FlusherStops, outside, runVars, flusherVars, storeVars, vars
<1> QED BY <1>2, <1>3, <1>5, <1>6 DEF Next, Run, Actions

LEMMA StreamStarts == ASSUME Init PROVE ReadInv /\ StreamInv
<1>1. sent = <<>> /\ read = 0 /\ collected = leading /\ row = NoRow /\ flusher \in {"wait", "off"}
  BY DEF Init
<1>2. ReadInv
  BY DEF Init, ReadInv
<1>3. leading \in Seq(Envelopes)
  <2>1. <<>> \in Seq(Nat) /\ <<0>> \in Seq(Nat)
    OBVIOUS
  <2>2. Envelope("user", <<>>) \in Envelopes /\ Envelope("user", <<0>>) \in Envelopes
    BY <2>1 DEF Envelope, Envelopes, Types
  <2> HIDE DEF Envelope
  <2>3. \A e \in Envelopes : <<e>> \in Seq(Envelopes)
    OBVIOUS
  <2>4. leading \in {<<>>, <<Envelope("user", <<>>)>>, <<Envelope("user", <<0>>)>>}
    BY DEF Init
  <2>5. <<>> \in Seq(Envelopes)
    OBVIOUS
  <2> QED BY <2>2, <2>3, <2>4, <2>5
<1>4. Framed(leading, sent, 0)
  BY <1>3, EnvelopesAreFrames DEF Framed
<1>5. collected = Streamed(read)
  BY <1>1, <1>4, StreamBegins DEF Streamed
<1> QED BY <1>1, <1>2, <1>3, <1>5 DEF StreamInv, SnapIsOf, RowIsOf

(***************************************************************************)
(* Whichever goroutine wrote last, and whenever the turn, the client or    *)
(* the database failed, the row is a beginning of the turn, compacted: the *)
(* host's own event and the agent's up to some frame that was read, none   *)
(* durable left out, moved or retyped (persist and the flusher of          *)
(* pipeline.go, Compact).                                                  *)
(***************************************************************************)
THEOREM RowAlwaysBeginning == Spec => []RowIsBeginning
<1>1. Init => ReadInv /\ StreamInv
  BY StreamStarts
<1>2. (ReadInv /\ StreamInv) /\ [Next]_vars => (ReadInv /\ StreamInv)'
  BY ReadStep, StreamKept
<1>3. StreamInv => RowIsBeginning
  BY CompactionKeepsText DEF StreamInv, RowIsOf, RowIsBeginning
<1> QED BY <1>1, <1>2, <1>3, PTL DEF Spec

(***************************************************************************)
(* When Run of the default pipeline has returned without error after       *)
(* collecting anything, it had read on to query_complete, to the end of    *)
(* the response or to a line too long for it, a row is stored, and the row *)
(* is the compaction of all it read (Run and persist of pipeline.go).      *)
(***************************************************************************)
THEOREM ReadAlwaysStored == Spec => []ReadIsStored
<1>1. Init => ReadInv /\ StreamInv
  BY StreamStarts
<1>2. (ReadInv /\ StreamInv) /\ [Next]_vars => (ReadInv /\ StreamInv)'
  BY ReadStep, StreamKept
<1>3. StreamInv /\ WholeRow => ReadIsStored
  <2> SUFFICES ASSUME StreamInv, WholeRow, pc = "returned" /\ ~err /\ ~cadence /\ collected # <<>>
               PROVE  Stopped /\ row # NoRow /\ CompactionOf(row, Streamed(read))
    BY DEF ReadIsStored
  <2>1. Stopped /\ row = Compacted(collected)
    BY DEF WholeRow
  <2>2. collected \in Seq(Envelopes) /\ collected = Streamed(read)
    BY DEF StreamInv
  <2>3. Compacted(collected) \in Seq(Envelopes) /\ CompactionOf(Compacted(collected), collected)
    BY <2>2, CompactionKeepsText
  <2> QED BY <2>1, <2>2, <2>3, PipelineAssumption
<1> QED BY <1>1, <1>2, <1>3, StoredWhole, PTL DEF Spec

=============================================================================
