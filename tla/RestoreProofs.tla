---------------------------- MODULE RestoreProofs ----------------------------
(***************************************************************************)
(* That a session restored from what is stored is the one that was shown,  *)
(* for any calls, texts, turns and order of events, of a client that does  *)
(* not lose its stream.                                                    *)
(***************************************************************************)
EXTENDS TranscriptProofs

----------------------------------------------------------------------------
(* The compaction of the events that a step emits.                         *)

\* The rows on the way, from one over the first n events.
Compacts(f, stored, events, n) ==
  f = [k \in 0..n |-> IF k = 0 THEN stored ELSE C!merge(f[k - 1], Wrapped(events[k]))]

LEMMA CompactsThrough ==
  ASSUME NEW f, NEW stored, NEW events, NEW n \in Nat, Compacts(f, stored, events, n)
  PROVE  /\ f[0] = stored
         /\ \A k \in 0..n : k < n => f[k + 1] = C!merge(f[k], Wrapped(events[k + 1]))
<1>1. \A k \in 0..n : f[k] = IF k = 0 THEN stored ELSE C!merge(f[k - 1], Wrapped(events[k]))
  BY Zenon DEF Compacts
<1>2. \A k \in 0..n : k < n => k + 1 \in 0..n /\ k + 1 # 0 /\ (k + 1) - 1 = k
  OBVIOUS
<1>3. 0 \in 0..n
  OBVIOUS
<1> QED BY <1>1, <1>2, <1>3, Zenon

LEMMA CompactedIs ==
  ASSUME NEW stored, NEW events, NEW n \in Nat, Len(events) = n
  PROVE  \E f : Compacts(f, stored, events, n) /\ Compacted(stored, events) = f[n]
<1> DEFINE P == {m \in 0..n : \E f : Compacts(f, stored, events, m)}
<1>1. 0 \in P
  <2> DEFINE f == [k \in 0..0 |-> stored]
  <2>1. Compacts(f, stored, events, 0)
    BY DEF Compacts
  <2> HIDE DEF f
  <2> QED BY <2>1
<1>2. ASSUME NEW m \in 0..n, m \in P, m < n PROVE m + 1 \in P
  <2>1. PICK f : Compacts(f, stored, events, m)
    BY <1>2
  <2> DEFINE h == [k \in 0..(m + 1) |->
                     IF k = m + 1 THEN C!merge(f[m], Wrapped(events[m + 1])) ELSE f[k]]
  <2>2. \A k \in 0..m : f[k] = IF k = 0 THEN stored ELSE C!merge(f[k - 1], Wrapped(events[k]))
    BY <2>1, Zenon DEF Compacts
  <2>3. \A k \in 0..(m + 1) :
          h[k] = IF k = 0 THEN stored ELSE C!merge(h[k - 1], Wrapped(events[k]))
    <3>1. ASSUME NEW k \in 0..(m + 1), k # m + 1
          PROVE  /\ k \in 0..m /\ h[k] = f[k]
                 /\ k # 0 => k - 1 \in 0..m /\ k - 1 \in 0..(m + 1) /\ k - 1 # m + 1
      BY <1>2, <3>1
    <3>2. m + 1 # 0 /\ (m + 1) - 1 = m /\ m \in 0..(m + 1) /\ m # m + 1 /\ m + 1 \in 0..(m + 1)
      BY <1>2
    <3>3. h[m + 1] = C!merge(f[m], Wrapped(events[m + 1])) /\ h[m] = f[m]
      BY <3>2
    <3>4. ASSUME NEW k \in 0..(m + 1), k # m + 1, k # 0 PROVE h[k - 1] = f[k - 1]
      BY <3>1, <3>4
    <3> HIDE DEF h
    <3> QED BY <2>2, <3>1, <3>2, <3>3, <3>4
  <2>4. Compacts(h, stored, events, m + 1)
    <3>1. h = [k \in 0..(m + 1) |-> h[k]]
      OBVIOUS
    <3> HIDE DEF h
    <3> QED BY <2>3, <3>1 DEF Compacts
  <2> HIDE DEF h
  <2> QED BY <1>2, <2>4
<1>3. 0..n \subseteq P
  <2> HIDE DEF P
  <2> QED BY <1>1, <1>2, UpTo
<1>4. \E f : Compacts(f, stored, events, n)
  BY <1>3
<1> DEFINE g == CHOOSE g : g = [k \in 0..Len(events) |->
                    IF k = 0 THEN stored ELSE C!merge(g[k - 1], Wrapped(events[k]))]
<1>5. Compacted(stored, events) = g[n]
  BY DEF Compacted
<1>6. Compacts(g, stored, events, n)
  BY <1>4, Zenon DEF Compacts
<1> HIDE DEF g
<1> QED BY <1>5, <1>6

LEMMA CompactedNone == ASSUME NEW stored PROVE Compacted(stored, <<>>) = stored
<1>1. PICK n \in Nat : n = 0
  OBVIOUS
<1>2. PICK f : Compacts(f, stored, <<>>, n) /\ Compacted(stored, <<>>) = f[n]
  BY <1>1, CompactedIs
<1> QED BY <1>1, <1>2, CompactsThrough

LEMMA CompactedOne ==
  ASSUME NEW stored, NEW a
  PROVE  Compacted(stored, <<a>>) = C!merge(stored, Wrapped(a))
<1>1. PICK n \in Nat : n = 1
  OBVIOUS
<1>2. PICK events : events = <<a>>
  OBVIOUS
<1>3. Len(events) = n /\ events[1] = a
  BY <1>1, <1>2
<1>4. PICK f : Compacts(f, stored, events, n) /\ Compacted(stored, events) = f[n]
  BY <1>3, CompactedIs
<1>5. /\ f[0] = stored
      /\ \A k \in 0..n : k < n => f[k + 1] = C!merge(f[k], Wrapped(events[k + 1]))
  BY <1>4, CompactsThrough
<1>6. f[1] = C!merge(stored, Wrapped(a))
  BY <1>1, <1>3, <1>5
<1> QED BY <1>1, <1>2, <1>4, <1>6

LEMMA CompactedJoined ==
  ASSUME NEW s, NEW S, NEW a \in Seq(S), NEW b \in Seq(S)
  PROVE  Compacted(s, a \o b) = Compacted(Compacted(s, a), b)
<1>1. PICK m \in Nat : m = Len(a)
  OBVIOUS
<1>2. PICK l \in Nat : l = Len(b)
  OBVIOUS
<1>3. PICK e : e = a \o b
  OBVIOUS
<1>4. /\ Len(e) = m + l
      /\ \A k \in 1..m : e[k] = a[k]
      /\ \A k \in (m + 1)..(m + l) : e[k] = b[k - m]
  BY <1>1, <1>2, <1>3, Concatenated
<1>5. PICK f : Compacts(f, s, a, m) /\ Compacted(s, a) = f[m]
  BY <1>1, CompactedIs
<1>6. PICK g : Compacts(g, f[m], b, l) /\ Compacted(f[m], b) = g[l]
  BY <1>2, CompactedIs
<1>7. PICK n \in Nat : n = m + l
  OBVIOUS
<1>8. PICK h : Compacts(h, s, e, n) /\ Compacted(s, e) = h[n]
  BY <1>4, <1>7, CompactedIs
<1>9. /\ h[0] = s /\ \A k \in 0..n : k < n => h[k + 1] = C!merge(h[k], Wrapped(e[k + 1]))
      /\ f[0] = s /\ \A k \in 0..m : k < m => f[k + 1] = C!merge(f[k], Wrapped(a[k + 1]))
      /\ g[0] = f[m] /\ \A k \in 0..l : k < l => g[k + 1] = C!merge(g[k], Wrapped(b[k + 1]))
  BY <1>5, <1>6, <1>8, CompactsThrough
<1>10. h[m] = f[m]
  <2> DEFINE P == {k \in 0..m : h[k] = f[k]}
  <2>1. 0 \in P
    BY <1>9
  <2>2. ASSUME NEW k \in 0..m, k \in P, k < m PROVE k + 1 \in P
    <3>1. k \in 0..n /\ k < n /\ k + 1 \in 1..m /\ k + 1 \in 0..m
      BY <1>7, <2>2
    <3> QED BY <1>4, <1>9, <2>2, <3>1
  <2>3. 0..m \subseteq P
    <3> HIDE DEF P
    <3> QED BY <2>1, <2>2, UpTo
  <2> QED BY <2>3
<1>11. h[m + l] = g[l]
  <2> DEFINE P == {k \in 0..l : h[m + k] = g[k]}
  <2>1. 0 \in P
    BY <1>9, <1>10
  <2>2. ASSUME NEW k \in 0..l, k \in P, k < l PROVE k + 1 \in P
    <3>1. /\ m + k \in 0..n /\ m + k < n /\ (m + k) + 1 = m + (k + 1)
          /\ m + (k + 1) \in (m + 1)..(m + l) /\ (m + (k + 1)) - m = k + 1 /\ k + 1 \in 0..l
      BY <1>7, <2>2
    <3>2. h[m + (k + 1)] = C!merge(g[k], Wrapped(b[k + 1]))
      BY <1>4, <1>9, <2>2, <3>1
    <3> QED BY <1>9, <2>2, <3>1, <3>2
  <2>3. 0..l \subseteq P
    <3> HIDE DEF P
    <3> QED BY <2>1, <2>2, UpTo
  <2> QED BY <2>3
<1> QED BY <1>3, <1>5, <1>6, <1>7, <1>8, <1>11

LEMMA CompactedThen ==
  ASSUME NEW s, NEW a, NEW b, Sequential(a), Sequential(b)
  PROVE  Compacted(s, a \o b) = Compacted(Compacted(s, a), b)
<1>1. PICK S : a \in Seq(S)
  BY DEF Sequential
<1>2. PICK T : b \in Seq(T)
  BY DEF Sequential
<1>3. a \in Seq(S \cup T) /\ b \in Seq(S \cup T)
  BY <1>1, <1>2
<1> QED BY <1>3, CompactedJoined

----------------------------------------------------------------------------
(* The rows stored of earlier turns, one after the other.                  *)

Flattens(f, seqs, n) == f = [i \in 1..n |-> IF i = 1 THEN seqs[i] ELSE f[i - 1] \o seqs[i]]

LEMMA FlattensThrough ==
  ASSUME NEW f, NEW seqs, NEW n \in Nat, Flattens(f, seqs, n)
  PROVE  /\ 1 <= n => f[1] = seqs[1]
         /\ \A k \in 1..n : k < n => f[k + 1] = f[k] \o seqs[k + 1]
<1>1. \A k \in 1..n : f[k] = IF k = 1 THEN seqs[k] ELSE f[k - 1] \o seqs[k]
  BY Zenon DEF Flattens
<1>2. \A k \in 1..n : k < n => k + 1 \in 1..n /\ k + 1 # 1 /\ (k + 1) - 1 = k
  OBVIOUS
<1>3. 1 <= n => 1 \in 1..n
  OBVIOUS
<1> QED BY <1>1, <1>2, <1>3, Zenon

LEMMA FlatIs ==
  ASSUME NEW seqs, NEW n \in Nat, 1 <= n, Len(seqs) = n
  PROVE  \E f : Flattens(f, seqs, n) /\ FlattenSeq(seqs) = f[n]
<1> DEFINE P == {m \in 0..n : \E f : Flattens(f, seqs, m)}
<1>1. 0 \in P
  <2> DEFINE f == [k \in 1..0 |-> seqs]
  <2>1. f = [i \in 1..0 |-> IF i = 1 THEN seqs[i] ELSE f[i - 1] \o seqs[i]]
    OBVIOUS
  <2> HIDE DEF f
  <2>2. Flattens(f, seqs, 0)
    BY <2>1 DEF Flattens
  <2> QED BY <2>2
<1>2. ASSUME NEW m \in 0..n, m \in P, m < n PROVE m + 1 \in P
  <2>1. PICK f : Flattens(f, seqs, m)
    BY <1>2
  <2> DEFINE next == IF m = 0 THEN seqs[1] ELSE f[m] \o seqs[m + 1]
             h == [k \in 1..(m + 1) |-> IF k = m + 1 THEN next ELSE f[k]]
  <2>2. \A k \in 1..m : f[k] = IF k = 1 THEN seqs[k] ELSE f[k - 1] \o seqs[k]
    BY <2>1, Zenon DEF Flattens
  <2>3. \A k \in 1..(m + 1) : h[k] = IF k = 1 THEN seqs[k] ELSE h[k - 1] \o seqs[k]
    <3>1. ASSUME NEW k \in 1..(m + 1), k # m + 1
          PROVE  /\ k \in 1..m /\ h[k] = f[k]
                 /\ k # 1 => k - 1 \in 1..m /\ k - 1 \in 1..(m + 1) /\ k - 1 # m + 1
      BY <1>2, <3>1
    <3>2. /\ (m + 1) - 1 = m /\ m # m + 1 /\ m + 1 \in 1..(m + 1)
          /\ m = 0 => m + 1 = 1
          /\ m # 0 => m + 1 # 1 /\ m \in 1..(m + 1)
      BY <1>2
    <3>3. h[m + 1] = next /\ (m # 0 => h[m] = f[m])
      BY <3>2
    <3>4. ASSUME NEW k \in 1..(m + 1), k # m + 1, k # 1 PROVE h[k - 1] = f[k - 1]
      BY <3>1, <3>4
    <3>5. ASSUME NEW k \in 1..(m + 1), k # m + 1
          PROVE  h[k] = IF k = 1 THEN seqs[k] ELSE h[k - 1] \o seqs[k]
      <4> HIDE DEF h, next
      <4> QED BY <2>2, <3>1, <3>4, <3>5
    <3>6. h[m + 1] = IF m + 1 = 1 THEN seqs[m + 1] ELSE h[m] \o seqs[m + 1]
      <4>1. CASE m = 0
        BY <3>2, <3>3, <4>1
      <4>2. CASE m # 0
        <5>1. h[m + 1] = f[m] \o seqs[m + 1] /\ h[m] = f[m]
          BY <3>3, <4>2
        <5> HIDE DEF h, next
        <5> QED BY <3>2, <4>2, <5>1
      <4> QED BY <4>1, <4>2
    <3> HIDE DEF h, next
    <3> QED BY <3>2, <3>5, <3>6
  <2>4. Flattens(h, seqs, m + 1)
    <3>1. h = [k \in 1..(m + 1) |-> h[k]]
      OBVIOUS
    <3> HIDE DEF h, next
    <3> QED BY <2>3, <3>1 DEF Flattens
  <2> HIDE DEF h, next
  <2> QED BY <1>2, <2>4
<1>3. 0..n \subseteq P
  <2> HIDE DEF P
  <2> QED BY <1>1, <1>2, UpTo
<1>4. \E f : Flattens(f, seqs, n)
  BY <1>3
<1> DEFINE g == CHOOSE g : g = [i \in 1..Len(seqs) |->
                                  IF i = 1 THEN seqs[i] ELSE g[i - 1] \o seqs[i]]
<1>5. FlattenSeq(seqs) = g[n]
  <2>1. Len(seqs) # 0 /\ Len(seqs) = n
    OBVIOUS
  <2> QED BY <2>1, Zenon DEF FlattenSeq
<1>6. Flattens(g, seqs, n)
  BY <1>4, Zenon DEF Flattens
<1> HIDE DEF g
<1> QED BY <1>5, <1>6

LEMMA FlatMore ==
  ASSUME NEW S, NEW seqs \in Seq(S), NEW r, Sequential(r), NEW t, t = Append(seqs, r)
  PROVE  FlattenSeq(t) = IF seqs = <<>> THEN r ELSE FlattenSeq(seqs) \o r
<1>1. PICK n \in Nat : n = Len(seqs)
  OBVIOUS
<1> DEFINE T == S \cup {r}
<1>2. seqs \in Seq(T) /\ r \in T
  OBVIOUS
<1> HIDE DEF T
<1>3. Len(t) = n + 1 /\ t[n + 1] = r /\ \A k \in 1..n : t[k] = seqs[k]
  BY <1>1, <1>2
<1>4. PICK m \in Nat : m = n + 1 /\ 1 <= m /\ Len(t) = m
  BY <1>3
<1>5. PICK h : Flattens(h, t, m) /\ FlattenSeq(t) = h[m]
  BY <1>4, FlatIs
<1>6. /\ h[1] = t[1]
      /\ \A k \in 1..m : k < m => h[k + 1] = h[k] \o t[k + 1]
  BY <1>4, <1>5, FlattensThrough
<1>7. CASE seqs = <<>>
  <2>1. n = 0 /\ m = 1
    BY <1>1, <1>4, <1>7
  <2> QED BY <1>3, <1>5, <1>6, <1>7, <2>1
<1>8. CASE seqs # <<>>
  <2>1. 1 <= n
    BY <1>1, <1>8
  <2>2. PICK f : Flattens(f, seqs, n) /\ FlattenSeq(seqs) = f[n]
    BY <1>1, <2>1, FlatIs
  <2>3. f[1] = seqs[1] /\ \A k \in 1..n : k < n => f[k + 1] = f[k] \o seqs[k + 1]
    BY <2>1, <2>2, FlattensThrough
  <2>4. h[n] = f[n]
    <3> DEFINE P == {k \in 0..n : k # 0 => h[k] = f[k]}
    <3>1. 0 \in P
      OBVIOUS
    <3>2. ASSUME NEW k \in 0..n, k \in P, k < n PROVE k + 1 \in P
      <4>1. CASE k = 0
        <5>1. 1 \in 1..n /\ 1 \in 0..n /\ k + 1 = 1
          BY <2>1, <4>1
        <5> QED BY <1>3, <1>6, <2>3, <5>1
      <4>2. CASE k # 0
        <5>1. k \in 1..m /\ k < m /\ k \in 1..n /\ k + 1 \in 1..n /\ k + 1 \in 0..n
          BY <1>4, <3>2, <4>2
        <5>2. h[k] = f[k]
          BY <3>2, <4>2
        <5> QED BY <1>3, <1>6, <2>3, <3>2, <5>1, <5>2, ZenonT(40)
      <4> QED BY <4>1, <4>2
    <3>3. 0..n \subseteq P
      <4> HIDE DEF P
      <4> QED BY <3>1, <3>2, UpTo
    <3> QED BY <2>1, <3>3
  <2>5. n \in 1..m /\ n < m
    BY <1>4, <2>1
  <2>6. h[n + 1] = h[n] \o r
    BY <1>3, <1>6, <2>5
  <2> QED BY <1>4, <1>5, <1>8, <2>2, <2>4, <2>6
<1> QED BY <1>7, <1>8

\* t is s, of length n, and x after it.
Appends(s, t, n, x) ==
  /\ Sequential(s) /\ Sequential(t) /\ n \in Nat /\ Len(s) = n /\ Len(t) = n + 1
  /\ DOMAIN s = 1..n /\ DOMAIN t = 1..(n + 1)
  /\ t[n + 1] = x /\ \A j \in 1..n : t[j] = s[j]

LEMMA AppendedIs ==
  ASSUME NEW s, Sequential(s), NEW x
  PROVE  Appends(s, Append(s, x), Len(s), x)
<1>1. PICK S : s \in Seq(S)
  BY DEF Sequential
<1> DEFINE T == S \cup {x}
<1>2. s \in Seq(T) /\ x \in T
  BY <1>1
<1> HIDE DEF T
<1>3. PICK n \in Nat : n = Len(s)
  BY <1>1
<1>4. PICK a : a = Append(s, x)
  OBVIOUS
<1>5. a \in Seq(T) /\ Len(a) = n + 1 /\ a[n + 1] = x
  BY <1>2, <1>3, <1>4
<1>6. \A j \in 1..n : a[j] = s[j]
  BY <1>2, <1>3, <1>4
<1>7. DOMAIN s = 1..n /\ DOMAIN a = 1..(n + 1)
  BY <1>2, <1>3, <1>5
<1>8. Sequential(a)
  BY <1>5 DEF Sequential
<1>9. Appends(s, a, n, x)
  BY <1>3, <1>5, <1>6, <1>7, <1>8 DEF Appends
<1> QED BY <1>3, <1>4, <1>9

\* The events of rows.
Events(rs) == FlattenSeq([j \in DOMAIN rs |-> Unwrapped(rs[j])])

LEMMA UnwrappedIs ==
  ASSUME NEW r, Sequential(r)
  PROVE  Sequential(Unwrapped(r)) /\ DOMAIN Unwrapped(r) = DOMAIN r
<1>1. PICK u : u = Unwrapped(r)
  OBVIOUS
<1>2. u = [j \in DOMAIN r |-> u[j]]
  BY <1>1 DEF Unwrapped
<1> QED BY <1>1, <1>2, Mapped

LEMMA NothingJoined ==
  ASSUME NEW s, Sequential(s)
  PROVE  <<>> \o s = s
BY DEF Sequential

LEMMA NoEvents == Events(<<>>) = <<>>
<1>1. PICK e : e = [j \in DOMAIN <<>> |-> Unwrapped(<<>>[j])]
  OBVIOUS
<1>2. e = <<>>
  BY <1>1
<1>3. FlattenSeq(<<>>) = <<>>
  BY DEF FlattenSeq
<1> QED BY <1>1, <1>2, <1>3 DEF Events

LEMMA EventsMore ==
  ASSUME NEW rs, Sequential(rs), Sequential(Events(rs)), NEW r, Sequential(r)
  PROVE  /\ Events(Append(rs, r)) = Events(rs) \o Unwrapped(r)
         /\ Sequential(Events(Append(rs, r)))
<1>1. PICK S : rs \in Seq(S)
  BY DEF Sequential
<1>2. PICK n \in Nat : n = Len(rs) /\ DOMAIN rs = 1..n
  BY <1>1
<1>3. PICK ss : ss = [j \in DOMAIN rs |-> Unwrapped(rs[j])]
  OBVIOUS
<1>4. PICK u : u = Unwrapped(r)
  OBVIOUS
<1>5. Sequential(u)
  BY <1>4, UnwrappedIs
<1>6. PICK more : more = Append(rs, r)
  OBVIOUS
<1>7. DOMAIN more = 1..(n + 1) /\ more[n + 1] = r /\ \A j \in 1..n : more[j] = rs[j]
  <2> DEFINE T == S \cup {r}
  <2>1. rs \in Seq(T) /\ r \in T
    BY <1>1
  <2> HIDE DEF T
  <2> QED BY <1>2, <1>6, <2>1
<1>8. ss \in Seq({Unwrapped(rs[j]) : j \in 1..n}) /\ Len(ss) = n
  BY <1>2, <1>3
<1>9. PICK T : ss \in Seq(T)
  BY <1>8
<1>10. PICK t : t = [j \in DOMAIN more |-> Unwrapped(more[j])]
  OBVIOUS
<1>11. t = Append(ss, u)
  <2>1. DOMAIN t = 1..(n + 1) /\ t[n + 1] = u /\ \A j \in 1..n : t[j] = ss[j]
    BY <1>2, <1>3, <1>4, <1>7, <1>10
  <2>2. t = [j \in 1..(n + 1) |-> t[j]]
    BY <1>7, <1>10
  <2>3. PICK a : a = Append(ss, u)
    OBVIOUS
  <2>4. Sequential(ss)
    BY <1>9 DEF Sequential
  <2>5. /\ a = [j \in 1..(n + 1) |-> a[j]] /\ a[n + 1] = u
        /\ \A j \in 1..n : a[j] = ss[j]
    <3>1. n = Len(ss)
      BY <1>8
    <3>2. /\ Sequential(a) /\ DOMAIN a = 1..(n + 1) /\ a[n + 1] = u
          /\ \A j \in 1..n : a[j] = ss[j]
      BY <2>3, <2>4, <3>1, AppendedIs DEF Appends
    <3>3. a = [j \in DOMAIN a |-> a[j]]
      BY <3>2, Itself
    <3> QED BY <3>2, <3>3
  <2>6. \A j \in 1..(n + 1) : a[j] = t[j]
    <3>1. \A j \in 1..(n + 1) : j = n + 1 \/ j \in 1..n
      OBVIOUS
    <3> QED BY <2>1, <2>5, <3>1
  <2>7. a = t
    BY <2>2, <2>5, <2>6
  <2> QED BY <2>3, <2>7
<1>12. Events(more) = IF ss = <<>> THEN u ELSE Events(rs) \o u
  BY <1>3, <1>5, <1>9, <1>10, <1>11, FlatMore DEF Events
<1>13. CASE ss = <<>>
  <2>1. FlattenSeq(<<>>) = <<>>
    BY DEF FlattenSeq
  <2>2. Events(rs) = <<>>
    BY <1>3, <1>13, <2>1 DEF Events
  <2>3. Events(rs) \o u = u
    BY <1>5, <2>2, NothingJoined
  <2> QED BY <1>4, <1>5, <1>6, <1>12, <1>13, <2>3
<1>14. CASE ss # <<>>
  <2>1. Sequential(Events(rs) \o u)
    BY <1>5, ReducedThen
  <2> QED BY <1>4, <1>6, <1>12, <1>14, <2>1
<1> QED BY <1>13, <1>14

----------------------------------------------------------------------------
(* The row of the turn, and the events in it.                              *)

LEMMA AppendSame ==
  ASSUME NEW a, NEW b, NEW x, NEW y, Sequential(a), Sequential(b), Append(a, x) = Append(b, y)
  PROVE  a = b /\ x = y
<1>1. PICK t : t = Append(a, x) /\ t = Append(b, y)
  OBVIOUS
<1>2. PICK m \in Nat : m = Len(a) /\ Appends(a, t, m, x)
  BY <1>1, AppendedIs DEF Appends
<1>3. PICK n \in Nat : n = Len(b) /\ Appends(b, t, n, y)
  BY <1>1, AppendedIs DEF Appends
<1>4. m = n
  BY <1>2, <1>3 DEF Appends
<1>5. x = y
  BY <1>2, <1>3, <1>4 DEF Appends
<1>6. a = [j \in 1..n |-> a[j]] /\ b = [j \in 1..n |-> b[j]]
  BY <1>2, <1>3, <1>4, Itself DEF Appends
<1>7. \A j \in 1..n : a[j] = b[j]
  BY <1>2, <1>3, <1>4 DEF Appends
<1>8. a = b
  BY <1>6, <1>7
<1> QED BY <1>5, <1>8

IsEvent(e) == e = [f \in DOMAIN e |-> e[f]] /\ {"type", "text"} \subseteq DOMAIN e

\* The event that a row keeps by an entry.
Stands(w) == [w.event EXCEPT !.text = w.text]

LEMMA StandsIn ==
  ASSUME NEW r
  PROVE  /\ Unwrapped(r) = [j \in DOMAIN r |-> Unwrapped(r)[j]]
         /\ \A j \in DOMAIN r : Unwrapped(r)[j] = Stands(r[j])
BY DEF Unwrapped, Stands

LEMMA EventIsOne ==
  ASSUME NEW type, NEW text, NEW fields
  PROVE  IsEvent(Event(type, text, fields))
BY DEF IsEvent, Event

\* An entry of a row.
IsEntry(w) ==
  /\ DOMAIN w = {"type", "text", "event"}
  /\ w.type = Wrapped(w.event).type
  /\ IsEvent(w.event)

IsRow(r) == Sequential(r) /\ \A j \in DOMAIN r : IsEntry(r[j])

DeltaTypes == {"content_delta", "thinking_delta"}

\* Events that are stored one by one.
Apart(e) ==
  /\ IsEvent(e)
  /\ e.type \notin Transient \cup DeltaTypes
  /\ e.type = "user_message" => e.text # <<>>

LEMMA WrappedIs ==
  ASSUME NEW e, IsEvent(e)
  PROVE  /\ IsEntry(Wrapped(e)) /\ Wrapped(e).text = e.text /\ Wrapped(e).event = e
         /\ e.type \in Transient => Wrapped(e).type = "transient"
         /\ Apart(e) => Wrapped(e).type \in {"user", "other"} /\ (Wrapped(e).type = "user" => e.text # <<>>)
         /\ e.type \in DeltaTypes =>
              /\ Wrapped(e).type \in {"content", "thinking"}
              /\ \A d : Wrapped(d).type = Wrapped(e).type => d.type = e.type
<1>1. Wrapped(e).text = e.text /\ Wrapped(e).event = e /\ DOMAIN Wrapped(e) = {"type", "text", "event"}
  BY DEF Wrapped
<1>2. IsEntry(Wrapped(e))
  BY <1>1 DEF IsEntry
<1>3. e.type \in Transient => Wrapped(e).type = "transient"
  BY DEF Wrapped, Transient
<1>4. Apart(e) => Wrapped(e).type \in {"user", "other"} /\ (Wrapped(e).type = "user" => e.text # <<>>)
  BY DEF Wrapped, Apart, DeltaTypes
<1>5. e.type \in DeltaTypes =>
        /\ Wrapped(e).type \in {"content", "thinking"}
        /\ \A d : Wrapped(d).type = Wrapped(e).type => d.type = e.type
  BY DEF Wrapped, DeltaTypes, Transient
<1> QED BY <1>1, <1>2, <1>3, <1>4, <1>5

LEMMA Dropped ==
  ASSUME NEW r, NEW e, IsEvent(e), e.type \in Transient
  PROVE  Compacted(r, <<e>>) = r
<1>1. ~C!keeps(Wrapped(e))
  BY WrappedIs DEF C!keeps
<1> QED BY <1>1, CompactedOne DEF C!merge

\* An event that is put after those of a row.
LEMMA PutAfter ==
  ASSUME NEW r, IsRow(r), NEW e, IsEvent(e), NEW t, t = Append(r, Wrapped(e))
  PROVE  IsRow(t) /\ Unwrapped(t) = Append(Unwrapped(r), e)
<1>1. PICK w : w = Wrapped(e)
  OBVIOUS
<1>2. IsEntry(w) /\ w.text = e.text /\ w.event = e
  BY <1>1, WrappedIs
<1>3. PICK n \in Nat : n = Len(r) /\ Appends(r, t, n, w)
  BY <1>1, AppendedIs DEF IsRow, Appends
<1>4. \A j \in 1..(n + 1) : j = n + 1 \/ j \in 1..n
  OBVIOUS
<1>5. IsRow(t)
  BY <1>2, <1>3, <1>4 DEF IsRow, Appends
<1>6. PICK u : u = Unwrapped(r)
  OBVIOUS
<1>7. PICK v : v = Unwrapped(t)
  OBVIOUS
<1>8. u = [j \in 1..n |-> u[j]] /\ \A j \in 1..n : u[j] = Stands(r[j])
  BY <1>3, <1>6, StandsIn DEF Appends
<1>9. v = [j \in 1..(n + 1) |-> v[j]] /\ \A j \in 1..(n + 1) : v[j] = Stands(t[j])
  BY <1>3, <1>7, StandsIn DEF Appends
<1>10. v[n + 1] = e
  <2>1. n + 1 \in 1..(n + 1) /\ t[n + 1] = w
    BY <1>3 DEF Appends
  <2>2. v[n + 1] = [e EXCEPT !.text = e.text]
    <3>1. v[n + 1] = Stands(w)
      BY <1>9, <2>1
    <3> QED BY <1>2, <3>1 DEF Stands
  <2> QED BY <2>2 DEF IsEvent
<1>11. \A j \in 1..n : v[j] = u[j]
  <2>1. ASSUME NEW j \in 1..n PROVE j \in 1..(n + 1) /\ t[j] = r[j]
    BY <1>3 DEF Appends
  <2> QED BY <1>8, <1>9, <2>1
<1>12. PICK a : a = Append(u, e)
  OBVIOUS
<1>13. Sequential(u) /\ Len(u) = n
  <2>1. Sequential(u) /\ DOMAIN u = 1..n
    BY <1>3, <1>6, UnwrappedIs DEF IsRow, Appends
  <2>2. Sequential(r) /\ Len(r) = n /\ DOMAIN r = 1..n
    BY <1>3 DEF Appends
  <2> QED BY <2>1, <2>2 DEF Sequential
<1>14. Appends(u, a, n, e)
  BY <1>12, <1>13, AppendedIs
<1>15. a = [j \in 1..(n + 1) |-> a[j]]
  BY <1>14, Itself DEF Appends
<1>16. \A j \in 1..(n + 1) : a[j] = v[j]
  BY <1>4, <1>10, <1>11, <1>14 DEF Appends
<1>17. a = v
  BY <1>9, <1>15, <1>16
<1> QED BY <1>5, <1>6, <1>7, <1>12, <1>17

LEMMA StoredApart ==
  ASSUME NEW r, IsRow(r), NEW e, Apart(e), NEW t, t = Compacted(r, <<e>>)
  PROVE  IsRow(t) /\ Unwrapped(t) = Append(Unwrapped(r), e)
<1>1. IsEvent(e)
  BY DEF Apart
<1>2. C!keeps(Wrapped(e)) /\ Wrapped(e).type \notin C!Deltas
  BY <1>1, WrappedIs DEF C!keeps, C!Deltas
<1>3. t = Append(r, Wrapped(e))
  BY <1>2, CompactedOne DEF C!merge
<1> QED BY <1>1, <1>3, PutAfter

\* The last event of a row goes on.
Continues(r, t, e) ==
  \E F, d : /\ Sequential(F) /\ Unwrapped(r) = Append(F, d) /\ d.type = e.type
            /\ IsEvent(d) /\ Unwrapped(t) = Append(F, [d EXCEPT !.text = @ \o e.text])

LEMMA StoredDelta ==
  ASSUME NEW r, IsRow(r), NEW e, IsEvent(e), e.type \in DeltaTypes, NEW t, t = Compacted(r, <<e>>)
  PROVE  IsRow(t) /\ (Unwrapped(t) = Append(Unwrapped(r), e) \/ Continues(r, t, e))
<1>1. PICK w : w = Wrapped(e)
  OBVIOUS
<1>2. /\ w.type \in {"content", "thinking"} /\ w.text = e.text
      /\ \A d : Wrapped(d).type = w.type => d.type = e.type
  BY <1>1, WrappedIs
<1>3. C!keeps(w) /\ w.type \in C!Deltas
  BY <1>2 DEF C!keeps, C!Deltas
<1>4. t = IF r # <<>> /\ r[Len(r)].type = w.type THEN [r EXCEPT ![Len(r)].text = @ \o w.text]
          ELSE Append(r, w)
  BY <1>1, <1>3, CompactedOne, Zenon DEF C!merge, C!Last
<1>5. CASE ~(r # <<>> /\ r[Len(r)].type = w.type)
  <2>1. t = Append(r, Wrapped(e))
    BY <1>1, <1>4, <1>5
  <2> QED BY <2>1, PutAfter
<1>6. CASE r # <<>> /\ r[Len(r)].type = w.type
  <2>1. PICK S : r \in Seq(S)
    BY DEF IsRow, Sequential
  <2>2. PICK n \in Nat : n = Len(r) /\ n # 0 /\ DOMAIN r = 1..n
    BY <1>6, <2>1
  <2>3. PICK v : v = r[n]
    OBVIOUS
  <2>4. n \in 1..n /\ v.type = w.type /\ IsEntry(v)
    BY <1>6, <2>2, <2>3 DEF IsRow
  <2>5. PICK x : x = [v EXCEPT !.text = @ \o e.text]
    OBVIOUS
  <2>6. t = [r EXCEPT ![n] = x]
    BY <1>2, <1>4, <1>6, <2>2, <2>3, <2>5
  <2>7. IsEntry(x) /\ x.event = v.event /\ x.text = v.text \o e.text
    BY <2>4, <2>5 DEF IsEntry
  <2>8. /\ t = [j \in 1..n |-> t[j]] /\ t[n] = x
        /\ \A j \in 1..n : j # n => t[j] = r[j]
    BY <2>1, <2>2, <2>4, <2>6
  <2>9. t = [j \in DOMAIN r |-> t[j]] /\ Sequential(r)
    BY <2>2, <2>8 DEF IsRow
  <2>10. Sequential(t) /\ DOMAIN t = 1..n
    BY <2>2, <2>9, Mapped
  <2>11. IsRow(t)
    BY <2>2, <2>7, <2>8, <2>10 DEF IsRow
  <2>12. Continues(r, t, e)
    <3>1. PICK u : u = Unwrapped(r)
      OBVIOUS
    <3>2. PICK z : z = Unwrapped(t)
      OBVIOUS
    <3>3. u = [j \in 1..n |-> u[j]] /\ \A j \in 1..n : u[j] = Stands(r[j])
      BY <2>2, <3>1, StandsIn
    <3>4. z = [j \in 1..n |-> z[j]] /\ \A j \in 1..n : z[j] = Stands(t[j])
      BY <2>10, <3>2, StandsIn
    <3>5. PICK k \in Nat : n = k + 1
      BY <2>2
    <3>6. PICK F : F = [j \in 1..k |-> u[j]]
      OBVIOUS
    <3>7. /\ Sequential(F) /\ Len(F) = k /\ DOMAIN F = 1..k
          /\ \A j \in 1..k : F[j] = u[j] /\ j \in 1..n /\ j # n
      <4>1. F \in Seq({u[j] : j \in 1..k}) /\ Len(F) = k /\ DOMAIN F = 1..k
        BY <3>6
      <4>2. \A j \in 1..k : F[j] = u[j] /\ j \in 1..n /\ j # n
        BY <3>5, <3>6
      <4> QED BY <4>1, <4>2 DEF Sequential
    <3>8. PICK d : d = u[n]
      OBVIOUS
    <3>9. d = [v.event EXCEPT !.text = v.text] /\ z[n] = [v.event EXCEPT !.text = v.text \o e.text]
      <4>1. d = Stands(v) /\ z[n] = Stands(x)
        BY <2>3, <2>4, <2>8, <3>3, <3>4, <3>8
      <4> QED BY <2>7, <4>1 DEF Stands
    <3>10. IsEvent(v.event)
      BY <2>4 DEF IsEntry
    <3>11. IsEvent(d) /\ d.type = v.event.type /\ d.text = v.text
      BY <3>9, <3>10 DEF IsEvent
    <3>12. d.type = e.type
      BY <1>2, <2>4, <3>11 DEF IsEntry
    <3>13. PICK g : g = [d EXCEPT !.text = @ \o e.text]
      OBVIOUS
    <3>14. z[n] = g
      BY <3>9, <3>10, <3>11, <3>13 DEF IsEvent
    <3>15. \A j \in 1..k : z[j] = u[j]
      BY <2>8, <3>3, <3>4, <3>7
    <3>16. \A j \in 1..n : j = k + 1 \/ j \in 1..k
      BY <3>5
    <3>17. u = Append(F, d)
      <4>1. PICK a : a = Append(F, d)
        OBVIOUS
      <4>2. Appends(F, a, k, d)
        BY <3>7, <4>1, AppendedIs
      <4>3. a = [j \in 1..n |-> a[j]]
        BY <3>5, <4>2, Itself DEF Appends
      <4>4. \A j \in 1..n : a[j] = u[j]
        BY <3>5, <3>7, <3>8, <3>16, <4>2 DEF Appends
      <4> QED BY <3>3, <4>1, <4>3, <4>4
    <3>18. z = Append(F, g)
      <4>1. PICK a : a = Append(F, g)
        OBVIOUS
      <4>2. Appends(F, a, k, g)
        BY <3>7, <4>1, AppendedIs
      <4>3. a = [j \in 1..n |-> a[j]]
        BY <3>5, <4>2, Itself DEF Appends
      <4>4. \A j \in 1..n : a[j] = z[j]
        BY <3>5, <3>7, <3>14, <3>15, <3>16, <4>2 DEF Appends
      <4> QED BY <3>4, <4>1, <4>3, <4>4
    <3> QED BY <3>1, <3>2, <3>7, <3>11, <3>12, <3>13, <3>17, <3>18 DEF Continues
  <2> QED BY <2>11, <2>12
<1> QED BY <1>5, <1>6

----------------------------------------------------------------------------
(* Two states of which a reader sees the same.                             *)

\* But for activity, streaming and the answers to questions.
Agree(s, t) ==
  /\ DOMAIN s = Fields /\ DOMAIN t = Fields
  /\ t.messages = s.messages /\ t.currentMessage = s.currentMessage
  /\ t.toolCalls = s.toolCalls /\ t.hasActiveToolCalls = s.hasActiveToolCalls
  /\ t.original = s.original /\ t.continuationCount = s.continuationCount
  /\ t.tables = s.tables /\ t.charts = s.charts /\ t.dashboards = s.dashboards
  /\ t.artifacts = s.artifacts /\ t.todos = s.todos
  /\ t.sessionInfo = s.sessionInfo /\ t.subagents = s.subagents

\* t has the questions of s, and none is marked as answered.
Reasks(s, t) ==
  /\ DOMAIN t.questions = DOMAIN s.questions
  /\ \A x \in DOMAIN t.questions : t.questions[x] = FALSE

\* t is what a fold of the stored events makes, before it is marked.
Replays(s, t) == Agree(s, t) /\ Reasks(s, t)

Alters(s, t) == Agree(s, t) /\ t.questions = s.questions

LEMMA AltersTwice ==
  ASSUME NEW s, NEW t, NEW u, Alters(s, t), Alters(t, u)
  PROVE  Alters(s, u)
BY DEF Alters, Agree

LEMMA AltersLive ==
  ASSUME NEW s, NEW t, NEW u, Replays(s, u), Alters(s, t)
  PROVE  Replays(t, u)
BY DEF Alters, Agree, Replays, Reasks

LEMMA AltersStored ==
  ASSUME NEW s, NEW t, NEW u, Replays(s, t), Alters(t, u)
  PROVE  Replays(s, u)
BY DEF Alters, Agree, Replays, Reasks

\* The reducer's changes to messages, as functions of the messages.
Retooled(M, id, tools) ==
  [j \in DOMAIN M |-> IF M[j].id = id THEN [M[j] EXCEPT !.tools = tools] ELSE M[j]]
Retold(M, id, text) ==
  [j \in DOMAIN M |-> IF M[j].id = id THEN [M[j] EXCEPT !.text = text] ELSE M[j]]
Rethought(M, id, text) ==
  [j \in DOMAIN M |-> IF M[j].id = id THEN [M[j] EXCEPT !.thinking = text] ELSE M[j]]
Repathed(M, id, path) ==
  [j \in DOMAIN M |-> IF M[j].id = id THEN [M[j] EXCEPT !.paths = Append(@, path)] ELSE M[j]]
Restated(M, tool, status) == [j \in DOMAIN M |-> WithStatus(M[j], tool, status)]

Carries(M, id) == \E j \in DOMAIN M : M[j].id = id
Picked(M, id) == M[SelectInSeq(M, LAMBDA m : m.id = id)]
Lists(calls, tool) == \E j \in DOMAIN calls : calls[j].id = tool
Listed(calls, tool) == calls[CHOOSE j \in DOMAIN calls : calls[j].id = tool]

LEMMA Looks ==
  ASSUME NEW s, NEW x
  PROVE  /\ HasMessage(s, x) <=> Carries(s.messages, x)
         /\ Find(s, x) = Picked(s.messages, x)
         /\ HasTool(s, x) <=> Lists(s.toolCalls, x)
         /\ ToolCall(s, x) = Listed(s.toolCalls, x)
<1>1. HasMessage(s, x) <=> Carries(s.messages, x)
  BY DEF HasMessage, Carries
<1>2. Find(s, x) = Picked(s.messages, x)
  BY Zenon DEF Find, Picked
<1>3. HasTool(s, x) <=> Lists(s.toolCalls, x)
  BY DEF HasTool, Lists
<1>4. ToolCall(s, x) = Listed(s.toolCalls, x)
  BY Zenon DEF ToolCall, Listed
<1> QED BY <1>1, <1>2, <1>3, <1>4

LEMMA RefreshIs ==
  ASSUME NEW s
  PROVE  updateToolCallsOnMessages(s) =
           IF Open(s) THEN [s EXCEPT !.messages = Retooled(s.messages, s.currentMessage.id, s.toolCalls)]
           ELSE s
BY Zenon DEF updateToolCallsOnMessages, OnMessage, Retooled

LEMMA RetoldIs ==
  ASSUME NEW s, NEW id, NEW text
  PROVE  OnMessage(s, id, LAMBDA m : [m EXCEPT !.text = text]) =
           [s EXCEPT !.messages = Retold(s.messages, id, text)]
BY Zenon DEF OnMessage, Retold

LEMMA RethoughtIs ==
  ASSUME NEW s, NEW id, NEW text
  PROVE  OnMessage(s, id, LAMBDA m : [m EXCEPT !.thinking = text]) =
           [s EXCEPT !.messages = Rethought(s.messages, id, text)]
BY Zenon DEF OnMessage, Rethought

LEMMA RepathedIs ==
  ASSUME NEW s, NEW id, NEW path
  PROVE  OnMessage(s, id, LAMBDA m : [m EXCEPT !.paths = Append(@, path)]) =
           [s EXCEPT !.messages = Repathed(s.messages, id, path)]
BY Zenon DEF OnMessage, Repathed

LEMMA RestatedIs ==
  ASSUME NEW s, NEW tool, NEW status
  PROVE  updateToolInMessages(s, tool, status) =
           [s EXCEPT !.messages = Restated(s.messages, tool, status)]
BY Zenon DEF updateToolInMessages, Restated

\* The current message has the text; has the thinking.
WithContent(s, text) ==
  [[s EXCEPT !.activity = "writing", !.currentMessage.text = text] EXCEPT
     !.messages = Retold(s.messages, s.currentMessage.id, text)]
WithThinking(s, text) ==
  [[s EXCEPT !.activity = "thinking"] EXCEPT
     !.messages = Rethought(s.messages, s.currentMessage.id, text)]

\* What is thought so far.
Thoughts(M, id) == IF Carries(M, id) THEN Picked(M, id).thinking ELSE <<>>

LEMMA ContentIs ==
  ASSUME NEW s, DOMAIN s = Fields, NEW e, Open(s), ~s.hasActiveToolCalls
  PROVE  content_delta(s, e) = WithContent(s, s.currentMessage.text \o e.text)
<1>1. PICK text : text = s.currentMessage.text \o e.text
  OBVIOUS
<1>2. PICK u : u = [s EXCEPT !.activity = "writing", !.currentMessage.text = text]
  OBVIOUS
<1> DEFINE N == [j \in DOMAIN s.messages |->
                   IF s.messages[j].id = s.currentMessage.id
                     THEN [s.messages[j] EXCEPT !.text = text] ELSE s.messages[j]]
<1>3. u.messages = s.messages
  BY <1>2, FieldNames
<1>4. content_delta(s, e) = [u EXCEPT !.messages = N]
  BY <1>1, <1>2, <1>3 DEF content_delta, OnMessage
<1>5. N = Retold(s.messages, s.currentMessage.id, text)
  BY Zenon DEF Retold
<1> HIDE DEF N
<1> QED BY <1>1, <1>2, <1>4, <1>5, Zenon DEF WithContent

LEMMA ThinkingIs ==
  ASSUME NEW s, DOMAIN s = Fields, NEW e, Open(s)
  PROVE  thinking_delta(s, e) =
           WithThinking(s, Thoughts(s.messages, s.currentMessage.id) \o e.text)
<1>1. PICK text : text = Thoughts(s.messages, s.currentMessage.id) \o e.text
  OBVIOUS
<1>2. PICK u : u = [s EXCEPT !.activity = "thinking"]
  OBVIOUS
<1> DEFINE N == [j \in DOMAIN s.messages |->
                   IF s.messages[j].id = s.currentMessage.id
                     THEN [s.messages[j] EXCEPT !.thinking = text] ELSE s.messages[j]]
<1>3. u.messages = s.messages
  BY <1>2, FieldNames
<1>4. text = (IF HasMessage(s, s.currentMessage.id)
                THEN Find(s, s.currentMessage.id).thinking ELSE <<>>) \o e.text
  BY <1>1, Looks DEF Thoughts
<1>5. thinking_delta(s, e) = [u EXCEPT !.messages = N]
  BY <1>2, <1>3, <1>4 DEF thinking_delta, OnMessage
<1>6. N = Rethought(s.messages, s.currentMessage.id, text)
  BY Zenon DEF Rethought
<1> HIDE DEF N
<1> QED BY <1>1, <1>2, <1>5, <1>6, Zenon DEF WithThinking

LEMMA RefreshReplays ==
  ASSUME NEW s, NEW t, Replays(s, t)
  PROVE  Replays(updateToolCallsOnMessages(s), updateToolCallsOnMessages(t))
BY RefreshIs, FieldNames DEF Replays, Agree, Reasks, Open

LEMMA MessagesReplay ==
  ASSUME NEW s, NEW t, Replays(s, t), NEW M
  PROVE  Replays([s EXCEPT !.messages = M], [t EXCEPT !.messages = M])
BY FieldNames DEF Replays, Agree, Reasks

LEMMA ActivityReplays ==
  ASSUME NEW s, NEW t, Replays(s, t), NEW x, NEW y
  PROVE  Replays([s EXCEPT !.activity = x], [t EXCEPT !.activity = y])
BY FieldNames DEF Replays, Agree, Reasks

----------------------------------------------------------------------------
(* The reducer makes states alike of states alike.                         *)

LEMMA MessageStartReplays ==
  ASSUME NEW s, NEW t, Replays(s, t), NEW e
  PROVE  Replays(message_start(s, e), message_start(t, e))
BY FieldNames DEF Replays, Agree, Reasks, message_start, HasMessage

LEMMA ContentReplays ==
  ASSUME NEW s, NEW t, Replays(s, t), NEW e
  PROVE  Replays(content_delta(s, e), content_delta(t, e))
<1>0. /\ t.currentMessage = s.currentMessage /\ t.messages = s.messages
      /\ DOMAIN s = Fields /\ DOMAIN t = Fields /\ (Open(t) <=> Open(s))
      /\ t.hasActiveToolCalls = s.hasActiveToolCalls
  BY DEF Replays, Agree, Open
<1>1. CASE ~Open(s)
  BY <1>0, <1>1 DEF content_delta
<1>2. CASE Open(s) /\ s.hasActiveToolCalls
  <2>1. content_delta(s, e) = Split(s, e) /\ content_delta(t, e) = Split(t, e)
    BY <1>0, <1>2 DEF content_delta
  <2>2. Replays(Split(s, e), Split(t, e))
    BY FieldNames DEF Replays, Agree, Reasks, Split
  <2> QED BY <2>1, <2>2
<1>3. CASE Open(s) /\ ~s.hasActiveToolCalls
  <2>1. PICK text : text = s.currentMessage.text \o e.text /\ text = t.currentMessage.text \o e.text
    BY <1>0
  <2>2. content_delta(s, e) = WithContent(s, text) /\ content_delta(t, e) = WithContent(t, text)
    BY <1>0, <1>3, <2>1, ContentIs
  <2>3. Replays(WithContent(s, text), WithContent(t, text))
    BY FieldNames DEF Replays, Agree, Reasks, WithContent
  <2> QED BY <2>2, <2>3
<1> QED BY <1>1, <1>2, <1>3

LEMMA ThinkingReplays ==
  ASSUME NEW s, NEW t, Replays(s, t), NEW e
  PROVE  Replays(thinking_delta(s, e), thinking_delta(t, e))
<1>0. /\ t.currentMessage = s.currentMessage /\ t.messages = s.messages
      /\ DOMAIN s = Fields /\ DOMAIN t = Fields /\ (Open(t) <=> Open(s))
  BY DEF Replays, Agree, Open
<1>1. CASE ~Open(s)
  BY <1>0, <1>1 DEF thinking_delta
<1>2. CASE Open(s)
  <2>1. PICK text : /\ text = Thoughts(s.messages, s.currentMessage.id) \o e.text
                    /\ text = Thoughts(t.messages, t.currentMessage.id) \o e.text
    BY <1>0
  <2>2. thinking_delta(s, e) = WithThinking(s, text) /\ thinking_delta(t, e) = WithThinking(t, text)
    BY <1>0, <1>2, <2>1, ThinkingIs
  <2>3. Replays(WithThinking(s, text), WithThinking(t, text))
    BY FieldNames DEF Replays, Agree, Reasks, WithThinking
  <2> QED BY <2>2, <2>3
<1> QED BY <1>1, <1>2

LEMMA StartReplays ==
  ASSUME NEW s, NEW t, Replays(s, t), NEW e
  PROVE  Replays(tool_use_start(s, e), tool_use_start(t, e))
<1>1. PICK calls : calls = SetById(s.toolCalls, [id |-> e.tool, name |-> e.name, status |-> "running"])
  OBVIOUS
<1>2. calls = SetById(t.toolCalls, [id |-> e.tool, name |-> e.name, status |-> "running"])
  BY <1>1 DEF Replays, Agree
<1>3. PICK u : u = [s EXCEPT !.hasActiveToolCalls = TRUE, !.toolInput = <<>>,
                             !.activity = "tool", !.toolCalls = calls]
  OBVIOUS
<1>4. PICK v : v = [t EXCEPT !.hasActiveToolCalls = TRUE, !.toolInput = <<>>,
                             !.activity = "tool", !.toolCalls = calls]
  OBVIOUS
<1>5. Replays(u, v)
  BY <1>3, <1>4, FieldNames DEF Replays, Agree, Reasks
<1>6. tool_use_start(s, e) = updateToolCallsOnMessages(u)
  BY <1>1, <1>3, Zenon DEF tool_use_start
<1>7. tool_use_start(t, e) = updateToolCallsOnMessages(v)
  BY <1>2, <1>4, Zenon DEF tool_use_start
<1> QED BY <1>5, <1>6, <1>7, RefreshReplays

LEMMA SearchReplays ==
  ASSUME NEW s, NEW t, Replays(s, t), NEW e, NEW name
  PROVE  Replays(SelfParse(s, e, name), SelfParse(t, e, name))
<1>1. CASE e.isError
  BY <1>1 DEF SelfParse
<1>2. CASE ~e.isError /\ name = "ask" /\ e.marked
  BY <1>2, FieldNames DEF SelfParse, Replays, Agree, Reasks, Put
<1>3. CASE ~e.isError /\ ~(name = "ask" /\ e.marked)
  BY <1>3, FieldNames DEF SelfParse, Replays, Agree, Reasks
<1> QED BY <1>1, <1>2, <1>3

LEMMA EndReplays ==
  ASSUME NEW s, NEW t, Replays(s, t), NEW e
  PROVE  Replays(tool_use_end(s, e), tool_use_end(t, e))
<1>1. PICK status : status = IF e.isError THEN "error" ELSE "complete"
  OBVIOUS
<1>2. (HasTool(t, e.tool) <=> HasTool(s, e.tool)) /\ ToolCall(t, e.tool) = ToolCall(s, e.tool)
  BY Looks DEF Replays, Agree
<1>3. CASE ~HasTool(s, e.tool)
  <2>1. tool_use_end(s, e) = [s EXCEPT !.messages = Restated(s.messages, e.tool, status)]
    BY <1>1, <1>3, RestatedIs DEF tool_use_end
  <2>2. tool_use_end(t, e) = [t EXCEPT !.messages = Restated(t.messages, e.tool, status)]
    BY <1>1, <1>2, <1>3, RestatedIs DEF tool_use_end
  <2>3. t.messages = s.messages
    BY DEF Replays, Agree
  <2> QED BY <2>1, <2>2, <2>3, MessagesReplay
<1>4. CASE HasTool(s, e.tool)
  <2>1. PICK calls : calls = SetById(s.toolCalls, [ToolCall(s, e.tool) EXCEPT !.status = status])
    OBVIOUS
  <2>2. calls = SetById(t.toolCalls, [ToolCall(t, e.tool) EXCEPT !.status = status])
    BY <1>2, <2>1 DEF Replays, Agree
  <2>3. PICK u : u = updateToolCallsOnMessages([s EXCEPT !.toolCalls = calls])
    OBVIOUS
  <2>4. PICK v : v = updateToolCallsOnMessages([t EXCEPT !.toolCalls = calls])
    OBVIOUS
  <2>5. Replays([s EXCEPT !.toolCalls = calls], [t EXCEPT !.toolCalls = calls])
    BY FieldNames DEF Replays, Agree, Reasks
  <2>6. Replays(u, v)
    BY <2>3, <2>4, <2>5, RefreshReplays
  <2>7. \E x : tool_use_end(s, e) = SelfParse([u EXCEPT !.activity = x], e, ToolCall(s, e.tool).name)
    BY <1>1, <1>4, <2>1, <2>3, Zenon DEF tool_use_end
  <2>8. \E y : tool_use_end(t, e) = SelfParse([v EXCEPT !.activity = y], e, ToolCall(t, e.tool).name)
    BY <1>1, <1>2, <1>4, <2>2, <2>4, Zenon DEF tool_use_end
  <2> QED BY <1>2, <2>6, <2>7, <2>8, ActivityReplays, SearchReplays
<1> QED BY <1>3, <1>4

LEMMA RegisterReplays ==
  ASSUME NEW s, NEW t, Replays(s, t), NEW e
  PROVE  Replays(artifact_registered(s, e), artifact_registered(t, e))
<1>1. PICK a : a = SetById(s.artifacts, [id |-> e.path, kind |-> e.kind, status |-> "live"])
  OBVIOUS
<1>2. a = SetById(t.artifacts, [id |-> e.path, kind |-> e.kind, status |-> "live"])
  BY <1>1 DEF Replays, Agree
<1>3. PICK u : u = [s EXCEPT !.artifacts = a]
  OBVIOUS
<1>4. PICK v : v = [t EXCEPT !.artifacts = a]
  OBVIOUS
<1>5. Replays(u, v) /\ u.messages = s.messages /\ v.messages = s.messages
  BY <1>3, <1>4, FieldNames DEF Replays, Agree, Reasks
<1>6. t.currentMessage = s.currentMessage /\ (Open(t) <=> Open(s))
  BY DEF Replays, Agree, Open
<1>7. PICK id : id = s.currentMessage.id
  OBVIOUS
<1>8. CASE Open(s)
  <2>1. artifact_registered(s, e) =
          OnMessage(u, id, LAMBDA m : [m EXCEPT !.paths = Append(@, e.path)])
    BY <1>1, <1>3, <1>7, <1>8, Zenon DEF artifact_registered
  <2>2. artifact_registered(t, e) =
          OnMessage(v, id, LAMBDA m : [m EXCEPT !.paths = Append(@, e.path)])
    BY <1>2, <1>4, <1>6, <1>7, <1>8, Zenon DEF artifact_registered
  <2>3. PICK path : path = e.path
    OBVIOUS
  <2>4. artifact_registered(s, e) = [u EXCEPT !.messages = Repathed(u.messages, id, path)]
    BY <2>1, <2>3, RepathedIs, Zenon
  <2>5. artifact_registered(t, e) = [v EXCEPT !.messages = Repathed(v.messages, id, path)]
    BY <2>2, <2>3, RepathedIs, Zenon
  <2> QED BY <1>5, <2>4, <2>5, MessagesReplay
<1>9. CASE ~Open(s)
  BY <1>1, <1>2, <1>3, <1>4, <1>5, <1>6, <1>9 DEF artifact_registered
<1> QED BY <1>8, <1>9

LEMMA CompleteReplays ==
  ASSUME NEW s, NEW t, Replays(s, t), NEW e
  PROVE  Replays(query_complete(s, e), query_complete(t, e))
<1>1. PICK u : u = [s EXCEPT !.isStreaming = FALSE, !.activity = "none"]
  OBVIOUS
<1>2. PICK v : v = [t EXCEPT !.isStreaming = FALSE, !.activity = "none"]
  OBVIOUS
<1>3. Replays(u, v) /\ u.messages = v.messages
  BY <1>1, <1>2, FieldNames DEF Replays, Agree, Reasks
<1>4. PICK shows \in BOOLEAN : shows <=>
        e.text # <<>> /\ ~Open(s) /\ ~\E j \in DOMAIN s.messages :
                                         s.messages[j].role = "assistant" /\ s.messages[j].text # <<>>
  OBVIOUS
<1>5. shows <=>
        e.text # <<>> /\ ~Open(t) /\ ~\E j \in DOMAIN t.messages :
                                         t.messages[j].role = "assistant" /\ t.messages[j].text # <<>>
  BY <1>4 DEF Replays, Agree, Open
<1>6. PICK m : m = Message(e.id, "assistant", e.text)
  OBVIOUS
<1>7. query_complete(s, e) = IF shows THEN [u EXCEPT !.messages = Append(u.messages, m)] ELSE u
  BY <1>1, <1>4, <1>6 DEF query_complete
<1>8. query_complete(t, e) = IF shows THEN [v EXCEPT !.messages = Append(v.messages, m)] ELSE v
  BY <1>2, <1>5, <1>6 DEF query_complete
<1>9. CASE shows
  <2>1. PICK M : M = Append(u.messages, m)
    OBVIOUS
  <2>2. /\ query_complete(s, e) = [u EXCEPT !.messages = M]
        /\ query_complete(t, e) = [v EXCEPT !.messages = M]
    BY <1>3, <1>7, <1>8, <1>9, <2>1
  <2> QED BY <1>3, <2>2, MessagesReplay
<1>10. CASE ~shows
  BY <1>3, <1>7, <1>8, <1>10
<1> QED BY <1>9, <1>10

LEMMA OthersReplay ==
  ASSUME NEW s, NEW t, Replays(s, t), NEW e,
         e.type \in {"message_end", "table_rendered", "chart_rendered", "ask_user",
                     "dashboard_created", "session_info", "subagent_event", "error"}
  PROVE  Replays(agentEventReducer(s, e), agentEventReducer(t, e))
<1> USE FieldNames DEF agentEventReducer, Replays, Agree, Reasks
<1>1. CASE e.type = "message_end"
  BY <1>1 DEF message_end
<1>2. CASE e.type = "table_rendered"
  BY <1>2
<1>3. CASE e.type = "chart_rendered"
  BY <1>3
<1>4. CASE e.type = "ask_user"
  BY <1>4, ZenonT(40) DEF ask_user, Put
<1>5. CASE e.type = "dashboard_created"
  BY <1>5 DEF dashboard_created
<1>6. CASE e.type = "session_info"
  BY <1>6 DEF session_info
<1>7. CASE e.type = "subagent_event"
  BY <1>7 DEF subagent_event
<1>8. CASE e.type = "error"
  BY <1>8, ZenonT(40) DEF error
<1> QED BY <1>1, <1>2, <1>3, <1>4, <1>5, <1>6, <1>7, <1>8

\* Events of a turn that are stored.
TurnTypes ==
  {"message_start", "content_delta", "thinking_delta", "tool_use_start", "tool_use_end",
   "artifact_registered", "query_complete", "message_end", "table_rendered", "chart_rendered",
   "ask_user", "dashboard_created", "session_info", "subagent_event", "error"}

LEMMA EventReplays ==
  ASSUME NEW s, NEW t, Replays(s, t), NEW e, e.type \in TurnTypes
  PROVE  Replays(agentEventReducer(s, e), agentEventReducer(t, e))
<1>1. CASE e.type = "message_start"
  BY <1>1, Arms, MessageStartReplays
<1>2. CASE e.type = "content_delta"
  BY <1>2, Arms, ContentReplays
<1>3. CASE e.type = "thinking_delta"
  BY <1>3, Arms, ThinkingReplays
<1>4. CASE e.type = "tool_use_start"
  BY <1>4, Arms, StartReplays
<1>5. CASE e.type = "tool_use_end"
  BY <1>5, Arms, EndReplays
<1>6. CASE e.type = "artifact_registered"
  BY <1>6, Arms, RegisterReplays
<1>7. CASE e.type = "query_complete"
  BY <1>7, Arms, CompleteReplays
<1>8. CASE e.type \in {"message_end", "table_rendered", "chart_rendered", "ask_user",
                       "dashboard_created", "session_info", "subagent_event", "error"}
  BY <1>8, OthersReplay
<1> QED BY <1>1, <1>2, <1>3, <1>4, <1>5, <1>6, <1>7, <1>8 DEF TurnTypes

\* Messages have their fields and nothing else.
Proper(s) ==
  /\ Sequential(s.messages)
  /\ \A j \in DOMAIN s.messages : s.messages[j] = [f \in MessageFields |-> s.messages[j][f]]

\* Refreshing shows nothing new.
LEMMA RefreshAlters ==
  ASSUME NEW s, DOMAIN s = Fields, Proper(s), Coherent(s)
  PROVE  Alters(s, updateToolCallsOnMessages(s))
<1>1. CASE ~Open(s)
  BY <1>1, RefreshIs DEF Alters, Agree
<1>2. CASE Open(s)
  <2>1. PICK M : M = Retooled(s.messages, s.currentMessage.id, s.toolCalls)
    OBVIOUS
  <2>2. \A j \in DOMAIN s.messages : M[j] = s.messages[j]
    <3>1. ASSUME NEW j \in DOMAIN s.messages PROVE M[j] = s.messages[j]
      <4>1. PICK m : m = s.messages[j]
        OBVIOUS
      <4>2. m = [f \in MessageFields |-> m[f]]
        BY <4>1 DEF Proper
      <4>3. M[j] = IF m.id = s.currentMessage.id THEN [m EXCEPT !.tools = s.toolCalls] ELSE m
        BY <2>1, <4>1 DEF Retooled
      <4>4. m.id = s.currentMessage.id => m.tools = s.toolCalls
        BY <4>1 DEF Coherent
      <4>5. m.id = s.currentMessage.id => [m EXCEPT !.tools = s.toolCalls] = m
        BY <4>2, <4>4 DEF MessageFields
      <4> QED BY <4>1, <4>3, <4>5
    <3> QED BY <3>1
  <2>3. M = [j \in DOMAIN s.messages |-> M[j]]
    BY <2>1 DEF Retooled
  <2>4. s.messages = [j \in DOMAIN s.messages |-> s.messages[j]]
    BY Itself DEF Proper
  <2>5. M = s.messages
    BY <2>2, <2>3, <2>4
  <2>6. updateToolCallsOnMessages(s) = [s EXCEPT !.messages = M]
    BY <1>2, <2>1, RefreshIs
  <2> QED BY <2>5, <2>6, FieldNames DEF Alters, Agree
<1> QED BY <1>1, <1>2

\* Transient events.
PassTypes == {"activity_update", "tool_input_delta", "system_status", "tool_progress", "hook_event"}

LEMMA PassAlters ==
  ASSUME NEW s, DOMAIN s = Fields, Proper(s), Coherent(s), NEW e, e.type \in PassTypes
  PROVE  Alters(s, agentEventReducer(s, e))
<1> USE FieldNames
<1>1. CASE e.type = "activity_update"
  BY <1>1 DEF agentEventReducer, Alters, Agree, activity_update
<1>2. CASE e.type = "tool_input_delta"
  BY <1>2 DEF agentEventReducer, Alters, Agree, tool_input_delta
<1>3. CASE e.type = "system_status"
  BY <1>3 DEF agentEventReducer, Alters, Agree, system_status
<1>4. Alters(s, s)
  BY DEF Alters, Agree
<1>5. CASE e.type = "tool_progress"
  BY <1>4, <1>5, Arms, RefreshAlters DEF tool_progress
<1>6. CASE e.type = "hook_event"
  <2>1. PICK t : t = IF HasTool(s, e.tool) THEN updateToolCallsOnMessages(s) ELSE s
    OBVIOUS
  <2>2. Alters(s, t)
    BY <1>4, <2>1, RefreshAlters
  <2>3. Alters(t, [t EXCEPT !.activity = "thinking"])
    BY <2>2 DEF Alters, Agree
  <2>4. agentEventReducer(s, e) = t \/ agentEventReducer(s, e) = [t EXCEPT !.activity = "thinking"]
    BY <1>6, <2>1, Arms DEF hook_event
  <2> QED BY <2>2, <2>3, <2>4, AltersTwice
<1> QED BY <1>1, <1>2, <1>3, <1>5, <1>6 DEF PassTypes

----------------------------------------------------------------------------
(* Two deltas are one with the text of both.                               *)

LEMMA Joining ==
  ASSUME NEW a \in Seq(Nat), NEW b \in Seq(Nat), NEW c \in Seq(Nat)
  PROVE  (a \o b) \o c = a \o (b \o c)
OBVIOUS

\* What a delta goes on with is there, and the next part of it is not.
Ready(s) ==
  /\ WithText(s) /\ Legible(s) /\ Open(s) /\ OneCurrent(s)
  /\ DOMAIN s.currentMessage = {"id", "text"} /\ s.currentMessage.text \in Seq(Nat)
  /\ LET id == Continuation(s.original, s.continuationCount + 1)
     IN id # NoId /\ \A j \in DOMAIN s.messages : s.messages[j].id # id

Fielded(M) == \A j \in DOMAIN M : DOMAIN M[j] = MessageFields

LEMMA RetoldTwice ==
  ASSUME NEW M, Fielded(M), NEW id, NEW x, NEW y
  PROVE  Retold(Retold(M, id, x), id, y) = Retold(M, id, y)
<1>1. PICK N : N = Retold(M, id, x)
  OBVIOUS
<1>2. /\ DOMAIN N = DOMAIN M
      /\ \A j \in DOMAIN M : N[j] = IF M[j].id = id THEN [M[j] EXCEPT !.text = x] ELSE M[j]
  BY <1>1 DEF Retold
<1>3. ASSUME NEW j \in DOMAIN M
      PROVE  (IF N[j].id = id THEN [N[j] EXCEPT !.text = y] ELSE N[j]) =
             (IF M[j].id = id THEN [M[j] EXCEPT !.text = y] ELSE M[j])
  <2>1. PICK m : m = M[j] /\ DOMAIN m = MessageFields
    BY DEF Fielded
  <2>2. CASE m.id = id
    <3>1. N[j] = [m EXCEPT !.text = x]
      BY <1>2, <2>1, <2>2
    <3>2. N[j].id = id /\ [N[j] EXCEPT !.text = y] = [m EXCEPT !.text = y]
      BY <2>1, <2>2, <3>1 DEF MessageFields
    <3> QED BY <2>1, <2>2, <3>2
  <2>3. CASE m.id # id
    BY <1>2, <2>1, <2>3
  <2> QED BY <2>2, <2>3
<1>4. Retold(N, id, y) = Retold(M, id, y)
  BY <1>2, <1>3 DEF Retold
<1> QED BY <1>1, <1>4

LEMMA RethoughtTwice ==
  ASSUME NEW M, Fielded(M), NEW id, NEW x, NEW y
  PROVE  Rethought(Rethought(M, id, x), id, y) = Rethought(M, id, y)
<1>1. PICK N : N = Rethought(M, id, x)
  OBVIOUS
<1>2. /\ DOMAIN N = DOMAIN M
      /\ \A j \in DOMAIN M : N[j] = IF M[j].id = id THEN [M[j] EXCEPT !.thinking = x] ELSE M[j]
  BY <1>1 DEF Rethought
<1>3. ASSUME NEW j \in DOMAIN M
      PROVE  (IF N[j].id = id THEN [N[j] EXCEPT !.thinking = y] ELSE N[j]) =
             (IF M[j].id = id THEN [M[j] EXCEPT !.thinking = y] ELSE M[j])
  <2>1. PICK m : m = M[j] /\ DOMAIN m = MessageFields
    BY DEF Fielded
  <2>2. CASE m.id = id
    <3>1. N[j] = [m EXCEPT !.thinking = x]
      BY <1>2, <2>1, <2>2
    <3>2. N[j].id = id /\ [N[j] EXCEPT !.thinking = y] = [m EXCEPT !.thinking = y]
      BY <2>1, <2>2, <3>1 DEF MessageFields
    <3> QED BY <2>1, <2>2, <3>2
  <2>3. CASE m.id # id
    BY <1>2, <2>1, <2>3
  <2> QED BY <2>2, <2>3
<1>4. Rethought(N, id, y) = Rethought(M, id, y)
  BY <1>2, <1>3 DEF Rethought
<1> QED BY <1>1, <1>4

\* In the message under way.
LEMMA ContentTwice ==
  ASSUME NEW s, Ready(s), ~s.hasActiveToolCalls, NEW d, NEW e, NEW g,
         d.text \in Seq(Nat), e.text \in Seq(Nat), g.text = d.text \o e.text
  PROVE  Alters(content_delta(content_delta(s, d), e), content_delta(s, g))
<1>1. DOMAIN s = Fields /\ Open(s) /\ \A j \in DOMAIN s.messages : DOMAIN s.messages[j] = MessageFields
  BY DEF Ready, WithText
<1>2. PICK x \in Seq(Nat) : x = s.currentMessage.text
  BY DEF Ready
<1>3. PICK y \in Seq(Nat) : y = x \o d.text
  BY Concatenated
<1>4. PICK t : t = WithContent(s, y)
  OBVIOUS
<1>5. content_delta(s, d) = t
  BY <1>1, <1>2, <1>3, <1>4, ContentIs
<1>6. PICK M : M = Retold(s.messages, s.currentMessage.id, y)
  OBVIOUS
<1>7. /\ DOMAIN t = Fields /\ t.messages = M
      /\ t.currentMessage = [s.currentMessage EXCEPT !.text = y]
      /\ t.toolCalls = s.toolCalls /\ t.hasActiveToolCalls = s.hasActiveToolCalls
      /\ t.original = s.original /\ t.continuationCount = s.continuationCount
      /\ t.tables = s.tables /\ t.charts = s.charts /\ t.dashboards = s.dashboards
      /\ t.artifacts = s.artifacts /\ t.todos = s.todos /\ t.questions = s.questions
      /\ t.sessionInfo = s.sessionInfo /\ t.subagents = s.subagents
  BY <1>1, <1>4, <1>6, FieldNames DEF WithContent
<1>8. t.currentMessage.id = s.currentMessage.id /\ t.currentMessage.text = y /\ Open(t)
  BY <1>1, <1>7 DEF Ready, Open
<1>9. PICK z : z = y \o e.text
  OBVIOUS
<1>10. content_delta(t, e) = WithContent(t, z)
  BY <1>7, <1>8, <1>9, ContentIs
<1>11. content_delta(s, g) = WithContent(s, z)
  <2>1. s.currentMessage.text \o g.text = z
    <3>1. PICK a \in Seq(Nat) : a = d.text
      OBVIOUS
    <3>2. PICK b \in Seq(Nat) : b = e.text
      OBVIOUS
    <3>3. (x \o a) \o b = x \o (a \o b)
      BY Joining, ZenonT(40)
    <3> QED BY <1>2, <1>3, <1>9, <3>1, <3>2, <3>3
  <2> QED BY <1>1, <2>1, ContentIs
<1>12. Retold(t.messages, t.currentMessage.id, z) = Retold(s.messages, s.currentMessage.id, z)
  <2>1. PICK N : N = s.messages
    OBVIOUS
  <2>2. PICK id : id = s.currentMessage.id
    OBVIOUS
  <2>3. Retold(Retold(N, id, y), id, z) = Retold(N, id, z)
    <3>1. Fielded(N)
      BY <1>1, <2>1 DEF Fielded
    <3> QED BY <3>1, RetoldTwice
  <2> QED BY <1>6, <1>7, <1>8, <2>1, <2>2, <2>3
<1>13. [t.currentMessage EXCEPT !.text = z] = [s.currentMessage EXCEPT !.text = z]
  BY <1>7 DEF Ready
<1>14. Alters(WithContent(t, z), WithContent(s, z))
  BY <1>1, <1>7, <1>12, <1>13, FieldNames DEF WithContent, Alters, Agree
<1> QED BY <1>5, <1>10, <1>11, <1>14

\* In a message that the first of them begins.
LEMMA SplitTwice ==
  ASSUME NEW s, Ready(s), s.hasActiveToolCalls, NEW d, NEW e, NEW g,
         d.text \in Seq(Nat), e.text \in Seq(Nat), g.text = d.text \o e.text
  PROVE  Alters(content_delta(content_delta(s, d), e), content_delta(s, g))
<1>1. DOMAIN s = Fields /\ Open(s) /\ \A j \in DOMAIN s.messages : DOMAIN s.messages[j] = MessageFields
  BY DEF Ready, WithText
<1>2. PICK id : id = Continuation(s.original, s.continuationCount + 1)
  OBVIOUS
<1>3. id # NoId /\ \A j \in DOMAIN s.messages : s.messages[j].id # id
  BY <1>2 DEF Ready
<1>4. PICK x : x = d.text
  OBVIOUS
<1>5. PICK z : z = x \o e.text /\ z = g.text
  BY <1>4
<1>6. PICK M : M = Append(s.messages, Message(id, "assistant", x))
  OBVIOUS
<1>7. PICK N : N = Append(s.messages, Message(id, "assistant", z))
  OBVIOUS
<1>8. PICK t : t = [s EXCEPT !.activity = "writing", !.continuationCount = @ + 1,
                             !.currentMessage = [id |-> id, text |-> x],
                             !.toolCalls = <<>>, !.hasActiveToolCalls = FALSE, !.messages = M]
  OBVIOUS
<1>9. content_delta(s, d) = t
  BY <1>1, <1>2, <1>4, <1>6, <1>8 DEF content_delta, Split
<1>10. content_delta(s, g) =
         [s EXCEPT !.activity = "writing", !.continuationCount = @ + 1,
                   !.currentMessage = [id |-> id, text |-> z],
                   !.toolCalls = <<>>, !.hasActiveToolCalls = FALSE, !.messages = N]
  BY <1>1, <1>2, <1>5, <1>7 DEF content_delta, Split
<1>11. /\ DOMAIN t = Fields /\ t.messages = M /\ t.currentMessage = [id |-> id, text |-> x]
       /\ t.hasActiveToolCalls = FALSE /\ Open(t)
  BY <1>1, <1>3, <1>8, FieldNames DEF Open
<1>12. content_delta(t, e) = WithContent(t, z)
  <2>1. t.currentMessage.text \o e.text = z
    <3>1. t.currentMessage.text = x
      BY <1>11
    <3> QED BY <1>5, <3>1
  <2> QED BY <1>11, <2>1, ContentIs
<1>13. Retold(M, id, z) = N
  <2>1. Sequential(s.messages)
    BY DEF Ready, WithText
  <2>2. PICK n \in Nat : n = Len(s.messages) /\ Appends(s.messages, M, n, Message(id, "assistant", x))
    <3>1. PICK m : m = Message(id, "assistant", x)
      OBVIOUS
    <3>2. Appends(s.messages, M, Len(s.messages), m)
      BY <1>6, <2>1, <3>1, AppendedIs
    <3> QED BY <3>1, <3>2 DEF Appends
  <2>3. Appends(s.messages, N, n, Message(id, "assistant", z))
    <3>1. PICK m : m = Message(id, "assistant", z)
      OBVIOUS
    <3> QED BY <1>7, <2>1, <2>2, <3>1, AppendedIs
  <2>4. [Message(id, "assistant", x) EXCEPT !.text = z] = Message(id, "assistant", z)
    BY DEF Message
  <2>5. Message(id, "assistant", x).id = id
    BY DEF Message
  <2>6. PICK R : R = Retold(M, id, z)
    OBVIOUS
  <2>7. R[n + 1] = N[n + 1] /\ n + 1 \in 1..(n + 1)
    <3>1. n + 1 \in DOMAIN M /\ M[n + 1] = Message(id, "assistant", x)
      BY <2>2 DEF Appends
    <3>2. R[n + 1] = [M[n + 1] EXCEPT !.text = z]
      BY <2>5, <2>6, <3>1 DEF Retold
    <3> QED BY <2>2, <2>3, <2>4, <3>1, <3>2 DEF Appends
  <2>8. ASSUME NEW j \in 1..n PROVE R[j] = N[j]
    <3>0. j \in DOMAIN s.messages /\ j \in 1..(n + 1)
      BY <2>2 DEF Appends
    <3>1. j \in DOMAIN M /\ M[j] = s.messages[j] /\ N[j] = s.messages[j] /\ s.messages[j].id # id
      BY <1>3, <2>2, <2>3, <3>0 DEF Appends
    <3> QED BY <2>6, <3>1 DEF Retold
  <2>9. \A j \in 1..(n + 1) : j = n + 1 \/ j \in 1..n
    OBVIOUS
  <2>10. \A j \in 1..(n + 1) : R[j] = N[j]
    BY <2>7, <2>8, <2>9
  <2>11. R = [j \in 1..(n + 1) |-> R[j]]
    BY <2>2, <2>6 DEF Retold, Appends
  <2>12. N = [j \in 1..(n + 1) |-> N[j]]
    BY <2>3, Itself DEF Appends
  <2> QED BY <2>6, <2>10, <2>11, <2>12
<1>14. [t.currentMessage EXCEPT !.text = z] = [id |-> id, text |-> z]
  BY <1>11
<1>15. Alters(WithContent(t, z), content_delta(s, g))
  <2>1. Retold(t.messages, t.currentMessage.id, z) = N
    BY <1>11, <1>13
  <2>2. PICK c : c = content_delta(s, g)
    OBVIOUS
  <2>3. PICK v : v = WithContent(t, z)
    OBVIOUS
  <2>4. /\ DOMAIN c = Fields /\ c.messages = N /\ c.currentMessage = [id |-> id, text |-> z]
        /\ c.toolCalls = <<>> /\ c.hasActiveToolCalls = FALSE
        /\ c.original = s.original /\ c.continuationCount = s.continuationCount + 1
        /\ c.tables = s.tables /\ c.charts = s.charts /\ c.dashboards = s.dashboards
        /\ c.artifacts = s.artifacts /\ c.todos = s.todos /\ c.questions = s.questions
        /\ c.sessionInfo = s.sessionInfo /\ c.subagents = s.subagents
    BY <1>1, <1>10, <2>2, FieldNames
  <2>5. /\ t.toolCalls = <<>> /\ t.hasActiveToolCalls = FALSE
        /\ t.original = s.original /\ t.continuationCount = s.continuationCount + 1
        /\ t.tables = s.tables /\ t.charts = s.charts /\ t.dashboards = s.dashboards
        /\ t.artifacts = s.artifacts /\ t.todos = s.todos /\ t.questions = s.questions
        /\ t.sessionInfo = s.sessionInfo /\ t.subagents = s.subagents
    BY <1>1, <1>8, FieldNames
  <2>6. /\ DOMAIN v = Fields /\ v.messages = N /\ v.currentMessage = [id |-> id, text |-> z]
        /\ v.toolCalls = t.toolCalls /\ v.hasActiveToolCalls = t.hasActiveToolCalls
        /\ v.original = t.original /\ v.continuationCount = t.continuationCount
        /\ v.tables = t.tables /\ v.charts = t.charts /\ v.dashboards = t.dashboards
        /\ v.artifacts = t.artifacts /\ v.todos = t.todos /\ v.questions = t.questions
        /\ v.sessionInfo = t.sessionInfo /\ v.subagents = t.subagents
    BY <1>11, <1>14, <2>1, <2>3, FieldNames DEF WithContent
  <2> QED BY <2>2, <2>3, <2>4, <2>5, <2>6, ZenonT(40) DEF Alters, Agree
<1> QED BY <1>9, <1>12, <1>15

LEMMA ThoughtsAt ==
  ASSUME NEW s, WithText(s), NEW id, NEW j \in DOMAIN s.messages,
         \A i \in DOMAIN s.messages : s.messages[i].id = id <=> i = j
  PROVE  Thoughts(s.messages, id) = s.messages[j].thinking
BY FindsIt, Looks DEF Thoughts

LEMMA ThinkingTwice ==
  ASSUME NEW s, Ready(s), NEW d, NEW e, NEW g,
         d.text \in Seq(Nat), e.text \in Seq(Nat), g.text = d.text \o e.text
  PROVE  Alters(thinking_delta(thinking_delta(s, d), e), thinking_delta(s, g))
<1>1. /\ DOMAIN s = Fields /\ Open(s) /\ WithText(s)
      /\ \A j \in DOMAIN s.messages : DOMAIN s.messages[j] = MessageFields
  BY DEF Ready, WithText
<1>2. PICK id : id = s.currentMessage.id
  OBVIOUS
<1>3. PICK j \in DOMAIN s.messages : \A i \in DOMAIN s.messages : s.messages[i].id = id <=> i = j
  BY <1>2 DEF Ready, OneCurrent
<1>4. PICK x \in Seq(Nat) : x = Thoughts(s.messages, id)
  <2>1. Thoughts(s.messages, id) = s.messages[j].thinking
    BY <1>1, <1>3, ThoughtsAt
  <2>2. s.messages[j].thinking \in Seq(Nat)
    BY DEF Ready, Legible
  <2> QED BY <2>1, <2>2
<1>5. PICK y \in Seq(Nat) : y = x \o d.text
  BY Concatenated
<1>6. PICK z : z = y \o e.text
  OBVIOUS
<1>7. PICK M : M = Rethought(s.messages, id, y)
  OBVIOUS
<1>8. PICK t : t = WithThinking(s, y)
  OBVIOUS
<1>9. thinking_delta(s, d) = t
  BY <1>1, <1>2, <1>4, <1>5, <1>8, ThinkingIs
<1>10. /\ DOMAIN t = Fields /\ t.messages = M
       /\ t.currentMessage = s.currentMessage
       /\ t.toolCalls = s.toolCalls /\ t.hasActiveToolCalls = s.hasActiveToolCalls
       /\ t.original = s.original /\ t.continuationCount = s.continuationCount
       /\ t.tables = s.tables /\ t.charts = s.charts /\ t.dashboards = s.dashboards
       /\ t.artifacts = s.artifacts /\ t.todos = s.todos /\ t.questions = s.questions
       /\ t.sessionInfo = s.sessionInfo /\ t.subagents = s.subagents
  BY <1>1, <1>2, <1>7, <1>8, FieldNames DEF WithThinking
<1>11. Open(t) /\ t.currentMessage.id = id
  BY <1>1, <1>2, <1>10 DEF Open
<1>12. Thoughts(t.messages, id) = y
  <2>1. /\ M = [i \in DOMAIN s.messages |-> M[i]]
        /\ \A i \in DOMAIN s.messages :
             M[i] = IF s.messages[i].id = id THEN [s.messages[i] EXCEPT !.thinking = y] ELSE s.messages[i]
    BY <1>7 DEF Rethought
  <2>2. Sequential(M) /\ DOMAIN M = DOMAIN s.messages
    BY <1>1, <2>1, Mapped DEF WithText
  <2>3. \A i \in DOMAIN s.messages : DOMAIN M[i] = MessageFields /\ M[i].id = s.messages[i].id
    BY <1>1, <2>1 DEF MessageFields
  <2>4. M[j].thinking = y
    BY <1>1, <1>3, <2>1 DEF MessageFields
  <2>5. WithText(t)
    BY <1>10, <2>2, <2>3 DEF WithText
  <2>6. j \in DOMAIN t.messages /\ \A i \in DOMAIN t.messages : t.messages[i].id = id <=> i = j
    BY <1>3, <1>10, <2>2, <2>3
  <2> QED BY <1>10, <2>4, <2>5, <2>6, ThoughtsAt
<1>13. thinking_delta(t, e) = WithThinking(t, z)
  BY <1>6, <1>10, <1>11, <1>12, ThinkingIs
<1>14. thinking_delta(s, g) = WithThinking(s, z)
  <2>1. x \o g.text = z
    <3>1. PICK a \in Seq(Nat) : a = d.text
      OBVIOUS
    <3>2. PICK b \in Seq(Nat) : b = e.text
      OBVIOUS
    <3>3. (x \o a) \o b = x \o (a \o b)
      BY Joining, ZenonT(40)
    <3> QED BY <1>5, <1>6, <3>1, <3>2, <3>3
  <2> QED BY <1>1, <1>2, <1>4, <2>1, ThinkingIs
<1>15. Rethought(t.messages, t.currentMessage.id, z) = Rethought(s.messages, s.currentMessage.id, z)
  <2>1. PICK N : N = s.messages
    OBVIOUS
  <2>2. Rethought(Rethought(N, id, y), id, z) = Rethought(N, id, z)
    <3>1. Fielded(N)
      BY <1>1, <2>1 DEF Fielded
    <3> QED BY <3>1, RethoughtTwice
  <2> QED BY <1>2, <1>7, <1>10, <1>11, <2>1, <2>2
<1>16. Alters(WithThinking(t, z), WithThinking(s, z))
  BY <1>1, <1>10, <1>15, FieldNames DEF WithThinking, Alters, Agree
<1> QED BY <1>9, <1>13, <1>14, <1>16

LEMMA DeltaTwice ==
  ASSUME NEW s, Ready(s), NEW d, NEW e, NEW g, d.type \in DeltaTypes, e.type = d.type, g.type = d.type,
         d.text \in Seq(Nat), e.text \in Seq(Nat), g.text = d.text \o e.text
  PROVE  Alters(agentEventReducer(agentEventReducer(s, d), e), agentEventReducer(s, g))
<1>1. PICK u : u = agentEventReducer(s, d)
  OBVIOUS
<1>2. CASE d.type = "content_delta"
  <2>1. u = content_delta(s, d)
    BY <1>1, <1>2, Arms
  <2>2. agentEventReducer(u, e) = content_delta(u, e)
    BY <1>2, Arms
  <2>3. agentEventReducer(s, g) = content_delta(s, g)
    BY <1>2, Arms
  <2>4. Alters(content_delta(content_delta(s, d), e), content_delta(s, g))
    BY ContentTwice, SplitTwice
  <2> QED BY <1>1, <2>1, <2>2, <2>3, <2>4
<1>3. CASE d.type = "thinking_delta"
  <2>1. u = thinking_delta(s, d)
    BY <1>1, <1>3, Arms
  <2>2. agentEventReducer(u, e) = thinking_delta(u, e)
    BY <1>3, Arms
  <2>3. agentEventReducer(s, g) = thinking_delta(s, g)
    BY <1>3, Arms
  <2>4. Alters(thinking_delta(thinking_delta(s, d), e), thinking_delta(s, g))
    BY ThinkingTwice
  <2> QED BY <1>1, <2>1, <2>2, <2>3, <2>4
<1> QED BY <1>2, <1>3 DEF DeltaTypes


----------------------------------------------------------------------------
(* What an event does to the messages.                                     *)

Becomes(s, t, e) ==
  \/ t.messages = s.messages
  \/ \E id, text : /\ t.messages = Append(s.messages, Message(id, "assistant", text))
                   /\ \/ e.type \in {"message_start", "query_complete"} /\ id = e.id
                      \/ e.type = "content_delta" /\ id[1] = s.original[1]
  \/ /\ e.type \in {"tool_use_start", "tool_use_end"}
     /\ \E tools : t.messages = Retooled(s.messages, s.currentMessage.id, tools)
  \/ \E text : t.messages = Retold(s.messages, s.currentMessage.id, text)
  \/ \E text : t.messages = Rethought(s.messages, s.currentMessage.id, text)
  \/ \E path : t.messages = Repathed(s.messages, s.currentMessage.id, path)
  \/ e.type = "tool_use_end" /\ \E status : t.messages = Restated(s.messages, e.tool, status)

LEMMA StartBecomes ==
  ASSUME NEW s, DOMAIN s = Fields, NEW e, e.type = "message_start"
  PROVE  Becomes(s, message_start(s, e), e)
<1>1. \/ message_start(s, e).messages = s.messages
      \/ message_start(s, e).messages = Append(s.messages, Message(e.id, "assistant", <<>>))
  BY FieldNames DEF message_start
<1> QED BY <1>1, Zenon DEF Becomes

LEMMA ContentBecomes ==
  ASSUME NEW s, DOMAIN s = Fields, NEW e, e.type = "content_delta"
  PROVE  Becomes(s, content_delta(s, e), e)
<1>1. CASE ~Open(s)
  BY <1>1 DEF content_delta, Becomes
<1>2. CASE Open(s) /\ s.hasActiveToolCalls
  <2>1. PICK id : id = Continuation(s.original, s.continuationCount + 1)
    OBVIOUS
  <2>2. id[1] = s.original[1]
    BY <2>1 DEF Continuation
  <2>3. content_delta(s, e) = Split(s, e)
    BY <1>2 DEF content_delta
  <2>4. Split(s, e).messages = Append(s.messages, Message(id, "assistant", e.text))
    BY <2>1, FieldNames DEF Split
  <2>5. PICK text : text = e.text
    OBVIOUS
  <2>6. content_delta(s, e).messages = Append(s.messages, Message(id, "assistant", text))
    BY <2>3, <2>4, <2>5
  <2> QED BY <2>2, <2>6, Zenon DEF Becomes
<1>3. CASE Open(s) /\ ~s.hasActiveToolCalls
  <2>1. PICK text : text = s.currentMessage.text \o e.text
    OBVIOUS
  <2>2. content_delta(s, e) = WithContent(s, text)
    BY <1>3, <2>1, ContentIs
  <2>3. WithContent(s, text).messages = Retold(s.messages, s.currentMessage.id, text)
    BY FieldNames DEF WithContent
  <2> QED BY <2>2, <2>3, Zenon DEF Becomes
<1> QED BY <1>1, <1>2, <1>3

LEMMA ThinkingBecomes ==
  ASSUME NEW s, DOMAIN s = Fields, NEW e
  PROVE  Becomes(s, thinking_delta(s, e), e)
<1>1. CASE ~Open(s)
  BY <1>1 DEF thinking_delta, Becomes
<1>2. CASE Open(s)
  <2>1. PICK text : text = Thoughts(s.messages, s.currentMessage.id) \o e.text
    OBVIOUS
  <2>2. thinking_delta(s, e) = WithThinking(s, text)
    BY <1>2, <2>1, ThinkingIs
  <2>3. WithThinking(s, text).messages = Rethought(s.messages, s.currentMessage.id, text)
    BY FieldNames DEF WithThinking
  <2> QED BY <2>2, <2>3, Zenon DEF Becomes
<1> QED BY <1>1, <1>2

LEMMA RefreshBecomes ==
  ASSUME NEW s, NEW u, DOMAIN u = Fields, u.messages = s.messages, u.currentMessage = s.currentMessage,
         NEW t, t.messages = updateToolCallsOnMessages(u).messages,
         NEW e, e.type \in {"tool_use_start", "tool_use_end"}
  PROVE  Becomes(s, t, e)
<1>1. PICK tools : tools = u.toolCalls
  OBVIOUS
<1>2. \/ t.messages = s.messages
      \/ t.messages = Retooled(s.messages, s.currentMessage.id, tools)
  BY <1>1, RefreshIs, FieldNames
<1> QED BY <1>2, Zenon DEF Becomes

LEMMA ToolBecomes ==
  ASSUME NEW s, DOMAIN s = Fields, NEW e, e.type = "tool_use_start"
  PROVE  Becomes(s, tool_use_start(s, e), e)
<1>1. PICK calls : calls = SetById(s.toolCalls, [id |-> e.tool, name |-> e.name, status |-> "running"])
  OBVIOUS
<1>2. PICK u : u = [s EXCEPT !.hasActiveToolCalls = TRUE, !.toolInput = <<>>,
                             !.activity = "tool", !.toolCalls = calls]
  OBVIOUS
<1>3. DOMAIN u = Fields /\ u.messages = s.messages /\ u.currentMessage = s.currentMessage
  BY <1>2, FieldNames
<1>4. tool_use_start(s, e) = updateToolCallsOnMessages(u)
  BY <1>1, <1>2, Zenon DEF tool_use_start
<1> QED BY <1>3, <1>4, RefreshBecomes

LEMMA EndBecomes ==
  ASSUME NEW s, DOMAIN s = Fields, NEW e, e.type = "tool_use_end"
  PROVE  Becomes(s, tool_use_end(s, e), e)
<1>1. PICK status : status = IF e.isError THEN "error" ELSE "complete"
  OBVIOUS
<1>2. CASE ~HasTool(s, e.tool)
  <2>1. tool_use_end(s, e) = [s EXCEPT !.messages = Restated(s.messages, e.tool, status)]
    BY <1>1, <1>2, RestatedIs DEF tool_use_end
  <2>2. tool_use_end(s, e).messages = Restated(s.messages, e.tool, status)
    BY <2>1, FieldNames
  <2> QED BY <2>2, Zenon DEF Becomes
<1>3. CASE HasTool(s, e.tool)
  <2>1. PICK calls : calls = SetById(s.toolCalls, [ToolCall(s, e.tool) EXCEPT !.status = status])
    OBVIOUS
  <2>2. PICK v : v = [s EXCEPT !.toolCalls = calls]
    OBVIOUS
  <2>3. DOMAIN v = Fields /\ v.messages = s.messages /\ v.currentMessage = s.currentMessage
    BY <2>2, FieldNames
  <2>4. PICK u : u = updateToolCallsOnMessages(v)
    OBVIOUS
  <2>5. DOMAIN u = Fields
    BY <2>3, <2>4, RefreshIs
  <2>6. PICK x : tool_use_end(s, e) = SelfParse([u EXCEPT !.activity = x], e, ToolCall(s, e.tool).name)
    BY <1>1, <1>3, <2>1, <2>2, <2>4, Zenon DEF tool_use_end
  <2>7. PICK w : w = [u EXCEPT !.activity = x]
    OBVIOUS
  <2>8. DOMAIN w = Fields /\ w.messages = u.messages
    BY <2>5, <2>7, FieldNames
  <2>9. tool_use_end(s, e).messages = w.messages
    <3>1. PICK name : name = ToolCall(s, e.tool).name
      OBVIOUS
    <3>2. tool_use_end(s, e) = SelfParse(w, e, name)
      BY <2>6, <2>7, <3>1, Zenon
    <3>3. Elsewhere(w, SelfParse(w, e, name))
      BY <2>8, Searched
    <3> QED BY <3>2, <3>3, Zenon DEF Elsewhere
  <2> QED BY <2>3, <2>4, <2>8, <2>9, RefreshBecomes
<1> QED BY <1>2, <1>3

LEMMA RegisterBecomes ==
  ASSUME NEW s, DOMAIN s = Fields, NEW e
  PROVE  Becomes(s, artifact_registered(s, e), e)
<1>1. PICK u : u = [s EXCEPT !.artifacts = SetById(s.artifacts, [id |-> e.path, kind |-> e.kind, status |-> "live"])]
  OBVIOUS
<1>2. DOMAIN u = Fields /\ u.messages = s.messages
  BY <1>1, FieldNames
<1>3. CASE Open(s)
  <2>1. PICK id : id = s.currentMessage.id
    OBVIOUS
  <2>2. artifact_registered(s, e) =
          OnMessage(u, id, LAMBDA m : [m EXCEPT !.paths = Append(@, e.path)])
    BY <1>1, <1>3, <2>1, Zenon DEF artifact_registered
  <2>3. PICK path : path = e.path
    OBVIOUS
  <2>4. artifact_registered(s, e) = [u EXCEPT !.messages = Repathed(u.messages, id, path)]
    BY <2>2, <2>3, RepathedIs, Zenon
  <2>5. artifact_registered(s, e).messages = Repathed(s.messages, s.currentMessage.id, path)
    BY <1>2, <2>1, <2>4, FieldNames
  <2> QED BY <2>5, Zenon DEF Becomes
<1>4. CASE ~Open(s)
  BY <1>1, <1>2, <1>4 DEF artifact_registered, Becomes
<1> QED BY <1>3, <1>4

LEMMA CompleteBecomes ==
  ASSUME NEW s, DOMAIN s = Fields, NEW e, e.type = "query_complete"
  PROVE  Becomes(s, query_complete(s, e), e)
<1>1. PICK text : text = e.text
  OBVIOUS
<1>2. \/ query_complete(s, e).messages = s.messages
      \/ query_complete(s, e).messages = Append(s.messages, Message(e.id, "assistant", text))
  BY <1>1, FieldNames DEF query_complete
<1> QED BY <1>2, Zenon DEF Becomes

LEMMA EventBecomes ==
  ASSUME NEW s, DOMAIN s = Fields, NEW e, e.type \in TurnTypes
  PROVE  Becomes(s, agentEventReducer(s, e), e)
<1>1. CASE e.type = "message_start"
  BY <1>1, Arms, StartBecomes
<1>2. CASE e.type = "content_delta"
  BY <1>2, Arms, ContentBecomes
<1>3. CASE e.type = "thinking_delta"
  BY <1>3, Arms, ThinkingBecomes
<1>4. CASE e.type = "tool_use_start"
  BY <1>4, Arms, ToolBecomes
<1>5. CASE e.type = "tool_use_end"
  BY <1>5, Arms, EndBecomes
<1>6. CASE e.type = "artifact_registered"
  BY <1>6, Arms, RegisterBecomes
<1>7. CASE e.type = "query_complete"
  BY <1>7, Arms, CompleteBecomes
<1>8. CASE e.type = "message_end"
  BY <1>8, FieldNames, Arms DEF message_end, Becomes
<1>9. CASE e.type = "error"
  <2>1. error(s).messages = s.messages
    BY FieldNames DEF error
  <2>2. agentEventReducer(s, e) = error(s)
    BY <1>9, Arms, Zenon
  <2> QED BY <2>1, <2>2 DEF Becomes
<1>10. CASE e.type \in AsideTypes
  BY <1>10, Aside DEF Elsewhere, Becomes
<1> QED BY <1>1, <1>2, <1>3, <1>4, <1>5, <1>6, <1>7, <1>8, <1>9, <1>10 DEF TurnTypes, AsideTypes

----------------------------------------------------------------------------
(* Messages stay messages.                                                 *)

IsProper(m) == m = [f \in MessageFields |-> m[f]]

LEMMA ProperIs ==
  ASSUME NEW s
  PROVE  Proper(s) <=> Sequential(s.messages) /\ \A j \in DOMAIN s.messages : IsProper(s.messages[j])
BY DEF Proper, IsProper

LEMMA ProperChanged ==
  ASSUME NEW s, Proper(s), NEW M, M = [j \in DOMAIN s.messages |-> M[j]],
         \A j \in DOMAIN s.messages : IsProper(s.messages[j]) => IsProper(M[j]),
         NEW t, t.messages = M
  PROVE  Proper(t)
BY Mapped, ProperIs

LEMMA FieldSet ==
  ASSUME NEW m, IsProper(m), NEW f \in MessageFields, NEW x, NEW n, n = [m EXCEPT ![f] = x]
  PROVE  IsProper(n)
BY DEF IsProper

LEMMA ProperAppended ==
  ASSUME NEW s, Proper(s), NEW id, NEW role, NEW text,
         NEW t, t.messages = Append(s.messages, Message(id, role, text))
  PROVE  Proper(t)
<1>1. IsProper(Message(id, role, text))
  BY DEF IsProper, Message, MessageFields
<1>2. PICK m : m = Message(id, role, text)
  OBVIOUS
<1>3. Sequential(t.messages) /\ Grows(s.messages, t.messages, m)
  BY <1>2, Appended DEF Proper
<1> QED BY <1>1, <1>2, <1>3, ProperIs DEF Grows

\* A status comes to one message.
LEMMA RestatedAt ==
  ASSUME NEW M, NEW x, NEW st, NEW j \in DOMAIN M, NEW m, m = M[j],
         NEW p, p = [k \in DOMAIN m.tools |->
                       IF m.tools[k].id = x THEN [m.tools[k] EXCEPT !.status = st] ELSE m.tools[k]]
  PROVE  Restated(M, x, st)[j] = [m EXCEPT !.tools = p]
<1>1. Restated(M, x, st)[j] = WithStatus(M[j], x, st)
  BY DEF Restated
<1>2. WithStatus(m, x, st) = [m EXCEPT !.tools = p]
  BY DEF WithStatus
<1> QED BY <1>1, <1>2

LEMMA BecomesProper ==
  ASSUME NEW s, Proper(s), NEW t, NEW e, Becomes(s, t, e)
  PROVE  Proper(t)
<1>0. {"tools", "text", "thinking", "paths"} \subseteq MessageFields
  BY DEF MessageFields
<1>1. CASE t.messages = s.messages
  BY <1>1 DEF Proper
<1>2. CASE \E id, text : t.messages = Append(s.messages, Message(id, "assistant", text))
  BY <1>2, ProperAppended
<1>3. ASSUME NEW id, NEW x, t.messages = Retooled(s.messages, id, x) PROVE Proper(t)
  <2>1. ASSUME NEW j \in DOMAIN s.messages, IsProper(s.messages[j]) PROVE IsProper(t.messages[j])
    BY <1>0, <1>3, <2>1, FieldSet DEF Retooled
  <2> QED BY <1>3, <2>1, ProperChanged DEF Retooled
<1>4. ASSUME NEW id, NEW x, t.messages = Retold(s.messages, id, x) PROVE Proper(t)
  <2>1. ASSUME NEW j \in DOMAIN s.messages, IsProper(s.messages[j]) PROVE IsProper(t.messages[j])
    BY <1>0, <1>4, <2>1, FieldSet DEF Retold
  <2> QED BY <1>4, <2>1, ProperChanged DEF Retold
<1>5. ASSUME NEW id, NEW x, t.messages = Rethought(s.messages, id, x) PROVE Proper(t)
  <2>1. ASSUME NEW j \in DOMAIN s.messages, IsProper(s.messages[j]) PROVE IsProper(t.messages[j])
    BY <1>0, <1>5, <2>1, FieldSet, SMTT(30) DEF Rethought
  <2> QED BY <1>5, <2>1, ProperChanged DEF Rethought
<1>6. ASSUME NEW id, NEW x, t.messages = Repathed(s.messages, id, x) PROVE Proper(t)
  <2>1. ASSUME NEW j \in DOMAIN s.messages, IsProper(s.messages[j]) PROVE IsProper(t.messages[j])
    <3>1. PICK m : m = s.messages[j]
      OBVIOUS
    <3>2. PICK p : p = Append(m.paths, x)
      OBVIOUS
    <3>3. t.messages[j] = m \/ t.messages[j] = [m EXCEPT !.paths = p]
      BY <1>6, <3>1, <3>2 DEF Repathed
    <3> QED BY <1>0, <2>1, <3>1, <3>3, FieldSet
  <2> QED BY <1>6, <2>1, ProperChanged DEF Repathed
<1>7. ASSUME NEW x, NEW st, t.messages = Restated(s.messages, x, st) PROVE Proper(t)
  <2>1. ASSUME NEW j \in DOMAIN s.messages, IsProper(s.messages[j]) PROVE IsProper(t.messages[j])
    <3>1. PICK m : m = s.messages[j]
      OBVIOUS
    <3>2. PICK p : p = [k \in DOMAIN m.tools |->
                          IF m.tools[k].id = x THEN [m.tools[k] EXCEPT !.status = st] ELSE m.tools[k]]
      OBVIOUS
    <3>3. t.messages[j] = [m EXCEPT !.tools = p]
      BY <1>7, <3>1, <3>2, RestatedAt
    <3> QED BY <1>0, <2>1, <3>1, <3>3, FieldSet
  <2> QED BY <1>7, <2>1, ProperChanged DEF Restated
<1> QED BY <1>1, <1>2, <1>3, <1>4, <1>5, <1>6, <1>7 DEF Becomes

----------------------------------------------------------------------------
(* Calls that a user message follows.                                      *)

Holds(m, x) == \E k \in DOMAIN m.tools : m.tools[k].id = x

LEMMA AnsweredIs ==
  ASSUME NEW M, NEW x
  PROVE  FollowedByUser(M, x) <=>
           \E i, j \in DOMAIN M : Holds(M[i], x) /\ i < j /\ M[j].role = "user"
BY Zenon DEF FollowedByUser, Holds

\* N has the messages of M, with the roles and, but for the last, the calls.
Tracks(M, N) ==
  /\ DOMAIN N = DOMAIN M
  /\ \A j \in DOMAIN M : N[j].role = M[j].role
  /\ \A i, j \in DOMAIN M : i < j => \A x : Holds(N[i], x) <=> Holds(M[i], x)

LEMMA TracksFollowed ==
  ASSUME NEW M, NEW N, Tracks(M, N), NEW x
  PROVE  FollowedByUser(N, x) <=> FollowedByUser(M, x)
<1>1. FollowedByUser(N, x) =>
        \E i, j \in DOMAIN M : Holds(N[i], x) /\ i < j /\ N[j].role = "user"
  BY AnsweredIs, Zenon DEF Tracks
<1>2. FollowedByUser(N, x) => FollowedByUser(M, x)
  BY <1>1, AnsweredIs, Zenon DEF Tracks
<1>3. FollowedByUser(M, x) =>
        \E i, j \in DOMAIN M : Holds(M[i], x) /\ i < j /\ M[j].role = "user"
  BY AnsweredIs, Zenon
<1>4. FollowedByUser(M, x) =>
        \E i, j \in DOMAIN N : Holds(N[i], x) /\ i < j /\ N[j].role = "user"
  BY <1>3, Zenon DEF Tracks
<1> QED BY <1>2, <1>4, AnsweredIs, Zenon

LEMMA AppendFollowed ==
  ASSUME NEW M, Sequential(M), NEW m, NEW N, N = Append(M, m), NEW x
  PROVE  FollowedByUser(N, x) <=>
           FollowedByUser(M, x) \/ (m.role = "user" /\ \E i \in DOMAIN M : Holds(M[i], x))
<1>1. PICK n : n = Len(M)
  OBVIOUS
<1>2. Appends(M, N, n, m)
  BY <1>1, AppendedIs
<1>3. /\ n \in Nat /\ DOMAIN M = 1..n /\ DOMAIN N = 1..(n + 1)
      /\ N[n + 1] = m /\ \A j \in 1..n : N[j] = M[j]
  BY <1>2 DEF Appends
<1>4. \A i, j \in 1..(n + 1) : i < j => i \in 1..n /\ (j \in 1..n \/ j = n + 1)
  BY <1>3
<1>5. \A i \in 1..n : i < n + 1 /\ i \in 1..(n + 1) /\ n + 1 \in 1..(n + 1)
  BY <1>3
<1>6. FollowedByUser(N, x) <=>
        \E i, j \in 1..(n + 1) : Holds(N[i], x) /\ i < j /\ N[j].role = "user"
  BY <1>3, AnsweredIs, Zenon
<1>7. FollowedByUser(M, x) <=>
        \E i, j \in 1..n : Holds(M[i], x) /\ i < j /\ M[j].role = "user"
  BY <1>3, AnsweredIs, Zenon
<1> QED BY <1>3, <1>4, <1>5, <1>6, <1>7, Zenon

Follow(s, t) == \A x : FollowedByUser(t.messages, x) <=> FollowedByUser(s.messages, x)

\* Changes of messages that change neither roles nor calls.
LEMMA SameTracks ==
  ASSUME NEW M, NEW N, DOMAIN N = DOMAIN M,
         \A j \in DOMAIN M : N[j].role = M[j].role /\ N[j].tools = M[j].tools
  PROVE  Tracks(M, N)
BY DEF Tracks, Holds

LEMMA BecomesFollows ==
  ASSUME NEW s, WithText(s), NEW t, NEW e, Becomes(s, t, e),
         e.type \in {"tool_use_start", "tool_use_end"} => InHand(s),
         e.type = "tool_use_end" => IsMessages(s.messages)
  PROVE  Follow(s, t)
<1>0. PICK M : M = s.messages
  OBVIOUS
<1>01. \A j \in DOMAIN M : DOMAIN M[j] = MessageFields
  BY <1>0 DEF WithText
<1>1. CASE t.messages = s.messages
  BY <1>1 DEF Follow
<1>2. CASE \E id, text : t.messages = Append(s.messages, Message(id, "assistant", text))
  <2>1. PICK id, text : t.messages = Append(s.messages, Message(id, "assistant", text))
    BY <1>2
  <2>2. PICK m : m = Message(id, "assistant", text)
    OBVIOUS
  <2>3. m.role # "user"
    BY <2>2, MessageIs
  <2> QED BY <2>1, <2>2, <2>3, AppendFollowed DEF WithText, Follow
<1>3. ASSUME e.type \in {"tool_use_start", "tool_use_end"},
             NEW x, t.messages = Retooled(s.messages, s.currentMessage.id, x) PROVE Follow(s, t)
  <2>1. PICK l \in DOMAIN M : \A i \in DOMAIN M : i <= l /\ (M[i].id = s.currentMessage.id <=> i = l)
    BY <1>0, <1>3 DEF InHand
  <2>2. \A i, j \in DOMAIN M : i < j => i # l
    <3>1. \A i \in DOMAIN M : i \in Nat
      BY <1>0, PlaceIsNumber
    <3> QED BY <2>1, <3>1
  <2>3. t.messages = [j \in DOMAIN M |-> IF j = l THEN [M[j] EXCEPT !.tools = x] ELSE M[j]]
    BY <1>0, <1>3, <2>1 DEF Retooled
  <2>4. \A j \in DOMAIN M : t.messages[j].role = M[j].role /\ (j # l => t.messages[j] = M[j])
    BY <1>01, <2>3 DEF MessageFields
  <2>5. Tracks(M, t.messages)
    BY <2>2, <2>3, <2>4 DEF Tracks
  <2> QED BY <1>0, <2>5, TracksFollowed DEF Follow
<1>4. ASSUME NEW id, NEW x, t.messages = Retold(s.messages, id, x) PROVE Follow(s, t)
  <2>1. Tracks(M, t.messages)
    BY <1>0, <1>01, <1>4, SameTracks DEF Retold, MessageFields
  <2> QED BY <1>0, <2>1, TracksFollowed DEF Follow
<1>5. ASSUME NEW id, NEW x, t.messages = Rethought(s.messages, id, x) PROVE Follow(s, t)
  <2>1. Tracks(M, t.messages)
    BY <1>0, <1>01, <1>5, SameTracks DEF Rethought, MessageFields
  <2> QED BY <1>0, <2>1, TracksFollowed DEF Follow
<1>6. ASSUME NEW id, NEW x, t.messages = Repathed(s.messages, id, x) PROVE Follow(s, t)
  <2>1. \A j \in DOMAIN M : t.messages[j].role = M[j].role /\ t.messages[j].tools = M[j].tools
    <3>1. ASSUME NEW j \in DOMAIN M
          PROVE  t.messages[j].role = M[j].role /\ t.messages[j].tools = M[j].tools
      <4>1. PICK m : m = M[j]
        OBVIOUS
      <4>2. PICK p : p = Append(m.paths, x)
        OBVIOUS
      <4>3. t.messages[j] = m \/ t.messages[j] = [m EXCEPT !.paths = p]
        BY <1>0, <1>6, <4>1, <4>2 DEF Repathed
      <4> QED BY <1>01, <4>1, <4>3 DEF MessageFields
    <3> QED BY <3>1
  <2>2. Tracks(M, t.messages)
    <3>1. DOMAIN t.messages = DOMAIN M
      BY <1>0, <1>6 DEF Repathed
    <3> QED BY <2>1, <3>1, SameTracks
  <2> QED BY <1>0, <2>2, TracksFollowed DEF Follow
<1>7. ASSUME e.type = "tool_use_end", NEW x, NEW st, t.messages = Restated(s.messages, x, st)
      PROVE  Follow(s, t)
  <2>1. ASSUME NEW j \in DOMAIN M
        PROVE  t.messages[j].role = M[j].role /\ \A y : Holds(t.messages[j], y) <=> Holds(M[j], y)
    <3>1. PICK m : m = M[j]
      OBVIOUS
    <3>2. PICK p : p = [k \in DOMAIN m.tools |->
                          IF m.tools[k].id = x THEN [m.tools[k] EXCEPT !.status = st] ELSE m.tools[k]]
      OBVIOUS
    <3>3. t.messages[j] = [m EXCEPT !.tools = p]
      BY <1>0, <1>7, <3>1, <3>2, RestatedAt
    <3>4. \A k \in DOMAIN m.tools : DOMAIN m.tools[k] = {"id", "name", "status"}
      BY <1>0, <1>7, <3>1 DEF IsMessages, IsMessage, IsTools
    <3>5. DOMAIN p = DOMAIN m.tools /\ \A k \in DOMAIN m.tools : p[k].id = m.tools[k].id
      BY <3>2, <3>4
    <3>6. t.messages[j].role = m.role /\ t.messages[j].tools = p
      BY <1>01, <3>1, <3>3 DEF MessageFields
    <3> QED BY <3>1, <3>5, <3>6 DEF Holds
  <2>2. DOMAIN t.messages = DOMAIN M
    BY <1>0, <1>7 DEF Restated
  <2>3. Tracks(M, t.messages)
    BY <2>1, <2>2 DEF Tracks
  <2> QED BY <1>0, <2>3, TracksFollowed DEF Follow
<1> QED BY <1>1, <1>2, <1>3, <1>4, <1>5, <1>6, <1>7 DEF Becomes

----------------------------------------------------------------------------
(* The ids of user messages.                                               *)

UserIds(s, n) == \A j \in DOMAIN s.messages : s.messages[j].id[1] = "user" => s.messages[j].id[2] <= n

LEMMA IdSet ==
  ASSUME NEW m, DOMAIN m = MessageFields, NEW f \in {"text", "thinking", "tools", "paths"}, NEW x,
         NEW n, n = [m EXCEPT ![f] = x]
  PROVE  n.id = m.id
BY DEF MessageFields

LEMMA BecomesIds ==
  ASSUME NEW s, WithText(s), NEW t, NEW e, Becomes(s, t, e), NEW n, UserIds(s, n),
         e.type \in {"message_start", "query_complete"} => e.id[1] # "user",
         e.type = "content_delta" => s.original[1] # "user"
  PROVE  UserIds(t, n)
<1>0. PICK M : M = s.messages
  OBVIOUS
<1>01. \A j \in DOMAIN M : DOMAIN M[j] = MessageFields
  BY <1>0 DEF WithText
<1>02. ASSUME DOMAIN t.messages = DOMAIN M, \A j \in DOMAIN M : t.messages[j].id = M[j].id
       PROVE  UserIds(t, n)
  BY <1>0, <1>02 DEF UserIds
<1>1. CASE t.messages = s.messages
  BY <1>1 DEF UserIds
<1>2. CASE \E id, text : /\ t.messages = Append(s.messages, Message(id, "assistant", text))
                         /\ \/ e.type \in {"message_start", "query_complete"} /\ id = e.id
                            \/ e.type = "content_delta" /\ id[1] = s.original[1]
  <2>1. PICK id, text : t.messages = Append(s.messages, Message(id, "assistant", text)) /\ id[1] # "user"
    BY <1>2
  <2>2. PICK m : m = Message(id, "assistant", text)
    OBVIOUS
  <2>3. m.id = id
    BY <2>2, MessageIs
  <2>4. Grows(M, t.messages, m)
    BY <1>0, <2>1, <2>2, Appended DEF WithText
  <2> QED BY <1>0, <2>1, <2>3, <2>4 DEF UserIds, Grows
<1>3. ASSUME NEW id, NEW x, t.messages = Retooled(s.messages, id, x) PROVE UserIds(t, n)
  BY <1>0, <1>01, <1>02, <1>3, IdSet DEF Retooled
<1>4. ASSUME NEW id, NEW x, t.messages = Retold(s.messages, id, x) PROVE UserIds(t, n)
  BY <1>0, <1>01, <1>02, <1>4, IdSet DEF Retold
<1>5. ASSUME NEW id, NEW x, t.messages = Rethought(s.messages, id, x) PROVE UserIds(t, n)
  BY <1>0, <1>01, <1>02, <1>5, IdSet DEF Rethought
<1>6. ASSUME NEW id, NEW x, t.messages = Repathed(s.messages, id, x) PROVE UserIds(t, n)
  <2>1. ASSUME NEW j \in DOMAIN M PROVE t.messages[j].id = M[j].id
    <3>1. PICK m : m = M[j]
      OBVIOUS
    <3>2. PICK p : p = Append(m.paths, x)
      OBVIOUS
    <3>3. t.messages[j] = m \/ t.messages[j] = [m EXCEPT !.paths = p]
      BY <1>0, <1>6, <3>1, <3>2 DEF Repathed
    <3> QED BY <1>01, <3>1, <3>3, IdSet
  <2> QED BY <1>0, <1>02, <1>6, <2>1 DEF Repathed
<1>7. ASSUME NEW x, NEW st, t.messages = Restated(s.messages, x, st) PROVE UserIds(t, n)
  <2>1. ASSUME NEW j \in DOMAIN M PROVE t.messages[j].id = M[j].id
    <3>1. PICK m : m = M[j]
      OBVIOUS
    <3>2. PICK p : p = [k \in DOMAIN m.tools |->
                          IF m.tools[k].id = x THEN [m.tools[k] EXCEPT !.status = st] ELSE m.tools[k]]
      OBVIOUS
    <3>3. t.messages[j] = [m EXCEPT !.tools = p]
      BY <1>0, <1>7, <3>1, <3>2, RestatedAt
    <3> QED BY <1>01, <3>1, <3>3, IdSet
  <2> QED BY <1>0, <1>02, <1>7, <2>1 DEF Restated
<1> QED BY <1>1, <1>2, <1>3, <1>4, <1>5, <1>6, <1>7 DEF Becomes

----------------------------------------------------------------------------
(* The questions that are open.                                            *)

Marked(s) ==
  /\ s.questions \in [DOMAIN s.questions -> BOOLEAN]
  /\ \A x \in DOMAIN s.questions : s.questions[x] = TRUE <=> FollowedByUser(s.messages, x)

LEMMA MarkedKept ==
  ASSUME NEW s, Marked(s), NEW t, Follow(s, t), t.questions = s.questions
  PROVE  Marked(t)
BY Zenon DEF Marked, Follow

LEMMA MarkedAsks ==
  ASSUME NEW s, Marked(s), NEW t, Follow(s, t), NEW x, t.questions = Put(s.questions, x, FALSE),
         ~FollowedByUser(s.messages, x)
  PROVE  Marked(t)
<1>1. PICK q : q = s.questions
  OBVIOUS
<1>2. q \in [DOMAIN q -> BOOLEAN] /\ \A y \in DOMAIN q : q[y] = TRUE <=> FollowedByUser(s.messages, y)
  BY <1>1 DEF Marked
<1>3. t.questions = [y \in DOMAIN q \cup {x} |-> IF y = x THEN FALSE ELSE q[y]]
  BY <1>1 DEF Put
<1>4. \A y : FollowedByUser(t.messages, y) <=> FollowedByUser(s.messages, y)
  BY DEF Follow
<1>5. t.questions \in [DOMAIN t.questions -> BOOLEAN]
  BY <1>2, <1>3
<1>6. ASSUME NEW y \in DOMAIN t.questions
      PROVE  t.questions[y] = TRUE <=> FollowedByUser(s.messages, y)
  <2>1. CASE y = x
    <3>1. t.questions[y] = FALSE
      BY <1>3, <2>1
    <3> QED BY <2>1, <3>1
  <2>2. CASE y # x
    <3>1. y \in DOMAIN q /\ t.questions[y] = q[y]
      BY <1>3, <2>2
    <3> QED BY <1>2, <3>1
  <2> QED BY <2>1, <2>2
<1> QED BY <1>4, <1>5, <1>6, Zenon DEF Marked

\* The event asks, itself or by a call's output.
Asks(e) == e.type = "ask_user" \/ (e.type = "tool_use_end" /\ ~e.isError /\ e.marked)

LEMMA RefreshAsks ==
  ASSUME NEW s, DOMAIN s = Fields
  PROVE  updateToolCallsOnMessages(s).questions = s.questions
BY RefreshIs, FieldNames

LEMMA SearchAsks ==
  ASSUME NEW s, DOMAIN s = Fields, NEW e, NEW name
  PROVE  \/ SelfParse(s, e, name).questions = s.questions
         \/ ~e.isError /\ e.marked /\ SelfParse(s, e, name).questions = Put(s.questions, e.tool, FALSE)
<1>1. CASE e.isError
  BY <1>1 DEF SelfParse
<1>2. CASE ~e.isError /\ name = "ask" /\ e.marked
  BY <1>2, FieldNames DEF SelfParse
<1>3. CASE ~e.isError /\ ~(name = "ask" /\ e.marked)
  BY <1>3, FieldNames DEF SelfParse
<1> QED BY <1>1, <1>2, <1>3

LEMMA EndAsks ==
  ASSUME NEW s, DOMAIN s = Fields, NEW e
  PROVE  \/ tool_use_end(s, e).questions = s.questions
         \/ ~e.isError /\ e.marked /\ tool_use_end(s, e).questions = Put(s.questions, e.tool, FALSE)
<1>1. PICK status : status = IF e.isError THEN "error" ELSE "complete"
  OBVIOUS
<1>2. CASE ~HasTool(s, e.tool)
  <2>1. tool_use_end(s, e) = [s EXCEPT !.messages = Restated(s.messages, e.tool, status)]
    BY <1>1, <1>2, RestatedIs DEF tool_use_end
  <2> QED BY <2>1, FieldNames
<1>3. CASE HasTool(s, e.tool)
  <2>1. PICK calls : calls = SetById(s.toolCalls, [ToolCall(s, e.tool) EXCEPT !.status = status])
    OBVIOUS
  <2>2. PICK v : v = [s EXCEPT !.toolCalls = calls]
    OBVIOUS
  <2>3. DOMAIN v = Fields /\ v.questions = s.questions
    BY <2>2, FieldNames
  <2>4. PICK u : u = updateToolCallsOnMessages(v)
    OBVIOUS
  <2>5. DOMAIN u = Fields /\ u.questions = s.questions
    BY <2>3, <2>4, RefreshIs, RefreshAsks
  <2>6. PICK x : tool_use_end(s, e) = SelfParse([u EXCEPT !.activity = x], e, ToolCall(s, e.tool).name)
    BY <1>1, <1>3, <2>1, <2>2, <2>4, Zenon DEF tool_use_end
  <2>7. PICK w, name : w = [u EXCEPT !.activity = x] /\ name = ToolCall(s, e.tool).name
    OBVIOUS
  <2>8. DOMAIN w = Fields /\ w.questions = s.questions
    BY <2>5, <2>7, FieldNames
  <2>9. tool_use_end(s, e) = SelfParse(w, e, name)
    BY <2>6, <2>7, Zenon
  <2> QED BY <2>8, <2>9, SearchAsks
<1> QED BY <1>2, <1>3

LEMMA EventAsks ==
  ASSUME NEW s, DOMAIN s = Fields, NEW e, e.type \in TurnTypes, NEW t, t = agentEventReducer(s, e)
  PROVE  t.questions = s.questions \/ (Asks(e) /\ t.questions = Put(s.questions, e.tool, FALSE))
<1>1. CASE e.type = "message_start"
  <2>1. message_start(s, e).questions = s.questions
    BY FieldNames DEF message_start
  <2> QED BY <1>1, <2>1, Arms
<1>2. CASE e.type = "content_delta"
  <2>1. CASE ~Open(s)
    BY <1>2, <2>1, Arms DEF content_delta
  <2>2. CASE Open(s) /\ s.hasActiveToolCalls
    <3>1. Split(s, e).questions = s.questions
      BY FieldNames DEF Split
    <3>2. content_delta(s, e) = Split(s, e)
      BY <2>2 DEF content_delta
    <3> QED BY <1>2, <3>1, <3>2, Arms
  <2>3. CASE Open(s) /\ ~s.hasActiveToolCalls
    <3>1. PICK text : text = s.currentMessage.text \o e.text
      OBVIOUS
    <3>2. t = WithContent(s, text)
      BY <1>2, <2>3, <3>1, Arms, ContentIs
    <3> QED BY <3>2, FieldNames DEF WithContent
  <2> QED BY <2>1, <2>2, <2>3
<1>3. CASE e.type = "thinking_delta"
  <2>1. CASE ~Open(s)
    BY <1>3, <2>1, Arms DEF thinking_delta
  <2>2. CASE Open(s)
    <3>1. PICK text : text = Thoughts(s.messages, s.currentMessage.id) \o e.text
      OBVIOUS
    <3>2. t = WithThinking(s, text)
      BY <1>3, <2>2, <3>1, Arms, ThinkingIs
    <3> QED BY <3>2, FieldNames DEF WithThinking
  <2> QED BY <2>1, <2>2
<1>4. CASE e.type = "tool_use_start"
  <2>1. PICK calls : calls = SetById(s.toolCalls, [id |-> e.tool, name |-> e.name, status |-> "running"])
    OBVIOUS
  <2>2. PICK u : u = [s EXCEPT !.hasActiveToolCalls = TRUE, !.toolInput = <<>>,
                               !.activity = "tool", !.toolCalls = calls]
    OBVIOUS
  <2>3. DOMAIN u = Fields /\ u.questions = s.questions
    BY <2>2, FieldNames
  <2>4. tool_use_start(s, e) = updateToolCallsOnMessages(u)
    BY <2>1, <2>2, Zenon DEF tool_use_start
  <2>5. updateToolCallsOnMessages(u).questions = s.questions
    BY <2>3, RefreshAsks
  <2> QED BY <1>4, <2>4, <2>5, Arms
<1>5. CASE e.type = "tool_use_end"
  BY <1>5, Arms, EndAsks DEF Asks
<1>6. CASE e.type = "artifact_registered"
  <2>1. PICK u : u = [s EXCEPT !.artifacts = SetById(s.artifacts, [id |-> e.path, kind |-> e.kind, status |-> "live"])]
    OBVIOUS
  <2>2. DOMAIN u = Fields /\ u.questions = s.questions
    BY <2>1, FieldNames
  <2>3. artifact_registered(s, e) = u \/ \E M : artifact_registered(s, e) = [u EXCEPT !.messages = M]
    BY <2>1, Zenon DEF artifact_registered, OnMessage
  <2>4. artifact_registered(s, e).questions = s.questions
    BY <2>2, <2>3, FieldNames
  <2> QED BY <1>6, <2>4, Arms
<1>7. CASE e.type = "query_complete"
  <2>1. query_complete(s, e).questions = s.questions
    BY FieldNames DEF query_complete
  <2> QED BY <1>7, <2>1, Arms
<1>8. CASE e.type = "message_end"
  <2>1. message_end(s).questions = s.questions
    BY FieldNames DEF message_end
  <2> QED BY <1>8, <2>1, Arms
<1>9. CASE e.type = "error"
  <2>1. error(s).questions = s.questions
    BY FieldNames DEF error
  <2> QED BY <1>9, <2>1, Arms
<1>10. CASE e.type = "ask_user"
  BY <1>10, FieldNames DEF agentEventReducer, ask_user, Asks
<1>11. CASE e.type \in {"table_rendered", "chart_rendered", "dashboard_created", "session_info", "subagent_event"}
  BY <1>11, FieldNames DEF agentEventReducer, dashboard_created, session_info, subagent_event
<1> QED BY <1>1, <1>2, <1>3, <1>4, <1>5, <1>6, <1>7, <1>8, <1>9, <1>10, <1>11 DEF TurnTypes

----------------------------------------------------------------------------
(* What is shown, and the events stored of it.                             *)

\* A delta may go on with the last event of Q.
Prior(B, Q) ==
  \A F, d : Sequential(F) /\ Q = Append(F, d) /\ d.type \in DeltaTypes =>
    Ready(Reduced(B, F)) /\ d.text \in Seq(Nat)

\* u is what the events of row r make of B.
Stores(u, B, r) ==
  /\ IsRow(r)
  /\ Replays(u, Reduced(B, Unwrapped(r)))
  /\ Proper(u)
  /\ Prior(B, Unwrapped(r))

LEMMA ReducedMore ==
  ASSUME NEW B, NEW Q, Sequential(Q), NEW e
  PROVE  Reduced(B, Append(Q, e)) = agentEventReducer(Reduced(B, Q), e)
<1>1. PICK S : Q \in Seq(S)
  BY DEF Sequential
<1>2. Q \in Seq(S \cup {e}) /\ <<e>> \in Seq(S \cup {e})
  BY <1>1
<1>3. Append(Q, e) = Q \o <<e>>
  BY <1>2
<1> QED BY <1>3, ReducedThen, ReducedOne, OneEvent

LEMMA RowSequential ==
  ASSUME NEW r, IsRow(r)
  PROVE  Sequential(Unwrapped(r))
BY UnwrappedIs DEF IsRow

LEMMA ProperText ==
  ASSUME NEW s, DOMAIN s = Fields, Proper(s)
  PROVE  WithText(s)
BY DEF Proper, WithText

LEMMA EventProper ==
  ASSUME NEW s, DOMAIN s = Fields, Proper(s), NEW e, e.type \in TurnTypes
  PROVE  Proper(agentEventReducer(s, e))
BY EventBecomes, BecomesProper

LEMMA StoresApart ==
  ASSUME NEW u, NEW B, NEW r, Stores(u, B, r), NEW e, Apart(e), e.type \in TurnTypes,
         NEW t, t = agentEventReducer(u, e), NEW q, q = Compacted(r, <<e>>)
  PROVE  Stores(t, B, q)
<1>1. IsRow(q) /\ Unwrapped(q) = Append(Unwrapped(r), e)
  BY StoredApart DEF Stores
<1>2. Sequential(Unwrapped(r))
  BY RowSequential DEF Stores
<1>3. Reduced(B, Unwrapped(q)) = agentEventReducer(Reduced(B, Unwrapped(r)), e)
  <2>1. Reduced(B, Append(Unwrapped(r), e)) = agentEventReducer(Reduced(B, Unwrapped(r)), e)
    BY <1>2, ReducedMore, Zenon
  <2> QED BY <1>1, <2>1, Zenon
<1>4. Replays(t, Reduced(B, Unwrapped(q)))
  BY <1>3, EventReplays DEF Stores
<1>5. Proper(t)
  BY EventProper DEF Stores, Replays, Agree
<1>6. Prior(B, Unwrapped(q))
  <2>1. ASSUME NEW F, NEW d, Sequential(F), Append(F, d) = Unwrapped(q) PROVE d = e
    BY <1>1, <1>2, <2>1, AppendSame
  <2> QED BY <2>1 DEF Prior, Apart
<1> QED BY <1>1, <1>4, <1>5, <1>6 DEF Stores

LEMMA StoresPass ==
  ASSUME NEW u, NEW B, NEW r, Stores(u, B, r), Coherent(u), NEW e, IsEvent(e), e.type \in PassTypes,
         NEW t, t = agentEventReducer(u, e), NEW q, q = Compacted(r, <<e>>)
  PROVE  Stores(t, B, q) /\ Alters(u, t)
<1>1. q = r
  BY Dropped DEF PassTypes, Transient
<1>2. DOMAIN u = Fields
  BY DEF Stores, Replays, Agree
<1>3. Alters(u, t)
  BY <1>2, PassAlters DEF Stores
<1>4. Replays(t, Reduced(B, Unwrapped(r)))
  BY <1>3, AltersLive DEF Stores
<1>5. Proper(t)
  BY <1>3 DEF Stores, Proper, Alters, Agree
<1> QED BY <1>1, <1>3, <1>4, <1>5 DEF Stores

LEMMA ReadyStored ==
  ASSUME NEW s, NEW t, Replays(s, t), Ready(s)
  PROVE  Ready(t)
BY DEF Replays, Agree, Ready, WithText, Legible, Open, OneCurrent

LEMMA StoresDelta ==
  ASSUME NEW u, NEW B, NEW r, Stores(u, B, r), Ready(u),
         NEW e, IsEvent(e), e.type \in DeltaTypes, e.text \in Seq(Nat),
         NEW t, t = agentEventReducer(u, e), NEW q, q = Compacted(r, <<e>>)
  PROVE  Stores(t, B, q)
<1>1. IsRow(q) /\ (Unwrapped(q) = Append(Unwrapped(r), e) \/ Continues(r, q, e))
  BY StoredDelta DEF Stores
<1>2. Sequential(Unwrapped(r))
  BY RowSequential DEF Stores
<1>3. e.type \in TurnTypes
  BY DEF DeltaTypes, TurnTypes
<1>4. Proper(t)
  BY <1>3, EventProper DEF Stores, Replays, Agree
<1>5. CASE Unwrapped(q) = Append(Unwrapped(r), e)
  <2>1. Reduced(B, Unwrapped(q)) = agentEventReducer(Reduced(B, Unwrapped(r)), e)
    <3>1. Reduced(B, Append(Unwrapped(r), e)) = agentEventReducer(Reduced(B, Unwrapped(r)), e)
      BY <1>2, ReducedMore, Zenon
    <3> QED BY <1>5, <3>1, Zenon
  <2>2. Replays(t, Reduced(B, Unwrapped(q)))
    BY <1>3, <2>1, EventReplays DEF Stores
  <2>3. Ready(Reduced(B, Unwrapped(r)))
    BY ReadyStored DEF Stores
  <2>4. ASSUME NEW F, NEW d, Sequential(F), Append(F, d) = Unwrapped(q)
        PROVE  F = Unwrapped(r) /\ d = e
    BY <1>2, <1>5, <2>4, AppendSame, ZenonT(40)
  <2>5. Prior(B, Unwrapped(q))
    BY <2>3, <2>4 DEF Prior
  <2> QED BY <1>1, <1>4, <2>2, <2>5 DEF Stores
<1>6. CASE Continues(r, q, e)
  <2>1. PICK F, d : /\ Sequential(F) /\ Unwrapped(r) = Append(F, d) /\ d.type = e.type
                    /\ IsEvent(d) /\ Unwrapped(q) = Append(F, [d EXCEPT !.text = @ \o e.text])
    BY <1>6 DEF Continues
  <2>2. PICK x : x = Reduced(B, F)
    OBVIOUS
  <2>3. Ready(x) /\ d.text \in Seq(Nat)
    BY <2>1, <2>2 DEF Stores, Prior
  <2>4. PICK more : more = d.text \o e.text
    OBVIOUS
  <2>5. PICK g : g = [d EXCEPT !.text = more]
    OBVIOUS
  <2>6. Unwrapped(q) = Append(F, g)
    BY <2>1, <2>4, <2>5
  <2>7. g.text = more /\ g.type = d.type /\ more \in Seq(Nat)
    BY <2>1, <2>3, <2>4, <2>5 DEF IsEvent
  <2>8. /\ Reduced(B, Unwrapped(r)) = agentEventReducer(x, d)
        /\ Reduced(B, Unwrapped(q)) = agentEventReducer(x, g)
    <3>1. Reduced(B, Append(F, d)) = agentEventReducer(x, d)
      BY <2>1, <2>2, ReducedMore, Zenon
    <3>2. Reduced(B, Append(F, g)) = agentEventReducer(x, g)
      BY <2>1, <2>2, ReducedMore, Zenon
    <3> QED BY <2>1, <2>6, <3>1, <3>2, Zenon
  <2>9. Replays(t, agentEventReducer(agentEventReducer(x, d), e))
    BY <1>3, <2>8, EventReplays DEF Stores
  <2>10. Alters(agentEventReducer(agentEventReducer(x, d), e), agentEventReducer(x, g))
    BY <2>1, <2>3, <2>4, <2>7, DeltaTwice
  <2>11. Replays(t, Reduced(B, Unwrapped(q)))
    BY <2>8, <2>9, <2>10, AltersStored
  <2>12. ASSUME NEW G, NEW f, Sequential(G), Append(G, f) = Unwrapped(q)
         PROVE  G = F /\ f = g
    BY <2>1, <2>6, <2>12, AppendSame
  <2>13. Prior(B, Unwrapped(q))
    BY <2>2, <2>3, <2>7, <2>12 DEF Prior
  <2> QED BY <1>1, <1>4, <2>11, <2>13 DEF Stores
<1> QED BY <1>1, <1>5, <1>6

----------------------------------------------------------------------------
(* The same, with the questions; W are calls that no user message follows, *)
(* n is the number of the last user message.                               *)

Whole(u, B, r, n, W) ==
  /\ Stores(u, B, r)
  /\ Marked(u) /\ UserIds(u, n)
  /\ \A x \in W : ~FollowedByUser(u.messages, x)

LEMMA WholeText ==
  ASSUME NEW u, NEW B, NEW r, NEW n, NEW W, Whole(u, B, r, n, W)
  PROVE  DOMAIN u = Fields /\ WithText(u)
BY ProperText DEF Whole, Stores, Replays, Agree

\* What an event needs.
Fits(u, e, W) ==
  /\ e.type \in {"tool_use_start", "tool_use_end"} => InHand(u)
  /\ e.type = "tool_use_end" => IsMessages(u.messages)
  /\ e.type \in {"message_start", "query_complete"} => e.id[1] # "user"
  /\ e.type = "content_delta" => u.original[1] # "user"
  /\ Asks(e) => e.tool \in W

LEMMA WholeFollows ==
  ASSUME NEW u, NEW B, NEW r, NEW n, NEW W, Whole(u, B, r, n, W), NEW e, e.type \in TurnTypes,
         Fits(u, e, W), NEW t, t = agentEventReducer(u, e), NEW q, Stores(t, B, q)
  PROVE  Whole(t, B, q, n, W) /\ Follow(u, t)
<1>1. DOMAIN u = Fields /\ WithText(u) /\ Becomes(u, t, e)
  BY WholeText, EventBecomes
<1>2. Follow(u, t)
  BY <1>1, BecomesFollows DEF Fits
<1>3. UserIds(t, n)
  BY <1>1, BecomesIds DEF Fits, Whole
<1>4. t.questions = u.questions \/ (Asks(e) /\ t.questions = Put(u.questions, e.tool, FALSE))
  BY <1>1, EventAsks
<1>5. Marked(t)
  BY <1>2, <1>4, MarkedKept, MarkedAsks DEF Fits, Whole
<1> QED BY <1>2, <1>3, <1>5 DEF Whole, Follow

LEMMA WholeEvent ==
  ASSUME NEW u, NEW B, NEW r, NEW n, NEW W, Whole(u, B, r, n, W), NEW e, Apart(e), e.type \in TurnTypes,
         Fits(u, e, W)
  PROVE  /\ Whole(agentEventReducer(u, e), B, Compacted(r, <<e>>), n, W)
         /\ Follow(u, agentEventReducer(u, e))
<1>1. Stores(agentEventReducer(u, e), B, Compacted(r, <<e>>))
  BY StoresApart DEF Whole
<1> QED BY <1>1, WholeFollows

LEMMA WholePass ==
  ASSUME NEW u, NEW B, NEW r, NEW n, NEW W, Whole(u, B, r, n, W), Coherent(u),
         NEW e, IsEvent(e), e.type \in PassTypes
  PROVE  /\ Whole(agentEventReducer(u, e), B, Compacted(r, <<e>>), n, W)
         /\ Alters(u, agentEventReducer(u, e))
<1>1. PICK t : t = agentEventReducer(u, e)
  OBVIOUS
<1>2. Stores(t, B, Compacted(r, <<e>>)) /\ Alters(u, t)
  BY <1>1, StoresPass DEF Whole
<1>3. t.messages = u.messages /\ t.questions = u.questions
  BY <1>2 DEF Alters, Agree
<1>4. Marked(t) /\ UserIds(t, n) /\ \A x \in W : ~FollowedByUser(t.messages, x)
  BY <1>3 DEF Whole, Marked, UserIds
<1> QED BY <1>1, <1>2, <1>4 DEF Whole

LEMMA WholeDelta ==
  ASSUME NEW u, NEW B, NEW r, NEW n, NEW W, Whole(u, B, r, n, W), Ready(u), u.original[1] # "user",
         NEW e, IsEvent(e), e.type \in DeltaTypes, e.text \in Seq(Nat)
  PROVE  Whole(agentEventReducer(u, e), B, Compacted(r, <<e>>), n, W)
<1>1. Stores(agentEventReducer(u, e), B, Compacted(r, <<e>>))
  BY StoresDelta DEF Whole
<1>2. e.type \in TurnTypes /\ Fits(u, e, W)
  BY DEF DeltaTypes, TurnTypes, Fits, Asks
<1> QED BY <1>1, <1>2, WholeFollows

----------------------------------------------------------------------------
(* A step that emits events.                                               *)

\* Calls that may still ask.
Waiting == {x \in Tools : call[x] \in AwaitResult \cup {"none"}}

\* What the rows of earlier turns are replayed to.
Base == Reduced(initialAgentEventState, Events(rows))

KeptInv ==
  /\ Sequential(rows) /\ Sequential(Events(rows))
  /\ Whole(ui, Base, row, turn, Waiting)

\* The events make v of what is displayed, and q of the row.
Turns(u, r, events, v, q) ==
  Sequential(events) /\ v = Reduced(u, events) /\ q = Compacted(r, events)

LEMMA TurnsNone == ASSUME NEW u, NEW r PROVE Turns(u, r, <<>>, u, r)
BY OneEvent, ReducedNone, CompactedNone DEF Turns

LEMMA TurnsOne ==
  ASSUME NEW u, NEW r, NEW e
  PROVE  Turns(u, r, <<e>>, agentEventReducer(u, e), Compacted(r, <<e>>))
BY OneEvent, ReducedOne DEF Turns

LEMMA TurnsBoth ==
  ASSUME NEW u, NEW r, NEW a, NEW v, NEW q, Turns(u, r, a, v, q),
         NEW b, NEW w, NEW p, Turns(v, q, b, w, p)
  PROVE  Turns(u, r, a \o b, w, p)
BY ReducedThen, CompactedThen DEF Turns

LEMMA KeptStep ==
  ASSUME KeptInv, NEW events, Emit(events), NEW v, NEW q, Turns(ui, row, events, v, q),
         Whole(v, Base, q, turn, Waiting), Waiting' \subseteq Waiting
  PROVE  KeptInv'
<1>1. ui' = v /\ row' = q /\ rows' = rows /\ turn' = turn
  BY DEF Emit, Turns
<1>2. Base' = Base
  BY <1>1 DEF Base
<1>3. \A x \in Waiting' : ~FollowedByUser(v.messages, x)
  BY DEF Whole
<1>4. Whole(v, Base, q, turn, Waiting')
  BY <1>3 DEF Whole
<1> QED BY <1>1, <1>2, <1>4 DEF KeptInv

LEMMA WaitingSame == ASSUME call' = call PROVE Waiting' \subseteq Waiting
BY DEF Waiting

LEMMA WaitingLess ==
  ASSUME ConvInv, NEW t \in Tools, NEW status, call' = [call EXCEPT ![t] = status],
         t \in Waiting \/ status \notin AwaitResult \cup {"none"}
  PROVE  Waiting' \subseteq Waiting
<1>1. call \in [Tools -> CallStates]
  BY DEF ConvInv, TypeInv
<1> QED BY <1>1 DEF Waiting

LEMMA ApartIs ==
  ASSUME NEW type \in TurnTypes \ DeltaTypes, NEW text, NEW fields
  PROVE  Apart(Event(type, text, fields))
<1>1. type \notin Transient /\ type # "user_message"
  BY DEF TurnTypes, Transient
<1> QED BY <1>1, EventIs, EventIsOne DEF Apart

\* One event of a turn.
LEMMA TurnsEvent ==
  ASSUME NEW u, NEW B, NEW r, NEW n, NEW W, Whole(u, B, r, n, W), NEW e, Apart(e), e.type \in TurnTypes,
         Fits(u, e, W)
  PROVE  \E v, q : /\ v = agentEventReducer(u, e) /\ Turns(u, r, <<e>>, v, q)
                   /\ Whole(v, B, q, n, W)
BY TurnsOne, WholeEvent

LEMMA TurnsPass ==
  ASSUME NEW u, NEW B, NEW r, NEW n, NEW W, Whole(u, B, r, n, W), Coherent(u),
         NEW e, IsEvent(e), e.type \in PassTypes
  PROVE  \E v, q : /\ v = agentEventReducer(u, e) /\ Turns(u, r, <<e>>, v, q)
                   /\ Whole(v, B, q, n, W) /\ Alters(u, v)
BY TurnsOne, WholePass

\* An event that shows nothing of calls or messages.
PlainTypes ==
  {"artifact_registered", "message_end", "table_rendered", "chart_rendered", "dashboard_created",
   "session_info", "subagent_event", "error"}

LEMMA PlainFits ==
  ASSUME NEW type \in PlainTypes, NEW text, NEW fields, NEW e, e = Event(type, text, fields)
  PROVE  Apart(e) /\ e.type \in TurnTypes /\ \A u, W : Fits(u, e, W)
<1>1. e.type = type
  BY EventIs
<1>2. type \in TurnTypes \ DeltaTypes
  BY DEF PlainTypes, TurnTypes, DeltaTypes
<1>3. type \notin {"tool_use_start", "tool_use_end", "message_start", "query_complete",
                   "content_delta", "ask_user"}
  BY DEF PlainTypes
<1>4. ~Asks(e)
  BY <1>1, <1>3 DEF Asks
<1> QED BY <1>1, <1>2, <1>3, <1>4, ApartIs DEF Fits

LEMMA PassIs ==
  ASSUME NEW type \in PassTypes, NEW text, NEW fields, NEW e, e = Event(type, text, fields)
  PROVE  IsEvent(e) /\ e.type \in PassTypes
BY EventIs, EventIsOne

LEMMA UnderWayCoherent == ConvInv /\ phase = "loop" => Coherent(ui)
BY TheLoop DEF UnderWay

LEMMA PassingKept ==
  ASSUME ConvInv, KeptInv, NEW type \in PassTypes \cup {"session_info", "subagent_event"},
         NEW text, NEW fields, Passing(<<Event(type, text, fields)>>)
  PROVE  KeptInv'
<1>1. PICK e : e = Event(type, text, fields)
  OBVIOUS
<1>2. phase = "loop" /\ Emit(<<e>>) /\ call' = call
  BY <1>1 DEF Passing, Loop
<1>3. Waiting' \subseteq Waiting /\ Whole(ui, Base, row, turn, Waiting)
  BY <1>2, WaitingSame DEF KeptInv
<1>4. \E v, q : Turns(ui, row, <<e>>, v, q) /\ Whole(v, Base, q, turn, Waiting)
  <2>1. CASE type \in PassTypes
    BY <1>1, <1>2, <1>3, <2>1, PassIs, UnderWayCoherent, TurnsPass
  <2>2. CASE type \in {"session_info", "subagent_event"}
    <3>1. type \in PlainTypes
      BY <2>2 DEF PlainTypes
    <3> QED BY <1>1, <1>3, <3>1, PlainFits, TurnsEvent
  <2> QED BY <2>1, <2>2
<1> QED BY <1>2, <1>3, <1>4, KeptStep

LEMMA AsidesKept ==
  ASSUME ConvInv, KeptInv,
         \/ Block \/ InputDelta \/ Status \/ HookResponse \/ SystemInit
         \/ \E t \in Tools : Progress(t)
         \/ \E typed \in BOOLEAN : SubagentStart(typed)
         \/ SubagentStop
  PROVE  KeptInv'
<1> USE DEF PassTypes, Say
<1>1. CASE Block
  BY <1>1, PassingKept DEF Block, Activity
<1>2. CASE InputDelta
  BY <1>2, PassingKept DEF InputDelta
<1>3. CASE Status
  BY <1>3, PassingKept DEF Status
<1>4. CASE HookResponse
  BY <1>4, PassingKept DEF HookResponse
<1>5. CASE SystemInit
  BY <1>5, PassingKept DEF SystemInit
<1>6. CASE \E t \in Tools : Progress(t)
  BY <1>6, PassingKept DEF Progress
<1>7. CASE \E typed \in BOOLEAN : SubagentStart(typed)
  BY <1>7, PassingKept DEF SubagentStart
<1>8. CASE SubagentStop
  BY <1>8, PassingKept DEF SubagentStop
<1> QED BY <1>1, <1>2, <1>3, <1>4, <1>5, <1>6, <1>7, <1>8

LEMMA DeltaKept ==
  ASSUME ConvInv, TextInv, KeptInv, NEW type \in {"content_delta", "thinking_delta"}, Delta(type)
  PROVE  KeptInv'
<1>1. PICK e : e = Event(type, <<pieces'>>, <<>>)
  OBVIOUS
<1>2. phase = "loop" /\ Emit(<<e>>) /\ call' = call /\ pieces' \in Nat
  BY <1>1 DEF Delta, Loop, TextInv
<1>3. e.type = type /\ e.text = <<pieces'>> /\ IsEvent(e)
  BY <1>1, EventIs, EventIsOne
<1>4. e.text \in Seq(Nat) /\ e.type \in DeltaTypes
  BY <1>2, <1>3 DEF DeltaTypes
<1>5. msg \in Nat /\ IsState(ui) /\ Numbered(ui, msg) /\ UnderWay(ui, msg)
  BY <1>2, TheLoop
<1>6. Ready(ui)
  <2>1. WithText(ui) /\ Legible(ui) /\ InHand(ui)
    BY <1>2 DEF TextInv, Written
  <2>2. Open(ui) /\ OneCurrent(ui) /\ DOMAIN ui.currentMessage = {"id", "text"}
    BY <1>5, IsOpen, OnlyCurrent DEF IsState
  <2>3. ui.currentMessage.text \in Seq(Nat)
    BY <2>1 DEF InHand, Legible
  <2>4. PICK id : id = Continuation(ui.original, ui.continuationCount + 1)
    OBVIOUS
  <2>5. id = <<"reply", msg, ui.continuationCount + 1>> /\ \A j \in DOMAIN ui.messages : ui.messages[j].id # id
    BY <1>5, <2>4, NewPart
  <2>6. id # NoId
    BY <2>5 DEF NoId
  <2> QED BY <2>1, <2>2, <2>3, <2>4, <2>5, <2>6 DEF Ready
<1>7. ui.original[1] # "user"
  BY <1>5 DEF UnderWay, Reply
<1>8. Waiting' \subseteq Waiting /\ Whole(ui, Base, row, turn, Waiting)
  BY <1>2, WaitingSame DEF KeptInv
<1>9. PICK v, q : v = agentEventReducer(ui, e) /\ q = Compacted(row, <<e>>)
  OBVIOUS
<1>10. Turns(ui, row, <<e>>, v, q) /\ Whole(v, Base, q, turn, Waiting)
  BY <1>3, <1>4, <1>6, <1>7, <1>8, <1>9, TurnsOne, WholeDelta
<1> QED BY <1>2, <1>8, <1>10, KeptStep

LEMMA StartTurnKept ==
  ASSUME ConvInv, KeptInv, NEW slides \in 0..1, StartTurn(slides)
  PROVE  KeptInv'
<1>1. phase = "sent" /\ msg' = msg + 1 /\ call' = call
  BY DEF StartTurn
<1>2. PICK a : a = Event("message_start", <<>>, [id |-> Reply(msg')])
  OBVIOUS
<1>3. PICK b : b = Event("activity_update", <<>>, [phase |-> "processing"])
  OBVIOUS
<1>4. PICK c : c = Event("artifact_registered", <<>>, [path |-> Slide, kind |-> "image"])
  OBVIOUS
<1>5. a.type = "message_start" /\ a.id = Reply(msg + 1)
  BY <1>1, <1>2, EventIs
<1>6. Waiting' \subseteq Waiting /\ Whole(ui, Base, row, turn, Waiting)
  BY <1>1, WaitingSame DEF KeptInv
<1>7. PICK v, q : /\ v = agentEventReducer(ui, a) /\ Turns(ui, row, <<a>>, v, q)
                  /\ Whole(v, Base, q, turn, Waiting)
  <2>1. Apart(a) /\ a.type \in TurnTypes
    BY <1>2, <1>5, ApartIs DEF TurnTypes, DeltaTypes
  <2>2. Fits(ui, a, Waiting)
    BY <1>5 DEF Fits, Asks, Reply
  <2> QED BY <1>6, <2>1, <2>2, TurnsEvent
<1>8. CASE slides = 0
  <2>1. Emit(<<a>> \o <<>>)
    BY <1>2, <1>8 DEF StartTurn, SlideEvents, Say
  <2>2. Turns(ui, row, <<a>> \o <<>>, v, q)
    BY <1>7, TurnsNone, TurnsBoth
  <2> QED BY <1>6, <1>7, <2>1, <2>2, KeptStep
<1>9. CASE slides = 1
  <2>1. Emit(<<a>> \o (<<b>> \o <<c>>))
    BY <1>2, <1>3, <1>4, <1>9 DEF StartTurn, SlideEvents, Say, Activity
  <2>2. Coherent(v)
    BY <1>5, <1>7, MessageStarts DEF ConvInv, TypeInv, UiInv, UnderWay
  <2>3. PICK w, p : Turns(v, q, <<b>>, w, p) /\ Whole(w, Base, p, turn, Waiting)
    <3>1. IsEvent(b) /\ b.type \in PassTypes
      BY <1>3, PassIs DEF PassTypes
    <3> QED BY <1>7, <2>2, <3>1, TurnsPass
  <2>4. PICK x, o : Turns(w, p, <<c>>, x, o) /\ Whole(x, Base, o, turn, Waiting)
    <3>1. Apart(c) /\ c.type \in TurnTypes /\ Fits(w, c, Waiting)
      BY <1>4, PlainFits DEF PlainTypes
    <3> QED BY <2>3, <3>1, TurnsEvent
  <2>5. Turns(ui, row, <<a>> \o (<<b>> \o <<c>>), x, o)
    BY <1>7, <2>3, <2>4, TurnsBoth
  <2> QED BY <1>6, <2>1, <2>4, <2>5, KeptStep
<1> QED BY <1>8, <1>9

\* A call is announced.
LEMMA StartFits ==
  ASSUME NEW t, NEW name, NEW a, a = Event("tool_use_start", <<>>, [tool |-> t, name |-> name]),
         NEW u, InHand(u), NEW W
  PROVE  a.type = "tool_use_start" /\ a.tool = t /\ Apart(a) /\ a.type \in TurnTypes /\ Fits(u, a, W)
<1>1. a.type = "tool_use_start" /\ a.tool = t
  BY ToolEvent
<1>2. Apart(a) /\ a.type \in TurnTypes
  BY <1>1, ApartIs DEF TurnTypes, DeltaTypes
<1> QED BY <1>1, <1>2 DEF Fits, Asks

LEMMA AssistantKept ==
  ASSUME ConvInv, TextInv, KeptInv, NEW t \in Tools, Assistant(t)
  PROVE  KeptInv'
<1>1. PICK a : a = Event("tool_use_start", <<>>, [tool |-> t, name |-> kind[t]])
  OBVIOUS
<1>2. phase = "loop" /\ Emit(<<a>>)
  BY <1>1 DEF Assistant, Start, Say
<1>3. PICK status : /\ call' = [call EXCEPT ![t] = status]
                    /\ call[t] \in {"none"} \cup AreAhead
  BY DEF Assistant, AreAhead
<1>4. Waiting' \subseteq Waiting
  <2>1. t \in Waiting
    BY <1>3 DEF Waiting, AwaitResult
  <2> QED BY <1>3, <2>1, WaitingLess
<1>5. PICK v, q : Turns(ui, row, <<a>>, v, q) /\ Whole(v, Base, q, turn, Waiting)
  <2>1. InHand(ui) /\ Whole(ui, Base, row, turn, Waiting)
    BY <1>2 DEF TextInv, KeptInv
  <2>2. Apart(a) /\ a.type \in TurnTypes /\ Fits(ui, a, Waiting)
    BY <1>1, <2>1, StartFits
  <2> QED BY <2>1, <2>2, TurnsEvent
<1> QED BY <1>2, <1>4, <1>5, KeptStep

LEMMA PreToolUseKept ==
  ASSUME ConvInv, TextInv, KeptInv, NEW t \in Tools, PreToolUse(t)
  PROVE  KeptInv'
<1>1. PICK a : a = Event("tool_use_start", <<>>, [tool |-> t, name |-> kind[t]])
  OBVIOUS
<1>2. PICK b : b = Event("hook_event", <<>>, [hook |-> "pre_tool", tool |-> t])
  OBVIOUS
<1>3. PICK begun : begun = IF Pending(t) THEN <<>> ELSE <<a>>
  OBVIOUS
<1>4. PICK hooked : hooked = IF Denied(t) THEN <<>> ELSE <<b>>
  OBVIOUS
<1>5. phase = "loop" /\ Emit(begun \o hooked)
  BY <1>1, <1>2, <1>3, <1>4 DEF PreToolUse, Start, Say
<1>6. PICK status : call' = [call EXCEPT ![t] = status] /\ call[t] \in {"none", "shown"}
  BY DEF PreToolUse
<1>7. Waiting' \subseteq Waiting
  <2>1. t \in Waiting
    BY <1>6 DEF Waiting, AwaitResult
  <2> QED BY <1>6, <2>1, WaitingLess
<1>8. /\ InHand(ui) /\ Whole(ui, Base, row, turn, Waiting)
      /\ msg \in Nat /\ IsState(ui) /\ Numbered(ui, msg) /\ UnderWay(ui, msg)
  BY <1>5, TheLoop DEF TextInv, KeptInv
<1>9. PICK v, q : /\ Turns(ui, row, begun, v, q) /\ Whole(v, Base, q, turn, Waiting)
                  /\ Coherent(v)
  <2>1. CASE Pending(t)
    BY <1>3, <1>8, <2>1, TurnsNone DEF UnderWay
  <2>2. CASE ~Pending(t)
    <3>1. a.type = "tool_use_start" /\ a.tool = t /\ Apart(a) /\ a.type \in TurnTypes /\ Fits(ui, a, Waiting)
      BY <1>1, <1>8, StartFits
    <3>2. PICK v, q : /\ v = agentEventReducer(ui, a) /\ Turns(ui, row, <<a>>, v, q)
                      /\ Whole(v, Base, q, turn, Waiting)
      BY <1>8, <3>1, TurnsEvent
    <3>3. Hidden(ui, t)
      BY <1>6, <2>2, BeforeItsMessage DEF AwaitResult
    <3>4. Coherent(v)
      BY <1>8, <3>1, <3>2, <3>3, StartShows DEF GoesOn, UnderWay
    <3> QED BY <1>3, <2>2, <3>2, <3>4
  <2> QED BY <2>1, <2>2
<1>10. PICK w, p : Turns(v, q, hooked, w, p) /\ Whole(w, Base, p, turn, Waiting)
  <2>1. CASE Denied(t)
    BY <1>4, <1>9, <2>1, TurnsNone
  <2>2. CASE ~Denied(t)
    <3>1. IsEvent(b) /\ b.type \in PassTypes
      BY <1>2, PassIs DEF PassTypes
    <3> QED BY <1>4, <1>9, <2>2, <3>1, TurnsPass
  <2> QED BY <2>1, <2>2
<1>11. Turns(ui, row, begun \o hooked, w, p)
  BY <1>9, <1>10, TurnsBoth
<1> QED BY <1>5, <1>7, <1>10, <1>11, KeptStep

\* A call ends.
LEMMA EndFits ==
  ASSUME NEW t, NEW isError, NEW marked,
         NEW a, a = Event("tool_use_end", <<>>, [tool |-> t, isError |-> isError, marked |-> marked]),
         NEW u, InHand(u), IsMessages(u.messages), NEW W, t \in W \/ ~marked
  PROVE  Apart(a) /\ a.type \in TurnTypes /\ Fits(u, a, W)
<1>1. a.type = "tool_use_end" /\ a.tool = t /\ a.marked = marked
  BY EventIs
<1>2. Apart(a) /\ a.type \in TurnTypes
  BY <1>1, ApartIs DEF TurnTypes, DeltaTypes
<1> QED BY <1>1, <1>2 DEF Fits, Asks

\* What a marker is turned into.
LEMMA MarkerFits ==
  ASSUME NEW t, NEW W, t \in W
  PROVE  \/ Marker(t) = <<>>
         \/ \E e : /\ Marker(t) = <<e>> /\ Apart(e) /\ e.type \in TurnTypes
                   /\ \A u : Fits(u, e, W)
<1>1. ASSUME NEW type \in PlainTypes, NEW fields
      PROVE  \E e : /\ Say(type, fields) = <<e>> /\ Apart(e) /\ e.type \in TurnTypes
                    /\ \A u : Fits(u, e, W)
  BY PlainFits DEF Say
<1>2. \E e : /\ Say("ask_user", [tool |-> t]) = <<e>> /\ Apart(e) /\ e.type \in TurnTypes
             /\ \A u : Fits(u, e, W)
  <2>1. PICK e : e = Event("ask_user", <<>>, [tool |-> t])
    OBVIOUS
  <2>2. e.type = "ask_user" /\ e.tool = t
    BY <2>1, EventIs
  <2>3. Apart(e) /\ e.type \in TurnTypes
    BY <2>1, <2>2, ApartIs DEF TurnTypes, DeltaTypes
  <2>4. \A u : Fits(u, e, W)
    BY <2>2 DEF Fits
  <2> QED BY <2>1, <2>3, <2>4 DEF Say
<1>3. \/ Marker(t) = <<>> \/ Marker(t) = Say("ask_user", [tool |-> t])
      \/ \E type \in PlainTypes : \E fields : Marker(t) = Say(type, fields)
  BY DEF Marker, PlainTypes
<1> QED BY <1>1, <1>2, <1>3

LEMMA PostToolUseKept ==
  ASSUME ConvInv, TextInv, KeptInv, NEW t \in Tools, NEW isError \in BOOLEAN, PostToolUse(t, isError)
  PROVE  KeptInv'
<1>1. PICK h : h = Event("hook_event", <<>>, [hook |-> "post_tool", tool |-> t])
  OBVIOUS
<1>2. PICK e : e = Event("tool_use_end", <<>>, [tool |-> t, isError |-> isError, marked |-> TRUE])
  OBVIOUS
<1>3. PICK made : made = IF isError THEN <<>> ELSE Marker(t)
  OBVIOUS
<1>4. /\ phase = "loop" /\ call[t] = "ready" /\ call' = [call EXCEPT ![t] = "ran"]
      /\ Emit((<<h>> \o <<e>>) \o made)
  BY <1>1, <1>2, <1>3 DEF PostToolUse, End, Say
<1>5. t \in Waiting
  BY <1>4 DEF Waiting, AwaitResult
<1>6. Waiting' \subseteq Waiting
  BY <1>4, <1>5, WaitingLess
<1>7. /\ InHand(ui) /\ Whole(ui, Base, row, turn, Waiting) /\ IsMessages(ui.messages)
      /\ Coherent(ui)
  BY <1>4, TheLoop, UnderWayCoherent DEF TextInv, KeptInv, IsState
<1>8. PICK v, q : /\ Turns(ui, row, <<h>>, v, q) /\ Whole(v, Base, q, turn, Waiting)
                  /\ Alters(ui, v)
  <2>1. IsEvent(h) /\ h.type \in PassTypes
    BY <1>1, PassIs DEF PassTypes
  <2> QED BY <1>7, <2>1, TurnsPass
<1>9. InHand(v) /\ IsMessages(v.messages)
  BY <1>7, <1>8 DEF Alters, Agree, InHand
<1>10. PICK w, p : Turns(v, q, <<e>>, w, p) /\ Whole(w, Base, p, turn, Waiting)
  <2>1. Apart(e) /\ e.type \in TurnTypes /\ Fits(v, e, Waiting)
    BY <1>2, <1>5, <1>9, EndFits
  <2> QED BY <1>8, <2>1, TurnsEvent
<1>11. PICK x, o : Turns(w, p, made, x, o) /\ Whole(x, Base, o, turn, Waiting)
  <2>1. CASE made = <<>>
    BY <1>10, <2>1, TurnsNone
  <2>2. CASE made # <<>>
    <3>1. PICK m : made = <<m>> /\ Apart(m) /\ m.type \in TurnTypes /\ Fits(w, m, Waiting)
      BY <1>3, <1>5, <2>2, MarkerFits
    <3> QED BY <1>10, <3>1, TurnsEvent
  <2> QED BY <2>1, <2>2
<1>12. Turns(ui, row, (<<h>> \o <<e>>) \o made, x, o)
  <2>1. Turns(ui, row, <<h>> \o <<e>>, w, p)
    BY <1>8, <1>10, TurnsBoth
  <2> QED BY <1>11, <2>1, TurnsBoth
<1> QED BY <1>4, <1>6, <1>11, <1>12, KeptStep

LEMMA UserKept ==
  ASSUME ConvInv, TextInv, KeptInv, NEW t \in Tools, User(t)
  PROVE  KeptInv'
<1>1. PICK a : a = Event("tool_use_end", <<>>, [tool |-> t, isError |-> t \in failed', marked |-> FALSE])
  OBVIOUS
<1>2. PICK b : b = Event("message_end", <<>>, <<>>)
  OBVIOUS
<1>3. PICK c : c = Event("message_start", <<>>, [id |-> Reply(msg')])
  OBVIOUS
<1>4. PICK ended : ended = IF Pending(t) THEN <<a>> ELSE <<>>
  OBVIOUS
<1>5. /\ phase = "loop" /\ call' = [call EXCEPT ![t] = "settled"]
      /\ Emit((ended \o <<b>>) \o <<c>>)
  BY <1>1, <1>2, <1>3, <1>4 DEF User, Loop, End, Say
<1>6. Waiting' \subseteq Waiting
  BY <1>5, WaitingLess DEF AwaitResult, AreAhead
<1>7. InHand(ui) /\ Whole(ui, Base, row, turn, Waiting) /\ IsMessages(ui.messages)
  BY <1>5, TheLoop DEF TextInv, KeptInv, IsState
<1>8. PICK v, q : Turns(ui, row, ended, v, q) /\ Whole(v, Base, q, turn, Waiting)
  <2>1. CASE Pending(t)
    <3>1. Apart(a) /\ a.type \in TurnTypes /\ Fits(ui, a, Waiting)
      BY <1>1, <1>7, EndFits
    <3> QED BY <1>4, <1>7, <2>1, <3>1, TurnsEvent
  <2>2. CASE ~Pending(t)
    BY <1>4, <1>7, <2>2, TurnsNone
  <2> QED BY <2>1, <2>2
<1>9. PICK w, p : Turns(v, q, <<b>>, w, p) /\ Whole(w, Base, p, turn, Waiting)
  <2>1. Apart(b) /\ b.type \in TurnTypes /\ Fits(v, b, Waiting)
    BY <1>2, PlainFits DEF PlainTypes
  <2> QED BY <1>8, <2>1, TurnsEvent
<1>10. PICK x, o : Turns(w, p, <<c>>, x, o) /\ Whole(x, Base, o, turn, Waiting)
  <2>1. c.type = "message_start" /\ c.id = Reply(msg')
    BY <1>3, EventIs
  <2>2. Apart(c) /\ c.type \in TurnTypes
    BY <1>3, <2>1, ApartIs DEF TurnTypes, DeltaTypes
  <2>3. Fits(w, c, Waiting)
    BY <2>1 DEF Fits, Asks, Reply
  <2> QED BY <1>9, <2>2, <2>3, TurnsEvent
<1>11. Turns(ui, row, (ended \o <<b>>) \o <<c>>, x, o)
  <2>1. Turns(ui, row, ended \o <<b>>, w, p)
    BY <1>8, <1>9, TurnsBoth
  <2> QED BY <1>10, <2>1, TurnsBoth
<1> QED BY <1>5, <1>6, <1>10, <1>11, KeptStep

\* The turn is over.
LEMMA OverKept ==
  ASSUME KeptInv, NEW type \in {"message_end", "error"}, NEW text,
         Emit(Say(type, <<>>) \o Complete(text)), Stopped
  PROVE  KeptInv'
<1>1. PICK b : b = Event(type, <<>>, <<>>)
  OBVIOUS
<1>2. PICK e : e = Event("query_complete", text, [id |-> <<"result", turn, 0>>])
  OBVIOUS
<1>3. Emit(<<b>> \o <<e>>)
  BY <1>1, <1>2 DEF Say, Complete
<1>4. Waiting' \subseteq Waiting
  BY DEF Stopped, Waiting, AwaitResult, AreAhead
<1>5. PICK v, q : Turns(ui, row, <<b>>, v, q) /\ Whole(v, Base, q, turn, Waiting)
  <2>1. Apart(b) /\ b.type \in TurnTypes /\ Fits(ui, b, Waiting)
    BY <1>1, PlainFits DEF PlainTypes
  <2> QED BY <2>1, TurnsEvent DEF KeptInv
<1>6. PICK w, p : Turns(v, q, <<e>>, w, p) /\ Whole(w, Base, p, turn, Waiting)
  <2>1. e.type = "query_complete" /\ e.id[1] = "result"
    BY <1>2, EventIs
  <2>2. Apart(e) /\ e.type \in TurnTypes
    BY <1>2, <2>1, ApartIs DEF TurnTypes, DeltaTypes
  <2>3. Fits(v, e, Waiting)
    BY <2>1 DEF Fits, Asks
  <2> QED BY <1>5, <2>2, <2>3, TurnsEvent
<1>7. Turns(ui, row, <<b>> \o <<e>>, w, p)
  BY <1>5, <1>6, TurnsBoth
<1> QED BY <1>3, <1>4, <1>6, <1>7, KeptStep

LEMMA EndsKept ==
  ASSUME KeptInv, Throws \/ \E text : Result(text)
  PROVE  KeptInv'
BY OverKept DEF Throws, Result

\* The next message is sent.
LEMMA NothingStored == Unwrapped(<<>>) = <<>> /\ IsRow(<<>>)
<1>1. Unwrapped(<<>>) = [j \in DOMAIN <<>> |-> Unwrapped(<<>>)[j]]
  BY StandsIn
<1>2. Unwrapped(<<>>) = <<>>
  BY <1>1
<1> QED BY <1>2, EmptyOne DEF IsRow

LEMMA SendBase ==
  ASSUME KeptInv, rows' = IF row = <<>> THEN rows ELSE Append(rows, row)
  PROVE  /\ Sequential(rows') /\ Sequential(Events(rows'))
         /\ Reduced(initialAgentEventState, Events(rows')) = Reduced(Base, Unwrapped(row))
<1>1. Sequential(rows) /\ Sequential(Events(rows)) /\ Sequential(row)
  BY DEF KeptInv, Whole, Stores, IsRow
<1>2. CASE row = <<>>
  BY <1>1, <1>2, NothingStored, ReducedNone DEF Base
<1>3. CASE row # <<>>
  <2>1. PICK rs : rs = Append(rows, row)
    OBVIOUS
  <2>2. Events(rs) = Events(rows) \o Unwrapped(row) /\ Sequential(Events(rs))
    BY <1>1, <2>1, EventsMore
  <2>3. Sequential(rs)
    BY <1>1, <2>1, AppendedIs DEF Appends
  <2>4. Sequential(Unwrapped(row))
    BY <1>1, UnwrappedIs
  <2>5. Reduced(initialAgentEventState, Events(rs)) = Reduced(Base, Unwrapped(row))
    BY <1>1, <2>2, <2>4, ReducedThen DEF Base
  <2> QED BY <1>3, <2>1, <2>2, <2>3, <2>5
<1> QED BY <1>2, <1>3

LEMMA SendKept ==
  ASSUME ConvInv, TidyInv, KeptInv, NEW text, text # <<>>, Send(text)
  PROVE  KeptInv'
<1>1. phase = "idle" /\ turn' = turn + 1 /\ turn \in Nat /\ call' = call
  BY DEF Send, sdkVars, ConvInv, TypeInv
<1>2. PICK id : id = <<"user", turn', 0>>
  OBVIOUS
<1>3. PICK e : e = Event("user_message", text, [id |-> id])
  OBVIOUS
<1>4. PICK M : M = Append(ui.messages, Message(id, "user", text))
  OBVIOUS
<1>5. PICK q : q = Compacted(<<>>, <<e>>)
  OBVIOUS
<1>6. PICK t : t = [ui EXCEPT !.isStreaming = TRUE, !.error = FALSE,
                              !.questions = [x \in DOMAIN @ |-> TRUE], !.messages = M]
  OBVIOUS
<1>7. /\ ui' = t /\ row' = q
      /\ rows' = IF row = <<>> THEN rows ELSE Append(rows, row)
  BY <1>2, <1>3, <1>4, <1>5, <1>6 DEF Send
<1>8. PICK B : B = Reduced(Base, Unwrapped(row))
  OBVIOUS
<1>9. Sequential(rows') /\ Sequential(Events(rows')) /\ Base' = B
  <2>1. Sequential(rows') /\ Sequential(Events(rows'))
        /\ Reduced(initialAgentEventState, Events(rows')) = B
    BY <1>7, <1>8, SendBase
  <2> QED BY <2>1 DEF Base
<1>10. Replays(ui, B) /\ Proper(ui) /\ Marked(ui) /\ UserIds(ui, turn) /\ Sequential(ui.messages)
  BY <1>8 DEF KeptInv, Whole, Stores, Proper
<1>11. e.type = "user_message" /\ e.text = text /\ e.id = id /\ Apart(e)
  <2>1. e.type = "user_message" /\ e.text = text /\ e.id = id
    BY <1>3, EventIs
  <2>2. IsEvent(e)
    BY <1>3, EventIsOne
  <2> QED BY <2>1, <2>2 DEF Apart, Transient, DeltaTypes
<1>12. IsRow(q) /\ Unwrapped(q) = Append(<<>>, e)
  BY <1>5, <1>11, StoredApart, NothingStored
<1>13. /\ DOMAIN ui = Fields /\ DOMAIN t = Fields /\ t.messages = M
       /\ t.questions = [x \in DOMAIN ui.questions |-> TRUE]
  BY <1>6, <1>10, FieldNames DEF Replays, Agree
<1>14. PICK v : v = [B EXCEPT !.messages = M]
  OBVIOUS
<1>15. Reduced(B, Unwrapped(q)) = v
  <2>1. Reduced(B, Append(<<>>, e)) = agentEventReducer(Reduced(B, <<>>), e)
    BY OneEvent, ReducedMore, Zenon
  <2>2. Reduced(B, Unwrapped(q)) = agentEventReducer(B, e)
    BY <1>12, <2>1, ReducedNone
  <2>3. ~HasMessage(B, id)
    <3>1. B.messages = ui.messages
      BY <1>10 DEF Replays, Agree
    <3>2. id[1] = "user" /\ id[2] = turn + 1 /\ ~(turn + 1 <= turn)
      BY <1>1, <1>2
    <3> QED BY <1>10, <3>1, <3>2 DEF UserIds, HasMessage
  <2>4. user_message(B, e) = [B EXCEPT !.messages = Append(@, Message(id, "user", text))]
    BY <1>11, <2>3 DEF user_message
  <2>5. agentEventReducer(B, e) = user_message(B, e)
    BY <1>11 DEF agentEventReducer
  <2>6. B.messages = ui.messages
    BY <1>10 DEF Replays, Agree
  <2> QED BY <1>4, <1>14, <2>2, <2>4, <2>5, <2>6
<1>16. Replays(t, v)
  <2>1. Agree(t, v)
    BY <1>6, <1>10, <1>14, FieldNames DEF Replays, Agree
  <2>2. v.questions = B.questions
    BY <1>10, <1>14, FieldNames DEF Replays, Agree
  <2> QED BY <1>10, <1>13, <2>1, <2>2 DEF Replays, Reasks
<1>17. Proper(t)
  BY <1>4, <1>10, <1>13, ProperAppended
<1>18. Prior(B, Unwrapped(q))
  <2>1. ASSUME NEW F, NEW d, Sequential(F), Append(F, d) = Unwrapped(q) PROVE d = e
    BY <1>12, <2>1, OneEvent, AppendSame
  <2> QED BY <1>11, <2>1 DEF Prior, DeltaTypes
<1>19. \A x : FollowedByUser(M, x) <=>
                FollowedByUser(ui.messages, x) \/ \E i \in DOMAIN ui.messages : Holds(ui.messages[i], x)
  <2>1. PICK m : m = Message(id, "user", text)
    OBVIOUS
  <2>2. m.role = "user"
    BY <2>1, MessageIs
  <2>3. M = Append(ui.messages, m)
    BY <1>4, <2>1
  <2>4. ASSUME NEW x
        PROVE  FollowedByUser(M, x) <=>
                 FollowedByUser(ui.messages, x)
                 \/ (m.role = "user" /\ \E i \in DOMAIN ui.messages : Holds(ui.messages[i], x))
    BY <1>10, <2>3, AppendFollowed, Zenon
  <2> QED BY <2>2, <2>4
<1>20. Marked(t)
  <2>1. ASSUME NEW x \in DOMAIN ui.questions
        PROVE  \E i \in DOMAIN ui.messages : Holds(ui.messages[i], x)
    <3>1. x \in Callers
      BY DEF TidyInv, Tidy, Drawn
    <3>2. ShownAs(ui, x, StatusOf(x))
      BY <3>1 DEF Callers, Announced, ConvInv, CallsInv
    <3> QED BY <3>2 DEF ShownAs, Holds
  <2>2. \A x \in DOMAIN t.questions : t.questions[x] = TRUE /\ FollowedByUser(t.messages, x)
    BY <1>13, <1>19, <2>1
  <2>3. t.questions \in [DOMAIN t.questions -> BOOLEAN]
    BY <1>13
  <2> QED BY <2>2, <2>3 DEF Marked
<1>21. UserIds(t, turn')
  <2>1. PICK m : m = Message(id, "user", text)
    OBVIOUS
  <2>2. PICK n \in Nat : n = Len(ui.messages) /\ Appends(ui.messages, M, n, m)
    BY <1>4, <1>10, <2>1, AppendedIs DEF Appends
  <2>3. m.id = id /\ id[2] = turn'
    BY <1>2, <2>1, MessageIs
  <2>4. ASSUME NEW j \in DOMAIN M, M[j].id[1] = "user" PROVE M[j].id[2] <= turn'
    <3>1. CASE j = n + 1
      BY <1>1, <1>2, <2>2, <2>3, <3>1 DEF Appends
    <3>2. CASE j # n + 1
      <4>1. j \in 1..n /\ M[j] = ui.messages[j] /\ DOMAIN ui.messages = 1..n
        BY <2>2, <3>2 DEF Appends
      <4>2. M[j].id[2] <= turn
        BY <1>10, <2>4, <4>1 DEF UserIds
      <4>3. M[j].id[2] \in Nat
        BY <2>2, <4>1 DEF ConvInv, UiInv, Numbered, Ids
      <4> QED BY <1>1, <4>2, <4>3
    <3> QED BY <3>1, <3>2
  <2> QED BY <1>13, <2>4 DEF UserIds
<1>22. \A x \in Waiting' : ~FollowedByUser(M, x)
  <2> SUFFICES ASSUME NEW x \in Waiting' PROVE ~FollowedByUser(M, x)
    OBVIOUS
  <2>1. x \in Tools /\ x \in Waiting
    BY <1>1 DEF Waiting
  <2>2. call[x] = "none"
    BY <1>1, <2>1 DEF Waiting, ConvInv, PendInv
  <2>3. Hidden(ui, x)
    BY <2>1, <2>2 DEF ConvInv, CallsInv
  <2>4. ~\E i \in DOMAIN ui.messages : Holds(ui.messages[i], x)
    BY <2>3 DEF Hidden, Holds
  <2>5. ~FollowedByUser(ui.messages, x)
    BY <2>1 DEF KeptInv, Whole
  <2> QED BY <1>19, <2>4, <2>5
<1>23. Whole(t, B, q, turn', Waiting')
  BY <1>12, <1>13, <1>15, <1>16, <1>17, <1>18, <1>20, <1>21, <1>22 DEF Whole, Stores
<1> QED BY <1>7, <1>9, <1>23 DEF KeptInv

LEMMA InitKept == Init => KeptInv
<1> SUFFICES ASSUME Init PROVE KeptInv
  OBVIOUS
<1>1. ui = initialAgentEventState /\ row = <<>> /\ rows = <<>> /\ turn = 0
  BY DEF Init
<1>2. Events(rows) = <<>> /\ Base = ui
  BY <1>1, NoEvents, ReducedNone DEF Base
<1>3. Sequential(rows) /\ Sequential(Events(rows))
  BY <1>1, <1>2, EmptyOne
<1>4. /\ ui.messages = <<>> /\ ui.questions = <<>> /\ DOMAIN ui = Fields
  BY <1>1 DEF initialAgentEventState, Fields
<1>5. Sequential(ui.messages) /\ \A j : j \notin DOMAIN ui.messages /\ j \notin DOMAIN ui.questions
  BY <1>4, EmptyOne
<1>6. Reduced(Base, Unwrapped(row)) = ui
  BY <1>1, <1>2, NothingStored, ReducedNone
<1>7. Replays(ui, ui)
  BY <1>4, <1>5 DEF Replays, Agree, Reasks
<1>8. Proper(ui) /\ UserIds(ui, turn)
  BY <1>5 DEF Proper, UserIds
<1>9. \A x : ~FollowedByUser(ui.messages, x)
  BY <1>5 DEF FollowedByUser
<1>10. Marked(ui)
  <2>1. ui.questions \in [DOMAIN ui.questions -> BOOLEAN]
    BY <1>4
  <2> QED BY <1>5, <2>1 DEF Marked
<1>11. Prior(Base, Unwrapped(row))
  <2>1. ASSUME NEW F, NEW d, Sequential(F), Append(F, d) = <<>> PROVE FALSE
    <3>1. PICK n \in Nat : n = Len(F) /\ Appends(F, Append(F, d), n, d)
      BY <2>1, AppendedIs DEF Appends
    <3> QED BY <2>1, <3>1, EmptyOne DEF Appends
  <2> QED BY <1>1, <2>1, NothingStored DEF Prior
<1>12. Whole(ui, Base, row, turn, Waiting)
  BY <1>1, <1>6, <1>7, <1>8, <1>9, <1>10, <1>11, NothingStored DEF Whole, Stores
<1> QED BY <1>3, <1>12 DEF KeptInv

\* What is stored replays to what is displayed.
LEMMA StepsStore ==
  ASSUME ConvInv, TextInv, TidyInv, KeptInv, Steps
  PROVE  KeptInv'
<1>1. CASE \E t \in Tools : Assistant(t) \/ PreToolUse(t) \/ User(t)
  BY <1>1, AssistantKept, PreToolUseKept, UserKept
<1>2. CASE \E t \in Tools, isError \in BOOLEAN : PostToolUse(t, isError)
  BY <1>2, PostToolUseKept
<1>3. CASE \E type \in {"content_delta", "thinking_delta"} : Delta(type)
  BY <1>3, DeltaKept
<1>4. CASE \E slides \in 0..1 : StartTurn(slides)
  BY <1>4, StartTurnKept
<1>5. CASE Block \/ InputDelta \/ Status \/ HookResponse \/ SystemInit
           \/ (\E t \in Tools : Progress(t)) \/ (\E typed \in BOOLEAN : SubagentStart(typed))
           \/ SubagentStop
  BY <1>5, AsidesKept
<1>6. CASE Send(<<0>>)
  <2>1. <<0>> # <<>>
    OBVIOUS
  <2> QED BY <1>6, <2>1, SendKept
<1>7. CASE Throws \/ \E text \in {<<>>, <<0>>} : Result(text)
  BY <1>7, EndsKept
<1> QED BY <1>1, <1>2, <1>3, <1>4, <1>5, <1>6, <1>7 DEF Steps

----------------------------------------------------------------------------
(* Fragments merged.                                                       *)

\* The messages on the way, over the first n of M.
Merges(f, M, n) ==
  f = [k \in 0..n |-> IF k = 0 THEN <<>> ELSE mergeFragment(f[k - 1], M[k])]

LEMMA MergesThrough ==
  ASSUME NEW f, NEW M, NEW n \in Nat, Merges(f, M, n)
  PROVE  /\ f[0] = <<>>
         /\ \A k \in 0..n : k < n => f[k + 1] = mergeFragment(f[k], M[k + 1])
<1>1. \A k \in 0..n : f[k] = IF k = 0 THEN <<>> ELSE mergeFragment(f[k - 1], M[k])
  BY Zenon DEF Merges
<1>2. \A k \in 0..n : k < n => k + 1 \in 0..n /\ k + 1 # 0 /\ (k + 1) - 1 = k
  OBVIOUS
<1>3. 0 \in 0..n
  OBVIOUS
<1> QED BY <1>1, <1>2, <1>3, Zenon

LEMMA MergedIs ==
  ASSUME NEW M, NEW n \in Nat, Len(M) = n
  PROVE  \E f : Merges(f, M, n) /\ Merged(M) = f[n]
<1> DEFINE P == {m \in 0..n : \E f : Merges(f, M, m)}
<1>1. 0 \in P
  <2> DEFINE f == [k \in 0..0 |-> <<>>]
  <2>1. Merges(f, M, 0)
    BY DEF Merges
  <2> HIDE DEF f
  <2> QED BY <2>1
<1>2. ASSUME NEW m \in 0..n, m \in P, m < n PROVE m + 1 \in P
  <2>1. PICK f : Merges(f, M, m)
    BY <1>2
  <2> DEFINE h == [k \in 0..(m + 1) |-> IF k = m + 1 THEN mergeFragment(f[m], M[m + 1]) ELSE f[k]]
  <2>2. \A k \in 0..m : f[k] = IF k = 0 THEN <<>> ELSE mergeFragment(f[k - 1], M[k])
    BY <2>1, Zenon DEF Merges
  <2>3. \A k \in 0..(m + 1) : h[k] = IF k = 0 THEN <<>> ELSE mergeFragment(h[k - 1], M[k])
    <3>1. ASSUME NEW k \in 0..(m + 1), k # m + 1
          PROVE  /\ k \in 0..m /\ h[k] = f[k]
                 /\ k # 0 => k - 1 \in 0..m /\ k - 1 \in 0..(m + 1) /\ k - 1 # m + 1
      BY <1>2, <3>1
    <3>2. m + 1 # 0 /\ (m + 1) - 1 = m /\ m \in 0..(m + 1) /\ m # m + 1 /\ m + 1 \in 0..(m + 1)
      BY <1>2
    <3>3. h[m + 1] = mergeFragment(f[m], M[m + 1]) /\ h[m] = f[m]
      BY <3>2
    <3>4. ASSUME NEW k \in 0..(m + 1), k # m + 1, k # 0 PROVE h[k - 1] = f[k - 1]
      BY <3>1, <3>4
    <3> HIDE DEF h
    <3> QED BY <2>2, <3>1, <3>2, <3>3, <3>4
  <2>4. Merges(h, M, m + 1)
    <3>1. h = [k \in 0..(m + 1) |-> h[k]]
      OBVIOUS
    <3> HIDE DEF h
    <3> QED BY <2>3, <3>1 DEF Merges
  <2> HIDE DEF h
  <2> QED BY <1>2, <2>4
<1>3. 0..n \subseteq P
  <2> HIDE DEF P
  <2> QED BY <1>1, <1>2, UpTo
<1>4. \E f : Merges(f, M, n)
  BY <1>3
<1> DEFINE g == CHOOSE g : g = [k \in 0..Len(M) |->
                    IF k = 0 THEN <<>> ELSE mergeFragment(g[k - 1], M[k])]
<1>5. Merged(M) = g[n]
  BY DEF Merged
<1>6. Merges(g, M, n)
  BY <1>4, Zenon DEF Merges
<1> HIDE DEF g
<1> QED BY <1>5, <1>6

\* Fragment b becomes part of a.
Fuses(a, b) ==
  b.role = "assistant" /\ a.role = "assistant" /\ (b.text = <<>> \/ a.tools = <<>>)

Takes(out, n, m, t) == t = [out EXCEPT ![n] = withFragment(out[n], m)]

LEMMA MergeIs ==
  ASSUME NEW out, Sequential(out), NEW n, n = Len(out), NEW m
  PROVE  /\ n # 0 /\ Fuses(out[n], m) => Takes(out, n, m, mergeFragment(out, m))
         /\ ~(n # 0 /\ Fuses(out[n], m)) => mergeFragment(out, m) = Append(out, m)
<1>1. PICK S : out \in Seq(S)
  BY DEF Sequential
<1>2. out # <<>> <=> n # 0
  BY <1>1
<1>3. PICK a : a = out[n]
  OBVIOUS
<1>5. Last(out) = a
  BY <1>3 DEF Last
<1>6. CASE out # <<>> /\ Fuses(a, m)
  <2>1. mergeFragment(out, m) = [out EXCEPT ![n] = withFragment(out[n], m)]
    BY <1>5, <1>6 DEF mergeFragment, Fuses
  <2> QED BY <1>2, <1>3, <1>6, <2>1 DEF Takes
<1>7. CASE ~(out # <<>> /\ Fuses(a, m))
  <2>1. mergeFragment(out, m) = Append(out, m)
    BY <1>5, <1>7 DEF mergeFragment, Fuses
  <2> QED BY <1>2, <1>3, <1>7, <2>1
<1> QED BY <1>6, <1>7

IsFragment(m) ==
  DOMAIN m = MessageFields /\ Sequential(m.tools) /\ m.text \in Seq(Nat)

LEMMA FusedIs ==
  ASSUME NEW a, NEW b, IsFragment(a), IsFragment(b), NEW c, c = withFragment(a, b)
  PROVE  /\ IsFragment(c) /\ c.role = a.role
         /\ a.text # <<>> => c.text # <<>>
         /\ \A x : Holds(c, x) <=> Holds(a, x) \/ Holds(b, x)
<1>1. /\ DOMAIN c = MessageFields /\ c.role = a.role
      /\ c.text = a.text \o b.text /\ c.tools = a.tools \o b.tools
  BY DEF IsFragment, withFragment, MessageFields
<1>2. c.text \in Seq(Nat) /\ (a.text # <<>> => c.text # <<>>)
  BY <1>1 DEF IsFragment
<1>3. PICK S, T : a.tools \in Seq(S) /\ b.tools \in Seq(T)
  BY DEF IsFragment, Sequential
<1>4. PICK p \in Seq(S \cup T) : p = a.tools
  BY <1>3
<1>5. PICK q \in Seq(S \cup T) : q = b.tools
  BY <1>3
<1>6. PICK r : r = p \o q
  OBVIOUS
<1>7. /\ r \in Seq(S \cup T) /\ Len(r) = Len(p) + Len(q)
      /\ \A j \in 1..Len(p) : r[j] = p[j]
      /\ \A j \in (Len(p) + 1)..(Len(p) + Len(q)) : r[j] = q[j - Len(p)]
  BY <1>6, Concatenated
<1>8. Sequential(r)
  BY <1>7 DEF Sequential
<1>9. PICK k \in Nat, l \in Nat : k = Len(p) /\ l = Len(q)
  OBVIOUS
<1>10. DOMAIN p = 1..k /\ DOMAIN q = 1..l /\ DOMAIN r = 1..(k + l)
  BY <1>7, <1>9
<1>11. ASSUME NEW x
       PROVE  (\E j \in 1..(k + l) : r[j].id = x) <=>
                (\E j \in 1..k : p[j].id = x) \/ (\E j \in 1..l : q[j].id = x)
  <2>1. \A j \in 1..(k + l) : j \in 1..k \/ (j \in (k + 1)..(k + l) /\ j - k \in 1..l)
    OBVIOUS
  <2>2. \A j \in 1..k : j \in 1..(k + l)
    OBVIOUS
  <2>3. \A j \in 1..l : j + k \in 1..(k + l) /\ j + k \in (k + 1)..(k + l) /\ (j + k) - k = j
    OBVIOUS
  <2>4. /\ \A j \in 1..k : r[j] = p[j]
        /\ \A j \in (k + 1)..(k + l) : r[j] = q[j - k]
    BY <1>7, <1>9
  <2>5. \A j \in 1..(k + l) : (j \in 1..k /\ r[j] = p[j]) \/ (j - k \in 1..l /\ r[j] = q[j - k])
    BY <2>1, <2>4
  <2>6. \A j \in 1..k : r[j].id = p[j].id
    BY <2>4
  <2>7. \A j \in 1..l : r[j + k] = q[j]
    BY <2>3, <2>4
  <2>8. ASSUME NEW j \in 1..(k + l), r[j].id = x
        PROVE  (\E i \in 1..k : p[i].id = x) \/ (\E i \in 1..l : q[i].id = x)
    BY <2>5, <2>8
  <2>9. ASSUME NEW j \in 1..k, p[j].id = x PROVE \E i \in 1..(k + l) : r[i].id = x
    BY <2>2, <2>6, <2>9
  <2>10. ASSUME NEW j \in 1..l, q[j].id = x PROVE \E i \in 1..(k + l) : r[i].id = x
    BY <2>3, <2>7, <2>10
  <2> QED BY <2>8, <2>9, <2>10
<1>12. ASSUME NEW x PROVE Holds(c, x) <=> Holds(a, x) \/ Holds(b, x)
  <2>1. c.tools = r /\ a.tools = p /\ b.tools = q
    BY <1>1, <1>4, <1>5, <1>6
  <2>2. Holds(c, x) <=> \E j \in 1..(k + l) : r[j].id = x
    BY <1>10, <2>1 DEF Holds
  <2>3. Holds(a, x) <=> \E j \in 1..k : p[j].id = x
    BY <1>10, <2>1 DEF Holds
  <2>4. Holds(b, x) <=> \E j \in 1..l : q[j].id = x
    BY <1>10, <2>1 DEF Holds
  <2> QED BY <1>11, <2>2, <2>3, <2>4
<1> QED BY <1>1, <1>2, <1>4, <1>5, <1>6, <1>8, <1>12 DEF IsFragment

\* out shows what the first k of M do, as far as questions need it.
Faithful(out, M, k) ==
  /\ Sequential(out)
  /\ \A j \in DOMAIN out : IsFragment(out[j])
  /\ \A x : (\E i \in DOMAIN out : Holds(out[i], x)) <=> (\E i \in 1..k : Holds(M[i], x))
  /\ \A x : FollowedByUser(out, x) <=>
              \E i, j \in 1..k : Holds(M[i], x) /\ i < j /\ M[j].role = "user"

\* One more of them.
LEMMA OneFurther ==
  ASSUME NEW M, NEW k \in Nat, NEW x
  PROVE  /\ (\E i \in 1..(k + 1) : Holds(M[i], x)) <=>
              (\E i \in 1..k : Holds(M[i], x)) \/ Holds(M[k + 1], x)
         /\ (\E i, j \in 1..(k + 1) : Holds(M[i], x) /\ i < j /\ M[j].role = "user") <=>
              \/ \E i, j \in 1..k : Holds(M[i], x) /\ i < j /\ M[j].role = "user"
              \/ M[k + 1].role = "user" /\ \E i \in 1..k : Holds(M[i], x)
<1>1. \A j \in 1..(k + 1) : j \in 1..k \/ j = k + 1
  OBVIOUS
<1>2. \A j \in 1..k : j \in 1..(k + 1) /\ j < k + 1
  OBVIOUS
<1>3. k + 1 \in 1..(k + 1)
  OBVIOUS
<1>4. \A i, j \in 1..(k + 1) : i < j => i \in 1..k
  OBVIOUS
<1> QED BY <1>1, <1>2, <1>3, <1>4, Zenon

LEMMA MergeFuses ==
  ASSUME NEW M, NEW k \in Nat, NEW out, Faithful(out, M, k), NEW m, m = M[k + 1], IsFragment(m),
         NEW n, n = Len(out), n # 0, Fuses(out[n], m)
  PROVE  Faithful(mergeFragment(out, m), M, k + 1)
<1>1. Sequential(out)
  BY DEF Faithful
<1>2. PICK S : out \in Seq(S)
  BY <1>1 DEF Sequential
<1>3. n \in Nat /\ DOMAIN out = 1..n /\ n \in 1..n
  BY <1>2
<1>4. PICK a : a = out[n]
  OBVIOUS
<1>5. PICK c : c = withFragment(a, m)
  OBVIOUS
<1>6. PICK N : N = [out EXCEPT ![n] = c]
  OBVIOUS
<1>7. mergeFragment(out, m) = N
  <2>1. Takes(out, n, m, mergeFragment(out, m))
    BY <1>1, MergeIs
  <2> QED BY <1>4, <1>5, <1>6, <2>1 DEF Takes
<1>8. Sequential(N) /\ DOMAIN N = 1..n
  <2>1. N = [j \in DOMAIN out |-> N[j]]
    BY <1>6
  <2> QED BY <1>1, <1>3, <2>1, Mapped
<1>9. N[n] = c /\ \A j \in 1..n : j # n => N[j] = out[j]
  BY <1>3, <1>6
<1>10. IsFragment(a) /\ a.role = "assistant" /\ m.role = "assistant"
  BY <1>3, <1>4 DEF Faithful, Fuses
<1>11. /\ IsFragment(c) /\ c.role = a.role /\ (a.text # <<>> => c.text # <<>>)
       /\ \A x : Holds(c, x) <=> Holds(a, x) \/ Holds(m, x)
  BY <1>5, <1>10, FusedIs
<1>12. \A j \in DOMAIN N : IsFragment(N[j])
  BY <1>3, <1>8, <1>9, <1>11 DEF Faithful
<1>13. ASSUME NEW x PROVE FollowedByUser(N, x) <=> FollowedByUser(out, x)
  <2>1. \A i, j \in 1..n : i < j => i # n
    BY <1>3
  <2>2. \A j \in 1..n : N[j].role = out[j].role
    BY <1>4, <1>9, <1>11
  <2>3. Tracks(out, N)
    BY <1>3, <1>8, <1>9, <2>1, <2>2 DEF Tracks
  <2> QED BY <2>3, TracksFollowed
<1>14. ASSUME NEW x
       PROVE  (\E i \in DOMAIN N : Holds(N[i], x)) <=> (\E i \in DOMAIN out : Holds(out[i], x)) \/ Holds(m, x)
  <2>1. \A i \in 1..n : i = n \/ N[i] = out[i]
    BY <1>9
  <2> QED BY <1>3, <1>4, <1>8, <1>9, <1>11, <2>1
<1>15. ASSUME NEW x
       PROVE  /\ (\E i \in DOMAIN N : Holds(N[i], x)) <=> (\E i \in 1..(k + 1) : Holds(M[i], x))
              /\ FollowedByUser(N, x) <=>
                   \E i, j \in 1..(k + 1) : Holds(M[i], x) /\ i < j /\ M[j].role = "user"
  <2>1. m.role # "user"
    BY <1>10
  <2>2. /\ (\E i \in DOMAIN out : Holds(out[i], x)) <=> (\E i \in 1..k : Holds(M[i], x))
        /\ FollowedByUser(out, x) <=> \E i, j \in 1..k : Holds(M[i], x) /\ i < j /\ M[j].role = "user"
    BY DEF Faithful
  <2>3. PICK b \in BOOLEAN : b <=> \E i \in 1..k : Holds(M[i], x)
    OBVIOUS
  <2> QED BY <1>13, <1>14, <2>1, <2>2, OneFurther, Zenon
<1>16. Faithful(N, M, k + 1)
  BY <1>8, <1>12, <1>15 DEF Faithful
<1> QED BY <1>7, <1>16

LEMMA MergeAppends ==
  ASSUME NEW M, NEW k \in Nat, NEW out, Faithful(out, M, k), NEW m, m = M[k + 1], IsFragment(m),
         NEW n, n = Len(out), ~(n # 0 /\ Fuses(out[n], m))
  PROVE  Faithful(mergeFragment(out, m), M, k + 1)
<1>1. Sequential(out)
  BY DEF Faithful
<1>2. PICK N : N = Append(out, m)
  OBVIOUS
<1>3. mergeFragment(out, m) = N
  BY <1>1, <1>2, MergeIs
<1>4. /\ Sequential(N) /\ n \in Nat /\ DOMAIN out = 1..n /\ DOMAIN N = 1..(n + 1)
      /\ N[n + 1] = m /\ \A j \in 1..n : N[j] = out[j]
  BY <1>1, <1>2, AppendedIs DEF Appends
<1>5. \A j \in 1..(n + 1) : j \in 1..n \/ j = n + 1
  BY <1>4
<1>6. \A j \in DOMAIN N : IsFragment(N[j])
  BY <1>4, <1>5 DEF Faithful
<1>7. ASSUME NEW x
      PROVE  (\E i \in DOMAIN N : Holds(N[i], x)) <=> (\E i \in DOMAIN out : Holds(out[i], x)) \/ Holds(m, x)
  <2>1. \A j \in 1..n : j \in 1..(n + 1)
    BY <1>4
  <2>2. n + 1 \in 1..(n + 1)
    BY <1>4
  <2> QED BY <1>4, <1>5, <2>1, <2>2, Zenon
<1>8. ASSUME NEW x
      PROVE  /\ (\E i \in DOMAIN N : Holds(N[i], x)) <=> (\E i \in 1..(k + 1) : Holds(M[i], x))
             /\ FollowedByUser(N, x) <=>
                  \E i, j \in 1..(k + 1) : Holds(M[i], x) /\ i < j /\ M[j].role = "user"
  <2>1. FollowedByUser(N, x) <=>
          FollowedByUser(out, x) \/ (m.role = "user" /\ \E i \in DOMAIN out : Holds(out[i], x))
    BY <1>1, <1>2, AppendFollowed, ZenonT(40)
  <2>2. /\ (\E i \in DOMAIN out : Holds(out[i], x)) <=> (\E i \in 1..k : Holds(M[i], x))
        /\ FollowedByUser(out, x) <=> \E i, j \in 1..k : Holds(M[i], x) /\ i < j /\ M[j].role = "user"
    BY DEF Faithful
  <2> QED BY <1>7, <2>1, <2>2, OneFurther, Zenon
<1>9. Faithful(N, M, k + 1)
  BY <1>4, <1>6, <1>8 DEF Faithful
<1> QED BY <1>3, <1>9

LEMMA MergedFaithful ==
  ASSUME NEW M, Sequential(M), \A j \in DOMAIN M : IsFragment(M[j])
  PROVE  Faithful(Merged(M), M, Len(M))
<1>1. PICK S : M \in Seq(S)
  BY DEF Sequential
<1>2. PICK n \in Nat : n = Len(M)
  BY <1>1
<1>3. PICK f : Merges(f, M, n) /\ Merged(M) = f[n]
  BY <1>2, MergedIs
<1>4. f[0] = <<>> /\ \A k \in 0..n : k < n => f[k + 1] = mergeFragment(f[k], M[k + 1])
  BY <1>3, MergesThrough
<1> DEFINE P == {k \in 0..n : Faithful(f[k], M, k)}
<1>5. 0 \in P
  <2>1. Sequential(f[0]) /\ \A j : j \notin DOMAIN f[0]
    BY <1>4, EmptyOne
  <2>2. \A i : i \notin 1..0
    OBVIOUS
  <2>3. Faithful(f[0], M, 0)
    BY <2>1, <2>2, AnsweredIs, Zenon DEF Faithful
  <2> QED BY <2>3
<1>6. ASSUME NEW k \in 0..n, k \in P, k < n PROVE k + 1 \in P
  <2>1. PICK m : m = M[k + 1]
    OBVIOUS
  <2>2. k \in Nat /\ k + 1 \in 0..n /\ k + 1 \in DOMAIN M /\ Faithful(f[k], M, k)
    BY <1>1, <1>2, <1>6
  <2>3. IsFragment(m)
    BY <2>1, <2>2
  <2>4. Faithful(mergeFragment(f[k], m), M, k + 1)
    BY <2>1, <2>2, <2>3, MergeFuses, MergeAppends
  <2>5. Faithful(f[k + 1], M, k + 1)
    BY <1>4, <1>6, <2>1, <2>4
  <2> QED BY <2>2, <2>5
<1>7. 0..n \subseteq P
  <2> HIDE DEF P
  <2> QED BY <1>5, <1>6, UpTo
<1>8. n \in P
  BY <1>7
<1> QED BY <1>2, <1>3, <1>8

----------------------------------------------------------------------------
(* What a reader sees.                                                     *)

\* What is shown of messages, once merged, and of the rest.
Sight(M, s) ==
  <<[j \in DOMAIN M |->
       LET m == M[j] IN <<m.role, m.text, m.thinking, m.tools, m.paths>>],
    {r.tool : r \in s.tables}, {r.tool : r \in s.charts}, s.questions, s.dashboards,
    s.artifacts, s.todos, s.sessionInfo, s.subagents, FALSE>>

\* What is displayed without the error.
LEMMA SightIs ==
  ASSUME NEW s, DOMAIN s = Fields, NEW t, t = [s EXCEPT !.error = FALSE]
  PROVE  Displayed(t) = Sight(s.messages, s)
<1>1. /\ t.messages = s.messages /\ t.tables = s.tables /\ t.charts = s.charts
      /\ t.questions = s.questions /\ t.dashboards = s.dashboards
      /\ t.artifacts = s.artifacts /\ t.todos = s.todos
      /\ t.sessionInfo = s.sessionInfo /\ t.subagents = s.subagents /\ t.error = FALSE
  BY FieldNames
<1> QED BY <1>1 DEF Displayed, Sight

\* What lasts of a display.
LEMMA LastingIs ==
  ASSUME NEW s, DOMAIN s = Fields
  PROVE  Displayed(Lasting(s)) = Sight(Merged(s.messages), s)
<1>1. PICK a : a = mergeAssistantFragments(s)
  OBVIOUS
<1>2. /\ DOMAIN a = Fields /\ a.messages = Merged(s.messages)
      /\ a.tables = s.tables /\ a.charts = s.charts /\ a.questions = s.questions
      /\ a.dashboards = s.dashboards /\ a.artifacts = s.artifacts /\ a.todos = s.todos
      /\ a.sessionInfo = s.sessionInfo /\ a.subagents = s.subagents
  BY <1>1, FieldNames DEF mergeAssistantFragments
<1>3. Displayed(Lasting(s)) = Sight(a.messages, a)
  BY <1>1, <1>2, SightIs DEF Lasting
<1>4. Sight(a.messages, a) = Sight(Merged(s.messages), s)
  BY <1>2, Zenon DEF Sight
<1> QED BY <1>3, <1>4

\* What the replay of events has.
LEMMA ReplayIs ==
  ASSUME NEW events, NEW w, w = Reduced(initialAgentEventState, events), DOMAIN w = Fields,
         NEW N, N = Merged(w.messages), NEW r, r = replayEvents(events)
  PROVE  /\ DOMAIN r = Fields /\ r.messages = N
         /\ r.questions = [x \in DOMAIN w.questions |-> w.questions[x] \/ FollowedByUser(N, x)]
         /\ r.tables = w.tables /\ r.charts = w.charts /\ r.dashboards = w.dashboards
         /\ r.artifacts = w.artifacts /\ r.todos = w.todos
         /\ r.sessionInfo = w.sessionInfo /\ r.subagents = w.subagents
<1>1. PICK a : a = [w EXCEPT !.messages = N]
  OBVIOUS
<1>2. PICK Q : Q = [x \in DOMAIN w.questions |-> w.questions[x] \/ FollowedByUser(N, x)]
  OBVIOUS
<1>3. PICK s : s = [a EXCEPT !.questions = Q]
  OBVIOUS
<1>4. a = mergeAssistantFragments(w)
  BY <1>1 DEF mergeAssistantFragments
<1>5. a.messages = N /\ a.questions = w.questions
  BY <1>1, FieldNames
<1>6. s = markAnsweredQuestions(a)
  <2>1. Q = [x \in DOMAIN a.questions |-> a.questions[x] \/ FollowedByUser(a.messages, x)]
    BY <1>2, <1>5
  <2> QED BY <1>3, <2>1 DEF markAnsweredQuestions
<1>7. r = [s EXCEPT !.isStreaming = FALSE, !.activity = "none", !.toolInput = <<>>,
                    !.currentMessage = [id |-> NoId, text |-> <<>>]]
  BY <1>4, <1>6, Zenon DEF replayEvents
<1> QED BY <1>1, <1>2, <1>3, <1>7, FieldNames

LEMMA RestoredIs ==
  ASSUME IsState(ui), Legible(ui), KeptInv
  PROVE  Displayed(Resumed) = Displayed(Lasting(ui))
<1>1. PICK w : w = Reduced(initialAgentEventState, Stored)
  OBVIOUS
<1>2. Replays(ui, w) /\ Marked(ui)
  <2>1. Sequential(Events(rows)) /\ Sequential(Unwrapped(row))
    BY RowSequential DEF KeptInv, Whole, Stores
  <2>2. w = Reduced(Base, Unwrapped(row))
    BY <1>1, <2>1, ReducedThen DEF Stored, Events, Base
  <2> QED BY <2>2 DEF KeptInv, Whole, Stores
<1>3. PICK M : M = ui.messages
  OBVIOUS
<1>4. PICK N : N = Merged(M)
  OBVIOUS
<1>5. Sequential(M) /\ \A j \in DOMAIN M : IsFragment(M[j])
  BY <1>3 DEF IsState, IsMessages, IsMessage, IsTools, Legible, IsFragment, MessageFields
<1>6. Faithful(N, M, Len(M))
  BY <1>4, <1>5, MergedFaithful
<1>7. ASSUME NEW x PROVE FollowedByUser(N, x) <=> FollowedByUser(M, x)
  <2>1. PICK S : M \in Seq(S)
    BY <1>5 DEF Sequential
  <2>2. DOMAIN M = 1..Len(M)
    BY <2>1
  <2>3. FollowedByUser(N, x) <=>
          \E i, j \in DOMAIN M : Holds(M[i], x) /\ i < j /\ M[j].role = "user"
    BY <1>6, <2>2 DEF Faithful
  <2> QED BY <2>3, AnsweredIs, Zenon
<1>8. PICK r : r = replayEvents(Stored)
  OBVIOUS
<1>9. /\ DOMAIN r = Fields /\ r.messages = N
       /\ r.questions = [x \in DOMAIN w.questions |-> w.questions[x] \/ FollowedByUser(N, x)]
       /\ r.tables = w.tables /\ r.charts = w.charts /\ r.dashboards = w.dashboards
       /\ r.artifacts = w.artifacts /\ r.todos = w.todos
       /\ r.sessionInfo = w.sessionInfo /\ r.subagents = w.subagents
  <2>1. DOMAIN w = Fields /\ N = Merged(w.messages)
    BY <1>2, <1>3, <1>4 DEF Replays, Agree
  <2> QED BY <1>1, <1>8, <2>1, ReplayIs
<1>10. r.questions = ui.questions
  <2>1. PICK Q : Q = r.questions
    OBVIOUS
  <2>2. PICK P : P = ui.questions
    OBVIOUS
  <2>3. DOMAIN w.questions = DOMAIN P /\ \A x \in DOMAIN P : w.questions[x] = FALSE
    BY <1>2, <2>2 DEF Replays, Reasks
  <2>4. Q = [x \in DOMAIN P |-> w.questions[x] \/ FollowedByUser(N, x)]
    BY <1>9, <2>1, <2>3
  <2>5. P \in [DOMAIN P -> BOOLEAN] /\ \A x \in DOMAIN P : P[x] = TRUE <=> FollowedByUser(M, x)
    BY <1>2, <1>3, <2>2 DEF Marked
  <2>6. ASSUME NEW x \in DOMAIN P PROVE Q[x] = P[x]
    <3>1. Q[x] = (w.questions[x] \/ FollowedByUser(N, x)) /\ w.questions[x] = FALSE
      BY <2>3, <2>4
    <3>2. CASE FollowedByUser(M, x)
      <4>1. FollowedByUser(N, x) /\ P[x] = TRUE
        BY <1>7, <2>5, <3>2
      <4>2. Q[x] = TRUE
        BY <3>1, <4>1, Zenon
      <4> QED BY <4>1, <4>2, Zenon
    <3>3. CASE ~FollowedByUser(M, x)
      <4>1. ~FollowedByUser(N, x) /\ P[x] = FALSE
        BY <1>7, <2>5, <3>3
      <4>2. Q[x] = FALSE
        BY <3>1, <4>1, Zenon
      <4> QED BY <4>1, <4>2, Zenon
    <3> QED BY <3>2, <3>3
  <2>7. P = [x \in DOMAIN P |-> P[x]] /\ Q = [x \in DOMAIN P |-> Q[x]]
    BY <2>4, <2>5
  <2> QED BY <2>1, <2>2, <2>6, <2>7
<1>11. /\ r.tables = ui.tables /\ r.charts = ui.charts /\ r.dashboards = ui.dashboards
       /\ r.artifacts = ui.artifacts /\ r.todos = ui.todos
       /\ r.sessionInfo = ui.sessionInfo /\ r.subagents = ui.subagents
  BY <1>2, <1>9 DEF Replays, Agree
<1>12. Displayed(Resumed) = Sight(N, r)
  BY <1>8, <1>9, SightIs DEF Resumed
<1>13. Displayed(Lasting(ui)) = Sight(N, ui)
  BY <1>3, <1>4, LastingIs DEF IsState
<1>14. Sight(N, r) = Sight(N, ui)
  BY <1>10, <1>11 DEF Sight
<1> QED BY <1>12, <1>13, <1>14

----------------------------------------------------------------------------
(* The theorem.                                                            *)

RestoreInv == Inv /\ (Attached => TextInv /\ TidyInv /\ KeptInv)

LEMMA RestoreBegins == Init => RestoreInv
BY Begins, InitText, InitTidy, InitKept DEF RestoreInv, Attached

LEMMA RestoreKept == RestoreInv /\ [Next]_vars => RestoreInv'
<1> SUFFICES ASSUME RestoreInv, [Next]_vars PROVE RestoreInv'
  OBVIOUS
<1>1. Inv'
  BY GoesOnAlways DEF RestoreInv
<1>2. ASSUME Attached' PROVE TextInv' /\ TidyInv' /\ KeptInv'
  <2>1. CASE Steps
    <3>1. ConvInv /\ TextInv /\ TidyInv /\ KeptInv
      BY <1>2, <2>1, StepsAttached DEF RestoreInv, Inv, Attached
    <3> QED BY <2>1, <3>1, StepsTell, StepsTidy, StepsStore
  <2>2. CASE Reconnect
    BY <1>2, <2>2 DEF RestoreInv, Inv, Attached, Reconnect
  <2>3. CASE LegacyRow
    BY <1>2, <2>3 DEF Attached, LegacyRow
  <2>4. CASE UNCHANGED vars
    <3>1. UNCHANGED <<ui, row, rows, turn, call, limit, phase, reconnects, pieces>>
      BY <2>4 DEF vars, turnVars, sdkVars
    <3>2. TextInv /\ TidyInv /\ KeptInv
      BY <1>2, <3>1 DEF RestoreInv, Attached
    <3>3. TextInv'
      BY <3>1, <3>2 DEF TextInv
    <3>4. TidyInv'
      BY <3>1, <3>2 DEF TidyInv, Tidy, Drawn, Callers, Announced, kind
    <3>5. KeptInv'
      BY <3>1, <3>2 DEF KeptInv, Base, Waiting
    <3> QED BY <3>3, <3>4, <3>5
  <2> QED BY <2>1, <2>2, <2>3, <2>4, NextIs
<1> QED BY <1>1, <1>2 DEF RestoreInv

LEMMA InvRestored == RestoreInv => (reconnects = 0 => LastingRestored)
<1>1. ASSUME RestoreInv, reconnects = 0, phase = "idle"
      PROVE  Displayed(Resumed) = Displayed(Lasting(ui))
  <2>1. Attached
    BY <1>1 DEF Attached
  <2>2. IsState(ui) /\ Legible(ui) /\ KeptInv
    BY <1>1, <2>1 DEF RestoreInv, Inv, ConvInv, UiInv, TextInv, Written
  <2> QED BY <2>2, RestoredIs
<1> QED BY <1>1 DEF LastingRestored

(***************************************************************************)
(* Between turns, what is restored from the stored events is what was      *)
(* displayed live (README.md:43) but for fragments fused and an error left *)
(* out, questions that wait for an answer included: for any calls, texts,  *)
(* turns and order of events, of a client that has not had to attach to a  *)
(* turn again.                                                             *)
(***************************************************************************)
THEOREM LastingAlwaysRestored == Spec => [](reconnects = 0 => LastingRestored)
BY InvRestored, RestoreBegins, RestoreKept, PTL DEF Spec
=============================================================================
