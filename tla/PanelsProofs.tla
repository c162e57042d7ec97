----------------------------- MODULE PanelsProofs -----------------------------
(***************************************************************************)
(* Theorems about what is around the conversation: SessionList and         *)
(* SessionPanels, for any sessions, page size and number of operations, in *)
(* whatever order requests are answered; Composer; and ArtifactViews: the  *)
(* object URLs of the three views, what they render of what they fetched,  *)
(* and that a preview does not stay at "Loading".  The three share no      *)
(* state.                                                                  *)
(***************************************************************************)
EXTENDS SessionPanels, Composer, ArtifactViews, FiniteSetTheorems, WellFoundedInduction, TLAPS

panelled == <<vars, panelVars>>

----------------------------------------------------------------------------
(* Sequences.                                                              *)

\* What is left when one element is removed.
LEMMA Removed ==
  ASSUME NEW S, NEW s \in Seq(S), NEW i \in DOMAIN s
  PROVE  /\ RemoveAt(s, i) \in Seq(S)
         /\ Len(RemoveAt(s, i)) = Len(s) - 1
         /\ \A j \in 1..(Len(s) - 1) : RemoveAt(s, i)[j] = IF j < i THEN s[j] ELSE s[j + 1]
<1>1. SubSeq(s, 1, i - 1) \in Seq(S) /\ SubSeq(s, i + 1, Len(s)) \in Seq(S)
  OBVIOUS
<1>2. Len(SubSeq(s, 1, i - 1)) = i - 1 /\ Len(SubSeq(s, i + 1, Len(s))) = Len(s) - i
  OBVIOUS
<1>3. \A j \in 1..(i - 1) : SubSeq(s, 1, i - 1)[j] = s[j]
  OBVIOUS
<1>4. \A j \in 1..(Len(s) - i) : SubSeq(s, i + 1, Len(s))[j] = s[i + j]
  OBVIOUS
<1> DEFINE a == SubSeq(s, 1, i - 1)
<1> DEFINE b == SubSeq(s, i + 1, Len(s))
<1>5. RemoveAt(s, i) = a \o b
  BY DEF RemoveAt
<1> HIDE DEF a, b
<1>6. a \o b \in Seq(S) /\ Len(a \o b) = Len(s) - 1
  <2>1. a \in Seq(S) /\ b \in Seq(S) /\ Len(a) = i - 1 /\ Len(b) = Len(s) - i
    BY <1>1, <1>2 DEF a, b
  <2>2. (i - 1) + (Len(s) - i) = Len(s) - 1
    OBVIOUS
  <2> QED BY <2>1, <2>2
<1>7. ASSUME NEW j \in 1..(Len(s) - 1) PROVE (a \o b)[j] = IF j < i THEN s[j] ELSE s[j + 1]
  <2>1. a \in Seq(S) /\ b \in Seq(S) /\ Len(a) = i - 1 /\ Len(b) = Len(s) - i
    BY <1>1, <1>2 DEF a, b
  <2>2. CASE j < i
    <3>1. j \in 1..(i - 1)
      BY <2>2
    <3>2. (a \o b)[j] = a[j]
      BY <2>1, <3>1
    <3> QED BY <1>3, <2>2, <3>1, <3>2 DEF a
  <2>3. CASE ~(j < i)
    <3>1. j - (i - 1) \in 1..(Len(s) - i) /\ i + (j - (i - 1)) = j + 1
      BY <2>3
    <3>2. (a \o b)[j] = b[j - (i - 1)]
      <4>1. j \in 1..(Len(a) + Len(b)) /\ j > Len(a) /\ j - Len(a) = j - (i - 1)
        BY <2>1, <2>3
      <4> QED BY <2>1, <4>1, SMTT(30)
    <3>3. b[j - (i - 1)] = s[i + (j - (i - 1))]
      BY <1>4, <3>1 DEF b
    <3> QED BY <2>3, <3>1, <3>2, <3>3
  <2> QED BY <2>2, <2>3
<1> QED BY <1>5, <1>6, <1>7

\* What a filter leaves: elements at some of the positions, each of them once.
LEMMA Filtered ==
  ASSUME NEW S, NEW s, s \in Seq(S), NEW P, P \subseteq DOMAIN s, NEW new, new \in Filter(s, P)
  PROVE  /\ new \in Seq(S)
         /\ \A k \in DOMAIN new : \E i \in P : new[k] = s[i]
         /\ (\A i, j \in P : s[i] = s[j] => i = j)
              => \A k, l \in DOMAIN new : new[k] = new[l] => k = l
<1> DEFINE n == Cardinality(P)
<1>1. n \in Nat
  <2>1. IsFiniteSet(1..Len(s))
    BY FS_Interval
  <2>2. IsFiniteSet(P)
    BY <2>1, FS_Subset
  <2> QED BY <2>2, FS_CardinalityType
<1>2. PICK p \in [1..n -> P] :
        /\ new = [k \in 1..n |-> s[p[k]]]
        /\ \A i, j \in DOMAIN p : i < j => p[i] < p[j]
  BY DEF Filter
<1> HIDE DEF n
<1>3. new \in Seq(S) /\ DOMAIN new = 1..n
  BY <1>1, <1>2
<1>4. \A k, l \in 1..n : p[k] = p[l] => k = l
  <2> SUFFICES ASSUME NEW k \in 1..n, NEW l \in 1..n, p[k] = p[l], k # l PROVE FALSE
    OBVIOUS
  <2>1. p[k] \in Int /\ p[l] \in Int
    OBVIOUS
  <2>2. k < l \/ l < k
    BY <1>1
  <2> QED BY <1>2, <2>1, <2>2
<1>5. \A k \in 1..n : p[k] \in P /\ new[k] = s[p[k]]
  BY <1>2
<1>6. \A k \in DOMAIN new : \E i \in P : new[k] = s[i]
  BY <1>3, <1>5
<1>7. ASSUME \A i, j \in P : s[i] = s[j] => i = j,
             NEW k \in DOMAIN new, NEW l \in DOMAIN new, new[k] = new[l]
      PROVE  k = l
  BY <1>3, <1>4, <1>5, <1>7
<1> QED BY <1>3, <1>6, <1>7

----------------------------------------------------------------------------
(* The host.                                                               *)

Phases == {"none", "active", "done", "failed"}
Entries == [n : Nat, kind : {"none", "create", "restore", "snapshot"}, phase : Phases, seen : BOOLEAN]

\* The list has each session once, and one that is being created has an entry that
\* is active.
HostInv ==
  /\ hosted \in Seq(Sessions)
  /\ \A i, j \in DOMAIN hosted : hosted[i] = hosted[j] => i = j
  /\ op \in [Sessions -> Entries]
  /\ inst \in [Sessions -> {"running", "destroyed"}]
  /\ began \in Nat
  /\ creating \subseteq ToSet(hosted)
  /\ \A s \in creating : Active(op[s])

\* The steps of the host, but Accept.
HostStep ==
  \/ \E s \in Sessions : Starts(s) \/ Tracked(s) \/ Ends(s) \/ Stops(s) \/ Purge(s) \/ EndsDestroyed(s)
  \/ \E c \in calls : Destroy(c)

Polled == \E s : op' = [op EXCEPT ![s].seen = TRUE] /\ UNCHANGED <<inst, hosted, creating, began>>

LEMMA HostMoves ==
  ASSUME [PanelNext]_panelled
  PROVE  \/ \E c \in calls : Accept(c)
         \/ HostStep
         \/ Polled
         \/ UNCHANGED <<host, began>>
<1>1. CASE (Hook \/ DrawerList) /\ UNCHANGED panelVars
  <2>1. CASE Host
    BY <2>1 DEF Host, HostStep, Serve
  <2>2. CASE createSession \/ clearSession \/ DrawerList
    BY <2>2 DEF createSession, clearSession, DrawerList, listSessions, loadMoreSessions,
                resumeSession, Resume, Ask
  <2>3. CASE Answers
    BY <2>3 DEF Answers, Created, Resumed, Fresh, More, startContainerStatePoll, Poll, Polled, host
  <2>4. CASE Polls \/ Tick \/ \E i \in DOMAIN polls : Fail(i)
    BY <2>4 DEF Polls, Tick, Fail, ReadState, Answer, Poll, Polled, host
  <2> QED BY <1>1, <2>1, <2>2, <2>3, <2>4 DEF Hook
<1>2. CASE List
  BY <1>2 DEF List, HostStep, Mount, select, Resume, deleteSessionItem, Ask, ServeRefresh, Refreshed, Deleted
<1>3. CASE Drawer
  BY <1>3 DEF Drawer, handleSearchInput, handleSearchKeyDown, SearchTimer, searchSessions,
              SelectResult, Resume, Ask, vars
<1>4. CASE UNCHANGED panelled
  BY <1>4 DEF panelled, vars
<1> QED BY <1>1, <1>2, <1>3, <1>4 DEF PanelNext

\* What Accept does to the list.
LEMMA Accepted ==
  ASSUME HostInv, NEW s \in Sessions \ ToSet(hosted), hosted' = <<s>> \o hosted
  PROVE  /\ hosted' \in Seq(Sessions)
         /\ \A i, j \in DOMAIN hosted' : hosted'[i] = hosted'[j] => i = j
         /\ ToSet(hosted') = ToSet(hosted) \cup {s}
<1>1. hosted \in Seq(Sessions)
  BY DEF HostInv
<1>2. hosted' \in Seq(Sessions) /\ Len(hosted') = Len(hosted) + 1
  BY <1>1
<1>3. hosted'[1] = s /\ \A i \in 1..Len(hosted) : hosted'[i + 1] = hosted[i]
  BY <1>1
<1>4. \A i \in 2..(Len(hosted) + 1) : i - 1 \in 1..Len(hosted) /\ hosted'[i] = hosted[i - 1]
  <2> TAKE i \in 2..(Len(hosted) + 1)
  <2>1. i - 1 \in 1..Len(hosted) /\ (i - 1) + 1 = i
    BY <1>1
  <2> QED BY <1>3, <2>1
<1>5. ToSet(hosted') = ToSet(hosted) \cup {s}
  <2>1. ToSet(hosted') \subseteq ToSet(hosted) \cup {s}
    <3> SUFFICES ASSUME NEW i \in 1..(Len(hosted) + 1) PROVE hosted'[i] \in ToSet(hosted) \cup {s}
      BY <1>2 DEF ToSet
    <3>1. CASE i = 1
      BY <1>3, <3>1
    <3>2. CASE i # 1
      <4>1. i \in 2..(Len(hosted) + 1)
        BY <1>1, <3>2
      <4> QED BY <1>1, <1>4, <4>1 DEF ToSet
    <3> QED BY <3>1, <3>2
  <2>2. s \in ToSet(hosted')
    <3>1. 1 \in DOMAIN hosted'
      BY <1>1, <1>2
    <3> QED BY <1>3, <3>1 DEF ToSet
  <2>3. ASSUME NEW i \in 1..Len(hosted) PROVE hosted[i] \in ToSet(hosted')
    <3>1. i + 1 \in DOMAIN hosted'
      BY <1>1, <1>2
    <3> QED BY <1>3, <3>1 DEF ToSet
  <2>4. ASSUME NEW x \in ToSet(hosted) PROVE x \in ToSet(hosted')
    <3>1. PICK i \in 1..Len(hosted) : hosted[i] = x
      BY <1>1 DEF ToSet
    <3> QED BY <2>3, <3>1
  <2> QED BY <2>1, <2>2, <2>4
<1>6. ASSUME NEW i \in DOMAIN hosted', NEW j \in DOMAIN hosted', hosted'[i] = hosted'[j] PROVE i = j
  <2>1. ASSUME NEW k \in 2..(Len(hosted) + 1) PROVE hosted'[k] # s
    BY <1>1, <1>4 DEF ToSet
  <2>2. i \in 1..(Len(hosted) + 1) /\ j \in 1..(Len(hosted) + 1)
    BY <1>2
  <2>3. CASE i = 1 \/ j = 1
    BY <1>1, <1>3, <1>6, <2>1, <2>2, <2>3
  <2>4. CASE i # 1 /\ j # 1
    <3>1. i \in 2..(Len(hosted) + 1) /\ j \in 2..(Len(hosted) + 1)
      BY <1>1, <2>2, <2>4
    <3>2. hosted[i - 1] = hosted[j - 1] /\ i - 1 \in 1..Len(hosted) /\ j - 1 \in 1..Len(hosted)
      BY <1>4, <1>6, <3>1
    <3>3. i - 1 = j - 1
      BY <1>1, <3>2 DEF HostInv
    <3> QED BY <3>1, <3>3
  <2> QED BY <2>3, <2>4
<1> QED BY <1>2, <1>5, <1>6

LEMMA HostKept == ASSUME HostInv, [PanelNext]_panelled PROVE HostInv'
<1>1. ASSUME NEW c \in calls, Accept(c) PROVE HostInv'
  <2>1. PICK s \in Sessions \ ToSet(hosted) :
          hosted' = <<s>> \o hosted /\ creating' = creating \cup {s} /\ Begins(s, "create")
    BY <1>1 DEF Accept
  <2>2. op' \in [Sessions -> Entries] /\ began' \in Nat
        /\ \A r \in creating \cup {s} : r \in Sessions => Active(op'[r])
    <3>1. began + 1 \in Nat /\ began' = began + 1
      BY <2>1 DEF Begins, HostInv
    <3>2. [n |-> began', kind |-> "create", phase |-> "active", seen |-> FALSE] \in Entries
      BY <3>1 DEF Entries, Phases
    <3>3. op' = [op EXCEPT ![s] = [n |-> began', kind |-> "create", phase |-> "active", seen |-> FALSE]]
      BY <2>1 DEF Begins
    <3> QED BY <3>1, <3>2, <3>3 DEF HostInv, Active
  <2>3. creating \subseteq Sessions
    BY DEF HostInv, ToSet
  <2>4. creating' \subseteq ToSet(hosted')
    BY <2>1, Accepted DEF HostInv
  <2>5. UNCHANGED inst
    BY <1>1 DEF Accept
  <2> QED BY <2>1, <2>2, <2>3, <2>4, <2>5, Accepted DEF HostInv
<1>2. CASE HostStep
  <2>1. ASSUME NEW s \in Sessions, Starts(s) PROVE HostInv'
    <3>1. began + 1 \in Nat /\ began' = began + 1
      BY <2>1 DEF Starts, Begins, HostInv
    <3>2. \A k \in {"snapshot", "restore"} :
            [n |-> began', kind |-> k, phase |-> "active", seen |-> FALSE] \in Entries
      BY <3>1 DEF Entries, Phases
    <3>3. \E k \in {"snapshot", "restore"} :
            op' = [op EXCEPT ![s] = [n |-> began', kind |-> k, phase |-> "active", seen |-> FALSE]]
      BY <2>1 DEF Starts, Begins
    <3>4. op' \in [Sessions -> Entries] /\ \A r \in Sessions : r # s => op'[r] = op[r]
      BY <3>2, <3>3 DEF HostInv
    <3>5. s \notin creating
      BY <2>1 DEF Starts, HostInv
    <3>6. creating \subseteq Sessions
      BY DEF HostInv, ToSet
    <3> QED BY <2>1, <3>1, <3>4, <3>5, <3>6 DEF Starts, HostInv, ToSet
  <2>2. ASSUME NEW s \in Sessions, Ends(s) \/ EndsDestroyed(s) PROVE HostInv'
    <3>1. PICK phase \in {"done", "failed"} : op' = [op EXCEPT ![s].phase = phase, ![s].seen = FALSE]
      BY <2>2 DEF Ends, EndsDestroyed
    <3>2. op' \in [Sessions -> Entries] /\ \A r \in Sessions : r # s => op'[r] = op[r]
      <4>1. op \in [Sessions -> Entries] /\ op[s] \in Entries
        BY DEF HostInv
      <4>2. [op[s] EXCEPT !.phase = phase, !.seen = FALSE] \in Entries
        BY <4>1 DEF Entries, Phases
      <4>3. op' = [op EXCEPT ![s] = [op[s] EXCEPT !.phase = phase, !.seen = FALSE]]
        BY <3>1, <4>1
      <4> QED BY <4>1, <4>2, <4>3
    <3>3. creating' = creating \ {s} /\ UNCHANGED <<inst, hosted, began>>
      BY <2>2 DEF Ends, EndsDestroyed
    <3>4. creating \subseteq Sessions
      BY DEF HostInv, ToSet
    <3> QED BY <3>2, <3>3, <3>4 DEF HostInv, ToSet
  <2>3. ASSUME NEW s \in Sessions, Purge(s) PROVE HostInv'
    <3>1. op' \in [Sessions -> Entries] /\ \A r \in Sessions : r # s => op'[r] = op[r]
      BY <2>3 DEF Purge, HostInv, NoOp, Entries, Phases
    <3>2. s \notin creating /\ creating \subseteq Sessions
      BY <2>3 DEF Purge, HostInv, Active, ToSet
    <3> QED BY <2>3, <3>1, <3>2 DEF Purge, HostInv, ToSet
  <2>4. ASSUME NEW s \in Sessions, Tracked(s) \/ Stops(s) PROVE HostInv'
    BY <2>4 DEF Tracked, Stops, HostInv, ToSet
  <2>5. ASSUME NEW c \in calls, Destroy(c) PROVE HostInv'
    BY <2>5 DEF Destroy, HostInv, ToSet
  <2> QED BY <1>2, <2>1, <2>2, <2>3, <2>4, <2>5 DEF HostStep
<1>3. CASE Polled
  <2>1. PICK s : op' = [op EXCEPT ![s].seen = TRUE] /\ UNCHANGED <<inst, hosted, creating, began>>
    BY <1>3 DEF Polled
  <2>2. op' \in [Sessions -> Entries] /\ \A r \in Sessions : op'[r].phase = op[r].phase
    BY <2>1 DEF HostInv, Entries
  <2>3. creating \subseteq Sessions
    BY DEF HostInv, ToSet
  <2> QED BY <2>1, <2>2, <2>3 DEF HostInv, Active, ToSet
<1>4. CASE UNCHANGED <<host, began>>
  BY <1>4 DEF host, HostInv, ToSet
<1> QED BY <1>1, <1>2, <1>3, <1>4, HostMoves

----------------------------------------------------------------------------
(* Requests and their answers.                                             *)

Whose == Sessions \cup {NoSession}
Rows == [id : Sessions, state : {"starting", "listed", "running", "destroyed"}, progress : Phases]
Asked == {"create", "list", "more", "resume", "restore", "refresh", "delete"}
CallType == [op : Asked, s : Whose, served : BOOLEAN, offset : Nat, page : Seq(Rows)]

\* A page has each session once, with nothing of its progress.
PageOK(page, hs) ==
  /\ page \in Seq(Rows)
  /\ \A i \in DOMAIN page : page[i].id \in hs /\ page[i].state = "listed" /\ page[i].progress = "none"
  /\ \A i, j \in DOMAIN page : page[i].id = page[j].id => i = j

\* Requests are for sessions that the host lists.
CallOK(c, hs) ==
  /\ c \in CallType
  /\ c.s \in hs \cup {NoSession}
  /\ PageOK(c.page, hs)
  /\ c.op \in {"resume", "restore", "delete"} \/ (c.op = "create" /\ c.served) => c.s # NoSession

CallsInv == \A c \in calls : CallOK(c, ToSet(hosted))

ListInv ==
  /\ sessionList \in Seq(Rows) /\ Listed(sessionList) \subseteq ToSet(hosted)
  /\ sessions \in Seq(Sessions) /\ ToSet(sessions) \subseteq ToSet(hosted)

\* The host's list only grows.
LEMMA HostedGrows ==
  ASSUME HostInv, [PanelNext]_panelled
  PROVE  ToSet(hosted) \subseteq ToSet(hosted')
<1>1. ASSUME NEW c \in calls, Accept(c) PROVE ToSet(hosted) \subseteq ToSet(hosted')
  BY <1>1, Accepted DEF Accept
<1>2. ASSUME HostStep \/ Polled \/ UNCHANGED <<host, began>> PROVE hosted' = hosted
  BY <1>2 DEF HostStep, Polled, host, Starts, Tracked, Ends, Stops, Purge, EndsDestroyed, Destroy
<1> QED BY <1>1, <1>2, HostMoves

LEMMA PageGrows ==
  ASSUME NEW page, NEW hs, NEW more, PageOK(page, hs), hs \subseteq more
  PROVE  PageOK(page, more)
BY DEF PageOK

LEMMA CallGrows ==
  ASSUME NEW c, NEW hs, NEW more, CallOK(c, hs), hs \subseteq more
  PROVE  CallOK(c, more)
BY PageGrows DEF CallOK

\* A request just made.
LEMMA Requested ==
  ASSUME NEW hs \in SUBSET Sessions, NEW o \in Asked, NEW s \in hs \cup {NoSession},
         o \in {"resume", "restore", "delete"} => s # NoSession
  PROVE  CallOK(Call(o, s), hs)
<1>1. PageOK(<<>>, hs)
  BY DEF PageOK
<1>2. Call(o, s) \in CallType
  BY DEF Call, CallType, Whose
<1> QED BY <1>1, <1>2 DEF Call, CallOK

\* The host's list, or a part of it, as a page.
LEMMA Page ==
  ASSUME HostInv, NEW n \in Int, NEW m \in Nat, m + n <= Len(hosted)
  PROVE  PageOK([i \in 1..n |-> Row(hosted[m + i], "listed")], ToSet(hosted))
<1> DEFINE page == [i \in 1..n |-> Row(hosted[m + i], "listed")]
<1>1. hosted \in Seq(Sessions) /\ \A i, j \in DOMAIN hosted : hosted[i] = hosted[j] => i = j
  BY DEF HostInv
<1>2. \A i \in 1..n : m + i \in DOMAIN hosted
  BY <1>1
<1>3. \A i \in 1..n : hosted[m + i] \in Sessions /\ hosted[m + i] \in ToSet(hosted)
  BY <1>1, <1>2 DEF ToSet
<1>4. \A i \in 1..n : /\ page[i] \in Rows /\ page[i].id = hosted[m + i]
                      /\ page[i].state = "listed" /\ page[i].progress = "none"
  BY <1>3 DEF Row, Rows, Phases
<1>5. page \in Seq(Rows) /\ DOMAIN page = 1..n
  <2>1. CASE n \in Nat
    BY <1>4, <2>1
  <2>2. CASE n \notin Nat
    <3>1. 1..n = {} /\ 1..n = 1..0
      BY <2>2
    <3>2. page = [i \in 1..0 |-> Row(hosted[m + i], "listed")]
      BY <3>1
    <3>3. \A i \in 1..0 : Row(hosted[m + i], "listed") \in Rows
      OBVIOUS
    <3> QED BY <3>1, <3>2, <3>3
  <2> QED BY <2>1, <2>2
<1>6. ASSUME NEW i \in 1..n, NEW j \in 1..n, page[i].id = page[j].id PROVE i = j
  <2>1. m + i = m + j
    BY <1>1, <1>2, <1>4, <1>6
  <2> QED BY <2>1
<1> HIDE DEF page
<1>7. PageOK(page, ToSet(hosted))
  BY <1>3, <1>4, <1>5, <1>6 DEF PageOK
<1> QED BY <1>7 DEF page

Asks ==
  \/ \E s \in ToSet(hosted) : Resume(s) \/ Ask(Call("delete", s))
  \/ \E o \in {"create", "list", "refresh"} : Ask(Call(o, NoSession))
  \/ Ask([Call("more", NoSession) EXCEPT !.offset = Len(sessionList)])

LEMMA CallMoves ==
  ASSUME ListInv, [PanelNext]_panelled
  PROVE  \/ \E c \in calls : Accept(c) \/ Serve(c) \/ ServeRefresh(c) \/ Destroy(c) \/ Resumed(c)
         \/ Asks
         \/ calls' \subseteq calls
<1>1. CASE (Hook \/ DrawerList) /\ UNCHANGED panelVars
  <2>1. CASE Host
    BY <2>1 DEF Host, Starts, Tracked, Ends, Stops, Purge
  <2>2. CASE createSession \/ clearSession \/ DrawerList
    <3>1. ASSUME NEW s, resumeSession(s) PROVE s \in ToSet(hosted)
      BY <3>1 DEF resumeSession, ListInv
    <3> QED BY <2>2, <3>1 DEF createSession, clearSession, DrawerList, listSessions, loadMoreSessions,
                               resumeSession, Asks
  <2>3. CASE Answers
    BY <2>3 DEF Answers, Created, Fresh, More
  <2>4. CASE Polls \/ Tick \/ \E i \in DOMAIN polls : Fail(i)
    BY <2>4 DEF Polls, Tick, Fail, ReadState, Answer
  <2> QED BY <1>1, <2>1, <2>2, <2>3, <2>4 DEF Hook
<1>2. CASE List
  <2>1. ASSUME NEW s, select(s) \/ deleteSessionItem(s) PROVE s \in ToSet(hosted)
    BY <2>1 DEF select, deleteSessionItem, ListInv
  <2> QED BY <1>2, <2>1 DEF List, Mount, select, deleteSessionItem, Refreshed, Deleted, EndsDestroyed, Asks
<1>3. CASE Drawer
  BY <1>3 DEF Drawer, handleSearchInput, handleSearchKeyDown, SearchTimer, searchSessions,
              SelectResult, vars, Asks
<1>4. CASE UNCHANGED panelled
  BY <1>4 DEF panelled, vars
<1> QED BY <1>1, <1>2, <1>3, <1>4 DEF PanelNext

\* A request that is answered with a page.
LEMMA Served ==
  ASSUME NEW hs, NEW c, CallOK(c, hs), NEW page, PageOK(page, hs), c.op \in {"list", "more", "refresh"}
  PROVE  CallOK([c EXCEPT !.served = TRUE, !.page = page], hs)
<1> DEFINE d == [c EXCEPT !.served = TRUE, !.page = page]
<1>1. c \in CallType /\ page \in Seq(Rows)
  BY DEF CallOK, PageOK
<1>2. d \in CallType /\ d.op = c.op /\ d.s = c.s /\ d.page = page
  BY <1>1 DEF CallType
<1> HIDE DEF d
<1>3. CallOK(d, hs)
  BY <1>2 DEF CallOK
<1> QED BY <1>3 DEF d

LEMMA CallsKept ==
  ASSUME HostInv, ListInv, CallsInv, [PanelNext]_panelled
  PROVE  CallsInv'
<1> DEFINE hs == ToSet(hosted)
<1> DEFINE more == ToSet(hosted')
<1>1. hs \subseteq more /\ more \subseteq Sessions
  BY HostedGrows, HostKept DEF HostInv, ToSet
<1>2. \A c \in calls : CallOK(c, hs) /\ CallOK(c, more)
  BY <1>1, CallGrows DEF CallsInv
<1> HIDE DEF hs, more
<1>3. ASSUME NEW d, CallOK(d, more), calls' \subseteq calls \cup {d} PROVE CallsInv'
  BY <1>2, <1>3 DEF CallsInv, more
<1>4. ASSUME NEW c \in calls, Accept(c) PROVE CallsInv'
  <2>1. PICK s \in Sessions \ hs :
          /\ hosted' = <<s>> \o hosted
          /\ calls' = (calls \ {c}) \cup {[c EXCEPT !.s = s, !.served = TRUE]}
    BY <1>4 DEF Accept, hs
  <2>2. s \in more
    BY <2>1, Accepted DEF hs, more
  <2>3. CallOK([c EXCEPT !.s = s, !.served = TRUE], more)
    BY <1>2, <2>1, <2>2, OldAssumption DEF CallOK, CallType, Whose
  <2> QED BY <1>3, <2>1, <2>3
<1>5. ASSUME NEW c \in calls, Serve(c) PROVE CallsInv'
  <2> DEFINE last == IF c.offset + SESSION_PAGE_SIZE < Len(hosted)
                       THEN c.offset + SESSION_PAGE_SIZE ELSE Len(hosted)
  <2> DEFINE page == [i \in 1..(last - c.offset) |-> Row(hosted[c.offset + i], "listed")]
  <2>1. calls' = (calls \ {c}) \cup {[c EXCEPT !.served = TRUE, !.page = page]}
    BY <1>5 DEF Serve
  <2>2. c.offset \in Nat /\ last \in Nat /\ last <= Len(hosted)
    BY <1>2, PageAssumption DEF CallOK, CallType, HostInv
  <2>3. last - c.offset \in Int /\ c.offset + (last - c.offset) <= Len(hosted)
    BY <2>2
  <2> HIDE DEF last
  <2>4. PageOK(page, hs)
    BY <2>2, <2>3, Page DEF hs
  <2>5. PageOK(page, more)
    BY <1>1, <2>4, PageGrows
  <2> HIDE DEF page
  <2>6. CallOK([c EXCEPT !.served = TRUE, !.page = page], more)
    BY <1>2, <1>5, <2>5, Served DEF Serve
  <2> QED BY <1>3, <2>1, <2>6
<1>6. ASSUME NEW c \in calls, ServeRefresh(c) PROVE CallsInv'
  <2> DEFINE page == [i \in DOMAIN hosted |-> Row(hosted[i], "listed")]
  <2>1. calls' = (calls \ {c}) \cup {[c EXCEPT !.served = TRUE, !.page = page]}
    BY <1>6 DEF ServeRefresh
  <2>2. PageOK([i \in 1..Len(hosted) |-> Row(hosted[0 + i], "listed")], hs)
    <3>1. Len(hosted) \in Int /\ 0 \in Nat /\ 0 + Len(hosted) <= Len(hosted)
      BY DEF HostInv
    <3> QED BY <3>1, Page DEF hs
  <2>3. page = [i \in 1..Len(hosted) |-> Row(hosted[0 + i], "listed")]
    BY DEF HostInv
  <2>4. PageOK(page, more)
    BY <1>1, <2>2, <2>3, PageGrows
  <2> HIDE DEF page
  <2>5. CallOK([c EXCEPT !.served = TRUE, !.page = page], more)
    BY <1>2, <1>6, <2>4, Served DEF ServeRefresh
  <2> QED BY <1>3, <2>1, <2>5
<1>7. ASSUME NEW c \in calls, Destroy(c) PROVE CallsInv'
  <2>1. CallOK([c EXCEPT !.served = TRUE], more)
    BY <1>2, <1>7 DEF CallOK, CallType, Destroy
  <2> QED BY <1>3, <1>7, <2>1 DEF Destroy
<1>8. ASSUME NEW c \in calls, Resumed(c) PROVE CallsInv'
  <2>1. CallOK([c EXCEPT !.op = "restore"], more)
    BY <1>2, <1>8 DEF CallOK, CallType, Resumed, Asked
  <2>2. calls' \subseteq calls \cup {[c EXCEPT !.op = "restore"]}
    BY <1>8 DEF Resumed
  <2> QED BY <1>3, <2>1, <2>2
<1>9. CASE Asks
  <2>1. ASSUME NEW o \in {"resume", "delete"}, NEW s \in hs, Ask(Call(o, s)) PROVE CallsInv'
    <3>1. CallOK(Call(o, s), more)
      BY <1>1, Requested, OldAssumption DEF Asked
    <3> QED BY <1>3, <2>1, <3>1 DEF Ask
  <2>2. ASSUME NEW o \in {"create", "list", "refresh"}, Ask(Call(o, NoSession)) PROVE CallsInv'
    <3>1. CallOK(Call(o, NoSession), more)
      BY <1>1, Requested DEF Asked
    <3> QED BY <1>3, <2>2, <3>1 DEF Ask
  <2>3. ASSUME Ask([Call("more", NoSession) EXCEPT !.offset = Len(sessionList)]) PROVE CallsInv'
    <3>1. CallOK(Call("more", NoSession), more)
      BY <1>1, Requested DEF Asked
    <3>2. Len(sessionList) \in Nat
      BY DEF ListInv
    <3>3. CallOK([Call("more", NoSession) EXCEPT !.offset = Len(sessionList)], more)
      BY <3>1, <3>2 DEF CallOK, CallType, Call
    <3> QED BY <1>3, <2>3, <3>3 DEF Ask
  <2> QED BY <1>9, <2>1, <2>2, <2>3 DEF Asks, Resume, hs
<1>10. CASE calls' \subseteq calls
  BY <1>2, <1>10 DEF CallsInv, more
<1> QED BY <1>4, <1>5, <1>6, <1>7, <1>8, <1>9, <1>10, CallMoves

----------------------------------------------------------------------------
(* The lists shown.                                                        *)

PollType == [of : Sessions, served : BOOLEAN, progress : [n : Nat, phase : Phases],
             state : {"none", "running", "destroyed"}]

\* Status requests are for sessions that the host lists; an answer for one that is
\* being created says so; and unless requests overlapped there is one of a session.
PollsInv ==
  /\ polls \in Seq(PollType)
  /\ \A i \in DOMAIN polls :
       /\ polls[i].of \in ToSet(hosted)
       /\ polls[i].served => polls[i].state # "none"
       /\ polls[i].of \in creating => polls[i].progress.phase = "active"
  /\ ~overlapped => \A i, j \in DOMAIN polls : polls[i].of = polls[j].of => i = j

\* Where the elements of two sequences are when one follows the other.
LEMMA Joined ==
  ASSUME NEW S, NEW a \in Seq(S), NEW b \in Seq(S)
  PROVE  /\ a \o b \in Seq(S)
         /\ \A k \in DOMAIN (a \o b) :
              \/ k \in DOMAIN a /\ (a \o b)[k] = a[k]
              \/ k \notin DOMAIN a /\ k - Len(a) \in DOMAIN b /\ (a \o b)[k] = b[k - Len(a)]
<1>1. a \o b \in Seq(S) /\ DOMAIN (a \o b) = 1..(Len(a) + Len(b))
  OBVIOUS
<1>2. ASSUME NEW k \in 1..(Len(a) + Len(b))
      PROVE  \/ k \in DOMAIN a /\ (a \o b)[k] = a[k]
             \/ k \notin DOMAIN a /\ k - Len(a) \in DOMAIN b /\ (a \o b)[k] = b[k - Len(a)]
  <2>1. CASE k <= Len(a)
    BY <2>1
  <2>2. CASE ~(k <= Len(a))
    BY <2>2
  <2> QED BY <2>1, <2>2
<1> QED BY <1>1, <1>2

Distinct(rows) == \A i, j \in DOMAIN rows : rows[i].id = rows[j].id => i = j

LEMMA JoinedOnce ==
  ASSUME NEW a \in Seq(Rows), NEW b \in Seq(Rows), Distinct(a), Distinct(b),
         Listed(a) \cap Listed(b) = {}
  PROVE  Distinct(a \o b)
<1>1. ASSUME NEW k \in DOMAIN (a \o b), NEW l \in DOMAIN (a \o b), (a \o b)[k].id = (a \o b)[l].id
      PROVE  k = l
  <2>1. /\ \/ k \in DOMAIN a /\ (a \o b)[k] = a[k]
           \/ k \notin DOMAIN a /\ k - Len(a) \in DOMAIN b /\ (a \o b)[k] = b[k - Len(a)]
        /\ \/ l \in DOMAIN a /\ (a \o b)[l] = a[l]
           \/ l \notin DOMAIN a /\ l - Len(a) \in DOMAIN b /\ (a \o b)[l] = b[l - Len(a)]
    BY Joined
  <2>2. \A i \in DOMAIN a : \A j \in DOMAIN b : a[i].id # b[j].id
    BY DEF Listed
  <2>3. CASE k \in DOMAIN a /\ l \in DOMAIN a
    BY <1>1, <2>1, <2>3 DEF Distinct
  <2>4. CASE k \notin DOMAIN a /\ l \notin DOMAIN a
    <3>1. k - Len(a) = l - Len(a)
      BY <1>1, <2>1, <2>4 DEF Distinct
    <3>2. k \in Int /\ l \in Int /\ Len(a) \in Int
      BY Joined
    <3> QED BY <3>1, <3>2
  <2> QED BY <1>1, <2>1, <2>2, <2>3, <2>4
<1> QED BY <1>1 DEF Distinct

LEMMA ListMoves ==
  ASSUME [PanelNext]_panelled
  PROVE  \/ UNCHANGED sessions /\ \E c \in calls : Created(c) \/ Fresh(c) \/ More(c)
         \/ UNCHANGED sessions /\ \E i \in DOMAIN polls : Answer(i)
         \/ \E c \in calls : Refreshed(c) \/ Deleted(c)
         \/ UNCHANGED <<sessionList, sessions>>
<1>1. CASE (Hook \/ DrawerList) /\ UNCHANGED panelVars
  <2>1. CASE Host
    BY <1>1, <2>1 DEF Host, Accept, Serve, Starts, Tracked, Ends, Stops, Purge, uiUnchanged, listVars,
                      panelVars, listPanel
  <2>2. CASE createSession \/ clearSession \/ DrawerList
    BY <1>1, <2>2 DEF createSession, clearSession, DrawerList, listSessions, loadMoreSessions,
                      resumeSession, Resume, Ask, listVars, panelVars, listPanel
  <2>3. CASE Answers
    BY <1>1, <2>3 DEF Answers, Resumed, listVars, panelVars, listPanel
  <2>4. CASE Polls \/ Tick \/ \E i \in DOMAIN polls : Fail(i)
    BY <1>1, <2>4 DEF Polls, Tick, Fail, ReadState, listVars, panelVars, listPanel
  <2> QED BY <1>1, <2>1, <2>2, <2>3, <2>4 DEF Hook
<1>2. CASE List
  BY <1>2 DEF List, Mount, select, Resume, deleteSessionItem, Ask, ServeRefresh, Destroy, EndsDestroyed,
              uiUnchanged, listVars, panelVars, listPanel
<1>3. CASE Drawer
  BY <1>3 DEF Drawer, handleSearchInput, handleSearchKeyDown, SearchTimer, searchSessions,
              SelectResult, Resume, Ask, vars, listVars, panelVars, listPanel
<1>4. CASE UNCHANGED panelled
  BY <1>4 DEF panelled, vars, listVars, panelVars, listPanel
<1> QED BY <1>1, <1>2, <1>3, <1>4 DEF PanelNext

\* What the hook has of an answer: its rows, or none.
LEMMA ReadIs ==
  ASSUME CallsInv, NEW c \in calls
  PROVE  /\ PageOK(Read(c), ToSet(hosted))
         /\ Read(c) \in Seq(Rows)
         /\ \A i \in DOMAIN Read(c) : i \in DOMAIN c.page /\ Read(c)[i] = c.page[i]
<1>1. PageOK(c.page, ToSet(hosted))
  BY DEF CallsInv, CallOK
<1>2. CASE Read(c) = c.page
  BY <1>1, <1>2 DEF PageOK
<1>3. CASE Read(c) = <<>>
  BY <1>3 DEF PageOK
<1> QED BY <1>2, <1>3 DEF Read

\* The list after the first page came again: rows it had, and rows of the page.
LEMMA FreshRows ==
  ASSUME ListInv, CallsInv, NEW c \in calls, Fresh(c)
  PROVE  /\ sessionList' \in Seq(Rows)
         /\ \A k \in DOMAIN sessionList' :
              \/ \E i \in DOMAIN c.page : sessionList'[k] = c.page[i]
              \/ \E i \in DOMAIN sessionList : sessionList'[k] = sessionList[i]
         /\ Distinct(sessionList) => Distinct(sessionList')
<1> DEFINE page == Read(c)
<1>1. /\ page \in Seq(Rows) /\ Distinct(page) /\ sessionList \in Seq(Rows)
      /\ \A i \in DOMAIN page : i \in DOMAIN c.page /\ page[i] = c.page[i]
  <2>1. PageOK(page, ToSet(hosted))
    BY ReadIs
  <2>2. Distinct(page) /\ page \in Seq(Rows)
    BY <2>1 DEF PageOK, Distinct
  <2> QED BY <2>2, ReadIs DEF ListInv
<1>0. \/ sessionList' = page
      \/ \E new \in Filter(page, {i \in DOMAIN page : page[i].id \notin Listed(sessionList)}) :
           sessionList' = new \o [i \in DOMAIN sessionList |->
                          IF sessionList[i].id \in Listed(page)
                            THEN CHOOSE r \in ToSet(page) : r.id = sessionList[i].id
                            ELSE sessionList[i]]
  BY Zenon DEF Fresh
<1> HIDE DEF page
<1>2. CASE sessionList' = page
  BY <1>1, <1>2
<1>3. CASE sessionList' # page
  <2> DEFINE updated == [i \in DOMAIN sessionList |->
                          IF sessionList[i].id \in Listed(page)
                            THEN CHOOSE r \in ToSet(page) : r.id = sessionList[i].id
                            ELSE sessionList[i]]
  <2> DEFINE unlisted == {i \in DOMAIN page : page[i].id \notin Listed(sessionList)}
  <2>1. PICK new \in Filter(page, unlisted) : sessionList' = new \o updated
    BY <1>0, <1>3
  <2>2. unlisted \subseteq DOMAIN page
        /\ \A i \in unlisted : page[i].id \notin Listed(sessionList)
    OBVIOUS
  <2> HIDE DEF unlisted
  <2>3. /\ new \in Seq(Rows)
        /\ \A k \in DOMAIN new : \E i \in unlisted : new[k] = page[i]
        /\ (\A i, j \in unlisted : page[i] = page[j] => i = j)
             => \A k, l \in DOMAIN new : new[k] = new[l] => k = l
    <3>1. page \in Seq(Rows) /\ unlisted \subseteq DOMAIN page /\ new \in Filter(page, unlisted)
      BY <1>1, <2>1, <2>2
    <3> QED BY <3>1, Filtered
  <2>4. ASSUME NEW i \in DOMAIN sessionList
        PROVE  /\ updated[i].id = sessionList[i].id
               /\ updated[i] = sessionList[i] \/ \E j \in DOMAIN page : updated[i] = page[j]
    <3>1. CASE sessionList[i].id \in Listed(page)
      <4>1. \E r \in ToSet(page) : r.id = sessionList[i].id
        BY <3>1 DEF Listed, ToSet
      <4>2. updated[i] \in ToSet(page) /\ updated[i].id = sessionList[i].id
        BY <3>1, <4>1
      <4> QED BY <4>2 DEF ToSet
    <3>2. CASE sessionList[i].id \notin Listed(page)
      BY <3>2
    <3> QED BY <3>1, <3>2
  <2>5. updated \in Seq(Rows) /\ DOMAIN updated = DOMAIN sessionList
    <3>1. ASSUME NEW i \in DOMAIN sessionList PROVE updated[i] \in Rows
      <4>1. (\A j \in DOMAIN page : page[j] \in Rows) /\ sessionList[i] \in Rows
        BY <1>1
      <4>2. updated[i] = sessionList[i] \/ \E j \in DOMAIN page : updated[i] = page[j]
        BY <2>4
      <4> HIDE DEF updated
      <4> QED BY <4>1, <4>2
    <3>2. DOMAIN sessionList = 1..Len(sessionList) /\ Len(sessionList) \in Nat
      BY <1>1
    <3>3. updated = [i \in 1..Len(sessionList) |-> updated[i]]
      BY <3>2
    <3> HIDE DEF updated
    <3>4. DOMAIN updated = DOMAIN sessionList
      BY <3>2, <3>3
    <3> QED BY <3>1, <3>2, <3>3, <3>4
  <2> HIDE DEF updated
  <2>6. new \o updated \in Seq(Rows)
        /\ \A k \in DOMAIN (new \o updated) :
             (\E i \in DOMAIN new : (new \o updated)[k] = new[i])
               \/ (\E i \in DOMAIN updated : (new \o updated)[k] = updated[i])
    BY <2>3, <2>5, Joined
  <2>7. ASSUME Distinct(sessionList) PROVE Distinct(new \o updated)
    <3>1. Distinct(updated)
      BY <2>4, <2>5, <2>7 DEF Distinct
    <3>2. Distinct(new)
      <4>1. \A i, j \in unlisted : page[i] = page[j] => i = j
        BY <1>1, <2>2 DEF Distinct
      <4>2. \A k, l \in DOMAIN new : new[k] = new[l] => k = l
        BY <2>3, <4>1
      <4>3. \A i, j \in unlisted : page[i].id = page[j].id => i = j
        BY <1>1, <2>2 DEF Distinct
      <4> QED BY <2>3, <4>2, <4>3 DEF Distinct
    <3>3. Listed(new) \cap Listed(updated) = {}
      <4>1. \A k \in DOMAIN new : new[k].id \notin Listed(sessionList)
        BY <2>2, <2>3
      <4>2. \A i \in DOMAIN updated : updated[i].id \in Listed(sessionList)
        BY <2>4, <2>5 DEF Listed
      <4> QED BY <4>1, <4>2 DEF Listed
    <3> QED BY <2>3, <2>5, <3>1, <3>2, <3>3, JoinedOnce
  <2>8. ASSUME NEW k \in DOMAIN (new \o updated)
        PROVE  \/ \E i \in DOMAIN page : (new \o updated)[k] = page[i]
               \/ \E i \in DOMAIN sessionList : (new \o updated)[k] = sessionList[i]
    <3>1. (\E i \in DOMAIN new : (new \o updated)[k] = new[i])
            \/ (\E i \in DOMAIN updated : (new \o updated)[k] = updated[i])
      BY <2>6
    <3>2. \A i \in DOMAIN new : \E j \in DOMAIN page : new[i] = page[j]
      BY <2>2, <2>3
    <3> QED BY <2>4, <2>5, <3>1, <3>2, ZenonT(40)
  <2> QED BY <1>1, <2>1, <2>6, <2>7, <2>8
<1> QED BY <1>2, <1>3

\* The list after the answer to createSession.
LEMMA CreatedRows ==
  ASSUME ListInv, CallsInv, NEW c \in calls, Created(c), c.s \in Sessions
  PROVE  /\ sessionList' \in Seq(Rows)
         /\ \A k \in DOMAIN sessionList' :
              \/ sessionList'[k].id = c.s
              \/ \E i \in DOMAIN sessionList : sessionList'[k] = sessionList[i]
         /\ Distinct(sessionList) => Distinct(sessionList')
<1>1. CASE sessionList' = sessionList
  BY <1>1 DEF ListInv
<1>2. CASE sessionList' # sessionList
  <2> DEFINE new == <<Row(c.s, "starting")>>
  <2>1. c.s \notin Listed(sessionList) /\ sessionList' = new \o sessionList
    BY <1>2 DEF Created
  <2>2. sessionList \in Seq(Rows)
    BY DEF ListInv
  <2>3. Row(c.s, "starting") \in Rows /\ Row(c.s, "starting").id = c.s
    BY DEF Row, Rows, Phases
  <2>4. new \in Seq(Rows) /\ DOMAIN new = {1} /\ new[1].id = c.s
    BY <2>3
  <2> HIDE DEF new
  <2>5. new \o sessionList \in Seq(Rows)
        /\ \A k \in DOMAIN (new \o sessionList) :
             (\E i \in DOMAIN new : (new \o sessionList)[k] = new[i])
               \/ (\E i \in DOMAIN sessionList : (new \o sessionList)[k] = sessionList[i])
    BY <2>2, <2>4, Joined
  <2>6. ASSUME Distinct(sessionList) PROVE Distinct(new \o sessionList)
    <3>1. Distinct(new)
      BY <2>4 DEF Distinct
    <3>2. Listed(new) \cap Listed(sessionList) = {}
      BY <2>1, <2>4 DEF Listed
    <3> QED BY <2>2, <2>4, <2>6, <3>1, <3>2, JoinedOnce
  <2> QED BY <2>1, <2>4, <2>5, <2>6
<1> QED BY <1>1, <1>2

\* The list after the answer to a status request.
LEMMA AnsweredRows ==
  ASSUME ListInv, PollsInv, NEW i \in DOMAIN polls, Answer(i)
  PROVE  /\ sessionList' \in Seq(Rows)
         /\ DOMAIN sessionList' = DOMAIN sessionList
         /\ \A k \in DOMAIN sessionList :
              /\ sessionList'[k].id = sessionList[k].id
              /\ IF sessionList[k].id # polls[i].of THEN sessionList'[k] = sessionList[k]
                 ELSE /\ sessionList'[k].state = polls[i].state
                      /\ sessionList'[k].progress = polls[i].progress.phase
<1>1. RowFollows(polls[i]) /\ polls[i].served
  BY DEF Answer
<1>2. polls[i] \in PollType /\ polls[i].state \in {"running", "destroyed"}
  <2>1. polls[i] \in PollType /\ polls[i].state # "none"
    BY <1>1 DEF PollsInv
  <2> QED BY <2>1 DEF PollType
<1>3. sessionList \in Seq(Rows)
  BY DEF ListInv
<1>4. ASSUME NEW k \in DOMAIN sessionList
      PROVE  /\ sessionList'[k] \in Rows
             /\ sessionList'[k].id = sessionList[k].id
             /\ IF sessionList[k].id # polls[i].of THEN sessionList'[k] = sessionList[k]
                ELSE /\ sessionList'[k].state = polls[i].state
                     /\ sessionList'[k].progress = polls[i].progress.phase
  <2>1. sessionList[k] \in Rows
    BY <1>3
  <2>2. polls[i].progress.phase \in Phases
    BY <1>2 DEF PollType
  <2> QED BY <1>1, <1>2, <2>1, <2>2 DEF RowFollows, Rows
<1>5. DOMAIN sessionList' = DOMAIN sessionList /\ DOMAIN sessionList = 1..Len(sessionList)
      /\ Len(sessionList) \in Nat
  <2>1. DOMAIN sessionList = 1..Len(sessionList) /\ Len(sessionList) \in Nat
    BY <1>3
  <2>2. DOMAIN sessionList' = DOMAIN sessionList
    BY <1>1 DEF RowFollows
  <2> QED BY <2>1, <2>2
<1>6. sessionList' = [k \in 1..Len(sessionList) |-> sessionList'[k]]
  BY <1>1, <1>5 DEF RowFollows
<1>7. sessionList' \in Seq(Rows)
  BY <1>4, <1>5, <1>6
<1> QED BY <1>4, <1>5, <1>7

\* The session of a request that has one.
LEMMA Belongs ==
  ASSUME CallsInv, NEW c \in calls,
         c.op \in {"resume", "restore", "delete"} \/ (c.op = "create" /\ c.served)
  PROVE  c.s \in ToSet(hosted)
BY DEF CallsInv, CallOK

LEMMA ListKept ==
  ASSUME HostInv, CallsInv, ListInv, PollsInv, [PanelNext]_panelled
  PROVE  ListInv'
<1> DEFINE hs == ToSet(hosted)
<1> DEFINE more == ToSet(hosted')
<1>1. hs \subseteq more /\ hs \subseteq Sessions
  <2>1. hs \subseteq more
    BY HostedGrows
  <2>2. hs \subseteq Sessions
    BY DEF HostInv, ToSet
  <2> QED BY <2>1, <2>2
<1>2. /\ sessionList \in Seq(Rows) /\ \A i \in DOMAIN sessionList : sessionList[i].id \in hs
      /\ sessions \in Seq(Sessions) /\ \A i \in DOMAIN sessions : sessions[i] \in hs
  BY DEF ListInv, Listed, ToSet
<1>3. \A c \in calls : c.page \in Seq(Rows) /\ \A i \in DOMAIN c.page : c.page[i].id \in hs
  BY DEF CallsInv, CallOK, PageOK
<1> HIDE DEF hs, more
<1> DEFINE Rest == /\ sessionList' \in Seq(Rows)
                   /\ \A i \in DOMAIN sessionList' : sessionList'[i].id \in hs
<1> DEFINE Panel == /\ sessions' \in Seq(Sessions)
                    /\ \A i \in DOMAIN sessions' : sessions'[i] \in hs
<1>4. ASSUME Rest, Panel PROVE ListInv'
  <2>1. Listed(sessionList') \subseteq more
    BY <1>1, <1>4 DEF Listed
  <2>2. ToSet(sessions') \subseteq more
    BY <1>1, <1>4 DEF ToSet
  <2> QED BY <1>4, <2>1, <2>2 DEF ListInv, more
<1>5. sessions' = sessions => Panel
  BY <1>2
<1>6. sessionList' = sessionList => Rest
  BY <1>2
<1>7. ASSUME NEW c \in calls, Created(c) PROVE Rest
  <2>1. c.s \in hs /\ c.s \in Sessions
    BY <1>1, <1>7, Belongs DEF Created, hs
  <2> QED BY <1>2, <1>7, <2>1, CreatedRows
<1>8. ASSUME NEW c \in calls, Fresh(c) PROVE Rest
  BY <1>2, <1>3, <1>8, FreshRows
<1>9. ASSUME NEW c \in calls, More(c) PROVE Rest
  <2> DEFINE page == Read(c)
  <2>1. /\ sessionList' = sessionList \o page /\ page \in Seq(Rows)
        /\ \A i \in DOMAIN page : i \in DOMAIN c.page /\ page[i] = c.page[i]
    BY <1>1, <1>9, ReadIs DEF More
  <2> HIDE DEF page
  <2>2. /\ sessionList \o page \in Seq(Rows)
        /\ \A k \in DOMAIN (sessionList \o page) :
             (\E i \in DOMAIN sessionList : (sessionList \o page)[k] = sessionList[i])
               \/ (\E i \in DOMAIN page : (sessionList \o page)[k] = page[i])
    <3>1. sessionList \in Seq(Rows) /\ page \in Seq(Rows)
      BY <1>2, <2>1
    <3> QED BY <3>1, Joined
  <2> QED BY <1>2, <1>3, <2>1, <2>2
<1>10. ASSUME NEW i \in DOMAIN polls, Answer(i) PROVE Rest
  BY <1>2, <1>10, AnsweredRows
<1>11. ASSUME NEW c \in calls, Refreshed(c) PROVE Panel
  <2>1. CASE sessions' = sessions
    BY <1>5, <2>1
  <2>2. CASE sessions' = [i \in DOMAIN c.page |-> c.page[i].id]
    <3>1. DOMAIN c.page = 1..Len(c.page) /\ Len(c.page) \in Nat
      BY <1>3
    <3>2. \A i \in DOMAIN c.page : c.page[i].id \in hs /\ c.page[i].id \in Sessions
      BY <1>1, <1>3
    <3> QED BY <2>2, <3>1, <3>2
  <2>3. CASE sessions' = <<>>
    BY <2>3
  <2> QED BY <1>11, <2>1, <2>2, <2>3 DEF Refreshed
<1>12. ASSUME NEW c \in calls, Deleted(c) PROVE Panel
  <2>1. CASE sessions' = sessions
    BY <1>5, <2>1
  <2>2. ASSUME NEW P, P \subseteq DOMAIN sessions, sessions' \in Filter(sessions, P) PROVE Panel
    <3>1. sessions' \in Seq(Sessions) /\ \A k \in DOMAIN sessions' : \E i \in P : sessions'[k] = sessions[i]
      BY <1>2, <2>2, Filtered
    <3> QED BY <1>2, <2>2, <3>1
  <2> QED BY <1>12, <2>1, <2>2 DEF Deleted
<1>13. ASSUME NEW c \in calls, Refreshed(c) \/ Deleted(c) PROVE sessionList' = sessionList
  BY <1>13 DEF Refreshed, Deleted, listVars
<1>14. CASE UNCHANGED sessions /\ \E c \in calls : Created(c) \/ Fresh(c) \/ More(c)
  BY <1>4, <1>5, <1>7, <1>8, <1>9, <1>14
<1>15. CASE UNCHANGED sessions /\ \E i \in DOMAIN polls : Answer(i)
  BY <1>4, <1>5, <1>10, <1>15
<1>16. CASE \E c \in calls : Refreshed(c) \/ Deleted(c)
  BY <1>4, <1>6, <1>11, <1>12, <1>13, <1>16
<1>17. CASE UNCHANGED <<sessionList, sessions>>
  BY <1>4, <1>5, <1>6, <1>17
<1> QED BY <1>14, <1>15, <1>16, <1>17, ListMoves

----------------------------------------------------------------------------
(* The status requests.                                                    *)

\* What is opened and polled is a session that the host lists, or none.
ShownInv == {opened, timer, polled} \subseteq ToSet(hosted) \cup {NoSession}

LEMMA PollMoves ==
  ASSUME CallsInv, ShownInv, [PanelNext]_panelled
  PROVE  \/ \E s \in ToSet(hosted) : Poll(s) /\ UNCHANGED <<hosted, creating>>
         \/ \E i \in DOMAIN polls : ReadState(i)
         \/ \E i \in DOMAIN polls : polls' = RemoveAt(polls, i) /\ UNCHANGED <<host, overlapped>>
         \/ UNCHANGED <<polls, overlapped>>
<1>1. CASE (Hook \/ DrawerList) /\ UNCHANGED panelVars
  <2>1. CASE Host
    BY <2>1 DEF Host, Accept, Serve, Starts, Tracked, Ends, Stops, Purge, uiUnchanged, ghosts
  <2>2. CASE createSession \/ clearSession \/ DrawerList
    BY <2>2 DEF createSession, clearSession, DrawerList, listSessions, loadMoreSessions,
                resumeSession, Resume, Ask, ghosts
  <2>3. CASE Answers
    <3>1. ASSUME NEW c \in calls, Created(c) \/ Resumed(c)
          PROVE  \E s \in ToSet(hosted) : Poll(s) /\ UNCHANGED <<hosted, creating>>
      <4>1. c.s \in ToSet(hosted)
        BY <3>1, Belongs DEF Created, Resumed
      <4> QED BY <3>1, <4>1 DEF Created, Resumed, startContainerStatePoll
    <3> QED BY <2>3, <3>1 DEF Answers, Fresh, More, ghosts
  <2>4. CASE Polls \/ Tick \/ \E i \in DOMAIN polls : Fail(i)
    <3>1. CASE Tick
      <4>1. timer \in ToSet(hosted)
        BY <3>1 DEF Tick, ShownInv
      <4> QED BY <3>1, <4>1 DEF Tick
    <3> QED BY <2>4, <3>1 DEF Polls, Fail, Answer, ghosts
  <2> QED BY <1>1, <2>1, <2>2, <2>3, <2>4 DEF Hook
<1>2. CASE List
  BY <1>2 DEF List, Mount, select, Resume, deleteSessionItem, Ask, ServeRefresh, Refreshed, Deleted,
              Destroy, EndsDestroyed, uiUnchanged, ghosts
<1>3. CASE Drawer
  BY <1>3 DEF Drawer, handleSearchInput, handleSearchKeyDown, SearchTimer, searchSessions,
              SelectResult, Resume, Ask, vars, ghosts
<1>4. CASE UNCHANGED panelled
  BY <1>4 DEF panelled, vars, ghosts
<1> QED BY <1>1, <1>2, <1>3, <1>4 DEF PanelNext

\* A session that is being created was before, or is new to the list.
LEMMA CreatingMoves ==
  ASSUME HostInv, [PanelNext]_panelled
  PROVE  \A s \in creating' : s \in creating \/ s \notin ToSet(hosted)
<1>1. ASSUME NEW c \in calls, Accept(c) PROVE \A s \in creating' : s \in creating \/ s \notin ToSet(hosted)
  BY <1>1 DEF Accept
<1>2. ASSUME HostStep \/ Polled \/ UNCHANGED <<host, began>> PROVE creating' \subseteq creating
  BY <1>2 DEF HostStep, Polled, host, Starts, Tracked, Ends, Stops, Purge, EndsDestroyed, Destroy
<1> QED BY <1>1, <1>2, HostMoves

LEMMA PollsKept ==
  ASSUME HostInv, CallsInv, PollsInv, ShownInv, [PanelNext]_panelled
  PROVE  PollsInv'
<1> DEFINE hs == ToSet(hosted)
<1> DEFINE PollOK(p) == /\ p \in PollType /\ p.of \in hs
                        /\ p.served => p.state # "none"
                        /\ p.of \in creating => p.progress.phase = "active"
<1> DEFINE Once1(ps) == \A i, j \in DOMAIN ps : ps[i].of = ps[j].of => i = j
<1>1. polls \in Seq(PollType) /\ (\A i \in DOMAIN polls : PollOK(polls[i]))
      /\ (~overlapped => Once1(polls))
  BY DEF PollsInv
<1>2. hs \subseteq ToSet(hosted')
  BY HostedGrows
<1>3. \A s \in creating' : s \in creating \/ s \notin hs
  BY CreatingMoves
<1> HIDE DEF hs
<1>4. ASSUME polls' \in Seq(PollType), \A i \in DOMAIN polls' : PollOK(polls'[i]),
             ~overlapped' => Once1(polls')
      PROVE  PollsInv'
  <2>1. \A i \in DOMAIN polls' : polls'[i].of \in ToSet(hosted')
    BY <1>2, <1>4
  <2>2. \A i \in DOMAIN polls' : polls'[i].of \in creating' => polls'[i].progress.phase = "active"
    BY <1>3, <1>4
  <2> QED BY <1>4, <2>1, <2>2 DEF PollsInv
<1>5. ASSUME NEW s \in hs, Poll(s) PROVE PollsInv'
  <2> DEFINE p == [of |-> s, served |-> FALSE, progress |-> [n |-> op[s].n, phase |-> op[s].phase],
                   state |-> "none"]
  <2>1. polls' = Append(polls, p) /\ overlapped' = (overlapped \/ \E i \in DOMAIN polls : polls[i].of = s)
    BY <1>5 DEF Poll
  <2>2. PollOK(p) /\ p.of = s
    <3>1. s \in Sessions
      BY DEF HostInv, ToSet, hs
    <3>2. op[s].n \in Nat /\ op[s].phase \in Phases
      BY <3>1 DEF HostInv, Entries
    <3>3. s \in creating => op[s].phase = "active"
      BY DEF HostInv, Active
    <3> QED BY <3>1, <3>2, <3>3 DEF PollType
  <2> HIDE DEF p
  <2>3. p \in PollType
    BY <2>2
  <2>4. Append(polls, p) \in Seq(PollType) /\ Len(Append(polls, p)) = Len(polls) + 1
        /\ Append(polls, p)[Len(polls) + 1] = p
        /\ \A i \in 1..Len(polls) : Append(polls, p)[i] = polls[i]
    BY <1>1, <2>3
  <2>5. DOMAIN polls' = 1..(Len(polls) + 1) /\ DOMAIN polls = 1..Len(polls) /\ Len(polls) \in Nat
    BY <1>1, <2>1, <2>4
  <2>6. polls' \in Seq(PollType) /\ polls'[Len(polls) + 1] = p /\ \A i \in 1..Len(polls) : polls'[i] = polls[i]
    BY <2>1, <2>4
  <2>7. ASSUME NEW i \in DOMAIN polls' PROVE PollOK(polls'[i])
    <3>1. CASE i = Len(polls) + 1
      <4> HIDE DEF PollOK
      <4> QED BY <2>2, <2>6, <3>1
    <3>2. CASE i # Len(polls) + 1
      <4>1. i \in 1..Len(polls)
        BY <2>5, <3>2
      <4> HIDE DEF PollOK
      <4> QED BY <1>1, <2>5, <2>6, <4>1
    <3> QED BY <3>1, <3>2
  <2>8. ASSUME ~overlapped', NEW i \in DOMAIN polls', NEW j \in DOMAIN polls', polls'[i].of = polls'[j].of
        PROVE  i = j
    <3>1. \A k \in 1..Len(polls) : polls[k].of # s
      BY <2>1, <2>5, <2>8
    <3>2. \A k, l \in 1..Len(polls) : polls[k].of = polls[l].of => k = l
      BY <1>1, <2>1, <2>5, <2>8
    <3> QED BY <2>2, <2>5, <2>6, <2>8, <3>1, <3>2
  <2> QED BY <1>4, <2>6, <2>7, <2>8
<1>6. ASSUME NEW i \in DOMAIN polls, ReadState(i) PROVE PollsInv'
  <2> DEFINE p == [polls[i] EXCEPT !.served = TRUE, !.state = inst[polls[i].of]]
  <2>1. polls' = [polls EXCEPT ![i] = p] /\ UNCHANGED overlapped
    BY <1>6 DEF ReadState, ghosts
  <2>2. PollOK(p) /\ p.of = polls[i].of
    <3>1. polls[i] \in PollType /\ PollOK(polls[i])
      BY <1>1
    <3>2. inst[polls[i].of] \in {"running", "destroyed"}
      BY <3>1 DEF HostInv, PollType
    <3> QED BY <3>1, <3>2 DEF PollType
  <2> HIDE DEF p
  <2>3. p \in PollType
    BY <2>2
  <2>4. polls' \in Seq(PollType) /\ DOMAIN polls' = DOMAIN polls
    BY <1>1, <2>1, <2>3
  <2>5. \A j \in DOMAIN polls : polls'[j] = IF j = i THEN p ELSE polls[j]
    BY <2>1
  <2>6. \A j \in DOMAIN polls : PollOK(polls'[j]) /\ polls'[j].of = polls[j].of
    <3> HIDE DEF PollOK
    <3> QED BY <1>1, <2>2, <2>5
  <2>7. ~overlapped' => Once1(polls')
    BY <1>1, <2>1, <2>4, <2>6
  <2> QED BY <1>4, <2>4, <2>6, <2>7
<1>7. ASSUME NEW i \in DOMAIN polls, polls' = RemoveAt(polls, i), UNCHANGED overlapped PROVE PollsInv'
  <2>1. /\ polls' \in Seq(PollType) /\ Len(polls') = Len(polls) - 1
        /\ \A j \in 1..(Len(polls) - 1) : polls'[j] = IF j < i THEN polls[j] ELSE polls[j + 1]
    BY <1>1, <1>7, Removed
  <2>2. DOMAIN polls' = 1..(Len(polls) - 1) /\ DOMAIN polls = 1..Len(polls) /\ Len(polls) \in Nat
    BY <1>1, <2>1
  <2> DEFINE at(j) == IF j < i THEN j ELSE j + 1
  <2>3. \A j \in DOMAIN polls' : at(j) \in DOMAIN polls /\ polls'[j] = polls[at(j)]
    BY <2>1, <2>2
  <2>4. \A j, k \in DOMAIN polls' : at(j) = at(k) => j = k
    BY <2>2
  <2> HIDE DEF at
  <2>5. \A j \in DOMAIN polls' : PollOK(polls'[j])
    <3> HIDE DEF PollOK
    <3> QED BY <1>1, <2>3
  <2>6. ~overlapped' => Once1(polls')
    BY <1>1, <1>7, <2>3, <2>4
  <2> QED BY <1>4, <2>1, <2>5, <2>6
<1>8. CASE UNCHANGED <<polls, overlapped>>
  BY <1>1, <1>4, <1>8
<1> QED BY <1>5, <1>6, <1>7, <1>8, PollMoves DEF hs

----------------------------------------------------------------------------
(* What is opened, and the poll of it.                                     *)

\* The steps that leave what is opened and polled as it was.
Quiet ==
  /\ UNCHANGED <<opened, timer, polled, crossed, overlapped>>
  /\ \A c \in calls : c.op = "resume" => c \in calls'
  /\ UNCHANGED polls \/ \E i \in DOMAIN polls : ReadState(i) \/ Fail(i)

LEMMA ShownMoves ==
  ASSUME ListInv, [PanelNext]_panelled
  PROVE  \/ \E s \in ToSet(hosted) : Resume(s) /\ UNCHANGED pollVars
         \/ \E c \in calls : Created(c) \/ Resumed(c)
         \/ \E i \in DOMAIN polls : Answer(i)
         \/ clearSession
         \/ Tick
         \/ Quiet
<1>1. CASE (Hook \/ DrawerList) /\ UNCHANGED panelVars
  <2>1. CASE Host
    BY <2>1 DEF Host, Accept, Serve, Starts, Tracked, Ends, Stops, Purge, uiUnchanged, ghosts, pollVars, Quiet
  <2>2. CASE createSession \/ clearSession \/ DrawerList
    <3>1. ASSUME NEW s, resumeSession(s) PROVE s \in ToSet(hosted) /\ Resume(s) /\ UNCHANGED pollVars
      BY <3>1 DEF resumeSession, ListInv, Resume
    <3>2. CASE \E s \in Sessions : resumeSession(s)
      BY <3>1, <3>2
    <3>3. CASE createSession \/ listSessions \/ loadMoreSessions
      BY <3>3 DEF createSession, listSessions, loadMoreSessions, Ask, ghosts, pollVars, Quiet
    <3> QED BY <2>2, <3>2, <3>3 DEF DrawerList
  <2>3. CASE Answers
    BY <2>3 DEF Answers, Fresh, More, ghosts, pollVars, Quiet
  <2>4. CASE Polls \/ Tick \/ \E i \in DOMAIN polls : Fail(i)
    BY <2>4 DEF Polls, ReadState, Fail, ghosts, pollVars, Quiet
  <2> QED BY <1>1, <2>1, <2>2, <2>3, <2>4 DEF Hook
<1>2. CASE List
  <2>1. ASSUME NEW s, select(s) PROVE s \in ToSet(hosted) /\ Resume(s) /\ UNCHANGED pollVars
    BY <2>1 DEF select, ListInv, Resume
  <2>2. CASE \E s \in Sessions : select(s)
    BY <2>1, <2>2
  <2>3. CASE \/ Mount \/ \E s \in Sessions : deleteSessionItem(s) \/ EndsDestroyed(s)
             \/ \E c \in calls : ServeRefresh(c) \/ Refreshed(c) \/ Destroy(c) \/ Deleted(c)
    BY <2>3 DEF Mount, deleteSessionItem, Ask, ServeRefresh, Refreshed, Deleted, Destroy, EndsDestroyed,
                uiUnchanged, ghosts, pollVars, Quiet
  <2> QED BY <1>2, <2>2, <2>3 DEF List
<1>3. CASE Drawer
  <2>1. ASSUME NEW s, SelectResult(s) PROVE s \in ToSet(hosted) /\ Resume(s) /\ UNCHANGED pollVars
    BY <2>1 DEF SelectResult, Resume
  <2>2. CASE \E s \in Sessions : SelectResult(s)
    BY <2>1, <2>2
  <2>3. CASE \/ handleSearchInput \/ handleSearchKeyDown
             \/ \E q \in searchTimers : SearchTimer(q)
             \/ \E x \in searches : searchSessions(x)
    BY <2>3 DEF handleSearchInput, handleSearchKeyDown, SearchTimer, searchSessions,
                vars, ghosts, pollVars, Quiet
  <2> QED BY <1>3, <2>2, <2>3 DEF Drawer
<1>4. CASE UNCHANGED panelled
  BY <1>4 DEF panelled, vars, ghosts, pollVars, Quiet
<1> QED BY <1>1, <1>2, <1>3, <1>4 DEF PanelNext

LEMMA ShownKept ==
  ASSUME HostInv, CallsInv, ListInv, PollsInv, ShownInv, [PanelNext]_panelled
  PROVE  ShownInv'
<1> DEFINE hs == ToSet(hosted)
<1>1. opened \in hs \cup {NoSession} /\ timer \in hs \cup {NoSession} /\ polled \in hs \cup {NoSession}
  BY DEF ShownInv
<1>2. hs \subseteq ToSet(hosted')
  BY HostedGrows
<1>3. \A c \in calls : Created(c) \/ Resumed(c) => c.s \in hs
  BY Belongs DEF Created, Resumed
<1>4. \A i \in DOMAIN polls : polls[i].of \in hs
  BY DEF PollsInv
<1> HIDE DEF hs
<1>5. ASSUME {opened', timer', polled'} \subseteq hs \cup {NoSession} PROVE ShownInv'
  BY <1>2, <1>5 DEF ShownInv
<1>6. ASSUME NEW s \in hs, Resume(s), UNCHANGED pollVars PROVE ShownInv'
  BY <1>1, <1>5, <1>6 DEF Resume, pollVars
<1>7. ASSUME NEW c \in calls, Created(c) \/ Resumed(c) PROVE ShownInv'
  BY <1>1, <1>3, <1>5, <1>7 DEF Created, Resumed, startContainerStatePoll
<1>8. ASSUME NEW i \in DOMAIN polls, Answer(i) PROVE ShownInv'
  <2>1. timer' \in {NoSession, polls[i].of, timer} /\ polled' \in {NoSession, polled} /\ opened' = opened
    BY <1>8 DEF Answer
  <2> QED BY <1>1, <1>4, <1>5, <2>1
<1>9. CASE clearSession \/ Tick \/ Quiet
  BY <1>1, <1>5, <1>9 DEF clearSession, Tick, pollVars, Quiet
<1> QED BY <1>6, <1>7, <1>8, <1>9, ShownMoves DEF hs

\* The invariants so far.
ListsInv == HostInv /\ CallsInv /\ ListInv /\ PollsInv /\ ShownInv

LEMMA ListsStart == PanelInit => ListsInv
<1> SUFFICES ASSUME PanelInit PROVE ListsInv
  OBVIOUS
<1>1. HostInv
  BY OldAssumption DEF PanelInit, Init, HostInv, NoOp, Entries, Phases
<1>2. CallsInv /\ ShownInv
  BY DEF PanelInit, Init, CallsInv, ShownInv
<1>3. ListInv
  BY DEF PanelInit, Init, ListInv, Listed, ToSet
<1>4. PollsInv
  BY DEF PanelInit, Init, PollsInv
<1> QED BY <1>1, <1>2, <1>3, <1>4 DEF ListsInv

LEMMA ListsKept == ListsInv /\ [PanelNext]_panelled => ListsInv'
BY HostKept, CallsKept, ListKept, PollsKept, ShownKept DEF ListsInv

LEMMA ListsAlways == PanelSpec => []ListsInv
BY ListsStart, ListsKept, PTL DEF PanelSpec, panelled

LEMMA FollowedKept == ASSUME ListsInv, CreateFollowed, [PanelNext]_panelled PROVE CreateFollowed'
<1> SUFFICES ASSUME ~crossed', opened' \in creating', \A c \in calls' : ~(c.s = opened' /\ c.op = "resume")
             PROVE  polled' = opened' /\ timer' = opened'
  BY DEF CreateFollowed
<1>1. opened' \in Sessions
  <2>1. ListsInv'
    BY ListsKept
  <2> QED BY <2>1 DEF ListsInv, HostInv, ToSet
<1>2. \A s \in creating' : s \in creating \/ s \notin ToSet(hosted)
  BY CreatingMoves DEF ListsInv
<1>3. opened \in ToSet(hosted) \cup {NoSession}
  BY DEF ListsInv, ShownInv
<1>4. ASSUME NEW s, Resume(s) PROVE FALSE
  <2>1. Call("resume", s) \in calls' /\ opened' = s
    BY <1>4 DEF Resume, Ask
  <2>2. Call("resume", s).s = s /\ Call("resume", s).op = "resume"
    BY DEF Call
  <2> QED BY <2>1, <2>2
<1>5. ASSUME NEW c \in calls, Created(c) \/ Resumed(c) PROVE polled' = opened' /\ timer' = opened'
  BY <1>5 DEF Created, Resumed, startContainerStatePoll
<1>6. ASSUME NEW i \in DOMAIN polls, Answer(i) PROVE polled' = opened' /\ timer' = opened'
  <2>1. polls[i].of = opened /\ ~crossed /\ UNCHANGED <<opened, creating, calls>>
    BY <1>6 DEF Answer, host
  <2>2. Active(polls[i].progress)
    BY <2>1 DEF ListsInv, PollsInv, Active
  <2>3. polled = opened /\ timer = opened
    BY <2>1 DEF CreateFollowed
  <2> QED BY <1>6, <2>1, <2>2, <2>3 DEF Answer
<1>7. CASE clearSession
  BY <1>1, <1>7, OldAssumption DEF clearSession
<1>8. CASE Tick
  BY <1>8 DEF Tick, pollVars, CreateFollowed
<1>9. CASE Quiet
  <2>1. opened \in creating
    BY <1>1, <1>2, <1>3, <1>9, OldAssumption DEF Quiet
  <2> QED BY <1>9, <2>1 DEF Quiet, CreateFollowed
<1> QED
  <2>1. ListInv
    BY DEF ListsInv
  <2> QED BY <1>4, <1>5, <1>6, <1>7, <1>8, <1>9, <2>1, ShownMoves

(***************************************************************************)
(* A session that is being created is polled until that has ended, unless  *)
(* an answer for another session came late: the requests read the entry of *)
(* the progress store, which MarkCreating makes before the host's list has *)
(* the session, and every answer of them keeps the poll                    *)
(* (startContainerStatePoll of web/src/useAgentSession.ts).                *)
(***************************************************************************)
THEOREM CreateAlwaysFollowed == PanelSpec => []CreateFollowed
<1>1. PanelInit => CreateFollowed
  BY DEF PanelInit, Init, CreateFollowed
<1>2. ListsInv /\ CreateFollowed /\ [PanelNext]_panelled => CreateFollowed'
  BY FollowedKept
<1> QED BY <1>1, <1>2, ListsAlways, PTL DEF PanelSpec, panelled

----------------------------------------------------------------------------
(* The row of the session that is opened.                                  *)

Calm(row) == row.state # "starting" /\ row.progress # "active"

\* The session opened is polled, or no request of it is under way and its row has
\* nothing that will change.
Following ==
  ~crossed /\ ~overlapped /\ opened # NoSession /\ ~(\E c \in calls : c.op = "resume" /\ c.s = opened) =>
    \/ polled = opened
    \/ /\ polled = NoSession
       /\ \A i \in DOMAIN polls : polls[i].of # opened
       /\ \A i \in DOMAIN sessionList : sessionList[i].id = opened => Calm(sessionList[i])

\* A refresh or a page brings rows of which that can be said too.
LEMMA CalmKept ==
  ASSUME ListsInv, NEW s \in Sessions,
         \A i \in DOMAIN sessionList : sessionList[i].id = s => Calm(sessionList[i]),
         \/ \E c \in calls : Fresh(c) \/ More(c)
         \/ UNCHANGED sessionList
  PROVE  \A i \in DOMAIN sessionList' : sessionList'[i].id = s => Calm(sessionList'[i])
<1>1. \A c \in calls : c.page \in Seq(Rows) /\ \A i \in DOMAIN c.page : Calm(c.page[i])
  BY DEF ListsInv, CallsInv, CallOK, PageOK, Calm
<1>2. sessionList \in Seq(Rows) /\ ListInv /\ CallsInv
  BY DEF ListsInv, ListInv
<1>3. ASSUME NEW c \in calls, Fresh(c)
      PROVE  \A k \in DOMAIN sessionList' :
               \/ \E i \in DOMAIN c.page : sessionList'[k] = c.page[i]
               \/ \E i \in DOMAIN sessionList : sessionList'[k] = sessionList[i]
  BY <1>2, <1>3, FreshRows
<1>4. ASSUME NEW c \in calls, More(c)
      PROVE  \A k \in DOMAIN sessionList' :
               \/ \E i \in DOMAIN c.page : sessionList'[k] = c.page[i]
               \/ \E i \in DOMAIN sessionList : sessionList'[k] = sessionList[i]
  <2> DEFINE page == Read(c)
  <2>1. /\ sessionList' = sessionList \o page /\ sessionList \in Seq(Rows) /\ page \in Seq(Rows)
        /\ \A i \in DOMAIN page : i \in DOMAIN c.page /\ page[i] = c.page[i]
    BY <1>2, <1>4, ReadIs DEF More
  <2> HIDE DEF page
  <2>2. \A k \in DOMAIN (sessionList \o page) :
          \/ \E i \in DOMAIN sessionList : (sessionList \o page)[k] = sessionList[i]
          \/ \E i \in DOMAIN page : (sessionList \o page)[k] = page[i]
    BY <2>1, Joined
  <2> QED BY <2>1, <2>2
<1> HIDE DEF Calm
<1>5. ASSUME NEW c \in calls, Fresh(c) \/ More(c)
      PROVE  \A i \in DOMAIN sessionList' : sessionList'[i].id = s => Calm(sessionList'[i])
  <2>1. \A k \in DOMAIN sessionList' :
          \/ \E i \in DOMAIN c.page : sessionList'[k] = c.page[i]
          \/ \E i \in DOMAIN sessionList : sessionList'[k] = sessionList[i]
    BY <1>3, <1>4, <1>5
  <2> QED BY <1>1, <2>1
<1> QED BY <1>5

LEMMA FollowingKept == ASSUME ListsInv, Following, [PanelNext]_panelled PROVE Following'
<1> DEFINE Unasked == \A i \in DOMAIN polls' : polls'[i].of # opened'
<1> DEFINE AllCalm == \A i \in DOMAIN sessionList' : sessionList'[i].id = opened' => Calm(sessionList'[i])
<1> DEFINE Goal == polled' = opened' \/ (polled' = NoSession /\ Unasked /\ AllCalm)
<1> SUFFICES ASSUME ~crossed', ~overlapped', opened' # NoSession,
                    \A c \in calls' : ~(c.op = "resume" /\ c.s = opened')
             PROVE  Goal
  BY DEF Following
<1>1. ListInv /\ CallsInv /\ PollsInv /\ polls \in Seq(PollType)
  BY DEF ListsInv, PollsInv
<1>2. ASSUME NEW s, Resume(s) PROVE FALSE
  <2>1. Call("resume", s) \in calls' /\ opened' = s
    BY <1>2 DEF Resume, Ask
  <2>2. Call("resume", s).s = s /\ Call("resume", s).op = "resume"
    BY DEF Call
  <2> QED BY <2>1, <2>2
<1>3. ASSUME NEW c \in calls, Created(c) \/ Resumed(c) PROVE Goal
  BY <1>3 DEF Created, Resumed, startContainerStatePoll
<1>4. ASSUME NEW i \in DOMAIN polls PROVE
        /\ DOMAIN RemoveAt(polls, i) = 1..(Len(polls) - 1)
        /\ \A j \in DOMAIN RemoveAt(polls, i) :
             \E k \in DOMAIN polls : k # i /\ RemoveAt(polls, i)[j] = polls[k]
  <2>1. /\ RemoveAt(polls, i) \in Seq(PollType)
        /\ Len(RemoveAt(polls, i)) = Len(polls) - 1
        /\ \A j \in 1..(Len(polls) - 1) : RemoveAt(polls, i)[j] = IF j < i THEN polls[j] ELSE polls[j + 1]
    BY <1>1, Removed
  <2>2. DOMAIN RemoveAt(polls, i) = 1..(Len(polls) - 1) /\ DOMAIN polls = 1..Len(polls)
        /\ Len(polls) \in Nat
    BY <1>1, <2>1
  <2>3. ASSUME NEW j \in 1..(Len(polls) - 1)
        PROVE  \E k \in DOMAIN polls : k # i /\ RemoveAt(polls, i)[j] = polls[k]
    <3>1. CASE j < i
      <4>1. j \in DOMAIN polls /\ j # i /\ RemoveAt(polls, i)[j] = polls[j]
        BY <2>1, <2>2, <3>1
      <4> QED BY <4>1
    <3>2. CASE ~(j < i)
      <4>1. j + 1 \in DOMAIN polls /\ j + 1 # i /\ RemoveAt(polls, i)[j] = polls[j + 1]
        BY <2>1, <2>2, <3>2
      <4> QED BY <4>1
    <3> QED BY <3>1, <3>2
  <2> QED BY <2>2, <2>3
<1>5. ASSUME NEW i \in DOMAIN polls, Answer(i) PROVE Goal
  <2> DEFINE p == polls[i]
  <2>1. /\ p.of = opened /\ ~crossed /\ UNCHANGED <<opened, calls, overlapped>>
        /\ polls' = RemoveAt(polls, i) /\ p.served
    BY <1>5 DEF Answer
  <2>2. \A j \in DOMAIN polls : polls[j].of = p.of => j = i
    BY <1>1, <2>1 DEF PollsInv
  <2>3. polled = opened
    BY <2>1 DEF Following
  <2>4. CASE polled' = polled
    BY <2>1, <2>3, <2>4
  <2>5. CASE polled' # polled
    <3>1. ~Active(p.progress) /\ p.state \in Stable /\ polled' = NoSession
      BY <1>5, <2>5 DEF Answer
    <3>2. Unasked
      BY <1>4, <2>1, <2>2
    <3>3. AllCalm
      <4>1. DOMAIN sessionList' = DOMAIN sessionList
            /\ \A k \in DOMAIN sessionList :
                 /\ sessionList'[k].id = sessionList[k].id
                 /\ sessionList[k].id = p.of =>
                      sessionList'[k].state = p.state /\ sessionList'[k].progress = p.progress.phase
        BY <1>1, <1>5, AnsweredRows
      <4> QED BY <2>1, <3>1, <4>1 DEF Active, Stable, Calm
    <3> QED BY <3>1, <3>2, <3>3
  <2> QED BY <2>4, <2>5
<1>6. CASE clearSession
  BY <1>6 DEF clearSession
<1>7. CASE Tick
  <2>1. ~crossed /\ ~overlapped /\ UNCHANGED <<opened, calls, polled>> /\ polled # NoSession
    BY <1>7 DEF Tick, Poll, pollVars
  <2> QED BY <2>1 DEF Following
<1>8. CASE Quiet
  <2>1. ~crossed /\ ~overlapped /\ UNCHANGED <<opened, polled>> /\ \A c \in calls : c.op = "resume" => c \in calls'
    BY <1>8 DEF Quiet
  <2>2. CASE polled = opened
    BY <2>1, <2>2
  <2>3. CASE polled # opened
    <3>1. /\ polled = NoSession
          /\ \A i \in DOMAIN polls : polls[i].of # opened
          /\ \A i \in DOMAIN sessionList : sessionList[i].id = opened => Calm(sessionList[i])
      BY <2>1, <2>3 DEF Following
    <3>2. Unasked
      <4>1. ASSUME NEW i \in DOMAIN polls, ReadState(i) PROVE Unasked
        <5>1. DOMAIN polls' = DOMAIN polls /\ \A j \in DOMAIN polls : polls'[j].of = polls[j].of
          BY <1>1, <4>1 DEF ReadState, PollType
        <5> QED BY <2>1, <3>1, <5>1
      <4>2. ASSUME NEW i \in DOMAIN polls, Fail(i) PROVE Unasked
        <5>1. polls' = RemoveAt(polls, i)
          BY <4>2 DEF Fail
        <5> QED BY <1>4, <2>1, <3>1, <5>1
      <4>3. CASE UNCHANGED polls
        BY <2>1, <3>1, <4>3
      <4> QED BY <1>8, <4>1, <4>2, <4>3 DEF Quiet
    <3>3. ASSUME (\E c \in calls : Fresh(c) \/ More(c)) \/ UNCHANGED sessionList PROVE AllCalm
      <4>1. opened \in Sessions
        BY <2>1 DEF ListsInv, ShownInv, HostInv, ToSet
      <4> QED BY <2>1, <3>1, <3>3, <4>1, CalmKept
    <3>4. ASSUME NEW c \in calls, Refreshed(c) \/ Deleted(c) PROVE UNCHANGED sessionList
      BY <3>4 DEF Refreshed, Deleted, listVars
    <3> HIDE DEF Goal, Unasked, AllCalm
    <3>5. Unasked /\ AllCalm => Goal
      BY <2>1, <3>1 DEF Goal
    <3> QED BY <1>1, <1>3, <1>5, <3>2, <3>3, <3>4, <3>5, ListMoves
  <2> QED BY <2>2, <2>3
<1> QED
  <2> HIDE DEF Goal
  <2> QED BY <1>1, <1>2, <1>3, <1>5, <1>6, <1>7, <1>8, ShownMoves

LEMMA FollowingAlways == PanelSpec => []Following
<1>1. PanelInit => Following
  BY DEF PanelInit, Init, Following
<1>2. ListsInv /\ Following /\ [PanelNext]_panelled => Following'
  BY FollowingKept
<1> QED BY <1>1, <1>2, ListsAlways, PTL DEF PanelSpec, panelled

(***************************************************************************)
(* When the poll of the session opened has ended and none of its requests  *)
(* overlapped, its row does not say that it is being created, restored or  *)
(* saved: the poll ends itself only on an answer that leaves nothing to    *)
(* wait for, and lists that come later say nothing of that (onStateUpdate  *)
(* and fetchSessions of web/src/useAgentSession.ts).                       *)
(***************************************************************************)
THEOREM RowAlwaysSettles == PanelSpec => []RowSettles
<1>1. ListsInv /\ Following => RowSettles
  <2> SUFFICES ASSUME ListsInv, Following,
                      ~crossed, ~overlapped, polled = NoSession, opened # NoSession,
                      ~\E c \in calls : c.s = opened,
                      NEW i \in DOMAIN sessionList, sessionList[i].id = opened
               PROVE  Chips(sessionList[i]) \cap {"starting", "progress"} = {}
    BY DEF RowSettles
  <2>1. Calm(sessionList[i])
    BY DEF Following
  <2>2. sessionList[i].state \in {"starting", "listed", "running", "destroyed"}
    <3>1. sessionList[i] \in Rows
      BY DEF ListsInv, ListInv
    <3> QED BY <3>1 DEF Rows
  <2> QED BY <2>1, <2>2 DEF Calm, Chips
<1> QED BY <1>1, ListsAlways, FollowingAlways, PTL

----------------------------------------------------------------------------
(* Action properties.                                                      *)

LEMMA ListStaysOnce ==
  ASSUME ListsInv, [PanelNext]_panelled, Once, ~(\E c \in calls : More(c))
  PROVE  Once'
<1>1. ListInv /\ CallsInv /\ PollsInv
  BY DEF ListsInv
<1>2. Distinct(sessionList)
  BY DEF Once, Distinct
<1>3. ASSUME Distinct(sessionList') PROVE Once'
  BY <1>3 DEF Once, Distinct
<1>4. ASSUME NEW c \in calls, Created(c) PROVE Distinct(sessionList')
  <2>1. c.s \in Sessions
    <3>1. c.s \in ToSet(hosted)
      BY <1>1, <1>4, Belongs DEF Created
    <3> QED BY <3>1 DEF ListsInv, HostInv, ToSet
  <2> QED BY <1>1, <1>2, <1>4, <2>1, CreatedRows
<1>5. ASSUME NEW c \in calls, Fresh(c) PROVE Distinct(sessionList')
  BY <1>1, <1>2, <1>5, FreshRows
<1>6. ASSUME NEW i \in DOMAIN polls, Answer(i) PROVE Distinct(sessionList')
  <2>1. DOMAIN sessionList' = DOMAIN sessionList
        /\ \A k \in DOMAIN sessionList : sessionList'[k].id = sessionList[k].id
    BY <1>1, <1>6, AnsweredRows
  <2> QED BY <1>2, <2>1 DEF Distinct
<1>7. ASSUME NEW c \in calls, Refreshed(c) \/ Deleted(c) PROVE sessionList' = sessionList
  BY <1>7 DEF Refreshed, Deleted, listVars
<1> QED BY <1>2, <1>3, <1>4, <1>5, <1>6, <1>7, ListMoves

(***************************************************************************)
(* No step but the answer to a request for more lists a session twice: the *)
(* answer to createSession inserts a row unless there is one, and a        *)
(* refresh puts those it has in place and only the others before them,     *)
(* whatever the lists were when the requests were made (createSession and  *)
(* fetchSessions of web/src/useAgentSession.ts).                           *)
(***************************************************************************)
THEOREM ListAlwaysOnce == PanelSpec => ListOnce
<1>1. ListsInv /\ [PanelNext]_panelled => [Once /\ ~(\E c \in calls : More(c)) => Once']_vars
  BY ListStaysOnce
<1> QED BY <1>1, ListsAlways, PTL DEF PanelSpec, ListOnce, panelled

\* The only timer that runs is the one remembered, for the text of the field.
TimerInv == searchTimers # {} => searchTimers = {searchTimerRef} /\ searchTimerRef = searchQuery

(***************************************************************************)
(* A search that the timer makes is for the text that the field has then:  *)
(* each key stops the timer remembered before it starts one, and so does   *)
(* Enter (handleSearchInput and handleSearchKeyDown of                     *)
(* web/src/components/ChatHistoryDrawer.tsx).                              *)
(***************************************************************************)
THEOREM SearchesAlwaysWanted == PanelSpec => SearchesWanted
<1>1. PanelInit => TimerInv
  BY DEF PanelInit, TimerInv
<1>2. ASSUME TimerInv, [PanelNext]_panelled PROVE TimerInv'
  <2>1. CASE UNCHANGED searchVars
    BY <1>2, <2>1 DEF searchVars, field, TimerInv
  <2>2. CASE handleSearchInput
    BY <1>2, <2>2 DEF handleSearchInput, TimerInv
  <2>3. CASE handleSearchKeyDown
    BY <1>2, <2>3 DEF handleSearchKeyDown, field, TimerInv
  <2>4. ASSUME NEW q \in searchTimers, SearchTimer(q) PROVE TimerInv'
    BY <1>2, <2>4 DEF SearchTimer, field, TimerInv
  <2>5. ASSUME NEW x \in searches, searchSessions(x) PROVE TimerInv'
    BY <1>2, <2>5 DEF searchSessions, field, TimerInv
  <2>6. CASE (Hook \/ DrawerList) /\ UNCHANGED panelVars
    BY <2>1, <2>6 DEF panelVars
  <2>7. CASE List
    BY <2>1, <2>7 DEF List, Mount, select, deleteSessionItem, EndsDestroyed, ServeRefresh, Refreshed,
                      Destroy, Deleted, panelVars
  <2>8. CASE \E s \in Sessions : SelectResult(s)
    BY <2>1, <2>8 DEF SelectResult, panelVars
  <2>9. CASE UNCHANGED panelled
    BY <2>1, <2>9 DEF panelled, panelVars
  <2> QED BY <1>2, <2>2, <2>3, <2>4, <2>5, <2>6, <2>7, <2>8, <2>9 DEF PanelNext, Drawer
<1>3. TimerInv /\ [PanelNext]_panelled
        => [\A q \in searchTimers : SearchTimer(q) => q = searchQuery]_<<vars, panelVars>>
  BY DEF TimerInv
<1> QED BY <1>1, <1>2, <1>3, PTL DEF PanelSpec, SearchesWanted, panelled

----------------------------------------------------------------------------
(* The composer: text.                                                     *)

SubmitShape == \A x \in submits : x = [n |-> x.n, text |-> x.text, todo |-> x.todo]

\* A submission's message empties the input, so its own text has to hold all
\* that came before it began.
TextInv ==
  /\ SubmitShape
  /\ calm \subseteq input \cup sent
  /\ \A x \in submits : calm \subseteq sent \cup x.text

LEMMA WithTodo ==
  ASSUME NEW x, x = [n |-> x.n, text |-> x.text, todo |-> x.todo], NEW todo
  PROVE  [x EXCEPT !.todo = todo] = [n |-> x.n, text |-> x.text, todo |-> todo]
OBVIOUS

(***************************************************************************)
(* Text that came while no submission was under way is never lost          *)
(* (handleSubmit and the uploads it awaits).                               *)
(***************************************************************************)
THEOREM TextAlwaysKept == ComposerSpec => []TextKept
<1>1. ComposerInit => TextInv
  BY DEF ComposerInit, TextInv, SubmitShape
<1>2. TextInv /\ [ComposerNext]_composerVars => TextInv'
  <2> SUFFICES ASSUME TextInv, [ComposerNext]_composerVars PROVE TextInv'
    OBVIOUS
  <2> USE DEF TextInv, SubmitShape
  <2>1. ASSUME Comes, UNCHANGED submits PROVE TextInv'
    BY <2>1 DEF Comes
  <2>2. CASE handleSubmit
    <3>1. CASE submits' = submits /\ Message(input)
      BY <3>1 DEF Message
    <3>2. ASSUME NEW todo, UNCHANGED textVars,
                 submits' = submits \cup {[n |-> submitted', text |-> input, todo |-> todo]}
          PROVE  TextInv'
      BY <3>2 DEF textVars
    <3> QED BY <2>2, <3>1, <3>2 DEF handleSubmit
  <2>3. CASE Uploads
    <3>1. PICK x \in submits : Uploaded(x)
      BY <2>3 DEF Uploads
    <3> DEFINE rest == [x EXCEPT !.todo = Tail(@)]
    <3>2. rest = [n |-> x.n, text |-> x.text, todo |-> Tail(x.todo)]
      BY WithTodo
    <3>3. CASE submits' = (submits \ {x}) \cup {rest} /\ UNCHANGED textVars
      BY <3>2, <3>3 DEF textVars
    <3>4. CASE submits' = submits \ {x} /\ Submitted(x)
      BY <3>4 DEF Submitted, Message
    <3> QED BY <3>1, <3>3, <3>4 DEF Uploaded
  <2>4. CASE Voice
    <3>1. PICK r \in Recordings : Granted(r) \/ Stopped(r) \/ Transcribed(r)
      BY <2>4 DEF Voice
    <3> QED BY <3>1, <2>1 DEF Granted, Stopped, Transcribed, textVars, submitVars
  <2>5. CASE UNCHANGED <<textVars, submits>>
    BY <2>5 DEF textVars
  <2>6. ASSUME NEW r \in Recordings, Data(r) PROVE UNCHANGED <<textVars, submits>>
    BY <2>6 DEF Data, submitVars
  <2>7. ASSUME NEW f \in Files, removeFile(f) PROVE UNCHANGED <<textVars, submits>>
    BY <2>7 DEF removeFile, submitVars
  <2>8. CASE addFiles \/ startRecording \/ stopRecording \/ cancelRecording
    BY <2>8, <2>5 DEF addFiles, startRecording, stopRecording, cancelRecording, submitVars
  <2>9. CASE Type
    BY <2>9, <2>1 DEF Type, submitVars
  <2>10. CASE TurnEnds
    BY <2>10 DEF TurnEnds, submitVars
  <2>11. CASE UNCHANGED composerVars
    BY <2>11 DEF composerVars, textVars, submitVars
  <2> QED BY <2>2, <2>3, <2>4, <2>5, <2>6, <2>7, <2>8, <2>9, <2>10, <2>11 DEF ComposerNext
<1>3. TextInv => TextKept
  BY DEF TextInv, TextKept
<1> QED BY <1>1, <1>2, <1>3, PTL DEF ComposerSpec

----------------------------------------------------------------------------
(* The composer: the microphone.                                           *)

Less == OpToRel(<, Nat)

LEMMA LessContains == \A x, y \in Nat : x < y => <<x, y>> \in Less
  BY DEF Less, OpToRel

\* A new recording is one that was not used yet.
LEMMA NextIsUnused ==
  ASSUME NEW r \in Recordings, recording[r] = "none"
  PROVE  NextRecording \in Recordings /\ recording[NextRecording] = "none"
<1> DEFINE unused == {q \in Recordings : recording[q] = "none"}
<1>1. PICK q \in unused : \A p \in 1..(q - 1) : p \notin unused
  <2>1. unused \subseteq Nat /\ unused # {}
    BY ComposerAssumption DEF Recordings
  <2>2. PICK q \in unused : \A p \in unused : ~(<<p, q>> \in Less)
    BY <2>1, WFMin, NatLessThanWellFounded, Zenon DEF Less
  <2>3. \A p \in unused : ~(p < q)
    BY <2>1, <2>2, LessContains, Zenon
  <2> QED BY <2>1, <2>3
<1>2. \A p \in 1..(q - 1) : recording[p] # "none"
  BY <1>1, ComposerAssumption DEF Recordings
<1> QED BY <1>1, <1>2 DEF NextRecording

Stages == {"none", "starting", "on", "stopping", "posted", "over", "stuck"}

\* While the microphone is asked for, nothing else is recorded and nothing
\* else is asked for, unless a start came during another.
VoiceInv ==
  /\ recording \in [Recordings -> Stages]
  /\ mics \subseteq Recordings
  /\ \A r \in mics : recording[r] \in {"on", "stopping", "stuck"}
  /\ ~doubled =>
       \A r \in Recordings : recording[r] = "starting" =>
         /\ ~isRecording
         /\ \A q \in Recordings : recording[q] = "starting" => q = r
  /\ isRecording \in BOOLEAN /\ doubled \in BOOLEAN
  /\ MicShown

LEMMA VoiceStarts == ComposerInit => VoiceInv
BY DEF ComposerInit, VoiceInv, Stages, MicShown

LEMMA VoiceKept == ASSUME VoiceInv, [ComposerNext]_composerVars PROVE VoiceInv'
<1> USE DEF VoiceInv, MicShown
<1>1. CASE startRecording
  <2>1. NextRecording \in Recordings /\ recording[NextRecording] = "none"
    BY <1>1, NextIsUnused DEF startRecording
  <2>2. recording' = [recording EXCEPT ![NextRecording] = "starting"] /\ ~isRecording
        /\ UNCHANGED <<isRecording, recorderRef, mics, metered>>
        /\ doubled' = (doubled \/ \E r \in Recordings : recording[r] = "starting")
    BY <1>1 DEF startRecording, MicEnabled, ToolbarShown
  <2> HIDE DEF NextRecording
  <2> QED BY <2>1, <2>2 DEF Stages
<1>2. ASSUME NEW r \in Recordings, Granted(r) PROVE VoiceInv'
  <2>1. CASE recording' = [recording EXCEPT ![r] = "over"]
             /\ UNCHANGED <<mics, recorderRef, isRecording, metered, doubled>>
    BY <1>2, <2>1 DEF Granted, Stages
  <2>2. CASE /\ recording' = [recording EXCEPT ![r] = "on"]
             /\ mics' = mics \cup {r} /\ recorderRef' = r /\ stream' = r
             /\ isRecording' = TRUE /\ OverlayShows /\ UNCHANGED doubled
    <3>1. metered' = TRUE
      <4>1. stream' # 0
        BY <2>2, ComposerAssumption DEF Recordings
      <4> QED BY <2>2, <4>1, Zenon DEF OverlayShows
    <3>2. recording[r] = "starting"
      BY <1>2 DEF Granted
    <3>3. ~doubled => \A q \in mics : recording[q] \in {"stopping", "stuck"} /\ q # r
      BY <3>2
    <3> QED BY <2>2, <3>1, <3>2, <3>3 DEF Stages
  <2>3. CASE /\ recording' = [recording EXCEPT ![r] = "stuck"]
             /\ mics' = mics \cup {r} /\ recorderRef' \in {r, recorderRef}
             /\ isRecording' = isRecording /\ OverlayShows /\ UNCHANGED doubled
    <3>1. metered' = isRecording'
      BY <2>3 DEF OverlayShows
    <3>2. recording[r] = "starting"
      BY <1>2 DEF Granted
    <3>3. ~doubled => ~isRecording /\ \A q \in mics : recording[q] \in {"stopping", "stuck"} /\ q # r
      BY <3>2
    <3> QED BY <2>3, <3>1, <3>2, <3>3 DEF Stages
  <2> QED BY <1>2, <2>1, <2>2, <2>3 DEF Granted
<1>3. CASE stopRecording \/ cancelRecording
  <2>1. /\ Stop /\ isRecording /\ isRecording' = FALSE /\ metered' = FALSE
        /\ mics' \subseteq mics /\ UNCHANGED <<recorderRef, doubled>>
    BY <1>3 DEF stopRecording, cancelRecording, cleanup
  <2> QED BY <2>1 DEF Stop, Stages
<1>4. ASSUME NEW r \in Recordings, Stopped(r) PROVE VoiceInv'
  BY <1>4 DEF Stopped, Stages
<1>5. ASSUME NEW r \in Recordings, Transcribed(r) PROVE VoiceInv'
  BY <1>5 DEF Transcribed, Stages
<1>6. CASE UNCHANGED <<recording, mics, recorderRef, isRecording, metered, doubled>>
  BY <1>6
<1>7. ASSUME NEW r \in Recordings, Data(r)
      PROVE UNCHANGED <<recording, mics, recorderRef, isRecording, metered, doubled>>
  BY <1>7 DEF Data
<1>8. ASSUME NEW f \in Files, removeFile(f) PROVE UNCHANGED voiceVars
  BY <1>8 DEF removeFile
<1>9. ASSUME Uploads PROVE UNCHANGED voiceVars
  BY <1>9 DEF Uploads, Uploaded
<1>10. ASSUME Type \/ TurnEnds \/ addFiles \/ handleSubmit \/ UNCHANGED composerVars
       PROVE UNCHANGED voiceVars
  BY <1>10 DEF Type, TurnEnds, addFiles, handleSubmit, composerVars
<1>11. CASE UNCHANGED voiceVars
  BY <1>6, <1>11 DEF voiceVars
<1> QED BY <1>1, <1>2, <1>3, <1>4, <1>5, <1>6, <1>7, <1>8, <1>9, <1>10, <1>11 DEF ComposerNext, Voice

(***************************************************************************)
(* However recordings are started, stopped and cancelled, no microphone    *)
(* stays open unseen (the two hooks and the overlay), if no start is asked *)
(* for during another and but for those whose recorder could not be made   *)
(* or started.                                                             *)
(***************************************************************************)
THEOREM MicAlwaysShown == ComposerSpec => []MicShown
<1>1. VoiceInv => MicShown
  BY DEF VoiceInv
<1> QED BY <1>1, VoiceStarts, VoiceKept, PTL DEF ComposerSpec

----------------------------------------------------------------------------
(* Uploads.                                                                *)

IsPending(f) == f \in Attached /\ attachments[f] = "pending"

\* What a submission has to upload: files it has marked, the first of them
\* uploaded already.
TodoOK(todo) ==
  /\ todo \in Seq(1..added) /\ todo # <<>>
  /\ \A i, j \in DOMAIN todo : todo[i] = todo[j] => i = j
  /\ \A i \in DOMAIN todo : ~IsPending(todo[i]) /\ (i # 1 => posts[todo[i]] = 0)

Apart(a, b) == \A i \in DOMAIN a : \A j \in DOMAIN b : a[i] # b[j]

\* No two submissions have the same file, and a file that is pending or comes
\* later was not uploaded.
UploadsInv ==
  /\ posts \in [Files -> Nat] /\ added \in 0..MaxFiles /\ Attached \subseteq 1..added
  /\ SubmitShape
  /\ \A x \in submits : TodoOK(x.todo)
  /\ \A x, y \in submits : x # y => Apart(x.todo, y.todo)
  /\ \A f \in Files : f > added \/ IsPending(f) => posts[f] = 0
  /\ UploadedOnce

\* The steps that upload nothing: no file becomes pending but a new one.
Idles ==
  /\ UNCHANGED posts /\ submits' \subseteq submits
  /\ added' \in 0..MaxFiles /\ added <= added' /\ Attached' \subseteq 1..added'
  /\ \A f \in 1..added : IsPending(f)' => IsPending(f)

LEMMA PendingFiles ==
  ASSUME UploadsInv, NEW todo \in Pending
  PROVE  /\ todo \in Seq(1..added)
         /\ \A i, j \in DOMAIN todo : todo[i] = todo[j] => i = j
         /\ \A i \in DOMAIN todo : IsPending(todo[i])
<1> DEFINE files == {f \in Attached : attachments[f] = "pending"}
<1>1. files \subseteq 1..added /\ added \in Nat
  <2>1. Attached \subseteq 1..added /\ added \in 0..MaxFiles
    BY DEF UploadsInv
  <2>2. files \subseteq Attached
    OBVIOUS
  <2> HIDE DEF files
  <2> QED BY <2>1, <2>2, ComposerAssumption
<1>2. Cardinality(files) \in Nat
  <2>1. IsFiniteSet(1..added)
    BY <1>1, FS_Interval
  <2> QED BY <1>1, <2>1, FS_Subset, FS_CardinalityType
<1>3. todo \in [1..Cardinality(files) -> files] /\ \A i, j \in DOMAIN todo : i < j => todo[i] < todo[j]
  BY DEF Pending
<1>4. \A f \in files : IsPending(f)
  BY DEF IsPending
<1> DEFINE n == Cardinality(files)
<1> HIDE DEF n, files
<1>5. DOMAIN todo = 1..n /\ \A i \in 1..n : todo[i] \in files /\ todo[i] \in 1..added
  BY <1>1, <1>3 DEF n
<1>6. todo \in Seq(1..added)
  <2>1. n \in Nat
    BY <1>2 DEF n
  <2>2. todo = [i \in 1..n |-> todo[i]]
    BY <1>3 DEF n
  <2>3. \A i \in 1..n : todo[i] \in 1..added
    BY <1>5
  <2>4. [i \in 1..n |-> todo[i]] \in Seq(1..added)
    BY <2>1, <2>3
  <2> QED BY <2>2, <2>4
<1>7. ASSUME NEW i \in 1..n, NEW j \in 1..n, todo[i] = todo[j], i # j PROVE FALSE
  <2>1. todo[i] \in Int /\ todo[j] \in Int /\ i \in Int /\ j \in Int
    BY <1>5
  <2>2. i < j \/ j < i
    BY <1>7, <2>1
  <2> QED BY <1>3, <1>5, <1>7, <2>1, <2>2
<1> QED BY <1>4, <1>5, <1>6, <1>7

LEMMA IdlesKeep == ASSUME UploadsInv, Idles PROVE UploadsInv'
<1>1. added \in Nat /\ added' \in Nat /\ 1..added \subseteq 1..added'
  BY ComposerAssumption DEF UploadsInv, Idles
<1>2. ASSUME NEW todo, TodoOK(todo) PROVE TodoOK(todo)'
  <2>1. todo \in Seq(1..added') /\ \A i \in DOMAIN todo : todo[i] \in 1..added
    BY <1>1, <1>2 DEF TodoOK
  <2>2. \A i \in DOMAIN todo : ~IsPending(todo[i])'
    BY <1>2, <2>1 DEF TodoOK, Idles
  <2> QED BY <1>2, <2>1, <2>2 DEF TodoOK, Idles
<1>3. \A x \in submits' : TodoOK(x.todo)'
  BY <1>2 DEF UploadsInv, Idles
<1>4. ASSUME NEW f \in Files, f > added' \/ IsPending(f)' PROVE posts'[f] = 0
  <2>1. f > added \/ IsPending(f)
    BY <1>1, <1>4 DEF Idles, Files
  <2> QED BY <2>1 DEF UploadsInv, Idles
<1>5. SubmitShape' /\ UploadedOnce' /\ \A x, y \in submits' : x # y => Apart(x.todo, y.todo)
  BY DEF UploadsInv, Idles, SubmitShape, UploadedOnce
<1> QED BY <1>3, <1>4, <1>5 DEF UploadsInv, Idles

LEMMA UploadMoves ==
  ASSUME UploadsInv, [ComposerNext]_composerVars
  PROVE  \/ \E todo \in Pending :
              /\ todo # <<>>
              /\ submits' = submits \cup {[n |-> submitted', text |-> input, todo |-> todo]}
              /\ attachments' = [f \in Attached |->
                   IF attachments[f] = "pending" THEN "uploading" ELSE attachments[f]]
              /\ posts' = [posts EXCEPT ![Head(todo)] = @ + 1]
              /\ UNCHANGED added
         \/ \E x \in submits :
              /\ Tail(x.todo) # <<>>
              /\ submits' = (submits \ {x}) \cup {[n |-> x.n, text |-> x.text, todo |-> Tail(x.todo)]}
              /\ posts' = [posts EXCEPT ![Head(Tail(x.todo))] = @ + 1]
              /\ Attached' = Attached /\ \A g \in Attached : IsPending(g)' => IsPending(g)
              /\ UNCHANGED added
         \/ Idles
<1>1. added \in Nat /\ added \in 0..MaxFiles /\ added <= added /\ Attached \subseteq 1..added
  BY ComposerAssumption DEF UploadsInv
<1>2. ASSUME UNCHANGED <<posts, submits, added, attachments>> PROVE Idles
  BY <1>1, <1>2 DEF Idles, IsPending, Attached
<1>3. ASSUME UNCHANGED <<posts, added>>, submits' \subseteq submits, attachments' = <<>> PROVE Idles
  BY <1>1, <1>3 DEF Idles, IsPending, Attached
<1>4. CASE addFiles
  <2>1. added' = added + 1 /\ Attached' = Attached \cup {added'}
        /\ \A f \in Attached : f # added' => attachments'[f] = attachments[f]
    BY <1>4 DEF addFiles, Attached
  <2>2. added' \in 0..MaxFiles /\ UNCHANGED <<posts, submits>>
    BY <1>1, <1>4, ComposerAssumption DEF addFiles, submitVars
  <2>3. \A f \in 1..added : IsPending(f)' => IsPending(f)
    BY <1>1, <2>1 DEF IsPending
  <2> QED BY <1>1, <2>1, <2>2, <2>3 DEF Idles
<1>5. ASSUME NEW f, removeFile(f) PROVE Idles
  <2>1. Attached' \subseteq Attached /\ \A g \in Attached' : attachments'[g] = attachments[g]
    BY <1>5 DEF removeFile, Attached, Restrict
  <2>2. UNCHANGED <<posts, submits, added>>
    BY <1>5 DEF removeFile, submitVars
  <2> QED BY <1>1, <2>1, <2>2 DEF Idles, IsPending
<1>6. CASE handleSubmit
  BY <1>2, <1>3, <1>6 DEF handleSubmit, Message, clear, Uploading
<1>7. CASE Type \/ TurnEnds \/ startRecording \/ stopRecording \/ cancelRecording \/ Voice
            \/ (\E r \in Recordings : Data(r)) \/ UNCHANGED composerVars
  BY <1>2, <1>7 DEF Type, TurnEnds, startRecording, stopRecording, cancelRecording, Voice, Granted,
                    Stopped, Transcribed, Data, composerVars, fileVars, submitVars
<1>8. ASSUME NEW x \in submits, Uploaded(x), ~Idles
      PROVE  /\ Tail(x.todo) # <<>>
             /\ submits' = (submits \ {x}) \cup {[n |-> x.n, text |-> x.text, todo |-> Tail(x.todo)]}
             /\ posts' = [posts EXCEPT ![Head(Tail(x.todo))] = @ + 1]
             /\ Attached' = Attached /\ \A g \in Attached : IsPending(g)' => IsPending(g)
             /\ UNCHANGED added
  <2>1. [x EXCEPT !.todo = Tail(@)] = [n |-> x.n, text |-> x.text, todo |-> Tail(x.todo)]
    BY WithTodo DEF UploadsInv, SubmitShape
  <2>2. UNCHANGED added
    BY <1>8 DEF Uploaded
  <2>3. CASE Tail(x.todo) = <<>>
    BY <1>3, <1>8, <2>1, <2>2, <2>3 DEF Uploaded, Uploading, clear
  <2>4. CASE Tail(x.todo) # <<>>
    <3>1. submits' = (submits \ {x}) \cup {[n |-> x.n, text |-> x.text, todo |-> Tail(x.todo)]}
          /\ posts' = [posts EXCEPT ![Head(Tail(x.todo))] = @ + 1]
      BY <1>8, <2>1, <2>4 DEF Uploaded, Uploading
    <3>2. \E state \in {"uploaded", "error"} :
            attachments' = [g \in Attached |-> IF g = Head(x.todo) THEN state ELSE attachments[g]]
      BY <1>8, <2>1, <2>4 DEF Uploaded
    <3>3. Attached' = Attached /\ \A g \in Attached : IsPending(g)' => IsPending(g)
      BY <3>2 DEF IsPending, Attached
    <3> QED BY <2>2, <2>4, <3>1, <3>3
  <2> QED BY <2>3, <2>4
<1> QED BY <1>4, <1>5, <1>6, <1>7, <1>8 DEF ComposerNext, Uploads

LEMMA Elements ==
  ASSUME NEW S, NEW s, s \in Seq(S)
  PROVE  /\ \A i \in DOMAIN s : s[i] \in S
         /\ s # <<>> => 1 \in DOMAIN s /\ Head(s) = s[1]
OBVIOUS

\* A submission, new or in the place of an old one, uploads the first file of its
\* list.
Takes(old, x) ==
  /\ UNCHANGED added /\ Attached' = Attached /\ \A g \in Attached : IsPending(g)' => IsPending(g)
  /\ old \subseteq submits /\ submits' = old \cup {x}
  /\ x = [n |-> x.n, text |-> x.text, todo |-> x.todo]
  /\ x.todo \in Seq(1..added) /\ x.todo # <<>>
  /\ \A i, j \in DOMAIN x.todo : x.todo[i] = x.todo[j] => i = j
  /\ \A i \in DOMAIN x.todo : ~IsPending(x.todo[i])' /\ posts[x.todo[i]] = 0
  /\ \A y \in old : Apart(x.todo, y.todo)
  /\ posts' = [posts EXCEPT ![Head(x.todo)] = @ + 1]

LEMMA UploadCounts == ASSUME UploadsInv, NEW old, NEW x, Takes(old, x) PROVE UploadsInv'
<1> DEFINE todo == x.todo
<1> DEFINE h == todo[1]
<1>0. /\ UNCHANGED added /\ Attached' = Attached /\ \A g \in Attached : IsPending(g)' => IsPending(g)
      /\ old \subseteq submits /\ submits' = old \cup {x}
      /\ x = [n |-> x.n, text |-> x.text, todo |-> x.todo]
      /\ todo \in Seq(1..added) /\ todo # <<>>
      /\ \A i, j \in DOMAIN todo : todo[i] = todo[j] => i = j
      /\ \A i \in DOMAIN todo : ~IsPending(todo[i])' /\ posts[todo[i]] = 0
      /\ \A y \in old : Apart(todo, y.todo)
      /\ posts' = [posts EXCEPT ![Head(todo)] = @ + 1]
  BY DEF Takes
<1> HIDE DEF todo
<1>1. h \in 1..added /\ 1 \in DOMAIN todo /\ Head(todo) = h
  BY <1>0, Elements
<1>2. added \in 0..MaxFiles /\ h \in Files /\ posts \in [Files -> Nat]
  BY <1>1, ComposerAssumption DEF UploadsInv, Files
<1>3. posts[h] = 0
  BY <1>0, <1>1
<1> HIDE DEF h
<1>4. posts' \in [Files -> Nat] /\ posts'[h] = 1 /\ \A f \in Files : f # h => posts'[f] = posts[f]
  BY <1>0, <1>1, <1>2, <1>3
<1>5. \A f \in 1..added : f \in Files
  BY <1>2, ComposerAssumption DEF Files
<1>6. TodoOK(todo)'
  <2>1. \A i \in DOMAIN todo : i # 1 => todo[i] # h
    BY <1>0, <1>1 DEF h
  <2>2. \A i \in DOMAIN todo : i # 1 => posts'[todo[i]] = 0
    <3>1. \A i \in DOMAIN todo : todo[i] \in 1..added
      BY <1>0, Elements
    <3> QED BY <1>0, <1>4, <1>5, <2>1, <3>1
  <2> QED BY <1>0, <2>2 DEF TodoOK
<1>7. ASSUME NEW y \in old PROVE TodoOK(y.todo)'
  <2>1. TodoOK(y.todo)
    BY <1>0 DEF UploadsInv
  <2>2. \A i \in DOMAIN y.todo : y.todo[i] # h
    BY <1>0, <1>1 DEF Apart, h
  <2>3. \A i \in DOMAIN y.todo : y.todo[i] \in 1..added
    BY <2>1, Elements DEF TodoOK
  <2>4. \A i \in DOMAIN y.todo : i # 1 => posts'[y.todo[i]] = 0
    BY <1>4, <1>5, <2>1, <2>2, <2>3 DEF TodoOK
  <2>5. \A i \in DOMAIN y.todo : ~IsPending(y.todo[i])'
    <3>1. \A g : IsPending(g)' => IsPending(g)
      BY <1>0 DEF IsPending
    <3> QED BY <2>1, <3>1 DEF TodoOK
  <2> QED BY <1>0, <2>1, <2>4, <2>5 DEF TodoOK
<1>9. \A y \in submits' : TodoOK(y.todo)'
  BY <1>0, <1>6, <1>7 DEF todo
<1>10. \A y, z \in submits' : y # z => Apart(y.todo, z.todo)
  BY <1>0 DEF UploadsInv, Apart, todo
<1>11. SubmitShape'
  BY <1>0 DEF UploadsInv, SubmitShape
<1>12. ASSUME NEW f \in Files, f > added' \/ IsPending(f)' PROVE posts'[f] = 0
  <2>1. f # h
    <3>1. f > added => f # h
      BY <1>0, <1>1, <1>2, ComposerAssumption DEF Files
    <3>2. ~IsPending(h)'
      BY <1>0, <1>1 DEF h
    <3> QED BY <1>0, <1>12, <3>1, <3>2
  <2>2. f > added \/ IsPending(f)
    BY <1>0, <1>12 DEF IsPending
  <2> QED BY <1>4, <2>1, <2>2 DEF UploadsInv
<1>13. UploadedOnce'
  BY <1>4 DEF UploadedOnce, UploadsInv
<1> QED BY <1>0, <1>2, <1>4, <1>9, <1>10, <1>11, <1>12, <1>13 DEF UploadsInv

LEMMA UploadsKept == ASSUME UploadsInv, [ComposerNext]_composerVars PROVE UploadsInv'
<1>1. ASSUME NEW todo \in Pending, todo # <<>>,
             submits' = submits \cup {[n |-> submitted', text |-> input, todo |-> todo]},
             attachments' = [f \in Attached |->
               IF attachments[f] = "pending" THEN "uploading" ELSE attachments[f]],
             posts' = [posts EXCEPT ![Head(todo)] = @ + 1],
             UNCHANGED added
      PROVE  UploadsInv'
  <2>1. Attached' = Attached /\ \A g : ~IsPending(g)'
    BY <1>1 DEF Attached, IsPending
  <2>2. /\ todo \in Seq(1..added)
        /\ \A i, j \in DOMAIN todo : todo[i] = todo[j] => i = j
        /\ \A i \in DOMAIN todo : IsPending(todo[i])
    BY PendingFiles
  <2>3. \A i \in DOMAIN todo : posts[todo[i]] = 0
    <3>1. \A i \in DOMAIN todo : todo[i] \in Files
      <4>1. \A i \in DOMAIN todo : todo[i] \in 1..added
        BY <2>2, Elements
      <4> QED BY <4>1, ComposerAssumption DEF UploadsInv, Files
    <3> QED BY <2>2, <3>1 DEF UploadsInv
  <2>4. \A y \in submits : Apart(todo, y.todo)
    BY <2>2 DEF UploadsInv, TodoOK, Apart
  <2>5. \A i \in DOMAIN todo : ~IsPending(todo[i])' /\ posts[todo[i]] = 0
    BY <2>1, <2>3
  <2>6. submits \subseteq submits /\ \A g \in Attached : IsPending(g)' => IsPending(g)
    BY <2>1
  <2>0. PICK x : x = [n |-> submitted', text |-> input, todo |-> todo]
    OBVIOUS
  <2>7. x.todo = todo /\ x = [n |-> x.n, text |-> x.text, todo |-> x.todo] /\ submits' = submits \cup {x}
    BY <1>1, <2>0
  <2>8. Takes(submits, x)
    BY <1>1, <2>1, <2>2, <2>4, <2>5, <2>6, <2>7 DEF Takes
  <2> QED BY <2>8, UploadCounts
<1>2. ASSUME NEW x \in submits, Tail(x.todo) # <<>>,
             submits' = (submits \ {x}) \cup {[n |-> x.n, text |-> x.text, todo |-> Tail(x.todo)]},
             posts' = [posts EXCEPT ![Head(Tail(x.todo))] = @ + 1],
             Attached' = Attached, \A g \in Attached : IsPending(g)' => IsPending(g),
             UNCHANGED added
      PROVE  UploadsInv'
  <2> DEFINE todo == x.todo
  <2> DEFINE rest == Tail(todo)
  <2>1. TodoOK(todo) /\ \A y \in submits \ {x} : Apart(todo, y.todo)
    BY DEF UploadsInv
  <2>2. todo \in Seq(1..added) /\ todo # <<>>
    BY <2>1 DEF TodoOK
  <2> HIDE DEF todo
  <2>3. /\ rest \in Seq(1..added) /\ rest # <<>>
        /\ \A i \in DOMAIN rest : i + 1 \in DOMAIN todo /\ i + 1 # 1 /\ i \in Int /\ rest[i] = todo[i + 1]
    <3>1. rest # <<>>
      BY <1>2 DEF todo
    <3> QED BY <2>2, <3>1
  <2> HIDE DEF rest
  <2>4. \A i, j \in DOMAIN rest : rest[i] = rest[j] => i = j
    <3>1. \A i, j \in DOMAIN rest : rest[i] = rest[j] => i + 1 = j + 1
      BY <2>1, <2>3 DEF TodoOK
    <3> QED BY <2>3, <3>1
  <2>5. \A i \in DOMAIN rest : ~IsPending(rest[i]) /\ posts[rest[i]] = 0
    BY <2>1, <2>3 DEF TodoOK
  <2>6. \A i \in DOMAIN rest : ~IsPending(rest[i])'
    BY <1>2, <2>5 DEF IsPending
  <2>7. \A y \in submits \ {x} : Apart(rest, y.todo)
    BY <2>1, <2>3 DEF Apart
  <2>8. submits' = (submits \ {x}) \cup {[n |-> x.n, text |-> x.text, todo |-> rest]}
        /\ posts' = [posts EXCEPT ![Head(rest)] = @ + 1] /\ submits \ {x} \subseteq submits
    BY <1>2 DEF rest, todo
  <2>9. \A i \in DOMAIN rest : ~IsPending(rest[i])' /\ posts[rest[i]] = 0
    BY <2>5, <2>6
  <2>10. rest \in Seq(1..added) /\ rest # <<>>
    BY <2>3
  <2> DEFINE y == [n |-> x.n, text |-> x.text, todo |-> rest]
  <2>11. y.todo = rest /\ y = [n |-> y.n, text |-> y.text, todo |-> y.todo]
         /\ submits' = (submits \ {x}) \cup {y}
    BY <2>8
  <2> HIDE DEF y
  <2>12. Takes(submits \ {x}, y)
    BY <1>2, <2>4, <2>7, <2>8, <2>9, <2>10, <2>11 DEF Takes
  <2> QED BY <2>12, UploadCounts
<1> QED BY <1>1, <1>2, IdlesKeep, UploadMoves

(***************************************************************************)
(* No file is uploaded twice, however often the user submits and files are *)
(* added and removed while uploads are under way: a submission takes those *)
(* that are pending, and marks them before it awaits anything (uploadAll   *)
(* of web/src/hooks/useFileAttachments.ts).                                *)
(***************************************************************************)
THEOREM AlwaysUploadedOnce == ComposerSpec => []UploadedOnce
<1>1. ComposerInit => UploadsInv
  BY ComposerAssumption DEF ComposerInit, UploadsInv, SubmitShape, Attached, IsPending, UploadedOnce, Files
<1>2. UploadsInv /\ [ComposerNext]_composerVars => UploadsInv'
  BY UploadsKept
<1>3. UploadsInv => UploadedOnce
  BY DEF UploadsInv
<1> QED BY <1>1, <1>2, <1>3, PTL DEF ComposerSpec

----------------------------------------------------------------------------
(* The artifact views: object URLs.                                        *)

\* Only the viewer has a lightbox, and it is over what the viewer shows.
UrlInv ==
  /\ ShownAlive
  /\ view # "viewer" => lightbox = 0

LEMMA NoUrl ==
  ASSUME NEW a
  PROVE  /\ Loading(a).url = 0 /\ Error(a).url = 0
         /\ \A body : Loaded(a, body, 0).url = 0
BY DEF Idle, Loaded, Loading, Error

LEMMA FetchingShowsNone ==
  ASSUME NEW a, ViewerFetch(a) \/ DialogFetch(a)
  PROVE  content'.url = 0
<1>1. CASE ViewerFetch(a)
  BY <1>1, NoUrl DEF ViewerFetch
<1>2. CASE DialogFetch(a)
  BY <1>2, NoUrl DEF DialogFetch
<1> QED BY <1>1, <1>2

LEMMA AnswerShowsOwn ==
  ASSUME NEW f, UrlInv, FetchAnswer(f)
  PROVE  UrlInv'
<1>1. lightbox' = lightbox /\ view' = view
  BY DEF FetchAnswer
<1>2. CASE content' = Loaded(f.of, "blob", made') /\ objectUrls' = objectUrls \cup {made'}
  BY <1>1, <1>2 DEF UrlInv, ShownAlive, Loaded
<1>3. CASE content'.url = 0 /\ objectUrls' = objectUrls
  BY <1>1, <1>3 DEF UrlInv, ShownAlive
<1>4. CASE content' = content /\ objectUrls' = objectUrls
  BY <1>1, <1>4 DEF UrlInv, ShownAlive
<1>5. \A body : Loaded(f.of, body, 0).url = 0
  BY DEF Loaded
<1>6. Failed(f).url = 0
  BY DEF Failed, Error, Idle
<1> QED BY <1>2, <1>3, <1>4, <1>5, <1>6 DEF FetchAnswer

(***************************************************************************)
(* Whatever is selected, closed, answered or fails, in whatever order, no  *)
(* view shows an object URL that was revoked.                              *)
(***************************************************************************)
THEOREM ShownAlwaysAlive == ViewsSpec => []ShownAlive
<1>1. ViewsInit => UrlInv
  BY DEF ViewsInit, UrlInv, ShownAlive, Idle, Loaded
<1>2. UrlInv /\ [ViewsNext]_viewVars => UrlInv'
  <2> SUFFICES ASSUME UrlInv, [ViewsNext]_viewVars PROVE UrlInv'
    OBVIOUS
  <2>1. ASSUME NEW a, handleSelect(a) PROVE UrlInv'
    <3>1. content'.url = 0 /\ lightbox' = 0 /\ view' = view
      BY <2>1, FetchingShowsNone DEF handleSelect
    <3> QED BY <3>1 DEF UrlInv, ShownAlive
  <2>2. ASSUME NEW a, Opened(a) PROVE UrlInv'
    <3>1. content'.url = 0
      BY <2>2, FetchingShowsNone DEF Opened, Idle
    <3>2. lightbox' = 0 /\ view' = view
      BY <2>2 DEF Opened, UrlInv
    <3> QED BY <3>1, <3>2 DEF UrlInv, ShownAlive
  <2>3. CASE Lightbox
    BY <2>3 DEF Lightbox, UrlInv, ShownAlive
  <2>4. ASSUME NEW f, FetchAnswer(f) PROVE UrlInv'
    BY <2>4, AnswerShowsOwn
  <2>5. CASE UNCHANGED <<view, content, objectUrls, lightbox>>
    BY <2>5 DEF UrlInv, ShownAlive
  <2>6. ASSUME NEW a, Progress(a) PROVE UNCHANGED <<view, content, objectUrls, lightbox>>
    BY <2>6 DEF Progress
  <2>7. UNCHANGED viewVars => UNCHANGED <<view, content, objectUrls, lightbox>>
    BY DEF viewVars
  <2> QED BY <2>1, <2>2, <2>3, <2>4, <2>5, <2>6, <2>7 DEF ViewsNext
<1>3. UrlInv => ShownAlive
  BY DEF UrlInv
<1> QED BY <1>1, <1>2, <1>3, PTL DEF ViewsSpec

----------------------------------------------------------------------------
(* What is rendered.                                                       *)

\* The first of a list is no later than any whose condition holds.
LEMMA FirstHolds ==
  ASSUME NEW list, NEW n \in Nat, DOMAIN list = 1..n, NEW k \in 1..n, list[k][2]
  PROVE  \E i \in 1..k : First(list) = list[i][1]
<1> DEFINE holds == {i \in 1..n : list[i][2]}
<1>1. holds \subseteq Nat /\ k \in holds
  OBVIOUS
<1>2. \A i \in DOMAIN list : list[i][2] <=> i \in holds
  OBVIOUS
<1> HIDE DEF holds
<1>3. PICK m \in holds : \A j \in holds : ~(<<j, m>> \in Less)
  BY <1>1, WFMin, NatLessThanWellFounded, Zenon DEF Less
<1>4. \A j \in holds : ~(j < m)
  BY <1>1, <1>3, LessContains, Zenon
<1>5. m \in DOMAIN list /\ list[m][2] /\ \A j \in 1..(m - 1) : ~list[j][2]
  BY <1>1, <1>2, <1>4 DEF holds
<1> DEFINE c == CHOOSE i \in DOMAIN list : list[i][2] /\ \A j \in 1..(i - 1) : ~list[j][2]
<1>6. c \in DOMAIN list /\ list[c][2] /\ \A j \in 1..(c - 1) : ~list[j][2]
  BY <1>5, Zenon
<1> HIDE DEF c
<1>7. c \in 1..k
  BY <1>6
<1> QED BY <1>7 DEF First, c

LEMMA DialogShown ==
  ASSUME NEW a, NEW c,
         \/ c.body \in {"blob", "iframe"}
         \/ Kind(a).type \in {"file", "code", "csv", "report", "data"}
  PROVE  DialogShows(a, c) # "nothing"
<1> DEFINE k == Kind(a)
<1> DEFINE list == << <<"image",    c.body = "blob">>,
              <<"frame",    c.body = "iframe">>,
              <<"rich",     k.ext = "table">>,
              <<"code",     k.type = "code">>,
              <<"csv",      k.type = "csv">>,
              <<"markdown", k.type = "report" /\ k.ext = "md">>,
              <<"text",     k.type \in {"report", "file", "data"}>>,
              <<"nothing",  TRUE>> >>
<1>1. DOMAIN list = 1..8
  OBVIOUS
<1>2. \A i \in 1..7 : list[i][1] # "nothing"
  OBVIOUS
<1>3. list[1][2] \/ list[2][2] \/ list[4][2] \/ list[5][2] \/ list[7][2]
  OBVIOUS
<1>4. DialogShows(a, c) = First(list)
  BY DEF DialogShows
<1> HIDE DEF list
<1>5. PICK j \in 1..7 : list[j][2]
  BY <1>3
<1>6. \E i \in 1..j : First(list) = list[i][1]
  <2>1. j \in 1..8 /\ 8 \in Nat
    BY <1>5
  <2> QED BY <1>1, <1>5, <2>1, FirstHolds, Zenon
<1> QED BY <1>2, <1>4, <1>6

LEMMA ViewerShown ==
  ASSUME NEW a, NEW c,
         \/ c.body = "blob" /\ (IsImage(a) \/ Kind(a).ext = "pdf")
         \/ c.body \in {"text", "empty"}
  PROVE  ViewerShows(a, c) # "download"
<1> DEFINE k == Kind(a)
<1> DEFINE list == << <<"webapp",   k.type = "webapp">>,
              <<"html",     k.ext = "html" /\ c.body = "text">>,
              <<"pdf",      k.ext = "pdf" /\ c.body = "blob">>,
              <<"image",    IsImage(a) /\ c.body = "blob">>,
              <<"rich",     k.ext = "table" /\ c.body = "text">>,
              <<"csv",      k.type = "csv" /\ c.body = "text">>,
              <<"code",     k.type = "code" /\ c.body \in {"text", "empty"}>>,
              <<"markdown", k.type = "report" /\ k.ext = "md" /\ c.body \in {"text", "empty"}>>,
              <<"text",     c.body \in {"text", "empty"}>>,
              <<"download", TRUE>> >>
<1>1. DOMAIN list = 1..10
  OBVIOUS
<1>2. \A i \in 1..9 : list[i][1] # "download"
  OBVIOUS
<1>3. list[3][2] \/ list[4][2] \/ list[9][2]
  OBVIOUS
<1>4. ViewerShows(a, c) = First(list)
  BY DEF ViewerShows
<1> HIDE DEF list
<1>5. PICK j \in 1..9 : list[j][2]
  BY <1>3
<1>6. \E i \in 1..j : First(list) = list[i][1]
  <2>1. j \in 1..10 /\ 10 \in Nat
    BY <1>5
  <2> QED BY <1>1, <1>5, <2>1, FirstHolds, Zenon
<1> QED BY <1>2, <1>4, <1>6

LEMMA InlineShown ==
  ASSUME NEW a, NEW c, HasTextPreview(a), c.body = "text" \/ c.status = "error"
  PROVE  InlineShows(a, c) # "loading"
<1> DEFINE list ==
         << <<"gone",      info[a].status = "lost">>,
           <<"image",     IsImageArtifact(a) /\ c.status = "loaded">>,
           <<"webapp",    Kind(a).type = "webapp" /\ info[a].status = "extracted">>,
           <<"text",      HasTextPreview(a) /\ c.body = "text">>,
           <<"error",     HasTextPreview(a) /\ c.status = "error">>,
           <<"loading",   IsImageArtifact(a) \/ HasTextPreview(a) \/ Kind(a).type = "webapp">>,
           <<"card",      TRUE>> >>
<1>1. DOMAIN list = 1..7
  OBVIOUS
<1>2. \A i \in 1..5 : list[i][1] # "loading"
  OBVIOUS
<1>3. list[4][2] \/ list[5][2]
  OBVIOUS
<1>4. InlineShows(a, c) = First(list)
  BY DEF InlineShows
<1> HIDE DEF list
<1>5. PICK j \in 1..5 : list[j][2]
  BY <1>3
<1>6. \E i \in 1..j : First(list) = list[i][1]
  <2>1. j \in 1..7 /\ 7 \in Nat
    BY <1>5
  <2> QED BY <1>1, <1>5, <2>1, FirstHolds, Zenon
<1> QED BY <1>2, <1>4, <1>6

----------------------------------------------------------------------------
(* The kinds of artifacts never change.                                    *)

Statuses == {"live", "extracted", "lost", "extraction_failed"}

Requests == [n : Nat, of : Artifacts, body : {"text", "blob", "iframe"}, extracted : BOOLEAN]

InfoInv ==
  /\ info \in [Artifacts -> [kind : Kinds, id : BOOLEAN, status : Statuses]]
  /\ selects \in Nat

LEMMA InfoTyped ==
  /\ ViewsInit => InfoInv
  /\ InfoInv /\ [ViewsNext]_viewVars => InfoInv' /\ \A a \in Artifacts : Kind(a)' = Kind(a)
<1>1. ViewsInit => InfoInv
  BY DEF ViewsInit, InfoInv, Statuses
<1>2. ASSUME InfoInv, NEW a \in Artifacts, Progress(a)
      PROVE  InfoInv' /\ \A b \in Artifacts : info'[b].kind = info[b].kind
  <2> selects' \in Nat
    BY <1>2 DEF Progress, InfoInv
  <2>1. CASE info' = [info EXCEPT ![a].id = TRUE]
    BY <1>2, <2>1 DEF InfoInv, Statuses
  <2>2. ASSUME NEW status \in {"extracted", "lost", "extraction_failed"},
               info' = [info EXCEPT ![a].id = TRUE, ![a].status = status]
        PROVE  InfoInv' /\ \A b \in Artifacts : info'[b].kind = info[b].kind
    BY <1>2, <2>2 DEF InfoInv, Statuses
  <2>3. CASE UNCHANGED info
    BY <1>2, <2>3 DEF InfoInv
  <2> QED BY <1>2, <2>1, <2>2, <2>3 DEF Progress
<1>3. ASSUME [ViewsNext]_viewVars, ~\E a \in Artifacts : Progress(a)
      PROVE  UNCHANGED info /\ (UNCHANGED selects \/ selects' = selects + 1)
  <2>1. \A a : handleSelect(a) \/ Opened(a) => UNCHANGED info /\ selects' = selects + 1
    BY DEF handleSelect, Opened
  <2>2. \A f : FetchAnswer(f) => UNCHANGED <<info, selects>>
    BY DEF FetchAnswer
  <2>3. Lightbox \/ UNCHANGED viewVars => UNCHANGED <<info, selects>>
    BY DEF Lightbox, viewVars
  <2> QED BY <1>3, <2>1, <2>2, <2>3 DEF ViewsNext
<1>4. ASSUME InfoInv, [ViewsNext]_viewVars
      PROVE  InfoInv' /\ \A b \in Artifacts : info'[b].kind = info[b].kind
  BY <1>2, <1>3, <1>4 DEF InfoInv
<1>5. ASSUME InfoInv, [ViewsNext]_viewVars PROVE \A b \in Artifacts : Kind(b)' = Kind(b)
  BY <1>4, <1>5 DEF Kind
<1> QED BY <1>1, <1>4, <1>5

----------------------------------------------------------------------------
(* What is loaded has a form in which the view shows it.                   *)

Fits(a, body) ==
  /\ view = "viewer" =>
       \/ body \in {"none", "text", "empty"}
       \/ body = "blob" /\ (IsImage(a) \/ Kind(a).ext = "pdf" \/ Kind(a).data)
  /\ view = "dialog" => body \in {"blob", "iframe"} \/ ~IsImage(a)

AskedFor(f) ==
  /\ f \in Requests
  /\ view = "viewer" => f.body = ViewerBody(f.of)
  /\ view = "dialog" => f.body \in {"blob", "iframe"} \/ ~IsImage(f.of)

ContentOk == content.status = "loaded" => content.of \in Artifacts /\ Fits(content.of, content.body)

ContentInv == InfoInv /\ ContentOk /\ \A f \in fetches : AskedFor(f)

\* Nothing that is not loaded has to fit.
LEMMA NotLoaded ==
  ASSUME NEW a
  PROVE  /\ Loading(a).status = "loading" /\ Error(a).status = "error" /\ Idle.status = "idle"
         /\ \A body, url : /\ Loaded(a, body, url).status = "loaded"
                           /\ Loaded(a, body, url).of = a
                           /\ Loaded(a, body, url).body = body
BY DEF Loading, Error, Idle, Loaded

\* What the fits of a step are, in the state before it: kinds do not change.
LEMMA SameFits ==
  ASSUME view' = view, \A b \in Artifacts : Kind(b)' = Kind(b), NEW a \in Artifacts
  PROVE  /\ IsImage(a)' <=> IsImage(a)
         /\ \A body : Fits(a, body) => Fits(a, body)'
         /\ \A f : AskedFor(f) => AskedFor(f)'
<1>1. \A b \in Artifacts : (IsImage(b)' <=> IsImage(b)) /\ ViewerBody(b)' = ViewerBody(b)
  BY DEF IsImage, ViewerBody
<1>2. \A body : Fits(a, body) => Fits(a, body)'
  BY <1>1 DEF Fits
<1>3. \A f : AskedFor(f) => AskedFor(f)'
  BY <1>1 DEF AskedFor, Requests
<1> QED BY <1>1, <1>2, <1>3

LEMMA ViewerFits ==
  ASSUME NEW a \in Artifacts, view = "viewer", ViewerFetch(a)
  PROVE  \/ content'.status # "loaded"
         \/ content'.of = a /\ Fits(a, content'.body)
<1>1. CASE content' = Error(a) \/ content' = Loading(a)
  BY <1>1, NotLoaded
<1>2. CASE content' = Loaded(a, "none", 0)
  BY <1>2, NotLoaded DEF Fits
<1>3. CASE content' = Loaded(a, "blob", 0) /\ Kind(a).data
  <2>1. Fits(a, "blob")
    BY <1>3 DEF Fits
  <2>2. content'.of = a /\ content'.body = "blob"
    BY <1>3 DEF Loaded
  <2> QED BY <2>1, <2>2
<1> QED BY <1>1, <1>2, <1>3 DEF ViewerFetch

LEMMA DialogFits ==
  ASSUME NEW a \in Artifacts, view = "dialog", DialogFetch(a)
  PROVE  \/ content'.status # "loaded"
         \/ content'.of = a /\ Fits(a, content'.body)
<1>1. CASE content' = Error(a) \/ content' = Loading(a)
  BY <1>1, NotLoaded
<1>2. CASE content' = Loaded(a, "blob", 0)
  BY <1>2, NotLoaded DEF Fits
<1> QED BY <1>1, <1>2 DEF DialogFetch

\* A new request asks for its artifact in the form the view expects of it.
LEMMA FetchAsks ==
  ASSUME InfoInv, InfoInv', NEW a \in Artifacts,
         \/ view = "viewer" /\ ViewerFetch(a)
         \/ view = "dialog" /\ DialogFetch(a)
         \/ view = "inline" /\ InlineFetch(a),
         NEW f \in fetches', f \notin fetches
  PROVE  AskedFor(f)
<1>1. \A body \in {"text", "blob", "iframe"} :
        /\ Request(a, body).of = a
        /\ Request(a, body).body = body
        /\ Request(a, body) \in Requests
  BY DEF Request, Requests, InfoInv
<1>2. CASE view = "viewer" /\ ViewerFetch(a)
  <2>1. f = Request(a, ViewerBody(a))
    BY <1>2 DEF ViewerFetch
  <2> QED BY <1>1, <1>2, <2>1 DEF AskedFor, ViewerBody
<1>3. CASE view = "dialog" /\ DialogFetch(a)
  <2>1. PICK body \in {"text", "blob", "iframe"} :
           f = Request(a, body) /\ (body \in {"blob", "iframe"} \/ ~IsImage(a))
    BY <1>3 DEF DialogFetch, DialogBody
  <2> QED BY <1>1, <1>3, <2>1 DEF AskedFor
<1>4. CASE view = "inline" /\ InlineFetch(a)
  <2>1. PICK body \in {"text", "blob", "iframe"} : f = Request(a, body)
    BY <1>4 DEF InlineFetch
  <2> QED BY <1>1, <1>4, <2>1 DEF AskedFor
<1> QED BY <1>2, <1>3, <1>4

LEMMA AnswerFits ==
  ASSUME NEW f \in fetches, AskedFor(f), FetchAnswer(f)
  PROVE  /\ \/ content'.status # "loaded" \/ content' = content
            \/ content'.of = f.of /\ Fits(f.of, content'.body)
         /\ \A g \in fetches' : g \in fetches \/ AskedFor(g)
<1>1. Failed(f).status # "loaded"
  BY NotLoaded DEF Failed
<1>2. view = "dialog" => f.body \in {"blob", "iframe"} \/ ~IsImage(f.of)
  BY DEF AskedFor
<1>3. view = "viewer" =>
        (f.body = "blob" /\ (IsImage(f.of) \/ Kind(f.of).ext = "pdf")) \/ f.body = "text"
  BY DEF AskedFor, ViewerBody
<1>4. CASE f.body = "blob" /\ content' = Loaded(f.of, "blob", made') /\ fetches' = fetches \ {f}
  <2>1. Fits(f.of, "blob")
    BY <1>3, <1>4 DEF Fits
  <2>2. content'.of = f.of /\ content'.body = "blob"
    BY <1>4 DEF Loaded
  <2> QED BY <1>4, <2>1, <2>2
<1>5. ASSUME NEW body \in {"text", "iframe", "empty"}, f.body \in {"text", "iframe"},
             body = "iframe" <=> f.body = "iframe",
             content' = Loaded(f.of, body, 0), fetches' = fetches \ {f}
      PROVE  /\ \/ content'.status # "loaded" \/ content' = content
                \/ content'.of = f.of /\ Fits(f.of, content'.body)
             /\ \A g \in fetches' : g \in fetches \/ AskedFor(g)
  <2>1. Fits(f.of, body)
    BY <1>2, <1>3, <1>5 DEF Fits
  <2>2. content'.of = f.of /\ content'.body = body
    BY <1>5 DEF Loaded
  <2> QED BY <1>5, <2>1, <2>2
<1>6. CASE /\ f.body = "iframe" /\ UNCHANGED content
           /\ fetches' = (fetches \ {f}) \cup {[f EXCEPT !.body = DialogBody(f.of)]}
  <2> DEFINE g == [f EXCEPT !.body = DialogBody(f.of)]
  <2>1. view # "viewer"
    BY <1>3, <1>6
  <2>2. /\ g.of = f.of /\ g.body = DialogBody(f.of) /\ g \in Requests
        /\ g.body = "blob" \/ ~IsImage(f.of)
    BY DEF AskedFor, Requests, DialogBody
  <2>3. AskedFor(g)
    BY <2>1, <2>2 DEF AskedFor
  <2> QED BY <1>6, <2>3
<1>7. CASE fetches' = fetches \ {f} /\ (content' = content \/ content' = Failed(f))
  BY <1>1, <1>7
<1> QED BY <1>4, <1>5, <1>6, <1>7 DEF FetchAnswer

LEMMA ViewKept == [ViewsNext]_viewVars => view' = view
<1>1. \A a : Progress(a) \/ handleSelect(a) \/ Opened(a) => view' = view
  BY DEF Progress, handleSelect, Opened
<1>2. \A f : FetchAnswer(f) => view' = view
  BY DEF FetchAnswer
<1>3. Lightbox \/ UNCHANGED viewVars => view' = view
  BY DEF Lightbox, viewVars
<1> QED BY <1>1, <1>2, <1>3 DEF ViewsNext

LEMMA ContentKept == ContentInv /\ [ViewsNext]_viewVars => ContentInv'
<1> SUFFICES ASSUME ContentInv, [ViewsNext]_viewVars PROVE ContentInv'
  OBVIOUS
<1>1. InfoInv' /\ \A a \in Artifacts : Kind(a)' = Kind(a)
  BY InfoTyped DEF ContentInv
<1>2. view' = view
  BY ViewKept
<1>3. ASSUME \/ content'.status # "loaded" \/ content' = content
             \/ content'.of \in Artifacts /\ Fits(content'.of, content'.body),
             \A f \in fetches' : f \in fetches \/ AskedFor(f)
      PROVE  ContentInv'
  <2>1. ASSUME content'.status = "loaded"
        PROVE  content'.of \in Artifacts /\ Fits(content'.of, content'.body)
    BY <1>3, <2>1 DEF ContentInv, ContentOk
  <2>2. PICK whose, body : whose = content'.of /\ body = content'.body
    OBVIOUS
  <2>3. ContentOk'
    <3>1. CASE content'.status = "loaded"
      <4>1. whose \in Artifacts /\ Fits(whose, body)
        BY <2>1, <2>2, <3>1
      <4>2. Fits(whose, body)'
        BY <1>1, <1>2, <4>1, SameFits
      <4>3. Fits(content.of, content.body)'
        BY <2>2, <4>2 DEF Fits
      <4> QED BY <2>1, <3>1, <4>3 DEF ContentOk
    <3> QED BY <3>1 DEF ContentOk
  <2>4. \A f \in fetches' : AskedFor(f)
    BY <1>3 DEF ContentInv
  <2>5. ASSUME NEW f \in fetches' PROVE AskedFor(f)'
    <3>1. f.of \in Artifacts
      BY <2>4, <2>5 DEF AskedFor, Requests
    <3> QED BY <1>1, <1>2, <2>4, <2>5, <3>1, SameFits
  <2> QED BY <1>1, <2>3, <2>5 DEF ContentInv
<1>4. ASSUME NEW a \in Artifacts, Progress(a) PROVE ContentInv'
  <2>1. \A f \in fetches' : f \in fetches \/ AskedFor(f)
    <3>1. CASE view = "inline" /\ InlineFetch(a)
      BY <1>1, <3>1, FetchAsks DEF ContentInv
    <3> QED BY <1>4, <3>1 DEF Progress
  <2> QED BY <1>3, <1>4, <2>1 DEF Progress
<1>5. ASSUME NEW a \in Artifacts, handleSelect(a) PROVE ContentInv'
  <2>1. view = "viewer" /\ ViewerFetch(a)
    BY <1>5 DEF handleSelect
  <2>2. \A f \in fetches' : f \in fetches \/ AskedFor(f)
    BY <1>1, <2>1, FetchAsks DEF ContentInv
  <2>3. \/ content'.status # "loaded"
        \/ content'.of = a /\ Fits(a, content'.body)
    BY <2>1, ViewerFits DEF ContentInv
  <2> QED BY <1>3, <2>2, <2>3
<1>6. ASSUME NEW a \in Artifacts \cup {NoArtifact}, Opened(a) PROVE ContentInv'
  <2>1. CASE a \in Artifacts /\ view = "dialog" /\ DialogFetch(a)
    <3>1. \A f \in fetches' : f \in fetches \/ AskedFor(f)
      BY <1>1, <2>1, FetchAsks DEF ContentInv
    <3>2. \/ content'.status # "loaded"
          \/ content'.of = a /\ Fits(a, content'.body)
      BY <2>1, DialogFits
    <3> QED BY <1>3, <2>1, <3>1, <3>2
  <2>2. CASE content' = Idle /\ UNCHANGED fetches
    BY <1>3, <2>2, NotLoaded
  <2> QED BY <1>6, <2>1, <2>2 DEF Opened
<1>7. ASSUME NEW f \in fetches, FetchAnswer(f) PROVE ContentInv'
  <2>1. AskedFor(f)
    BY <1>7 DEF ContentInv
  <2>2. f.of \in Artifacts
    BY <2>1 DEF AskedFor, Requests
  <2> QED BY <1>3, <1>7, <2>1, <2>2, AnswerFits
<1>8. CASE UNCHANGED <<content, fetches>>
  BY <1>3, <1>8
<1>9. Lightbox \/ UNCHANGED viewVars => UNCHANGED <<content, fetches>>
  BY DEF Lightbox, viewVars
<1> QED BY <1>4, <1>5, <1>6, <1>7, <1>8, <1>9 DEF ViewsNext

(***************************************************************************)
(* Whatever a view fetched, in whatever order the answers come, is         *)
(* rendered: the dialog is not blank, nor does the viewer say that there   *)
(* is no preview, but of the artifacts NeverBlank names.                   *)
(***************************************************************************)
THEOREM NeverBlankAlways == ViewsSpec => []NeverBlank
<1>1. ViewsInit => ContentInv
  <2> SUFFICES ASSUME ViewsInit PROVE ContentInv
    OBVIOUS
  <2>1. InfoInv
    BY InfoTyped
  <2>2. CASE view = "inline"
    <3>1. content = Loaded(shown, "blob", 0) \/ content = Idle
      BY DEF ViewsInit
    <3>2. shown \in Artifacts
      BY <2>2 DEF ViewsInit
    <3>3. Fits(shown, "blob")
      BY <2>2 DEF Fits
    <3>4. ContentOk
      <4>1. CASE content = Idle
        BY <4>1, NotLoaded DEF ContentOk
      <4>2. CASE content = Loaded(shown, "blob", 0)
        <5>1. content.of = shown /\ content.body = "blob"
          BY <4>2 DEF Loaded
        <5> QED BY <3>2, <3>3, <5>1 DEF ContentOk
      <4> QED BY <3>1, <4>1, <4>2
    <3> QED BY <2>1, <3>4 DEF ViewsInit, ContentInv
  <2>3. CASE view # "inline"
    BY <2>1, <2>3, NotLoaded DEF ViewsInit, ContentInv, ContentOk
  <2> QED BY <2>2, <2>3
<1>2. ContentInv => NeverBlank
  <2> SUFFICES ASSUME ContentInv, shown # NoArtifact, content.status = "loaded",
                      content.of = shown
               PROVE  /\ view = "dialog" /\ Kind(shown).type \in Types \ {"webapp"} =>
                           DialogShows(shown, content) # "nothing"
                      /\ view = "viewer" /\ content.body # "none"
                           /\ (Kind(shown).data => IsImage(shown) \/ Kind(shown).ext = "pdf") =>
                           ViewerShows(shown, content) # "download"
    BY DEF NeverBlank
  <2>1. shown \in Artifacts /\ Fits(shown, content.body)
    BY DEF ContentInv, ContentOk
  <2>2. CASE view = "dialog" /\ Kind(shown).type \in Types \ {"webapp"}
    <3>1. \/ content.body \in {"blob", "iframe"}
          \/ Kind(shown).type \in {"file", "code", "csv", "report", "data"}
      BY <2>1, <2>2 DEF Fits, IsImage, Types
    <3> QED BY <2>2, <3>1, DialogShown
  <2>3. CASE /\ view = "viewer" /\ content.body # "none"
             /\ Kind(shown).data => IsImage(shown) \/ Kind(shown).ext = "pdf"
    <3>1. \/ content.body = "blob" /\ (IsImage(shown) \/ Kind(shown).ext = "pdf")
          \/ content.body \in {"text", "empty"}
      BY <2>1, <2>3 DEF Fits
    <3> QED BY <2>3, <3>1, ViewerShown
  <2> QED BY <2>2, <2>3
<1> QED BY <1>1, <1>2, ContentKept, PTL DEF ViewsSpec

----------------------------------------------------------------------------
(* The preview.                                                            *)

InlineInv ==
  view = "inline" =>
    /\ shown \in Artifacts
    /\ \A f \in fetches : /\ f \in Requests /\ f.n <= selects
                          /\ HasTextPreview(shown) => f.body = "text"

\* The key is that of the last render.
KeyInv ==
  view = "inline" /\ HasTextPreview(shown) =>
    /\ info[shown].status = "live" => key \in {<<>>, <<TRUE, "live">>, <<FALSE, "live">>}
    /\ info[shown].status = "extracted" => key = <<info[shown].id, "extracted">>

\* The last request is the one made when the artifact was extracted.
LastInv ==
  view = "inline" /\ HasTextPreview(shown) /\ info[shown].status = "extracted" /\ ~unordered =>
    \/ \E f \in fetches : f.extracted /\ \A g \in fetches : g = f \/ g.n < f.n
    \/ fetches = {} /\ (content.status = "error" \/ content.body \in {"text", "empty"})

SettleInv == InfoInv /\ InlineInv /\ KeyInv /\ LastInv

\* A preview is rendered again, or answered: it has no other steps.
LEMMA InlineSteps ==
  ASSUME [ViewsNext]_viewVars, view = "inline"
  PROVE  \/ \E a \in Artifacts : Progress(a)
         \/ \E f \in fetches : FetchAnswer(f)
         \/ UNCHANGED viewVars
BY DEF ViewsNext, handleSelect, Opened, Lightbox

\* A render of a preview that is not lost leaves the key of what it rendered,
\* and fetches when the key was another.
LEMMA RenderFetches ==
  ASSUME NEW a \in Artifacts, HasTextPreview(a), InlineFetch(a), info'[a].status # "lost"
  PROVE  /\ key' = <<info'[a].id, info'[a].status>>
         /\ \/ key' = key /\ fetches' = fetches
            \/ fetches' = fetches \cup {Request(a, "text")}
<1>1. ~IsImageArtifact(a)
  BY DEF HasTextPreview, IsImageArtifact, IsImage
<1> QED BY <1>1 DEF InlineFetch

\* An answer to a request for a text takes the request away.
LEMMA TextAnswered ==
  ASSUME NEW f \in fetches, f.body = "text", view = "inline", FetchAnswer(f)
  PROVE  /\ fetches' = fetches \ {f}
         /\ \/ content'.body \in {"text", "empty"}
            \/ f.extracted => content'.status = "error"
<1>1. ASSUME NEW body, content' = Loaded(f.of, body, 0) PROVE content'.body = body
  BY <1>1 DEF Loaded
<1>2. ASSUME content' = Failed(f), f.extracted PROVE content'.status = "error"
  BY <1>2, NotLoaded DEF Failed
<1> QED BY <1>1, <1>2 DEF FetchAnswer

\* Only a live artifact is extracted.
LEMMA ExtractedWasLive ==
  ASSUME InfoInv, NEW a \in Artifacts, NEW b \in Artifacts, Progress(b)
  PROVE  /\ info'[a].status = "live" => info[a].status = "live"
         /\ info'[a].status = "extracted" /\ info[a].status # "live" =>
              info[a].status = "extracted"
         /\ info'[a].status = "extracted" /\ info[a].status = "live" =>
              a = b /\ info'[a].id = TRUE
         /\ a # b => info'[a] = info[a]
<1>1. CASE info' = [info EXCEPT ![b].id = TRUE]
  BY <1>1 DEF InfoInv, Statuses
<1>2. ASSUME NEW status \in {"extracted", "lost", "extraction_failed"}, info[b].status = "live",
             info' = [info EXCEPT ![b].id = TRUE, ![b].status = status]
      PROVE  /\ info'[a].status = "live" => info[a].status = "live"
             /\ info'[a].status = "extracted" /\ info[a].status # "live" =>
                  info[a].status = "extracted"
             /\ info'[a].status = "extracted" /\ info[a].status = "live" =>
                  a = b /\ info'[a].id = TRUE
             /\ a # b => info'[a] = info[a]
  BY <1>2 DEF InfoInv, Statuses
<1>3. CASE UNCHANGED info
  BY <1>3 DEF InfoInv, Statuses
<1> QED BY <1>1, <1>2, <1>3 DEF Progress

\* What no step of a preview changes.
LEMMA InlineFrame ==
  ASSUME SettleInv, [ViewsNext]_viewVars, view' = "inline"
  PROVE  /\ view = "inline" /\ shown' = shown /\ shown \in Artifacts
         /\ InfoInv'
         /\ HasTextPreview(shown)' <=> HasTextPreview(shown)
<1>1. view = "inline"
  BY ViewKept
<1>2. shown' = shown
  BY <1>1, InlineSteps DEF Progress, FetchAnswer, viewVars
<1>3. InfoInv' /\ \A a \in Artifacts : Kind(a)' = Kind(a)
  BY InfoTyped DEF SettleInv
<1>4. shown \in Artifacts
  BY <1>1 DEF SettleInv, InlineInv
<1> QED BY <1>1, <1>2, <1>3, <1>4 DEF HasTextPreview

LEMMA InlineKept == SettleInv /\ [ViewsNext]_viewVars => InlineInv'
<1> SUFFICES ASSUME SettleInv, [ViewsNext]_viewVars, view' = "inline"
             PROVE  /\ shown' \in Artifacts
                    /\ \A f \in fetches' : /\ f \in Requests /\ f.n <= selects'
                                           /\ HasTextPreview(shown)' => f.body = "text"
  BY DEF InlineInv
<1>1. /\ view = "inline" /\ shown' = shown /\ shown \in Artifacts
      /\ InfoInv'
      /\ HasTextPreview(shown)' <=> HasTextPreview(shown)
  BY InlineFrame
<1>2. \A f \in fetches : /\ f \in Requests /\ f.n <= selects
                         /\ HasTextPreview(shown) => f.body = "text"
  BY <1>1 DEF SettleInv, InlineInv
<1>3. ASSUME NEW a \in Artifacts, NEW body \in {"text", "blob"}, HasTextPreview(a) => body = "text"
      PROVE  /\ Request(a, body) \in Requests /\ Request(a, body).n = selects'
             /\ Request(a, body).body = body
  BY <1>1, <1>3 DEF Request, Requests, InfoInv
<1>4. ASSUME NEW a \in Artifacts, Progress(a), NEW f \in fetches'
      PROVE  f \in Requests /\ f.n <= selects' /\ (HasTextPreview(shown) => f.body = "text")
  <2>1. selects' = selects + 1 /\ selects \in Nat /\ selects' \in Nat
    BY <1>4, <1>1 DEF Progress, SettleInv, InfoInv
  <2>2. CASE f \in fetches
    <3>1. f.n \in Nat
      BY <1>2, <2>2 DEF Requests
    <3> QED BY <1>2, <2>1, <2>2, <3>1
  <2>3. CASE f \notin fetches
    <3>1. shown = a /\ InlineFetch(a)
      BY <1>4, <2>3 DEF Progress
    <3>2. HasTextPreview(a) => ~IsImageArtifact(a)
      BY DEF HasTextPreview, IsImageArtifact, IsImage
    <3>3. PICK body \in {"text", "blob"} :
            f = Request(a, body) /\ (HasTextPreview(a) => body = "text")
      BY <2>3, <3>1, <3>2 DEF InlineFetch
    <3>4. f \in Requests /\ f.n = selects' /\ f.body = body
      BY <1>3, <3>3
    <3> QED BY <2>1, <3>1, <3>3, <3>4
  <2> QED BY <2>2, <2>3
<1>5. ASSUME NEW f \in fetches, FetchAnswer(f), NEW g \in fetches'
      PROVE  g \in Requests /\ g.n <= selects' /\ (HasTextPreview(shown) => g.body = "text")
  <2>1. selects' = selects
    BY <1>5 DEF FetchAnswer
  <2>2. CASE f.body = "iframe" /\ g = [f EXCEPT !.body = DialogBody(f.of)]
    BY <1>2, <2>1, <2>2 DEF Requests, DialogBody
  <2>3. g \in fetches \/ (f.body = "iframe" /\ g = [f EXCEPT !.body = DialogBody(f.of)])
    BY <1>5 DEF FetchAnswer
  <2> QED BY <1>2, <2>1, <2>2, <2>3
<1>6. UNCHANGED viewVars => fetches' = fetches /\ selects' = selects
  BY DEF viewVars
<1>7. \A f \in fetches' : f \in Requests /\ f.n <= selects' /\ (HasTextPreview(shown) => f.body = "text")
  BY <1>1, <1>2, <1>4, <1>5, <1>6, InlineSteps
<1> QED BY <1>1, <1>7

LEMMA KeyKept == SettleInv /\ [ViewsNext]_viewVars => KeyInv'
<1> SUFFICES ASSUME SettleInv, [ViewsNext]_viewVars, view' = "inline", HasTextPreview(shown)'
             PROVE  /\ info'[shown'].status = "live" =>
                         key' \in {<<>>, <<TRUE, "live">>, <<FALSE, "live">>}
                    /\ info'[shown'].status = "extracted" =>
                         key' = <<info'[shown'].id, "extracted">>
  BY DEF KeyInv
<1>1. /\ view = "inline" /\ shown' = shown /\ shown \in Artifacts
      /\ InfoInv' /\ HasTextPreview(shown)
  BY InlineFrame
<1>2. /\ info[shown].status = "live" => key \in {<<>>, <<TRUE, "live">>, <<FALSE, "live">>}
      /\ info[shown].status = "extracted" => key = <<info[shown].id, "extracted">>
  BY <1>1 DEF SettleInv, KeyInv
<1>3. CASE UNCHANGED <<info, key>>
  BY <1>1, <1>2, <1>3
<1>4. ASSUME NEW f \in fetches, FetchAnswer(f) PROVE UNCHANGED <<info, key>>
  BY <1>4 DEF FetchAnswer
<1>5. ASSUME NEW a \in Artifacts, Progress(a), a # shown PROVE info'[shown] = info[shown] /\ key' = key
  BY <1>1, <1>5, ExtractedWasLive DEF Progress, SettleInv
<1>6. CASE Progress(shown) /\ info'[shown].status \in {"live", "extracted"}
  <2>1. InlineFetch(shown)
    BY <1>1, <1>6 DEF Progress
  <2>2. key' = <<info'[shown].id, info'[shown].status>>
    BY <1>1, <1>6, <2>1, RenderFetches
  <2>3. info'[shown].id \in BOOLEAN
    BY <1>1 DEF InfoInv
  <2>4. CASE info'[shown].status = "live"
    BY <1>1, <2>2, <2>3, <2>4, Zenon
  <2>5. CASE info'[shown].status = "extracted"
    BY <1>1, <2>2, <2>5
  <2> QED BY <1>6, <2>4, <2>5
<1> QED BY <1>1, <1>2, <1>3, <1>4, <1>5, <1>6, InlineSteps DEF viewVars

LEMMA LastKept == SettleInv /\ [ViewsNext]_viewVars => LastInv'
<1> SUFFICES ASSUME SettleInv, [ViewsNext]_viewVars, view' = "inline", HasTextPreview(shown)',
                    info'[shown'].status = "extracted", ~unordered'
             PROVE  \/ \E f \in fetches' : f.extracted /\ \A g \in fetches' : g = f \/ g.n < f.n
                    \/ /\ fetches' = {}
                       /\ content'.status = "error" \/ content'.body \in {"text", "empty"}
  BY DEF LastInv
<1>1. /\ view = "inline" /\ shown' = shown /\ shown \in Artifacts
      /\ InfoInv' /\ HasTextPreview(shown)
  BY InlineFrame
<1>2. \A f \in fetches : f \in Requests /\ f.n <= selects /\ f.body = "text"
  BY <1>1 DEF SettleInv, InlineInv
<1>3. ASSUME info[shown].status = "extracted", ~unordered
      PROVE  \/ \E f \in fetches : f.extracted /\ \A g \in fetches : g = f \/ g.n < f.n
             \/ fetches = {} /\ (content.status = "error" \/ content.body \in {"text", "empty"})
  BY <1>1, <1>3 DEF SettleInv, LastInv
<1>4. CASE UNCHANGED <<info, content, fetches, unordered>>
  BY <1>1, <1>3, <1>4
<1>5. ASSUME NEW a \in Artifacts, Progress(a), a # shown
      PROVE  UNCHANGED <<content, fetches, unordered>> /\ info'[shown] = info[shown]
  BY <1>1, <1>5, ExtractedWasLive DEF Progress, SettleInv
<1>6. CASE Progress(shown)
  <2>1. InlineFetch(shown) /\ selects' = selects + 1
    BY <1>1, <1>6 DEF Progress
  <2>2. info[shown].status = "live" /\ info'[shown].id = TRUE
    <3>1. CASE info[shown].status = "extracted"
      <4>1. key = <<info[shown].id, "extracted">>
        BY <1>1, <3>1 DEF SettleInv, KeyInv
      <4>2. key # <<>>
        BY <4>1
      <4> QED BY <1>6, <3>1, <4>2 DEF Progress
    <3> QED BY <1>1, <1>6, <3>1, ExtractedWasLive DEF SettleInv
  <2>3. key' = <<TRUE, "extracted">>
    BY <1>1, <2>1, <2>2, RenderFetches
  <2>4. key' # key
    <3>1. key \in {<<>>, <<TRUE, "live">>, <<FALSE, "live">>}
      BY <1>1, <2>2 DEF SettleInv, KeyInv
    <3>2. key'[2] = "extracted"
      BY <2>3
    <3>3. \A b : <<b, "live">>[2] = "live"
      OBVIOUS
    <3>4. ASSUME NEW b, key = <<b, "live">> PROVE key' # key
      BY <3>2, <3>3, <3>4
    <3>5. CASE key = <<>>
      BY <2>3, <3>5
    <3> QED BY <3>1, <3>4, <3>5
  <2>5. fetches' = fetches \cup {Request(shown, "text")}
    BY <1>1, <2>1, <2>4, RenderFetches
  <2>6. Request(shown, "text").n = selects + 1 /\ Request(shown, "text").extracted
    BY <1>1, <2>1 DEF Request
  <2>7. \A g \in fetches : g.n < selects + 1
    <3>1. selects \in Nat /\ \A g \in fetches : g.n \in Nat
      BY <1>2 DEF SettleInv, InfoInv, Requests
    <3> QED BY <1>2, <3>1
  <2> QED BY <2>5, <2>6, <2>7
<1>7. ASSUME NEW f \in fetches, FetchAnswer(f)
      PROVE  \/ \E e \in fetches' : e.extracted /\ \A g \in fetches' : g = e \/ g.n < e.n
             \/ /\ fetches' = {}
                /\ content'.status = "error" \/ content'.body \in {"text", "empty"}
  <2>1. UNCHANGED info /\ ~unordered /\ ~\E g \in fetches : g.n < f.n
    BY <1>7 DEF FetchAnswer
  <2>2. /\ fetches' = fetches \ {f}
        /\ \/ content'.body \in {"text", "empty"}
           \/ f.extracted => content'.status = "error"
    BY <1>1, <1>2, <1>7, TextAnswered
  <2>3. PICK e \in fetches : e.extracted /\ \A g \in fetches : g = e \/ g.n < e.n
    BY <1>1, <1>3, <2>1
  <2>4. CASE e # f
    BY <2>2, <2>3, <2>4
  <2>5. CASE e = f
    <3>1. fetches' = {}
      BY <2>1, <2>2, <2>3, <2>5
    <3> QED BY <2>2, <2>3, <2>5, <3>1
  <2> QED BY <2>4, <2>5
<1> QED BY <1>1, <1>3, <1>4, <1>5, <1>6, <1>7, InlineSteps DEF viewVars

(***************************************************************************)
(* The preview of code, a CSV file or a report that was extracted does not *)
(* stay at "Loading": if answers come in order, what stands is the answer  *)
(* to the request made when it was extracted.                              *)
(***************************************************************************)
THEOREM TextPreviewAlwaysSettles == ViewsSpec => []TextPreviewSettles
<1>1. ViewsInit => SettleInv
  <2> SUFFICES ASSUME ViewsInit PROVE SettleInv
    OBVIOUS
  <2>1. InfoInv
    BY InfoTyped
  <2>2. InlineInv
    BY DEF ViewsInit, InlineInv
  <2>3. view = "inline" => shown \in Artifacts /\ info[shown].status = "live" /\ key = <<>>
    BY DEF ViewsInit
  <2> QED BY <2>1, <2>2, <2>3 DEF SettleInv, KeyInv, LastInv
<1>2. SettleInv /\ [ViewsNext]_viewVars => SettleInv'
  BY InfoTyped, InlineKept, KeyKept, LastKept DEF SettleInv
<1>3. SettleInv => TextPreviewSettles
  <2> SUFFICES ASSUME SettleInv, view = "inline", ~unordered, fetches = {}, HasTextPreview(shown),
                      info[shown].status = "extracted", content.body # "empty"
               PROVE  InlineShows(shown, content) # "loading"
    BY DEF TextPreviewSettles
  <2>1. content.status = "error" \/ content.body = "text"
    BY DEF SettleInv, LastInv
  <2> QED BY <2>1, InlineShown
<1> QED BY <1>1, <1>2, <1>3, PTL DEF ViewsSpec

=============================================================================
