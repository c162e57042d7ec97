-------------------------- MODULE ChatSessionProofs --------------------------
(***************************************************************************)
(* Theorems about ChatSession, for any sessions, operations and events,    *)
(* whatever awaits interleave and the host answers.                        *)
(***************************************************************************)
EXTENDS ChatSession, TLAPS

----------------------------------------------------------------------------
(* What a call under way is.                                               *)

Whose == Sessions \cup {NoSession}

\* The operations that await one answer, and the awaits of a stream.
Single == {"create", "upload", "cancel", "nudge", "delete", "artifacts"}
Reading == {"read", "check", "reattach", "restore", "legacy"}
Resuming == {"load", "wake", "status", "attach"}

CallType == [n : Nat, op : Single \cup {"send", "resume"}, s : Whose,
             at : {"answer", "post"} \cup Reading \cup Resuming,
             depth : Nat, done : BOOLEAN, of : Whose]

CallOK(c) ==
  /\ c \in CallType
  /\ c.op \in Single => c.at = "answer"
  /\ c.op = "send" => c.at \in {"post"} \cup Reading
  /\ c.op = "resume" => c.at \in Resuming \cup Reading
  /\ c.op # "create" => c.s # NoSession

TypeInv ==
  /\ TypeOK
  /\ exists \subseteq Sessions
  /\ \A c \in calls : CallOK(c)

LEMMA Loads ==
  ASSUME NEW id \in Whose
  PROVE  \A d \in Loading(id) :
           CallOK(d) /\ d.op = "artifacts" /\ d.at = "answer" /\ d.s = id
<1> DEFINE l == [n |-> 0, op |-> "artifacts", s |-> id, at |-> "answer",
                 depth |-> 0, done |-> FALSE, of |-> id]
<1>1. CASE id = NoSession
  BY <1>1 DEF Loading
<1>2. CASE id # NoSession
  <2>1. l \in CallType
    BY DEF CallType, Single
  <2>2. CallOK(l) /\ l.op = "artifacts" /\ l.at = "answer" /\ l.s = id
    BY <1>2, <2>1 DEF CallOK
  <2>3. Loading(id) = {l}
    BY <1>2 DEF Loading
  <2> HIDE DEF l
  <2> QED BY <2>2, <2>3
<1> QED BY <1>1, <1>2

LEMMA NewCall ==
  ASSUME ops' \in Nat, NEW o \in Single, NEW s \in Whose, o # "create" => s # NoSession
  PROVE  CallOK(Call(o, s, "answer"))
BY DEF Call, CallOK, CallType, Whose, Single, Reading, Resuming

LEMMA NewResume ==
  ASSUME ops' \in Nat, NEW s \in Sessions
  PROVE  CallOK(Call("resume", s, "load"))
BY SessionsAssumption DEF Call, CallOK, CallType, Whose, Single, Reading, Resuming

\* A call that goes on at another await.
LEMMA Onward ==
  ASSUME NEW c, CallOK(c), NEW d \in CallType, d.op = c.op, d.s = c.s,
         c.op = "send" => d.at \in {"post"} \cup Reading,
         c.op = "resume" => d.at \in Resuming \cup Reading,
         c.op \notin Single
  PROVE  CallOK(d)
BY DEF CallOK, CallType

\* Where the fields of a call are after a step of it.
LEMMA Moves ==
  ASSUME NEW c \in CallType,
         NEW a \in {"answer", "post"} \cup Reading \cup Resuming, NEW n \in Nat, NEW i \in Whose
  PROVE  /\ [c EXCEPT !.at = a] \in CallType
         /\ [c EXCEPT !.at = a, !.depth = n] \in CallType
         /\ [c EXCEPT !.at = a, !.of = i] \in CallType
         /\ [c EXCEPT !.done = TRUE] \in CallType
         /\ [c EXCEPT !.op = "send", !.at = a] \in CallType
BY DEF CallType

LEMMA CallsTyped == ASSUME TypeInv, [Next]_vars PROVE \A d \in calls' : CallOK(d)
<1> USE DEF TypeInv, TypeOK
<1> DEFINE OK(more) == \A d \in more : CallOK(d)
<1>1. ASSUME NEW more, OK(more), calls' \subseteq calls \cup more PROVE OK(calls')
  BY <1>1
<1>2. sessionIdRef \in Whose /\ session \in Whose
  BY DEF Whose
<1>3. OK(Loading(sessionIdRef)) /\ OK({})
  BY <1>2, Loads
<1>4. ASSUME Begin PROVE ops' \in Nat
  BY <1>4 DEF Begin
<1> HIDE DEF OK
<1>5. ASSUME User PROVE OK(calls')
  <2>1. CASE createSession
    <3>1. OK({Call("create", NoSession, "answer")})
      BY <1>4, <2>1, NewCall DEF createSession, OK, Whose, Single
    <3> QED BY <1>1, <2>1, <3>1 DEF createSession
  <2>2. CASE clearSession
    BY <1>1, <1>3, <2>2 DEF clearSession
  <2>3. ASSUME NEW s \in Sessions, NEW n \in Nat
        PROVE  OK({[n |-> n, op |-> "send", s |-> s, at |-> "post",
                    depth |-> 0, done |-> FALSE, of |-> NoSession]})
    <3> DEFINE d == [n |-> n, op |-> "send", s |-> s, at |-> "post",
                     depth |-> 0, done |-> FALSE, of |-> NoSession]
    <3>1. d \in CallType
      BY DEF CallType, Whose
    <3>2. CallOK(d)
      BY <3>1, SessionsAssumption DEF CallOK, Single
    <3> QED BY <3>2 DEF OK
  <2>4. CASE Send
    BY <1>1, <1>4, <2>3, <2>4 DEF Send, SendMessage
  <2>5. CASE SubmitUploads
    <3>1. OK({Call("upload", session, "answer")})
      BY <1>2, <1>4, <2>5, NewCall DEF SubmitUploads, OK, Single
    <3> QED BY <1>1, <2>5, <3>1 DEF SubmitUploads
  <2>6. ASSUME NEW o \in {"cancel", "nudge", "delete"}, AbortAnd(o) PROVE OK(calls')
    <3>1. OK({Call(o, session, "answer")})
      BY <1>2, <1>4, <2>6, NewCall DEF AbortAnd, OK, Single
    <3>2. OK(Loading(sessionIdRef) \cup {Call(o, session, "answer")})
      BY <1>3, <3>1 DEF OK
    <3>3. calls' \subseteq calls \cup (Loading(sessionIdRef) \cup {Call(o, session, "answer")})
      BY <2>6 DEF AbortAnd, AfterAbort
    <3> QED BY <1>1, <3>2, <3>3
  <2>7. ASSUME NEW s \in exists, resumeSession(s) PROVE OK(calls')
    <3>1. OK({Call("resume", s, "load")})
      BY <1>4, <2>7, NewResume DEF resumeSession, OK
    <3> QED BY <1>1, <2>7, <3>1 DEF resumeSession
  <2> QED BY <1>5, <2>1, <2>2, <2>4, <2>5, <2>6, <2>7
          DEF User, cancelSession, nudgeAgent, deleteSession
<1>6. ASSUME NEW c \in calls, Step(c) \/ Chunk(c) \/ Complete(c) PROVE OK(calls')
  <2> DEFINE More(d) == Loading(sessionIdRef) \cup {d}
  <2>1. CallOK(c)
    OBVIOUS
  <2>2. ASSUME NEW d, CallOK(d), calls' \subseteq calls \cup More(d) PROVE OK(calls')
    <3>1. OK(More(d))
      BY <1>3, <2>2 DEF OK
    <3> QED BY <1>1, <2>2, <3>1
  <2>3. ASSUME calls' \subseteq calls \cup Loading(sessionIdRef) PROVE OK(calls')
    BY <1>1, <1>3, <2>3
  <2> HIDE DEF More
  <2>4. ASSUME Finish(c) PROVE calls' \subseteq calls \cup Loading(sessionIdRef)
    BY <2>4 DEF Finish, Over
  <2>5. ASSUME Fallback(c), c.at \in Reading PROVE OK(calls')
    <3>1. CallOK([c EXCEPT !.at = "restore", !.of = sessionIdRef])
      <4>1. [c EXCEPT !.at = "restore", !.of = sessionIdRef] \in CallType
        BY <1>2, <2>1, Moves DEF CallOK, Reading
      <4> QED BY <2>1, <2>5, <4>1, Onward DEF CallOK, CallType, Single, Reading
    <3>2. calls' \subseteq calls \cup More([c EXCEPT !.at = "restore", !.of = sessionIdRef])
      BY <2>5 DEF Fallback, More
    <3> QED BY <2>2, <3>1, <3>2
  <2>6. ASSUME NEW a \in Reading \cup {"status", "attach", "wake"}, c.op \in {"send", "resume"},
               c.op = "send" => a \in Reading
        PROVE  /\ CallOK([c EXCEPT !.at = a])
               /\ \A n \in Nat : CallOK([c EXCEPT !.at = a, !.depth = n])
               /\ \A i \in Whose : CallOK([c EXCEPT !.at = a, !.of = i])
    <3>1. /\ [c EXCEPT !.at = a] \in CallType
          /\ \A n \in Nat : [c EXCEPT !.at = a, !.depth = n] \in CallType
          /\ \A i \in Whose : [c EXCEPT !.at = a, !.of = i] \in CallType
      <4>1. a \in {"answer", "post"} \cup Reading \cup Resuming /\ 0 \in Nat /\ NoSession \in Whose
        BY DEF Resuming, Whose
      <4>2. c \in CallType
        BY <2>1 DEF CallOK
      <4>3. [c EXCEPT !.at = a] \in CallType
        BY <4>1, <4>2, Moves
      <4>4. ASSUME NEW n \in Nat PROVE [c EXCEPT !.at = a, !.depth = n] \in CallType
        BY <4>1, <4>2, Moves
      <4>5. ASSUME NEW i \in Whose PROVE [c EXCEPT !.at = a, !.of = i] \in CallType
        BY <4>1, <4>2, Moves
      <4> QED BY <4>3, <4>4, <4>5
    <3>2. c.op \notin Single /\ (c.op = "resume" => a \in Resuming \cup Reading)
      BY <2>6 DEF Single, Resuming
    <3>3. ASSUME NEW d \in CallType, d.op = c.op, d.s = c.s, d.at = a PROVE CallOK(d)
      BY <2>1, <2>6, <3>2, <3>3, Onward
    <3>4. c \in CallType
      BY <2>1 DEF CallOK
    <3>5. CallOK([c EXCEPT !.at = a])
      BY <3>1, <3>3, <3>4 DEF CallType
    <3>6. ASSUME NEW n \in Nat PROVE CallOK([c EXCEPT !.at = a, !.depth = n])
      BY <3>1, <3>3, <3>4, ZenonT(40) DEF CallType
    <3>7. ASSUME NEW i \in Whose PROVE CallOK([c EXCEPT !.at = a, !.of = i])
      BY <3>1, <3>3, <3>4, ZenonT(40) DEF CallType
    <3> QED BY <3>5, <3>6, <3>7
  <2>7. ASSUME NEW d \in {0, c.depth + 1}, Attached(c, d), c.at \in {"post", "attach", "reattach"}
        PROVE  OK(calls')
    <3>1. d \in Nat
      BY <2>1 DEF CallOK, CallType
    <3>2. CallOK([c EXCEPT !.at = "read", !.depth = d])
      BY <2>1, <2>6, <2>7, <3>1 DEF CallOK, CallType, Single, Reading
    <3>3. CASE Finish(c)
      BY <2>3, <2>4, <3>3
    <3>4. CASE Goes(c, [c EXCEPT !.at = "read", !.depth = d])
      <4>1. calls' \subseteq calls \cup More([c EXCEPT !.at = "read", !.depth = d])
        BY <3>4 DEF Goes, More
      <4> QED BY <2>2, <3>2, <4>1
    <3> QED BY <2>7, <3>3, <3>4 DEF Attached
  <2>8. CASE Created(c) \/ Cancelled(c) \/ Deleted(c) \/ ArtifactsLoaded(c)
    BY <2>3, <2>8 DEF Created, Cancelled, Deleted, ArtifactsLoaded, Over
  <2>9. CASE Uploaded(c)
    <3>1. CallOK([n |-> c.n, op |-> "send", s |-> c.s, at |-> "post",
                  depth |-> 0, done |-> FALSE, of |-> NoSession])
      BY <2>1, <2>9 DEF Uploaded, CallOK, CallType, Whose, Single, Reading, Resuming
    <3>2. calls' \subseteq calls \cup More([n |-> c.n, op |-> "send", s |-> c.s, at |-> "post",
                                             depth |-> 0, done |-> FALSE, of |-> NoSession])
      BY <2>9 DEF Uploaded, SendMessage, More
    <3> QED BY <2>2, <3>1, <3>2
  <2>10. CASE Posted(c)
    BY <2>3, <2>7, <2>10 DEF Posted, Over
  <2>11. CASE Chunk(c)
    BY <2>3, <2>11 DEF Chunk, Over
  <2>12. CASE Complete(c)
    <3>1. CallOK([c EXCEPT !.done = TRUE])
      <4>1. [c EXCEPT !.done = TRUE] \in CallType
        BY <2>1, Moves DEF CallOK, Whose
      <4> QED BY <2>1, <2>12, <4>1, Onward DEF Complete, CallOK, CallType, Single, Reading
    <3>2. calls' \subseteq calls \cup More([c EXCEPT !.done = TRUE])
      BY <2>12 DEF Complete, Over, More
    <3> QED BY <2>2, <3>1, <3>2
  <2>13. CASE Eof(c) \/ Checked(c)
    <3>1. c.at \in Reading /\ c.op \in {"send", "resume"}
      BY <2>1, <2>13 DEF Eof, Checked, Reading, CallOK, CallType, Single
    <3>2. CASE Fallback(c)
      BY <2>5, <3>1, <3>2
    <3>3. CASE Finish(c)
      BY <2>3, <2>4, <3>3
    <3>4. ASSUME NEW a \in {"check", "reattach"}, Goes(c, [c EXCEPT !.at = a]) PROVE OK(calls')
      <4>1. CallOK([c EXCEPT !.at = a])
        BY <2>6, <3>1 DEF Reading
      <4>2. calls' \subseteq calls \cup More([c EXCEPT !.at = a])
        BY <3>4 DEF Goes, More
      <4> QED BY <2>2, <4>1, <4>2
    <3> QED BY <2>13, <3>2, <3>3, <3>4 DEF Eof, Checked
  <2>14. CASE Reattached(c)
    BY <2>5, <2>7, <2>14 DEF Reattached, Reading
  <2>15. CASE Restored(c)
    <3>1. c.at \in Reading /\ c.op \in {"send", "resume"}
      BY <2>1, <2>15 DEF Restored, Reading, CallOK, CallType, Single
    <3>2. CallOK([c EXCEPT !.at = "legacy", !.of = sessionIdRef])
      BY <1>2, <2>6, <3>1 DEF Reading
    <3>3. CASE Goes(c, [c EXCEPT !.at = "legacy", !.of = sessionIdRef])
      <4>1. calls' \subseteq calls \cup More([c EXCEPT !.at = "legacy", !.of = sessionIdRef])
        BY <3>3 DEF Goes, More
      <4> QED BY <2>2, <3>2, <4>1
    <3> QED BY <2>3, <2>4, <2>15, <3>3 DEF Restored, Over
  <2>16. CASE Broken(c) \/ ResumeAttached(c)
    <3>1. CASE Over(c, {}) \/ Finish(c)
      BY <2>3, <2>4, <3>1 DEF Over
    <3> QED BY <2>7, <2>16, <3>1 DEF Broken, ResumeAttached
  <2>17. CASE Nudged(c)
    <3>1. CallOK([c EXCEPT !.op = "send", !.at = "post"])
      BY <2>1, <2>17 DEF Nudged, CallOK, CallType, Single, Reading, Resuming
    <3>2. calls' \subseteq calls \cup More([c EXCEPT !.op = "send", !.at = "post"])
      BY <2>17 DEF Nudged, Goes, More
    <3> QED BY <2>2, <3>1, <3>2
  <2>18. CASE Loaded(c) \/ Woken(c) \/ Found(c)
    <3>1. c.op = "resume" /\ c.s \in Whose
      BY <2>1, <2>18 DEF Loaded, Woken, Found, CallOK, CallType, Single, Reading
    <3>2. ASSUME NEW a \in {"wake", "status", "attach"} PROVE CallOK([c EXCEPT !.at = a])
      BY <2>6, <3>1
    <3>3. ASSUME NEW a \in {"wake", "status", "attach"},
                 Over(c, {[c EXCEPT !.at = a]} \cup Loading(c.s)) \/ Goes(c, [c EXCEPT !.at = a])
          PROVE  OK(calls')
      <4>1. OK({[c EXCEPT !.at = a]} \cup Loading(c.s))
        BY <3>1, <3>2, Loads DEF OK
      <4> QED BY <1>1, <3>3, <4>1 DEF Over, Goes
    <3>4. ASSUME Over(c, Loading(c.s)) \/ Over(c, {}) PROVE OK(calls')
      <4>1. OK(Loading(c.s))
        BY <3>1, Loads DEF OK
      <4> QED BY <1>1, <3>4, <4>1 DEF Over
    <3> QED BY <2>18, <3>3, <3>4 DEF Loaded, Woken, Found
  <2> QED BY <1>6, <2>8, <2>9, <2>10, <2>11, <2>12, <2>13, <2>14, <2>15, <2>16, <2>17, <2>18
          DEF Step
<1>7. UNCHANGED vars => OK(calls')
  BY <1>1, <1>3 DEF vars
<1>8. OK(calls')
  BY <1>5, <1>6, <1>7 DEF Next, Answer
<1> QED BY <1>8 DEF OK

----------------------------------------------------------------------------
(* What is displayed, and the event state.                                 *)

\* Every step sets fields of the display to what the event state has by then:
\* all of those that the step changes there, or at least the messages when it
\* is emptied.
Shows(F) ==
  /\ Sync(F)
  /\ \/ \A f \in Fields \ F : st'[f] = st[f]
     \/ "messages" \in F /\ st' = Empty

DataStep ==
  /\ st' \in [Fields -> SUBSET Sessions]
  /\ \E F \in SUBSET Fields : Shows(F)

LEMMA NothingShown == ASSUME TypeInv, UNCHANGED <<data, st>> PROVE DataStep
<1>1. {} \in SUBSET Fields
  OBVIOUS
<1>2. data' = [f \in Fields |-> IF f \in {} THEN st'[f] ELSE data[f]]
  BY DEF TypeInv, TypeOK
<1>3. Shows({})
  BY <1>2 DEF Shows, Sync
<1> QED BY <1>1, <1>3 DEF DataStep, TypeInv, TypeOK

LEMMA EmptyShown ==
  ASSUME NEW F \in SUBSET Fields, "messages" \in F, st' = Empty, Sync(F)
  PROVE  DataStep
<1>1. Shows(F)
  BY DEF Shows
<1>2. st' \in [Fields -> SUBSET Sessions]
  BY DEF Empty
<1> QED BY <1>1, <1>2 DEF DataStep

LEMMA SomeShown ==
  ASSUME NEW F \in SUBSET Fields, st' \in [Fields -> SUBSET Sessions], Sync(F),
         \A f \in Fields \ F : st'[f] = st[f]
  PROVE  DataStep
<1>1. Shows(F)
  BY DEF Shows
<1> QED BY <1>1 DEF DataStep

LEMMA OneShown ==
  ASSUME TypeInv, NEW f \in Fields, NEW S \in SUBSET Sessions, st' = [st EXCEPT ![f] = S], Sync({f})
  PROVE  DataStep
<1>1. st' \in [Fields -> SUBSET Sessions] /\ \A g \in Fields \ {f} : st'[g] = st[g]
  BY DEF TypeInv, TypeOK
<1> QED BY <1>1, SomeShown

LEMMA AllShown ==
  ASSUME st' \in [Fields -> SUBSET Sessions], Sync(Fields)
  PROVE  DataStep
BY SomeShown

\* The session of a call, but for that of createSession.
LEMMA Belongs == ASSUME TypeInv, NEW c \in calls, c.op # "create" PROVE c.s \in Sessions
BY DEF TypeInv, CallOK, CallType, Whose

LEMMA DataSteps == ASSUME TypeInv, [Next]_vars PROVE DataStep
<1> USE DEF Fields
<1>1. CASE createSession
  BY <1>1, EmptyShown DEF createSession, Reset
<1>2. CASE clearSession
  BY <1>2, EmptyShown DEF clearSession
<1>3. ASSUME NEW s \in Sessions, NEW n, NEW others, SendMessage(s, n, others) PROVE DataStep
  <2>1. st["messages"] \cup {s} \in SUBSET Sessions
    BY DEF TypeInv, TypeOK
  <2> QED BY <1>3, <2>1, OneShown DEF SendMessage
<1>4. CASE Send
  BY <1>3, <1>4 DEF Send, TypeInv, TypeOK
<1>5. CASE SubmitUploads \/ cancelSession \/ nudgeAgent \/ deleteSession \/ UNCHANGED vars
  BY <1>5, NothingShown DEF SubmitUploads, cancelSession, nudgeAgent, deleteSession, AbortAnd,
                            vars, shown, refs, eventState
<1>6. ASSUME NEW s \in exists, resumeSession(s) PROVE DataStep
  BY <1>6, EmptyShown DEF resumeSession, Reset
<1>7. ASSUME NEW c \in calls, Step(c) \/ Chunk(c) \/ Complete(c) PROVE DataStep
  <2>1. CASE \/ Created(c) \/ Posted(c) \/ Eof(c) \/ Checked(c) \/ Reattached(c) \/ Broken(c)
             \/ Cancelled(c) \/ Woken(c) \/ Found(c) \/ ResumeAttached(c) \/ Complete(c)
    BY <2>1, NothingShown DEF Created, Posted, Eof, Checked, Reattached, Broken, Cancelled, Woken,
         Found, ResumeAttached, Complete, Attached, Finish, Fallback, shown, refs, eventState
  <2>2. CASE Uploaded(c)
    BY <1>3, <2>2, Belongs DEF Uploaded
  <2>3. CASE Nudged(c)
    <3>1. st["messages"] \cup {c.s} \in SUBSET Sessions
      BY <2>3, Belongs DEF Nudged, TypeInv, TypeOK
    <3> QED BY <2>3, <3>1, OneShown DEF Nudged
  <2>4. CASE Chunk(c)
    <3>1. c.s \in Sessions
      BY <2>4, Belongs DEF Chunk, TypeInv, CallOK, Single
    <3>2. PICK F \in {{}, Fields} : Reduce(c, F)
      BY <2>4 DEF Chunk
    <3>3. st' \in [Fields -> SUBSET Sessions] /\ \A f \in Fields \ F : st'[f] = st[f]
      BY <3>1, <3>2 DEF Reduce, TypeInv, TypeOK
    <3> QED BY <3>2, <3>3, SomeShown DEF Reduce
  <2>5. CASE Restored(c)
    <3>1. CASE UNCHANGED <<data, st>>
      BY <3>1, NothingShown
    <3>2. CASE c.of # NoSession /\ st' = [f \in Fields |-> {c.of}] /\ Sync(Fields)
      <4>1. c.of \in Sessions
        BY <3>2 DEF TypeInv, TypeOK
      <4> QED BY <3>2, <4>1, AllShown
    <3> QED BY <2>5, <3>1, <3>2 DEF Restored, Finish, shown, refs, eventState
  <2>6. CASE Deleted(c)
    <3>1. CASE UNCHANGED <<data, st>>
      BY <3>1, NothingShown
    <3>2. CASE Reset /\ Sync({"messages"})
      BY <3>2, EmptyShown DEF Reset
    <3> QED BY <2>6, <3>1, <3>2 DEF Deleted, eventState
  <2>7. CASE Loaded(c)
    <3>1. CASE UNCHANGED <<data, st>>
      BY <3>1, NothingShown
    <3>2. CASE st' = [f \in Fields |-> {c.s}] /\ Sync(Fields)
      <4>1. c.s \in Sessions
        BY <2>7, Belongs DEF Loaded
      <4> QED BY <3>2, <4>1, AllShown
    <3> QED BY <2>7, <3>1, <3>2 DEF Loaded
  <2>8. CASE ArtifactsLoaded(c)
    <3>1. CASE UNCHANGED <<data, st>>
      BY <3>1, NothingShown
    <3>2. ASSUME NEW live \in {{}, st["artifacts"]},
                 st' = [st EXCEPT !["artifacts"] = {c.s} \cup live], Sync({"artifacts"})
          PROVE  DataStep
      <4>1. {c.s} \cup live \in SUBSET Sessions
        BY <2>8, Belongs DEF ArtifactsLoaded, TypeInv, TypeOK
      <4> QED BY <3>2, <4>1, OneShown
    <3> QED BY <2>8, <3>1, <3>2 DEF ArtifactsLoaded
  <2> QED BY <1>7, <2>1, <2>2, <2>3, <2>4, <2>5, <2>6, <2>7, <2>8 DEF Step
<1> QED BY <1>1, <1>2, <1>4, <1>5, <1>6, <1>7 DEF Next, User, Answer

LEMMA DataTyped == ASSUME TypeInv, [Next]_vars PROVE st' \in [Fields -> SUBSET Sessions] /\ data' \in [Fields -> SUBSET Sessions]
<1>1. DataStep
  BY DataSteps
<1>2. PICK F \in SUBSET Fields : Sync(F)
  BY <1>1 DEF DataStep, Shows
<1> QED BY <1>1, <1>2 DEF DataStep, Sync, TypeInv, TypeOK

----------------------------------------------------------------------------
(* Types.                                                                  *)

LEMMA FlagsTyped ==
  ASSUME TypeInv, [Next]_vars
  PROVE  /\ isStreaming' \in BOOLEAN /\ streaming' \in BOOLEAN /\ stuckTimer' \in BOOLEAN
         /\ active' \in BOOLEAN /\ activity' \in BOOLEAN
<1> USE DEF TypeInv, TypeOK
<1> DEFINE Same == UNCHANGED <<isStreaming, streaming, stuckTimer, active, activity>>
<1> DEFINE Flags ==
      /\ isStreaming' \in BOOLEAN /\ streaming' \in BOOLEAN /\ stuckTimer' \in BOOLEAN
      /\ active' \in BOOLEAN /\ activity' \in BOOLEAN
<1>1. Same => Flags
  OBVIOUS
<1>2. Idle => Flags
  BY DEF Idle, stopStuckDetection
<1>3. CASE User
  <2>1. CASE createSession \/ \E s \in exists : resumeSession(s)
    BY <2>1 DEF createSession, resumeSession, Reset
  <2>2. CASE clearSession
    BY <1>2, <2>2 DEF clearSession
  <2>3. CASE Send
    BY <2>3 DEF Send, SendMessage, startStuckDetection
  <2>4. CASE SubmitUploads
    BY <1>1, <2>4 DEF SubmitUploads, shown, refs, eventState
  <2>5. ASSUME NEW o, AbortAnd(o) PROVE Flags
    BY <1>1, <1>2, <2>5 DEF AbortAnd
  <2> QED BY <1>3, <2>1, <2>2, <2>3, <2>4, <2>5 DEF User, cancelSession, nudgeAgent, deleteSession
<1>4. ASSUME NEW c \in calls, Step(c) \/ Chunk(c) \/ Complete(c) PROVE Flags
  <2>1. ASSUME Finish(c) \/ Fallback(c) PROVE Flags
    BY <1>1, <1>2, <2>1 DEF Finish, Fallback, shown, refs, eventState
  <2>2. ASSUME NEW n, Attached(c, n) PROVE Flags
    BY <1>1, <2>1, <2>2 DEF Attached, shown, refs, eventState
  <2>3. CASE Created(c) \/ ArtifactsLoaded(c)
    BY <1>1, <2>3 DEF Created, ArtifactsLoaded, eventState
  <2>4. CASE Uploaded(c) \/ Nudged(c)
    BY <2>4 DEF Uploaded, Nudged, SendMessage, startStuckDetection
  <2>5. CASE Posted(c) \/ Reattached(c) \/ ResumeAttached(c)
    BY <1>2, <2>1, <2>2, <2>5 DEF Posted, Reattached, ResumeAttached
  <2>6. CASE Eof(c) \/ Checked(c) \/ Broken(c)
    BY <1>1, <2>1, <2>6 DEF Eof, Checked, Broken, shown, refs, eventState
  <2>7. CASE Restored(c) \/ Cancelled(c)
    BY <1>1, <1>2, <2>1, <2>7 DEF Restored, Cancelled, shown, refs, eventState
  <2>8. CASE Deleted(c)
    BY <2>8 DEF Deleted, Reset, eventState
  <2>9. CASE Loaded(c) \/ Woken(c) \/ Found(c)
    BY <2>9 DEF Loaded, Woken, Found, startStuckDetection, refs, eventState
  <2>10. CASE Chunk(c) \/ Complete(c)
    BY <1>2, <2>10 DEF Chunk, Complete
  <2> QED BY <1>4, <2>3, <2>4, <2>5, <2>6, <2>7, <2>8, <2>9, <2>10 DEF Step
<1>5. CASE UNCHANGED vars
  BY <1>1, <1>5 DEF vars, shown, refs, eventState
<1> QED BY <1>3, <1>4, <1>5 DEF Next, Answer

LEMMA CountsTyped ==
  ASSUME TypeInv, [Next]_vars
  PROVE  /\ ops' \in Nat /\ chunks' \in Nat /\ overlapped' \in BOOLEAN /\ cut' \in BOOLEAN
         /\ exists' \subseteq Sessions
<1> USE DEF TypeInv, TypeOK
<1>1. CASE UNCHANGED counts
  BY <1>1 DEF counts
<1>2. CASE User
  <2>1. Begin
    BY <1>2 DEF User, createSession, clearSession, Send, SubmitUploads, cancelSession, nudgeAgent,
                deleteSession, AbortAnd, resumeSession
  <2> QED BY <2>1 DEF Begin
<1>3. ASSUME NEW c \in calls, Step(c) \/ Chunk(c) \/ Complete(c), ~UNCHANGED counts
      PROVE  Created(c) \/ Broken(c) \/ Chunk(c)
  BY <1>3 DEF Step, Uploaded, Posted, Eof, Checked, Reattached, Restored, Cancelled, Nudged, Deleted,
              Loaded, Woken, Found, ResumeAttached, ArtifactsLoaded, Complete, Attached, Fallback, counts
<1>4. ASSUME NEW c \in calls, Created(c) \/ Broken(c) \/ Chunk(c), ~UNCHANGED counts
      PROVE  /\ ops' \in Nat /\ chunks' \in Nat /\ overlapped' \in BOOLEAN /\ cut' \in BOOLEAN
             /\ exists' \subseteq Sessions
  <2>1. CASE Created(c)
    <3>1. exists' \subseteq Sessions
      BY <2>1 DEF Created
    <3> QED BY <2>1, <3>1 DEF Created
  <2>2. CASE Broken(c)
    <3>1. \/ UNCHANGED counts
          \/ cut' = TRUE /\ UNCHANGED <<ops, chunks, overlapped, exists>>
      BY <2>2 DEF Broken
    <3> QED BY <1>4, <3>1
  <2>3. CASE Chunk(c)
    BY <2>3 DEF Chunk
  <2> QED BY <1>4, <2>1, <2>2, <2>3
<1> QED BY <1>1, <1>2, <1>3, <1>4 DEF Next, Answer, vars

LEMMA RefsTyped ==
  ASSUME TypeInv, [Next]_vars
  PROVE  /\ session' \in Whose /\ sessionIdRef' \in Whose /\ abortControllerRef' \in Nat
<1> USE DEF TypeInv, TypeOK
<1> DEFINE Refs == /\ session' \in Whose /\ sessionIdRef' \in Whose /\ abortControllerRef' \in Nat
<1>1. CASE UNCHANGED <<session, sessionIdRef, abortControllerRef>>
  BY <1>1 DEF Whose
<1>2. CASE User
  <2>1. ASSUME Begin PROVE ops' \in Nat
    BY <2>1 DEF Begin
  <2>2. CASE Send
    BY <2>1, <2>2 DEF Send, SendMessage, Whose
  <2>3. CASE clearSession
    BY <2>3 DEF clearSession, Whose
  <2> QED BY <1>1, <1>2, <2>2, <2>3 DEF User, createSession, SubmitUploads, cancelSession, nudgeAgent,
             deleteSession, AbortAnd, resumeSession, shown, refs
<1>3. ASSUME NEW c \in calls, Step(c) \/ Chunk(c) \/ Complete(c),
             ~UNCHANGED <<session, sessionIdRef, abortControllerRef>>
      PROVE  Created(c) \/ Uploaded(c) \/ Nudged(c) \/ Deleted(c) \/ Loaded(c) \/ Found(c)
  BY <1>3 DEF Step, Posted, Eof, Checked, Reattached, Restored, Broken, Cancelled, Woken, ResumeAttached,
              ArtifactsLoaded, Chunk, Complete, Attached, Finish, Fallback, shown, refs, counts
<1>4. ASSUME NEW c \in calls,
             Created(c) \/ Uploaded(c) \/ Nudged(c) \/ Deleted(c) \/ Loaded(c) \/ Found(c)
      PROVE  Refs
  <2>1. c.n \in Nat /\ c.s \in Whose
    BY DEF CallOK, CallType
  <2> QED BY <1>4, <2>1 DEF Created, Uploaded, SendMessage, Nudged, Deleted, Loaded, Found, Whose
<1> QED BY <1>1, <1>2, <1>3, <1>4 DEF Next, Answer, vars, shown, refs

LEMMA Typed == ASSUME TypeInv, [Next]_vars PROVE TypeInv'
<1>1. \A c \in calls' : CallOK(c)
  BY CallsTyped
<1>2. \A c \in calls' : c.s \in Sessions \cup {NoSession} /\ c.of \in Sessions \cup {NoSession}
  BY <1>1 DEF CallOK, CallType, Whose
<1> QED BY <1>1, <1>2, DataTyped, FlagsTyped, CountsTyped, RefsTyped DEF TypeInv, TypeOK, Whose

LEMMA TypeStart == ASSUME Init PROVE TypeInv
BY SessionsAssumption DEF Init, TypeInv, TypeOK, Empty

LEMMA TypeAlways == Spec => []TypeInv
BY TypeStart, Typed, PTL DEF Spec

(***************************************************************************)
(* The state of useAgentSession has its types: every operation under way   *)
(* is of a session, but for createSession, whatever awaits interleave.     *)
(***************************************************************************)
THEOREM TypeCorrect == Spec => []TypeOK
<1>1. TypeInv => TypeOK
  BY DEF TypeInv
<1> QED BY <1>1, TypeAlways, PTL

----------------------------------------------------------------------------
(* The display and the event state.                                        *)

LEMMA SyncKept == ASSUME TypeInv, InSync, [Next]_vars PROVE InSync'
<1>1. DataStep
  BY DataSteps
<1>2. PICK F \in SUBSET Fields : Shows(F)
  BY <1>1 DEF DataStep
<1>3. "messages" \in Fields /\ \A f \in Fields : Empty[f] = {}
  BY DEF Fields, Empty
<1>4. \A f \in Fields : data'[f] = IF f \in F THEN st'[f] ELSE data[f]
  BY <1>2 DEF Shows, Sync
<1>5. CASE \A f \in Fields \ F : st'[f] = st[f]
  BY <1>3, <1>4, <1>5 DEF InSync
<1>6. CASE "messages" \in F /\ st' = Empty
  BY <1>3, <1>4, <1>6 DEF InSync
<1> QED BY <1>2, <1>5, <1>6 DEF Shows

(***************************************************************************)
(* InSync, of any sessions and operations: no order of events, answers and *)
(* resets makes useAgentSession display what its event state does not have.*)
(***************************************************************************)
THEOREM InSyncAlways == Spec => []InSync
<1>1. Init => InSync
  BY DEF Init, InSync, Empty, Fields
<1>2. TypeInv /\ InSync /\ [Next]_vars => InSync'
  BY SyncKept
<1> QED BY <1>1, <1>2, TypeAlways, PTL DEF Spec

----------------------------------------------------------------------------
(* What is shown as streaming, and who will end it.                        *)

\* The calls whose end, or the end of what they go on to, stops the streaming.
Promises(c) ==
  \/ c.op \in {"send", "cancel", "nudge"}
  \/ c.op = "resume" /\ c.at \in {"attach"} \cup Reading

Expected ==
  ~cut =>
    /\ isStreaming \/ stuckTimer => \E c \in calls : Promises(c)
    /\ activity => \E c \in calls : Promises(c) \/ c.at = "wake"

LEMMA IdleExpected == ASSUME Idle PROVE Expected'
BY DEF Idle, stopStuckDetection, Expected

LEMMA PromisedExpected == ASSUME NEW d \in calls', Promises(d) PROVE Expected'
BY DEF Expected

\* A step after which no more is shown as going on, and no promise is gone.
LEMMA NoPromiseLost ==
  ASSUME Expected, cut => cut',
         isStreaming' => isStreaming, stuckTimer' => stuckTimer, activity' => activity,
         \A c \in calls : Promises(c) => c \in calls',
         \A c \in calls : c.at = "wake" => c \in calls'
  PROVE  Expected'
BY DEF Expected

LEMMA SendExpected ==
  ASSUME NEW s, NEW n, NEW others, SendMessage(s, n, others)
  PROVE  Expected'
<1> DEFINE d == [n |-> n, op |-> "send", s |-> s, at |-> "post",
                 depth |-> 0, done |-> FALSE, of |-> NoSession]
<1>1. d \in calls'
  BY DEF SendMessage
<1>2. Promises(d)
  BY DEF Promises
<1> QED BY <1>1, <1>2, PromisedExpected

LEMMA UserExpected == ASSUME TypeInv, Expected, User PROVE Expected'
<1>1. CASE createSession
  BY <1>1, NoPromiseLost DEF createSession, Begin
<1>2. CASE clearSession
  BY <1>2, IdleExpected DEF clearSession
<1>3. CASE Send
  BY <1>3, SendExpected DEF Send
<1>4. CASE SubmitUploads
  BY <1>4, NoPromiseLost DEF SubmitUploads, Begin, shown, refs
<1>5. ASSUME NEW o, AbortAnd(o) PROVE Expected'
  <2>1. CASE Aborted = {}
    BY <1>5, <2>1, NoPromiseLost DEF AbortAnd, AfterAbort, Begin
  <2>2. CASE Aborted # {}
    BY <1>5, <2>2, IdleExpected DEF AbortAnd
  <2> QED BY <2>1, <2>2
<1>6. ASSUME NEW s \in exists, resumeSession(s) PROVE Expected'
  BY <1>6, NoPromiseLost DEF resumeSession, Begin
<1> QED BY <1>1, <1>2, <1>3, <1>4, <1>5, <1>6 DEF User, cancelSession, nudgeAgent, deleteSession

\* A step of one call leaves the others.
LEMMA OthersPromise ==
  ASSUME Expected, cut => cut', NEW c \in calls, ~Promises(c), c.at = "wake" => ~activity',
         calls \ {c} \subseteq calls',
         isStreaming' => isStreaming, stuckTimer' => stuckTimer, activity' => activity
  PROVE  Expected'
BY DEF Expected

LEMMA CallExpected ==
  ASSUME TypeInv, Expected, NEW c \in calls, Step(c) \/ Chunk(c) \/ Complete(c)
  PROVE  Expected'
<1>1. c \in CallType /\ CallOK(c)
  BY DEF TypeInv, CallOK
<1>2. ASSUME Finish(c) PROVE Expected'
  BY <1>2, IdleExpected DEF Finish
<1>3. c.at \in Reading => Promises(c)
  BY <1>1 DEF CallOK, CallType, Promises, Reading, Single
<1>4. ASSUME NEW d, d \in calls', d.op = c.op, d.at \in Reading, c.op \in {"send", "resume"}
      PROVE  Expected'
  <2>1. Promises(d)
    BY <1>4 DEF Promises
  <2> QED BY <1>4, <2>1, PromisedExpected
<1>5. ASSUME NEW a \in Reading, Promises(c), c.op \in {"send", "resume"}
      PROVE  /\ \A n : [c EXCEPT !.at = a, !.depth = n] \in calls' => Expected'
             /\ \A i : [c EXCEPT !.at = a, !.of = i] \in calls' => Expected'
             /\ [c EXCEPT !.at = a] \in calls' => Expected'
  <2>1. ASSUME NEW n PROVE [c EXCEPT !.at = a, !.depth = n].op = c.op
                           /\ [c EXCEPT !.at = a, !.depth = n].at = a
    BY <1>1 DEF CallType
  <2>2. ASSUME NEW i PROVE [c EXCEPT !.at = a, !.of = i].op = c.op
                           /\ [c EXCEPT !.at = a, !.of = i].at = a
    BY <1>1 DEF CallType
  <2>3. [c EXCEPT !.at = a].op = c.op /\ [c EXCEPT !.at = a].at = a
    BY <1>1 DEF CallType
  <2> QED BY <1>4, <1>5, <2>1, <2>2, <2>3
<1>6. ASSUME Fallback(c), c.op \in {"send", "resume"}, c.at \in Reading PROVE Expected'
  BY <1>3, <1>5, <1>6 DEF Fallback, Reading
<1>7. ASSUME NEW n, Attached(c, n), Promises(c), c.op \in {"send", "resume"} PROVE Expected'
  BY <1>2, <1>5, <1>7 DEF Attached, Goes, Reading
<1>8. CASE Created(c) \/ Deleted(c) \/ ArtifactsLoaded(c)
  <2>1. ~Promises(c) /\ c.at # "wake"
    BY <1>1, <1>8 DEF Created, Deleted, ArtifactsLoaded, Promises, CallOK, Single
  <2> QED BY <1>8, <2>1, OthersPromise DEF Created, Deleted, ArtifactsLoaded, Over, eventState, counts
<1>9. CASE Uploaded(c)
  BY <1>9, SendExpected DEF Uploaded
<1>10. CASE Nudged(c)
  <2>1. [c EXCEPT !.op = "send", !.at = "post"].op = "send"
    BY <1>1 DEF CallType
  <2>2. [c EXCEPT !.op = "send", !.at = "post"] \in calls'
    BY <1>10 DEF Nudged, Goes
  <2> QED BY <2>1, <2>2, PromisedExpected DEF Promises
<1>11. CASE Posted(c)
  BY <1>7, <1>11, IdleExpected DEF Posted, Promises
<1>12. CASE Eof(c) \/ Checked(c) \/ Reattached(c)
  <2>1. c.at \in Reading /\ c.op \in {"send", "resume"} /\ Promises(c)
    BY <1>1, <1>3, <1>12 DEF Eof, Checked, Reattached, Reading, CallOK, CallType, Single
  <2> QED BY <1>2, <1>5, <1>6, <1>7, <1>12, <2>1 DEF Eof, Checked, Reattached, Goes, Reading
<1>13. CASE Restored(c)
  <2>1. c.at \in Reading /\ c.op \in {"send", "resume"} /\ Promises(c)
    BY <1>1, <1>3, <1>13 DEF Restored, Reading, CallOK, CallType, Single
  <2>2. CASE Goes(c, [c EXCEPT !.at = "legacy", !.of = sessionIdRef])
    BY <1>5, <2>1, <2>2 DEF Goes, Reading
  <2> QED BY <1>2, <1>13, <2>2, IdleExpected DEF Restored
<1>14. CASE Broken(c)
  BY <1>2, <1>14 DEF Broken, Expected
<1>15. CASE Cancelled(c)
  BY <1>15, IdleExpected DEF Cancelled
<1>16. CASE Loaded(c)
  <2>1. ~Promises(c) /\ c.at # "wake" /\ cut' = cut /\ isStreaming' = isStreaming
        /\ stuckTimer' = stuckTimer /\ calls \ {c} \subseteq calls'
    BY <1>16 DEF Loaded, Promises, Over, counts, Reading
  <2>2. CASE activity' = activity
    BY <2>1, <2>2, OthersPromise
  <2>3. CASE [c EXCEPT !.at = "wake"] \in calls'
    <3>1. [c EXCEPT !.at = "wake"].at = "wake"
      BY <1>1 DEF CallType
    <3>2. \A d \in calls : Promises(d) => d \in calls'
      BY <2>1
    <3> QED BY <2>1, <2>3, <3>1, <3>2 DEF Expected
  <2> QED BY <1>16, <2>2, <2>3 DEF Loaded, Over
<1>17. CASE Woken(c)
  <2>1. ~Promises(c)
    BY <1>1, <1>17 DEF Woken, Promises, CallOK, CallType, Single, Reading
  <2>2. calls \ {c} \subseteq calls'
    BY <1>17 DEF Woken, Goes, Over
  <2> QED BY <1>17, <2>1, <2>2, OthersPromise DEF Woken, refs, counts
<1>18. CASE Found(c)
  <2>1. CASE Goes(c, [c EXCEPT !.at = "attach"])
    <3>1. Promises([c EXCEPT !.at = "attach"])
      BY <1>1, <1>18 DEF Found, Promises, CallOK, CallType, Single, Reading
    <3> QED BY <2>1, <3>1, PromisedExpected DEF Goes
  <2>2. CASE Over(c, {}) /\ UNCHANGED <<isStreaming, streaming, activity, stuckTimer, abortControllerRef>>
    <3>1. ~Promises(c) /\ c.at # "wake"
      BY <1>1, <1>18 DEF Found, Promises, CallOK, CallType, Single, Reading
    <3> QED BY <1>18, <2>2, <3>1, OthersPromise DEF Found, Over, counts
  <2> QED BY <1>18, <2>1, <2>2 DEF Found
<1>19. CASE ResumeAttached(c)
  <2>1. Promises(c) /\ c.op \in {"send", "resume"}
    BY <1>1, <1>19 DEF ResumeAttached, Promises, CallOK, CallType, Single, Reading
  <2> QED BY <1>2, <1>7, <1>19, <2>1 DEF ResumeAttached
<1>20. CASE Chunk(c)
  <2>1. Promises(c)
    BY <1>3, <1>20 DEF Chunk, Reading
  <2>2. CASE Idle
    BY <2>2, IdleExpected
  <2>3. CASE calls' = calls \cup Loading(sessionIdRef)
    BY <2>1, <2>3, PromisedExpected
  <2> QED BY <1>20, <2>2, <2>3 DEF Chunk
<1>21. CASE Complete(c)
  <2>1. c.at \in Reading /\ Promises(c)
    BY <1>3, <1>21 DEF Complete, Reading
  <2>2. Promises([c EXCEPT !.done = TRUE])
    BY <1>1, <2>1 DEF Promises, CallType
  <2>3. CASE Kept(c)
    BY <1>21, <2>2, <2>3, PromisedExpected DEF Complete, Over
  <2>4. CASE ~Kept(c)
    BY <1>21, <2>4, IdleExpected DEF Complete
  <2> QED BY <2>3, <2>4
<1> QED BY <1>8, <1>9, <1>10, <1>11, <1>12, <1>13, <1>14, <1>15, <1>16, <1>17, <1>18, <1>19,
           <1>20, <1>21 DEF Step

LEMMA ExpectedKept == ASSUME TypeInv, Expected, [Next]_vars PROVE Expected'
<1>1. CASE UNCHANGED vars
  BY <1>1, NoPromiseLost DEF vars, shown, refs, counts
<1> QED BY <1>1, UserExpected, CallExpected DEF Next, Answer

(***************************************************************************)
(* Settled, of any sessions and operations: when every operation of        *)
(* useAgentSession has ended, in whatever order, the input is enabled, no  *)
(* activity is shown and the stuck detection is stopped, unless a stream   *)
(* that resumeSession attached to broke.                                   *)
(***************************************************************************)
THEOREM SettledAlways == Spec => []Settled
<1>1. Init => Expected
  BY DEF Init, Expected
<1>2. TypeInv /\ Expected /\ [Next]_vars => Expected'
  BY ExpectedKept
<1>3. Expected => Settled
  BY DEF Expected, Settled
<1> QED BY <1>1, <1>2, <1>3, TypeAlways, PTL DEF Spec

----------------------------------------------------------------------------
(* Operations that do not overlap.                                         *)

Main(c) == c.op # "artifacts"

\* createSession, and resumeSession, before their answers.
Opening(c) == c.op = "create" \/ (c.op = "resume" /\ c.at = "load")

Loader(c, id) == c.op = "artifacts" /\ c.at = "answer" /\ c.s = id

\* An operation on session s, which asks for what is stored of it only.
Fits(c, s, id) ==
  /\ Main(c) /\ ~Opening(c)
  /\ c.s = s
  /\ c.at \in {"restore", "legacy"} => c.of \in {NoSession, id}

RefFollows == session # NoSession => sessionIdRef = session

Cleared == \A f \in Fields \ {"todos"} : data[f] = {}

\* Beside the requests for artifacts there is one operation at most: on the
\* session shown, or one that opens a session, alone.
Apart ==
  \/ \A e \in calls : Loader(e, sessionIdRef)
  \/ \E d \in calls :
       /\ Fits(d, session, sessionIdRef)
       /\ \A e \in calls \ {d} : Loader(e, sessionIdRef)
  \/ \E d \in calls : calls = {d} /\ Opening(d) /\ (d.op = "create" => Cleared)

ShowsOne == session # NoSession => \A f \in Fields \ {"todos"} : data[f] \subseteq {session}

OneInv ==
  /\ RefFollows
  /\ ~overlapped => Apart /\ ShowsOne

LEMMA RefStep == ASSUME RefFollows, [Next]_vars PROVE RefFollows'
<1>1. CASE UNCHANGED <<session, sessionIdRef>>
  BY <1>1 DEF RefFollows
<1>2. ASSUME User, ~UNCHANGED <<session, sessionIdRef>> PROVE clearSession
  BY <1>2 DEF User, createSession, Send, SendMessage, SubmitUploads, cancelSession, nudgeAgent,
              deleteSession, AbortAnd, resumeSession, shown, refs
<1>3. CASE clearSession
  BY <1>3 DEF clearSession, RefFollows
<1>4. ASSUME NEW c \in calls, Step(c) \/ Chunk(c) \/ Complete(c),
             ~UNCHANGED <<session, sessionIdRef>>
      PROVE  Created(c) \/ Deleted(c) \/ Loaded(c)
  BY <1>4 DEF Step, Uploaded, SendMessage, Posted, Eof, Checked, Reattached, Restored, Broken, Cancelled,
              Nudged, Woken, Found, ResumeAttached, ArtifactsLoaded, Chunk, Complete, Attached, Finish,
              Fallback, shown, refs, counts
<1>5. ASSUME NEW c \in calls, Created(c) \/ Deleted(c) \/ Loaded(c) PROVE RefFollows'
  BY <1>5 DEF Created, Deleted, Loaded, RefFollows
<1> QED BY <1>1, <1>2, <1>3, <1>4, <1>5 DEF Next, Answer, vars, shown, refs

\* What Apart says of one of the calls.
LEMMA OtherLoaders ==
  ASSUME Apart, NEW c \in calls, Main(c)
  PROVE  \A e \in calls \ {c} : Loader(e, sessionIdRef)
BY DEF Apart, Main, Loader

LEMMA Fitting ==
  ASSUME Apart, NEW c \in calls, Main(c), ~Opening(c)
  PROVE  Fits(c, session, sessionIdRef)
BY DEF Apart, Main, Loader

LEMMA OpeningAlone ==
  ASSUME Apart, NEW c \in calls, Opening(c)
  PROVE  calls = {c} /\ (c.op = "create" => Cleared)
BY DEF Apart, Main, Loader, Fits, Opening

\* How a step establishes it.
LEMMA ApartLoading ==
  ASSUME \A e \in calls' : Loader(e, sessionIdRef')
  PROVE  Apart'
BY DEF Apart

LEMMA ApartFitting ==
  ASSUME NEW d, Fits(d, session', sessionIdRef'),
         \A e \in calls' : e = d \/ Loader(e, sessionIdRef')
  PROVE  Apart'
BY DEF Apart

LEMMA ApartOpening ==
  ASSUME NEW d, calls' = {d}, Opening(d), d.op = "create" => Cleared'
  PROVE  Apart'
BY DEF Apart

LEMMA LoadingLoads ==
  ASSUME TypeInv
  PROVE  /\ \A e \in Loading(sessionIdRef) : Loader(e, sessionIdRef)
         /\ \A c \in calls : \A e \in Loading(c.s) : Loader(e, c.s)
<1>1. sessionIdRef \in Whose /\ \A c \in calls : c.s \in Whose
  BY DEF TypeInv, TypeOK, Whose
<1>2. \A id \in Whose : \A e \in Loading(id) : Loader(e, id)
  BY Loads DEF Loader
<1> QED BY <1>1, <1>2

\* What is shown while the session stays.
LEMMA ShownStays ==
  ASSUME ShowsOne, session' = session,
         \A f \in Fields \ {"todos"} : data'[f] \subseteq data[f] \cup {session}
  PROVE  ShowsOne'
BY DEF ShowsOne

LEMMA Whole ==
  ASSUME TypeInv, InSync
  PROVE  \A f \in Fields : st[f] \subseteq data[f]
BY DEF InSync

LEMMA MessageShown ==
  ASSUME TypeInv, InSync, ShowsOne, session' = session,
         st' = [st EXCEPT !["messages"] = @ \cup {session}], Sync({"messages"})
  PROVE  ShowsOne'
<1>1. \A f \in Fields : data'[f] \subseteq data[f] \cup {session}
  BY Whole DEF Sync, TypeInv, TypeOK
<1> QED BY <1>1, ShownStays

LEMMA UserApart ==
  ASSUME TypeInv, InSync, OneInv, User, ~overlapped'
  PROVE  Apart' /\ ShowsOne'
<1>1. Begin
  BY DEF User, createSession, clearSession, Send, SubmitUploads, cancelSession, nudgeAgent,
         deleteSession, AbortAnd, resumeSession
<1>2. calls = {} /\ ShowsOne
  BY <1>1 DEF Begin, OneInv
<1>3. Aborted = {}
  BY <1>2 DEF Aborted
<1>4. CASE createSession
  <2>1. Opening(Call("create", NoSession, "answer"))
    BY DEF Opening, Call
  <2>2. Cleared'
    BY <1>4 DEF createSession, Reset, Sync, Cleared, Empty
  <2>3. calls' = {Call("create", NoSession, "answer")}
    BY <1>2, <1>4 DEF createSession
  <2> QED BY <2>1, <2>2, <2>3, ApartOpening DEF Cleared, ShowsOne
<1>5. CASE clearSession
  BY <1>2, <1>5, ApartLoading DEF clearSession, ShowsOne
<1>6. CASE Send
  <2> DEFINE d == [n |-> ops', op |-> "send", s |-> session, at |-> "post",
                   depth |-> 0, done |-> FALSE, of |-> NoSession]
  <2>1. calls' = {d} /\ session' = session
    BY <1>2, <1>6 DEF Send, SendMessage
  <2>2. Fits(d, session, sessionIdRef')
    BY DEF Fits, Main, Opening
  <2>3. ShowsOne'
    BY <1>2, <1>6, MessageShown DEF Send, SendMessage
  <2> HIDE DEF d
  <2>4. Apart'
    BY <2>1, <2>2, ApartFitting
  <2> QED BY <2>3, <2>4
<1>7. CASE SubmitUploads
  <2>1. calls' = {Call("upload", session, "answer")} /\ session' = session
    BY <1>2, <1>7 DEF SubmitUploads, shown
  <2>2. Fits(Call("upload", session, "answer"), session, sessionIdRef')
    BY DEF Fits, Main, Opening, Call
  <2>3. Apart'
    BY <2>1, <2>2, ApartFitting
  <2> QED BY <1>2, <1>7, <2>3 DEF SubmitUploads, shown, ShowsOne
<1>8. ASSUME NEW o \in {"cancel", "nudge", "delete"}, AbortAnd(o) PROVE Apart' /\ ShowsOne'
  <2>1. calls' = {Call(o, session, "answer")} /\ session' = session
    BY <1>2, <1>3, <1>8 DEF AbortAnd, AfterAbort
  <2>2. Fits(Call(o, session, "answer"), session, sessionIdRef')
    BY DEF Fits, Main, Opening, Call
  <2>3. Apart'
    BY <2>1, <2>2, ApartFitting
  <2> QED BY <1>2, <1>8, <2>3 DEF AbortAnd, ShowsOne
<1>9. ASSUME NEW s \in exists, resumeSession(s) PROVE Apart' /\ ShowsOne'
  <2>1. Opening(Call("resume", s, "load")) /\ Call("resume", s, "load").op # "create"
    BY DEF Opening, Call
  <2>2. calls' = {Call("resume", s, "load")}
    BY <1>2, <1>9 DEF resumeSession
  <2>3. Apart'
    BY <2>1, <2>2, ApartOpening
  <2>4. \A f \in Fields : data'[f] \subseteq data[f]
    BY <1>9 DEF resumeSession, Reset, Empty, Sync, TypeInv, TypeOK
  <2> QED BY <1>2, <1>9, <2>3, <2>4, ShownStays DEF resumeSession
<1> QED BY <1>4, <1>5, <1>6, <1>7, <1>8, <1>9 DEF User, cancelSession, nudgeAgent, deleteSession

\* The calls, after a step of an operation that the session shown has.
LEMMA CallApart ==
  ASSUME TypeInv, Apart, NEW c \in calls, Main(c), ~Opening(c),
         Step(c) \/ Chunk(c) \/ Complete(c)
  PROVE  Apart' /\ sessionIdRef' = sessionIdRef
<1> DEFINE id == sessionIdRef
<1>1. c \in CallType /\ CallOK(c)
  BY DEF TypeInv, CallOK
<1>2. Fits(c, session, id) /\ \A e \in calls \ {c} : Loader(e, id)
  BY Fitting, OtherLoaders
<1>3. \A e \in Loading(id) : Loader(e, id)
  BY LoadingLoads
<1>4. ASSUME sessionIdRef' = id, calls' \subseteq (calls \ {c}) \cup Loading(id) PROVE Apart'
  BY <1>2, <1>3, <1>4, ApartLoading
<1>5. ASSUME NEW d, sessionIdRef' = id, session' = session, Fits(d, session, id),
             calls' \subseteq ((calls \ {c}) \cup {d}) \cup Loading(id)
      PROVE  Apart'
  BY <1>2, <1>3, <1>5, ApartFitting
<1>6. c.op # "create"
  BY DEF Opening
<1>7. ASSUME NEW a \in {"post", "read", "check", "reattach", "status", "attach"}
      PROVE  /\ Fits([c EXCEPT !.at = a], session, id)
             /\ \A n : Fits([c EXCEPT !.at = a, !.depth = n], session, id)
             /\ Fits([c EXCEPT !.op = "send", !.at = a], session, id)
  BY <1>1, <1>2, <1>6 DEF Fits, Main, Opening, CallType
<1>8. ASSUME NEW a \in {"restore", "legacy"} PROVE Fits([c EXCEPT !.at = a, !.of = id], session, id)
  BY <1>1, <1>2, <1>6, <1>8 DEF Fits, Main, Opening, CallType
<1> HIDE DEF id
<1>9. ASSUME Finish(c) PROVE Apart' /\ sessionIdRef' = sessionIdRef
  BY <1>4, <1>9 DEF Finish, Over, id
<1>10. ASSUME Fallback(c) PROVE Apart' /\ sessionIdRef' = sessionIdRef
  BY <1>5, <1>8, <1>10 DEF Fallback, shown, refs, id
<1>11. ASSUME NEW n, Attached(c, n) PROVE Apart' /\ sessionIdRef' = sessionIdRef
  BY <1>5, <1>7, <1>9, <1>11 DEF Attached, Goes, shown, refs, id
<1>12. CASE Cancelled(c) \/ Deleted(c) \/ Broken(c)
  BY <1>4, <1>9, <1>12 DEF Cancelled, Deleted, Broken, Over, refs, id
<1>13. CASE Uploaded(c)
  <2> DEFINE d == [n |-> c.n, op |-> "send", s |-> c.s, at |-> "post",
                   depth |-> 0, done |-> FALSE, of |-> NoSession]
  <2>1. Fits(d, session, id)
    BY <1>2 DEF Fits, Main, Opening
  <2>2. calls' = (calls \ {c}) \cup {d}
    BY <1>13 DEF Uploaded, SendMessage
  <2> HIDE DEF d
  <2> QED BY <1>5, <1>13, <2>1, <2>2 DEF Uploaded, SendMessage, id
<1>14. CASE Nudged(c)
  BY <1>5, <1>7, <1>14 DEF Nudged, Goes, id
<1>15. CASE Posted(c) \/ Reattached(c) \/ ResumeAttached(c)
  BY <1>4, <1>9, <1>10, <1>11, <1>15 DEF Posted, Reattached, ResumeAttached, Over, id
<1>16. CASE Eof(c) \/ Checked(c)
  BY <1>5, <1>7, <1>9, <1>10, <1>16 DEF Eof, Checked, Goes, shown, refs, id
<1>17. CASE Restored(c)
  BY <1>4, <1>5, <1>8, <1>9, <1>17 DEF Restored, Goes, Over, shown, refs, id
<1>18. CASE Woken(c) \/ Found(c)
  BY <1>4, <1>5, <1>7, <1>18 DEF Woken, Found, Goes, Over, refs, id
<1>19. CASE Chunk(c)
  <2>1. calls' \subseteq ((calls \ {c}) \cup {c}) \cup Loading(id)
    BY <1>19 DEF Chunk, Over, id
  <2> QED BY <1>2, <1>5, <1>19, <2>1 DEF Chunk, id
<1>20. CASE Complete(c)
  <2>1. Fits([c EXCEPT !.done = TRUE], session, id)
    BY <1>1, <1>2 DEF Fits, Main, Opening, CallType
  <2>2. calls' \subseteq ((calls \ {c}) \cup {[c EXCEPT !.done = TRUE]}) \cup Loading(id)
    BY <1>20 DEF Complete, Over, id
  <2> QED BY <1>5, <1>20, <2>1, <2>2 DEF Complete, id
<1>21. ~Created(c) /\ ~Loaded(c) /\ ~ArtifactsLoaded(c)
  BY DEF Main, Opening, Created, Loaded, ArtifactsLoaded
<1> QED BY <1>12, <1>13, <1>14, <1>15, <1>16, <1>17, <1>18, <1>19, <1>20, <1>21 DEF Step

\* What is shown, after a step of an operation that the session shown has.
LEMMA CallShows ==
  ASSUME TypeInv, InSync, RefFollows, Apart, ShowsOne, NEW c \in calls, Main(c), ~Opening(c),
         Step(c) \/ Chunk(c) \/ Complete(c)
  PROVE  ShowsOne'
<1>1. Fits(c, session, sessionIdRef) /\ c.op # "create"
  BY Fitting DEF Opening
<1>2. ASSUME UNCHANGED <<session, data>> PROVE ShowsOne'
  BY <1>2 DEF ShowsOne
<1>3. CASE \/ Posted(c) \/ Eof(c) \/ Checked(c) \/ Reattached(c) \/ Broken(c) \/ Cancelled(c)
           \/ Woken(c) \/ Found(c) \/ ResumeAttached(c) \/ Complete(c)
  BY <1>2, <1>3 DEF Posted, Eof, Checked, Reattached, Broken, Cancelled, Woken, Found, ResumeAttached,
                    Complete, Attached, Finish, Fallback, shown, refs
<1>4. CASE Uploaded(c) \/ Nudged(c)
  BY <1>1, <1>4, MessageShown DEF Uploaded, Nudged, SendMessage, Fits
<1>5. CASE Restored(c)
  <2>1. CASE c.of # NoSession /\ st' = [f \in Fields |-> {c.of}] /\ Sync(Fields) /\ session' = session
    <3>1. session # NoSession => c.of = session
      BY <1>1, <1>5, <2>1 DEF Restored, Fits, RefFollows
    <3>2. \A f \in Fields : data'[f] = {c.of}
      BY <2>1 DEF Sync
    <3> QED BY <2>1, <3>1, <3>2 DEF ShowsOne
  <2> QED BY <1>2, <1>5, <2>1 DEF Restored, Finish, shown, refs
<1>6. CASE Deleted(c)
  <2>1. CASE session' = NoSession
    BY <2>1 DEF ShowsOne
  <2> QED BY <1>2, <1>6, <2>1 DEF Deleted
<1>7. CASE Chunk(c)
  <2>1. PICK F \in {{}, Fields} : Reduce(c, F)
    BY <1>7 DEF Chunk
  <2>2. \A f \in Fields : st[f] \subseteq data[f]
    BY Whole
  <2>3. \A f \in Fields : data'[f] \subseteq data[f] \cup {session}
    BY <1>1, <2>1, <2>2 DEF Reduce, Sync, Fits
  <2> QED BY <1>7, <2>3, ShownStays DEF Chunk
<1>8. ~Created(c) /\ ~Loaded(c) /\ ~ArtifactsLoaded(c)
  BY DEF Main, Opening, Created, Loaded, ArtifactsLoaded
<1> QED BY <1>3, <1>4, <1>5, <1>6, <1>7, <1>8 DEF Step

\* The answer to createSession or resumeSession.
LEMMA OpenedApart ==
  ASSUME TypeInv, RefFollows, Apart, ShowsOne, NEW c \in calls, Opening(c),
         Step(c) \/ Chunk(c) \/ Complete(c)
  PROVE  Apart' /\ ShowsOne'
<1>1. calls = {c} /\ (c.op = "create" => Cleared)
  BY OpeningAlone
<1>2. c \in CallType /\ CallOK(c)
  BY DEF TypeInv, CallOK
<1>3. Created(c) \/ Loaded(c)
  BY <1>2 DEF Opening, CallOK, Single, Step, Uploaded, Posted, Eof, Checked, Reattached, Restored, Broken,
              Cancelled, Nudged, Deleted, Woken, Found, ResumeAttached, ArtifactsLoaded, Chunk, Complete
<1>4. CASE Created(c)
  <2>1. calls' = {}
    BY <1>1, <1>4 DEF Created, Over
  <2>2. Cleared /\ data' = data
    BY <1>1, <1>4 DEF Created
  <2>3. Apart'
    BY <2>1, ApartLoading
  <2>4. ShowsOne'
    BY <2>2 DEF Cleared, ShowsOne
  <2> QED BY <2>3, <2>4
<1>5. CASE Loaded(c)
  <2>1. CASE Over(c, {}) /\ UNCHANGED <<session, data, st, sessionIdRef, activity>>
    <3>1. calls' = {}
      BY <1>1, <2>1 DEF Over
    <3> QED BY <2>1, <3>1, ApartLoading DEF ShowsOne
  <2>2. CASE /\ st' = [f \in Fields |-> {c.s}] /\ Sync(Fields)
             /\ session' = c.s /\ sessionIdRef' = c.s
             /\ \/ \E a \in {"wake", "status"} : Over(c, {[c EXCEPT !.at = a]} \cup Loading(c.s))
                \/ Over(c, Loading(c.s))
    <3>1. \A e \in Loading(c.s) : Loader(e, c.s)
      BY LoadingLoads
    <3>2. \A f \in Fields : data'[f] = {c.s}
      BY <2>2 DEF Sync
    <3>3. ASSUME NEW a \in {"wake", "status"}, Over(c, {[c EXCEPT !.at = a]} \cup Loading(c.s))
          PROVE  Apart'
      <4>1. Fits([c EXCEPT !.at = a], c.s, c.s)
        BY <1>2, <1>5 DEF Loaded, Fits, Main, Opening, CallType
      <4>2. \A e \in calls' : e = [c EXCEPT !.at = a] \/ Loader(e, c.s)
        BY <1>1, <3>1, <3>3 DEF Over
      <4> QED BY <2>2, <4>1, <4>2, ApartFitting
    <3>4. ASSUME Over(c, Loading(c.s)) PROVE Apart'
      BY <1>1, <2>2, <3>1, <3>4, ApartLoading DEF Over
    <3> QED BY <2>2, <3>2, <3>3, <3>4 DEF ShowsOne
  <2> QED BY <1>5, <2>1, <2>2 DEF Loaded
<1> QED BY <1>3, <1>4, <1>5

\* The answer to loadArtifacts.
LEMMA LoadedApart ==
  ASSUME TypeInv, InSync, RefFollows, Apart, ShowsOne, NEW c \in calls, ~Main(c),
         Step(c) \/ Chunk(c) \/ Complete(c)
  PROVE  Apart' /\ ShowsOne'
<1>1. CallOK(c)
  BY DEF TypeInv
<1>2. ArtifactsLoaded(c)
  BY <1>1 DEF Main, CallOK, Single, Step, Created, Uploaded, Posted, Eof, Checked, Reattached, Restored,
              Broken, Cancelled, Nudged, Deleted, Loaded, Woken, Found, ResumeAttached, Chunk, Complete
<1>3. calls' = calls \ {c} /\ session' = session /\ sessionIdRef' = sessionIdRef
  BY <1>2 DEF ArtifactsLoaded, Over
<1>4. Apart'
  <2>1. CASE \A e \in calls : Loader(e, sessionIdRef)
    BY <1>3, <2>1, ApartLoading
  <2>2. ASSUME NEW d \in calls, Fits(d, session, sessionIdRef),
               \A e \in calls \ {d} : Loader(e, sessionIdRef)
        PROVE  Apart'
    BY <1>3, <2>2, ApartFitting
  <2>3. ASSUME NEW d \in calls, calls = {d}, Opening(d) PROVE FALSE
    BY <2>3 DEF Main, Opening
  <2> QED BY <2>1, <2>2, <2>3 DEF Apart
<1>5. session # NoSession => c.s = session
  BY OpeningAlone DEF Apart, RefFollows, Loader, Main, Opening, Fits
<1>6. \A f \in Fields : data'[f] \subseteq data[f] \cup {c.s}
  <2>1. CASE UNCHANGED <<st, data>>
    BY <2>1
  <2>2. ASSUME NEW live \in {{}, st["artifacts"]},
               st' = [st EXCEPT !["artifacts"] = {c.s} \cup live], Sync({"artifacts"})
        PROVE  \A f \in Fields : data'[f] \subseteq data[f] \cup {c.s}
    BY <2>2, Whole DEF Sync, TypeInv, TypeOK
  <2> QED BY <1>2, <2>1, <2>2 DEF ArtifactsLoaded
<1>7. ShowsOne'
  BY <1>3, <1>5, <1>6 DEF ShowsOne
<1> QED BY <1>4, <1>7

LEMMA OverlappedStays == ASSUME TypeInv, [Next]_vars, ~overlapped' PROVE ~overlapped
<1>1. CASE UNCHANGED overlapped
  BY <1>1
<1>2. CASE Begin
  BY <1>2 DEF Begin
<1> QED BY <1>1, <1>2, ZenonT(40) DEF Next, User, Answer, Step, createSession, clearSession, Send, SubmitUploads,
       cancelSession, nudgeAgent, deleteSession, AbortAnd, resumeSession, Created, Uploaded, Posted, Eof,
       Checked, Reattached, Restored, Broken, Cancelled, Nudged, Deleted, Loaded, Woken, Found,
       ResumeAttached, ArtifactsLoaded, Chunk, Complete, Attached, Fallback, counts, vars

LEMMA OneKept == ASSUME TypeInv, InSync, OneInv, [Next]_vars PROVE OneInv'
<1>1. RefFollows'
  BY RefStep DEF OneInv
<1>2. ASSUME ~overlapped' PROVE Apart' /\ ShowsOne'
  <2>1. RefFollows /\ Apart /\ ShowsOne
    BY <1>2, OverlappedStays DEF OneInv
  <2>2. CASE User
    BY <1>2, <2>2, UserApart
  <2>3. ASSUME NEW c \in calls, Step(c) \/ Chunk(c) \/ Complete(c) PROVE Apart' /\ ShowsOne'
    BY <2>1, <2>3, CallApart, CallShows, OpenedApart, LoadedApart
  <2>4. CASE UNCHANGED vars
    BY <2>1, <2>4 DEF vars, shown, refs, Apart, ShowsOne, Cleared
  <2> QED BY <2>2, <2>3, <2>4 DEF Next, Answer
<1> QED BY <1>1, <1>2 DEF OneInv

(***************************************************************************)
(* OneSession, of any sessions and operations: if each operation of the    *)
(* user begins after the one before has ended, the hook shows no message,  *)
(* question, table or artifact of a session that is not shown, although    *)
(* requests for artifacts go on beside them and streams reconnect.         *)
(***************************************************************************)
THEOREM OneSessionAlways == Spec => []OneSession
<1>1. Init => OneInv
  BY DEF Init, OneInv, RefFollows, Apart, ShowsOne
<1>2. TypeInv /\ InSync /\ OneInv /\ [Next]_vars => OneInv'
  BY OneKept
<1>3. OneInv => OneSession
  BY DEF OneInv, ShowsOne, OneSession
<1> QED BY <1>1, <1>2, <1>3, TypeAlways, InSyncAlways, PTL DEF Spec

=============================================================================
