------------------------------ MODULE Composer ------------------------------
(***************************************************************************)
(* The composer of the chat UI: the text typed, the files attached         *)
(* (hooks/useFileAttachments.ts), the voice dictated                       *)
(* (hooks/useVoiceDictation.ts), the toolbar that has the buttons for both *)
(* (components/ChatInputToolbar.tsx), the overlay that stands in for it    *)
(* during a recording (components/RecordingOverlay.tsx) and the submission *)
(* (handleSubmit of components/AgentChat.tsx), which awaits the uploads.   *)
(*                                                                         *)
(* Text is a set of pieces, each typed or dictated once.  A session is     *)
(* shown (ChatSession has what changes of it do); a turn streams from the  *)
(* submission on until it ends.  Left out: what the level meter draws, the *)
(* choice of a microphone, texts of errors.                                *)
(***************************************************************************)
EXTENDS Naturals, Sequences, FiniteSets, Functions

CONSTANTS MaxPieces, MaxFiles, MaxSubmits, MaxStarts    \* bounds

ASSUME ComposerAssumption == MaxStarts \in Nat /\ MaxFiles \in Nat

Files == 1..MaxFiles
Recordings == 1..MaxStarts

VARIABLES
  input,           \* the text in the input
  pieces,          \* how many so far
  calm,            \* the pieces that came while no submission was under way
  sent,            \* the text of the messages sent
  isStreaming,
  attachments,     \* the files attached: their uploadState
  added,           \* how many files so far
  urls,            \* files with an object URL, for the preview
  posts,           \* how often each file was uploaded
  submits,         \* submissions that await uploads
  submitted,       \* how many submissions so far
  recording,       \* each recording: "none", "starting", "on", "stopping", "posted", "over",
                   \* or "stuck": its recorder could not be made or started
  isRecording,
  isTranscribing,
  recorderRef,     \* mediaRecorderRef, 0 for none
  stream,          \* the recording whose stream is in React state, 0 for none
  mics,            \* the recordings whose microphone is open
  chunksRef,       \* whether there are chunks
  metered,         \* the overlay's AudioContext, meter and clock run
  doubled          \* a start began before an earlier one was answered

textVars == <<input, pieces, calm, sent, isStreaming>>
fileVars == <<attachments, added, urls, posts>>
submitVars == <<submits, submitted>>
voiceVars == <<recording, isRecording, isTranscribing, recorderRef, stream, mics, chunksRef,
               metered, doubled>>
composerVars == <<textVars, fileVars, submitVars, voiceVars>>

ComposerInit ==
  /\ input = {} /\ pieces = 0 /\ calm = {} /\ sent = {} /\ isStreaming = FALSE
  /\ attachments = <<>> /\ added = 0 /\ urls = {} /\ posts = [f \in Files |-> 0]
  /\ submits = {} /\ submitted = 0
  /\ recording = [r \in Recordings |-> "none"]
  /\ isRecording = FALSE /\ isTranscribing = FALSE
  /\ recorderRef = 0 /\ stream = 0 /\ mics = {} /\ chunksRef = FALSE
  /\ metered = FALSE /\ doubled = FALSE

----------------------------------------------------------------------------
(* The toolbar: its buttons and the previews of the files, or the overlay. *)

ToolbarShown == ~isRecording

\* The microphone's button.  It is not disabled while the microphone is asked for.
MicEnabled == ToolbarShown /\ ~isStreaming /\ ~isTranscribing

\* The overlay's first render with a stream starts its meter.
OverlayShows == metered' = (metered \/ (isRecording' /\ stream' # 0))

\* Its cleanup, which its two buttons do first.
cleanup == metered' = FALSE

----------------------------------------------------------------------------
(* Text.                                                                   *)

comesInstead ==              \* mutant: the new text replaces what is there
  /\ pieces < MaxPieces
  /\ pieces' = pieces + 1
  /\ input' = {pieces'}
  /\ calm' = IF submits = {} THEN calm \cup {pieces'} ELSE calm
  /\ UNCHANGED <<sent, isStreaming>>

\* A piece comes into the input.
Comes ==
  /\ pieces < MaxPieces
  /\ pieces' = pieces + 1
  /\ input' = input \cup {pieces'}
  /\ calm' = IF submits = {} THEN calm \cup {pieces'} ELSE calm
  /\ UNCHANGED <<sent, isStreaming>>

\* The input is disabled while a turn streams, not while files are uploaded.
Type ==
  /\ ~isStreaming
  /\ Comes
  /\ UNCHANGED <<fileVars, submitVars, voiceVars>>

\* A turn ends, or is stopped (the button, or Escape).
TurnEnds ==
  /\ isStreaming
  /\ isStreaming' = FALSE
  /\ UNCHANGED <<input, pieces, calm, sent, fileVars, submitVars, voiceVars>>

----------------------------------------------------------------------------
(* Attachments.                                                            *)

Attached == DOMAIN attachments

\* attachments.filter: the one sequence of the files that are pending, as they came.
Pending ==
  LET files == {f \in Attached : attachments[f] = "pending"}
  IN {s \in [1..Cardinality(files) -> files] : \A i, j \in DOMAIN s : i < j => s[i] < s[j]}

\* A file of more than 100 MB is passed over; an image has a preview.  Files come
\* by the paperclip, unless a turn streams; those that are dropped at any time.
addFiles ==
  /\ added < MaxFiles
  /\ added' = added + 1
  /\ attachments' = [f \in Attached \cup {added'} |-> IF f = added' THEN "pending" ELSE attachments[f]]
  /\ \/ urls' = urls \cup {added'}
     \/ UNCHANGED urls
  /\ UNCHANGED <<posts, textVars, submitVars, voiceVars>>

removeFile(f) ==
  /\ f \in Attached /\ ToolbarShown
  /\ attachments' = Restrict(attachments, Attached \ {f})
  /\ urls' = urls \ {f}
  /\ UNCHANGED <<added, posts, textVars, submitVars, voiceVars>>

clear == attachments' = <<>> /\ urls' = urls \ Attached

----------------------------------------------------------------------------
(* Submission.                                                             *)

\* onSendMessage: the message, then an empty input.
Message(text) ==
  /\ sent' = sent \cup text
  /\ isStreaming' = TRUE
  /\ input' = {}
  /\ UNCHANGED <<pieces, calm>>

\* The next file of a submission is uploaded, or all are.
Uploading(x) ==
  IF x.todo = <<>> THEN UNCHANGED posts
  ELSE posts' = [posts EXCEPT ![Head(x.todo)] = @ + 1]

submitUnmarked ==            \* mutant: pending files are not marked as uploading
  /\ input # {} /\ ~isStreaming
  /\ submitted < MaxSubmits
  /\ submitted' = submitted + 1
  /\ \E todo \in Pending :
       LET x == [n |-> submitted', text |-> input, todo |-> todo]
       IN /\ Attached # {}
          /\ submits' = submits \cup {x}
          /\ Uploading(x)
          /\ UNCHANGED <<attachments, urls, textVars>>
  /\ UNCHANGED <<added, voiceVars>>

\* Without attachments the message goes at once.  With some, those that are
\* pending are marked and uploaded in turn (none are, if an earlier submission
\* has them: then it sends as soon as its own code goes on).
handleSubmit ==
  /\ input # {} /\ ~isStreaming
  /\ submitted < MaxSubmits
  /\ submitted' = submitted + 1
  /\ \E todo \in Pending :
       LET x == [n |-> submitted', text |-> input, todo |-> todo]
       IN \/ /\ Attached = {}
             /\ Message(input)
             /\ UNCHANGED <<attachments, urls, posts, submits>>
          \/ /\ Attached # {} /\ todo # <<>>
             /\ submits' = submits \cup {x}
             /\ attachments' = [f \in Attached |->
                  IF attachments[f] = "pending" THEN "uploading" ELSE attachments[f]]
             /\ Uploading(x)
             /\ UNCHANGED <<urls, textVars>>
          \/ /\ Attached # {} /\ todo = <<>>
             /\ Message(input)
             /\ clear
             /\ UNCHANGED <<posts, submits>>
  /\ UNCHANGED <<added, voiceVars>>

\* The message of a submission has the text that its render had.
Submitted(x) == Message(x.text)

\* The answer to an upload: the next one, or, after the last, the message.
\* What was attached meanwhile goes with clear.
Uploaded(x) ==
  LET f == Head(x.todo)
      rest == [x EXCEPT !.todo = Tail(@)]
      marked(state) == [g \in Attached |-> IF g = f THEN state ELSE attachments[g]]
  IN /\ x.todo # <<>>
     /\ \/ /\ rest.todo # <<>>
           /\ submits' = (submits \ {x}) \cup {rest}
           /\ \E state \in {"uploaded", "error"} : attachments' = marked(state)
           /\ UNCHANGED <<urls, textVars>>
        \/ /\ rest.todo = <<>>
           /\ submits' = submits \ {x}
           /\ clear
           /\ Submitted(x)
     /\ Uploading(rest)
     /\ UNCHANGED <<added, submitted, voiceVars>>

----------------------------------------------------------------------------
(* Dictation.                                                              *)

NextRecording == CHOOSE r \in Recordings : recording[r] = "none"
                                           /\ \A q \in 1..(r - 1) : recording[q] # "none"

startRecording ==
  /\ MicEnabled
  /\ \E r \in Recordings : recording[r] = "none"
  /\ recording' = [recording EXCEPT ![NextRecording] = "starting"]
  /\ doubled' = (doubled \/ \E r \in Recordings : recording[r] = "starting")
  /\ UNCHANGED <<isRecording, isTranscribing, recorderRef, stream, mics, chunksRef, metered,
                 textVars, fileVars, submitVars>>

\* getUserMedia answers (a device that is gone is asked for again, as default).
\* No try is around what makes the AudioContext and the recorder and starts it.
Granted(r) ==
  /\ recording[r] = "starting"
  /\ \/ /\ recording' = [recording EXCEPT ![r] = "on"]
        /\ mics' = mics \cup {r}
        /\ stream' = r
        /\ recorderRef' = r
        /\ chunksRef' = FALSE
        /\ isRecording' = TRUE
        /\ OverlayShows
     \/ /\ recording' = [recording EXCEPT ![r] = "stuck"]
        /\ mics' = mics \cup {r}
        /\ stream' = r
        /\ \/ recorderRef' = r /\ chunksRef' = FALSE
           \/ UNCHANGED <<recorderRef, chunksRef>>
        /\ UNCHANGED isRecording
        /\ OverlayShows
     \/ /\ recording' = [recording EXCEPT ![r] = "over"]
        /\ UNCHANGED <<mics, stream, recorderRef, chunksRef, isRecording, metered>>
  /\ UNCHANGED <<isTranscribing, doubled, textVars, fileVars, submitVars>>

Data(r) ==
  /\ recording[r] = "on"
  /\ ~chunksRef
  /\ chunksRef' = TRUE
  /\ UNCHANGED <<recording, isRecording, isTranscribing, recorderRef, stream, mics, metered, doubled,
                 textVars, fileVars, submitVars>>

\* mediaRecorderRef.current.stop(), if it records.
Stop == recording' = [r \in Recordings |->
          IF r = recorderRef /\ recording[r] = "on" THEN "stopping" ELSE recording[r]]

\* Done, in the overlay: the only way to stop, as the button is not shown.
stopRecording ==
  /\ isRecording
  /\ cleanup
  /\ Stop
  /\ isRecording' = FALSE
  /\ UNCHANGED <<isTranscribing, recorderRef, stream, mics, chunksRef, doubled,
                 textVars, fileVars, submitVars>>

cancelRecording ==
  /\ isRecording
  /\ cleanup
  /\ chunksRef' = FALSE
  /\ Stop
  /\ mics' = mics \ {stream}
  /\ stream' = 0
  /\ isRecording' = FALSE
  /\ UNCHANGED <<isTranscribing, recorderRef, doubled, textVars, fileVars, submitVars>>

stoppedKeepsMic(r) ==        \* mutant: the tracks are not stopped
  /\ recording[r] = "stopping"
  /\ recording' = [recording EXCEPT ![r] = "over"]
  /\ stream' = 0
  /\ UNCHANGED <<isRecording, isTranscribing, recorderRef, mics, chunksRef, metered, doubled,
                 textVars, fileVars, submitVars>>

\* The recorder's last data, then onstop: what was recorded is transcribed,
\* that last data of a recording that was cancelled included.
Stopped(r) ==
  /\ recording[r] = "stopping"
  /\ chunksRef' \in {chunksRef, TRUE}
  /\ mics' = mics \ {r}
  /\ stream' = 0
  /\ recording' = [recording EXCEPT ![r] = IF chunksRef' THEN "posted" ELSE "over"]
  /\ isTranscribing' = (isTranscribing \/ chunksRef')
  /\ UNCHANGED <<isRecording, recorderRef, metered, doubled, textVars, fileVars, submitVars>>

\* The text, if there is any, is added to the input whatever it has by then.
Transcribed(r) ==
  /\ recording[r] = "posted"
  /\ recording' = [recording EXCEPT ![r] = "over"]
  /\ isTranscribing' = FALSE
  /\ Comes \/ UNCHANGED textVars
  /\ UNCHANGED <<isRecording, recorderRef, stream, mics, chunksRef, metered, doubled,
                 fileVars, submitVars>>

----------------------------------------------------------------------------
Voice == \E r \in Recordings : Granted(r) \/ Stopped(r) \/ Transcribed(r)

Uploads == \E x \in submits : Uploaded(x)

ComposerNext ==
  \/ Type \/ TurnEnds
  \/ addFiles \/ (\E f \in Files : removeFile(f))
  \/ handleSubmit \/ Uploads
  \/ startRecording \/ stopRecording \/ cancelRecording
  \/ Voice \/ \E r \in Recordings : Data(r)

ComposerSpec == ComposerInit /\ [][ComposerNext]_composerVars

----------------------------------------------------------------------------
(* Properties.                                                             *)

(***************************************************************************)
(* No file is uploaded twice, however often the user submits while uploads *)
(* are under way.                                                          *)
(***************************************************************************)
UploadedOnce == \A f \in Files : posts[f] <= 1

(***************************************************************************)
(* Text that came while no submission was under way is in the input, in a  *)
(* submission under way, or in a message that was sent.                    *)
(***************************************************************************)
TextKept == calm \subseteq input \cup sent \cup UNION {x.text : x \in submits}

(***************************************************************************)
(* The microphone is open only while recording is shown or about to end,   *)
(* if no start was asked for during another; and the overlay's AudioContext*)
(* and animation run as long as it is shown and no longer.  The exception  *)
(* is a recording whose AudioContext or recorder throws                    *)
(* (useVoiceDictation.ts:111-167): its microphone stays open and nothing   *)
(* shows it.                                                               *)
(***************************************************************************)
MicShown ==
  /\ ~doubled =>
       \A r \in mics :
         recording[r] \in {"stopping", "stuck"} \/ (r = recorderRef /\ isRecording)
  /\ metered = isRecording

=============================================================================
