# agentkit: verification project

TLA+ models, TLC runs and TLAPS proofs for agentkit: a Go host that runs
LLM-agent sessions, each in a container of its own, with a TypeScript control
server inside the image and a React chat UI. All paths are relative to the
repository root, here `src/`.

## 1. Inventory

| Part | State it keeps | Operations | Talks to |
| --- | --- | --- | --- |
| **Port pool** `go/execenv/docker/ports.go` | free ports, leases | Allocate, Release, Adopt | DinD |
| **Docker-in-Docker environment** `go/execenv/docker/dind.go` | map of instances | Provision, Destroy, Snapshot, Exec, Status, Recover | port pool, Docker daemon, agent health |
| **Docker-socket environment** `socket.go` | map of instances | the same, without ports | Docker daemon |
| **Runner** `go/runner.go`, `progress.go` | tracked instances and workers, last activity, progress entries, query counter, pending flushes | CreateSession, SendMessage, Stream, Stop, Resume, Snapshot, Destroy, Start, archive loop | fleet, environments, registry, store, pipeline, in-image agent |
| **Fleet** `go/fleet` | registered and drained workers | Register, Deregister, PlaceForSession, WorkerForSession, Rebind; LeastLoaded and RoundRobin | store |
| **Store** `go/agentdb`, `go/extension/sqlitestore` | session rows (binding, snapshot handle, status), query events, messages | row updates, events upsert, queries | database |
| **Event pipeline** `go/events` | events collected of a turn | Run: tee, parse, hooks, compact, persist; optional cadence flusher | in-image stream, client, store |
| **Image registry** `go/imageregistry` | archives or tags | EnsurePresent, Persist, Materialize | Docker, blob store or OCI registry |
| **Artifacts** `go/artifacts`, `go/extension/blobartifacts` | records by id and by key | Save, Load, CaptureFolder, MarkLost | blob store |
| **HTTP API** `go/httpapi` | none | one handler per request; the create runs on in a goroutine | Runner, store |
| **In-image sandbox** `sandbox/src` | sessions, turns, stream listeners, event buffers, input-delta buffers, conversation | create, destroy, query-stream, stream, cancel, load-conversation | agent SDK |
| **Event reducer, replay** `web/src/agentEventReducer.ts`, `replayEvents.ts` | messages, calls, artifacts, questions of a conversation | one event, a stored row | session hook |
| **Session hook** `web/src/useAgentSession.ts` | the session shown, the event state in a ref, streaming, stuck timer, list of sessions, container poll | create, send, read a stream, reconnect, fall back, cancel, nudge, resume, delete, list, load more, poll | HTTP API, reducer |
| **Conversation view** `web/src/components/AgentChat.tsx`, `ToolCallGroup.tsx`, cards | what the user opened, answered, toggled | render, click, answer | session hook, plugins |
| **Composer** `AgentChat.tsx`, `web/src/hooks` | input, attachments, recorder | type, attach, upload, dictate, submit | HTTP API, browser |
| **Artifact views** `ArtifactViewer.tsx`, `ArtifactPreviewDialog.tsx`, `InlineArtifactPreview.tsx`, `ArtifactTreeView.tsx`, `ArtifactPanel.tsx` | selection, content, object URLs | select, fetch, show | HTTP API |
| **Session panels** `ChatHistoryDrawer.tsx`, `AgentSessionList.tsx`, `AgentChatProvider.tsx` | list, search text, results | refresh, search, select, delete | session hook, HTTP API |
| Derived images, skills, model proxy, mock model, title bot | caches at most | lookups, forwarding | - |

Who calls whom: a request handler calls one or two methods of the Runner in its
own goroutine. The Runner takes **no lock per session**: `mu` covers single map
accesses, so calls for one session interleave between any two accesses to the
Runner's maps, the store, the fleet, the environment or the agent. The archive
loop is one more goroutine that calls Snapshot and Destroy. After a restart
`Start` calls `Recover` of every worker's environment before anything is served.

What is hard, and so what the properties are about:

- overlapping calls for one session (two Provisions, two Destroys, a message and
  the archive loop, a message and a create or restore still under way);
- a crash between any two external steps, and what `Recover` makes of the rest;
- failure of one step of several (a create whose port must go back, an archive
  whose upload fails, a Destroy that stops a container and cannot remove it);
- state that is read and acted on later (idle list, tracked state, flush count);
- counters and memory that restart with the process, against rows that do not;
- the browser: one thread, but every `await` lets other handlers, renders and
  answers in, answers come in any order, and each closure sees its render's values;
- one conversation shown from two sources, the live stream and the stored rows;
- bounded resources: ports, container names, the 2000-event stream buffer.

What makes each part correct:

- *Port pool*: every port free or leased, to one session.
- *Environment*: no container forgotten, the address handed out is backed by the
  session's lease, no lease leaks, recovery adopts everything that runs.
- *Runner*: a finished turn's work, events and place in the agent's memory
  survive archive, restore, loss of a worker and restart; a session that was
  created can always be brought back; no stray containers; every call returns;
  an archive does not cut a turn.
- *Pipeline*: what is stored for a query at its end is everything streamed.
- *Sandbox*: one active turn per session; a consumer that attaches late sees
  every event, in order.
- *Chat UI*: what is restored is what was displayed; calls, artifacts and text appear
  once and in order; the display settles whatever ends first; nothing the user
  typed, attached or said is lost or sent twice; no view shows what was released;
  lists follow the host.
- *Registry, artifacts, store*: a restore reads what the last persist wrote; no
  update of a row loses another.

`PROJECT.json` lists each part with what is and is not modelled, and each
hazard at its line.

## 2. Modules

| Module | Models |
| --- | --- |
| `SessionPorts` | constants that the pool and the daemon share |
| `PortAllocator` | `ports.go`; each method is one step, as it runs under the pool's mutex |
| `DockerDaemon` | the Docker API as the adapters use it (external): ids, unique names, port binding at start |
| `DinD` | `dind.go`: Provision, Destroy, Recover over `PortAllocator` and `DockerDaemon`, with host crashes |
| `Environment` | what an execution environment promises: when a container of a session may come, be handed to the Runner, and go |
| `DinDEnvironment` | the refinement mapping of `DinD` to `Environment` |
| `MCDinD` | its TLC instances |
| `DinDProofs` | theorems about it and about the pool |
| `ExecEnv` | what the Runner relies on: environments with Provision, Destroy and Snapshot in one step each, and of a container the turns in its filesystem and in its agent's memory |
| `Runner` | `runner.go` over several `ExecEnv` workers, with the placement of `fleet/memory.go`, the store's bindings, handles and events, the persist step of the pipeline, the archive loop and host restarts |
| `MCRunner`, `RunnerProofs` | its TLC instances, its theorems |
| `StreamService` | `stream-service.ts`: each method as a function of what the service keeps for one key |
| `Sandbox` | the in-image server: session manager, session routes, and the turns of the Claude Agent SDK harness over `StreamService` |
| `MCSandbox`, `SandboxProofs` | its TLC instances, its theorems |
| `Compact` | `compact.go` and `parseDataLine`: what is stored of a sequence of events |
| `EventPipeline` | `pipeline.go`: Run, the cadence flusher and the sink, for one turn |
| `MCEventPipeline`, `EventPipelineProofs` | its TLC instances, its theorems |
| `EventReducer` | `agentEventReducer.ts`: one operator per event, from state to state |
| `Replay` | `replayEvents.ts`: stored events and legacy rows turned into a state |
| `Transcript` | the events a turn of `claude-agent-sdk.ts` emits, the pipeline's compaction of them, the client that applies them, loses its stream and attaches again |
| `ChatView` | what `AgentChat.tsx` and its parts render of that state, and clicks on it |
| `MCTranscript`, `MCChatView` | the conversations TLC runs them on |
| `TranscriptProofs`, `RestoreProofs` | theorems about both: what is displayed live, and what is restored |
| `ChatSession`, `MCChatSession`, `ChatSessionProofs` | the operations of `useAgentSession.ts` around the streams |
| `Composer`, `MCComposer` | input, attachments and dictation |
| `ArtifactViews`, `MCArtifactViews` | the three views that fetch an artifact |
| `ArtifactTree`, `CsvPreview` | pure functions: the lists by directory, the reading and sorting of CSV |
| `SessionList` | the hook's list of sessions and its container poll, over a host whose operations begin and end |
| `SessionPanels`, `MCSessionList` | the provider's list and the history drawer over it |
| `PanelsProofs` | theorems about the session list, the composer and the artifact views |

### DinD

`entry` is `e.containers` (with the instance's state), `available` and
`allocated` the pool, `status`/`label`/`bind` the daemon's containers. A call is
a caller `c` with a program counter `pc[c]`; each value of `pc` is a place where
the code holds no mutex, just before a Docker call or the next critical section:

| `pc` | code in `dind.go` |
| --- | --- |
| `idle` to `alloc` | leak guard (`ProvisionExisting`, `ProvisionNew`) |
| `alloc`, `create`, `giveBack` | lease, `ContainerCreate`, release on failure |
| `start`, `register`, `health` | `ContainerStart`, map entry, `waitForHealthy` |
| `release`, `cleanup` | both failure paths: port first, then best-effort remove |
| `stop`, `remove`, `finish` | Destroy |

`Crash` empties everything in memory, `Restart` takes Recover's list,
`RecoverRunning`/`RecoverStopped` visit one listed container each. A container
that dies (`Dies`) may do so at any time. `known` are the ids the Runner was
handed, the only ones it destroys.

Calls for one session overlap as they will: the Runner takes no lock. `crossed` is
history, the sessions of which a call started while another was under way since the
host started (`Enters`); no action reads it. What an overlap can break is promised to
the other sessions, and to a session until its own calls overlap; the pool, the
daemon's containers, recovery and leases owe nothing to it.

`Environment` leaves out ports, calls and failures. `handed` are the instances
that Provision or Recover returned, `asked` those a Destroy was called for, and
`owed` those that ran when the host went down and are not handed back yet; an
instance the Runner holds goes only when it was asked for, and one that is owed
does not go. `Waive(s)` ends what it promised a session, whose calls overlap, until the
host restarts. `DinDEnvironment` maps `waived` to `crossed`, `handed` to `known` and
`asked` to the entries marked destroyed (both without those waived), and `owed` to the running containers not in `known` until the
host is up, when nothing may be owed any more.

### Runner and ExecEnv

A message is a *turn*, a number; a container's `files` are the turns whose work
it holds, `memory` those its agent remembers, an image is a set of turns.
`instances`, `instanceWorkers`, `lastActivity` and `seq` are the Runner's maps
and counter; `creating` is the one fact of the progress store that
`awaitCreateSettled` looks at; `pending` is the sink's flush counter; `binding`,
`snapshot` and `events` are the store's. `events` has one place per query number
because the store's key is the query id. `life`, `done` and `excused` are
history for the properties: how far a session's creation got, the turns whose
SendMessage returned without error, the sessions that lost a container or the
worker they were bound to, had a container on, or were being placed on, and the
`crossed` ones.

A caller's `pc` names the next shared access: `await` (`awaitCreateSettled`),
`place`, `bind` (WorkerForSession, PlaceForSession, SetWorkerBinding), `ready`
(`ensurePerSessionInstance`), `restore`, `provision`, `track`, `rehydrate`
(`restoreToWorker`), `boot` (POST /sessions), then what the call wants the
instance for: `have`, `turn`, `persist`, `store`, `destroy`, `forget`.

Any call may come at any time. `MayStart` is the order the chat UI produces: one call
after the other, except for a message or a resume behind a create in the background. A
call that comes otherwise (the archive loop's too) is served as any other and makes its
session `crossed`: what the Runner promises of a session it promises until then, and of
that session only. `unloaded` are the sessions whose container may not have been given
its conversation: the load, which is best effort, failed, or the host restarted before
it. `EnvStop` is the Destroy that stops a container and fails to remove it.

### Sandbox and StreamService

Node runs a handler to its next `await` without interruption, so a step is a
whole handler, a timer's callback, a close event, or a turn from one await to the
next, and the stream service's methods are functions of a key's record
(`streams`, `buffer`, `delta`) that such a step composes. A turn `q` is at `pc[q]`:

| `pc` | code in `claude-agent-sdk.ts` |
| --- | --- |
| `attach` | `await processAttachments`, before the abort listener is added |
| `proxy` | `await startSessionProxy` |
| `loop` | the `for await` over the SDK's messages; its hooks run here |
| `drain`, `spoke` | a result was handled and the iterator has not ended, nothing or other messages having come since |
| `over`, `cut` | `endTurn` was called; `cut` if the messages ended without a result, or behind others that came after it |

`turns` are the turn maps of the manager, `aborted` the signals, `stopped` the
turns whose SDK was told (the listener exists and the signal fired after it was
added). An event is its kind and the numbers of the emissions it stands for (one,
or the input deltas that were joined); `sent`, `wrote`, `lost` are history. A
reply is `new`, `open`, `ended` by the server, or `closed`.

The SDK is taken to be free: it may yield queued messages after an abort or a result,
several results, end at any time with a result or without, and throw before or after
its result. Only a result or a throw sends `query_complete` and ends the query in the
stream service: of a turn that is cut nobody is told, and its buffer stays. A query id is a fresh UUID
(`routes/sessions.ts`), so each is used by one turn.

### Compact and EventPipeline

An envelope is a type and a text, a sequence of numbered characters, so that
merged deltas stay recognisable; `Wide` are the characters of two bytes. `pc` is
where Run is: `scan` (the loop over the response's lines, one frame a step),
`persist`, `store` (begun, before the upsert), `endFlush`, `returned`. `flusher`
is the goroutine of `NewPipelineWithCadence`: `wait` on ticker and done, `begin`
(it has copied), `store`, `end`, `off`. Whether there is a cadence is chosen in
`Init`. `CompactionOf` is the reference that stored rows are held against: it
takes events to pieces and says nothing of how compaction folds over them.

### EventReducer, Replay, Transcript, ChatView

The four stand on each other. A conversation (`Instances`) says of which kind each
of two calls is, how many turns and pieces of text there are, whether a plan comes
first, how often the stream is lost, what plugins the host has and how often the
user clicks; the SDK chooses the order, parallel calls, failures, denials, thrown
errors, subagents and hooks. Text is a sequence of numbered pieces, and an output is
what the reducer's parser finds in it. `Transcript` keeps three things: the
state the live events made, the events the pipeline collected, and what is stored of
them. `LastingRestored` compares, between turns, what is displayed live (`Displayed`)
with what `resumeSession` makes of the stored events (`Resumed`), but for the two ways in
which they differ (`Lasting`): only a replay fuses the fragments of an answer into one
message, and a restored session never shows the error of a failed turn. `ChatView` renders both: its operators return
what a component shows, its actions are clicks and answers. What has no effect on the
display after the turn (progress lines, settings) is compared as what it leaves.

### ChatSession

A call is a record of `calls`, one per operation of the hook under way; `at` is the
`await` it stands at: `post` (the message), `read` (a stream), `status`, `attach`,
`restore`, `legacy` (the reconnect and its fallback), and those of cancel, nudge,
delete and resume. Of each field the model keeps whose data it shows (`data`), and
the same of the event state in its ref (`st`). `sessionIdRef` and
`abortControllerRef` are the refs; an abort ends exactly the calls that read through
the aborted controller, which a resumed or reconnected stream does not.

### Composer

`handleSubmit` runs to `await uploadAll` with the text, files and session of its
render (`submits`), and from there when the uploads are answered. A recording is a
number with where it stands: asked for, recording, stopping, posted, over, or stuck
because its audio context or recorder threw;
`recorderRef`, `stream`, `chunksRef` and `mics` (microphones open) are what the hook
and the browser have. `calm` and `posts` are history.

### ArtifactViews, ArtifactTree, CsvPreview

The viewer, the dialog and the inline preview share no state, so a behaviour is of
one of them (`view`). `fetches` are requests under way, whose answers come in any
order and are applied to whatever is shown. `objectUrls` are the object URLs alive.
`ViewerShows`, `DialogShows` and `InlineShows` are the renderers' conditions, in
their order. `ArtifactTree` and `CsvPreview` have no state: named assumptions at their
end compare them with reference definitions for every input of a bounded kind, and
TLC evaluates them before the run of `MCArtifactViews`: each artifact has one row
under names that spell its path, directories are those with something of their own
to show, directories first, the selected one marked, a closed one hides what is below
it, the panel's groups partition the artifacts; CSV that was quoted by a writer reads
back, the rows shown and counted are all the rows, and a sorted column of numbers, or
of none, is in order.

### SessionList and SessionPanels

`op` is the progress entry of a session in `progress.go`, `inst` what `Status` reads
of its instance, `hosted` the rows of the host. `rows` is the hook's list; a poll is
a request under way with what it read (`polls`), and several overlap. `calls` are the
other requests. The Go handler of the list answers an array, which the provider reads and of
which the hook, reading `data.sessions`, has nothing; a host that overrides the route
answers what the hook reads and the provider does not. `wrapped`, chosen in `Init`, is
which of the two the host is. `SessionPanels` adds the provider's own list with its refreshes and
deletes, and of the drawer the search field, its timer and its results.

## 3. Runs

Passing runs:

| Run | Question | Bounds |
| --- | --- | --- |
| `dind_concurrent` | Calls overlap freely, one Docker failure, one crash: are ports conserved, nothing orphaned, recovery complete, does an instance keep its lease, and is `Environment` implemented, for sessions whose own calls did not overlap? | 3 sessions, 2 ports, 3 container ids, 2 callers |
| `dind_names` | Two sessions whose ids are cut to one container name, and calls that overlap: does no lease leak on any path, do calls return? | 2 sessions, 2 ports, 2 ids, 2 callers, 1 failure, 1 crash; fair |
| `runner_restart` | A host restart anywhere and a failing step: is the work of finished turns kept, are sessions recoverable, do messages wait for creates, is nothing stranded, until calls of the session overlap? | 1 session, 1 worker, 3 ids, 2 callers and the archive loop, 2 messages |
| `runner_fleet` | A worker leaves, a container dies: do sessions that move keep their events and, until their calls overlap, the agent's memory? | 2 workers, 2 ids, 1 loss, 1 death, 2 messages |
| `sandbox_streams` | Turns overlap, are superseded, cancelled, lose their session, throw, end without a result; replies come and go: is no event lost but by eviction, is each reply's order right, is it told the end, is nothing kept of a turn that is over, can every turn be stopped? | 1 session, 2 turns, 2 replies, a buffer of 2, 5 events in all |
| `pipeline_flush` | Any frames, a client that goes, a response cut off, a line too long, a failing database, a flusher beside Run: is the row a beginning of the turn, all that was read after a good return, does Run return? | 3 frames, or 2 with a cadence, 1 failure; fair |
| `chat_view` | Does a restored conversation show what was displayed live, fragments and errors aside; is text in order, is each call shown once and a card, question or artifact beside one message, do groups of calls follow them until the user intervenes? | 22 conversations of two calls, up to 3 turns, 2 pieces of text, 1 reconnect, 4 legacy rows, 2 clicks |
| `chat_session` | Three operations of the hook against streams that end, break, reconnect or fall back: does the display settle, stay in step with the event state, show one session, and stop streaming? | 2 sessions, one with stored turns, 3 operations, 1 reconnect, 1 chunk a stream; fair |
| `composer` | Is no file uploaded twice, no calm text lost, the microphone open only while shown, unless the recorder could not be made? | 3 pieces of text, 2 files, 2 submissions, 2 recordings |
| `artifact_views` | Is a revoked URL never shown, what was fetched rendered, does a text preview settle? | 2 artifacts of 16 kinds, 4 selections or requests |
| `session_list` | Is a created session followed to its end, does a row settle, is none listed twice, do searches ask for what the field has? | 2 sessions, one of them stored, an array or an object for a list, 1 operation of the host, 3 of the user, 2 requests in flight, 2 typed texts |

Each property's mutant in `PROJECT.json` is a change of the modelled code that
violates it under the same configuration.

One run shows a disagreement between the code and what the repository says of it
(`findings` in `PROJECT.json`):

| Run | Property | What happens |
| --- | --- | --- |
| `runner_query_ids` | `EventsKept` | query ids repeat after a restart, events are overwritten |

Other behaviours the models show and no run is kept for:

- *Environment*: the slower of two Destroys releases the port of the next instance
  and a Provision returns the instance of another that is not healthy yet and is then
  removed (both in `dind_concurrent`, of sessions whose calls overlapped); a Destroy that fails leaves a
  stopped entry that the next Provision returns.
- *Runner*: the archive loop destroys the container of a turn that outlives
  `ArchiveTimeout`, as the flush counter is raised only around the final persist
  (docs/04:81-84 says no session is archived with events in flight); a restart
  between a restore's Provision and its load-conversation leaves an agent without
  its history (`unloaded`), and so does a message that meets a restored container before
  its load; of two Snapshots at once the
  older may be stored last; a tracked container that died is used, not restored.
- *Pipeline*: the search text is cut within a character of several bytes and Postgres
  refuses the turn's row (`Wide = {2}`); with a cadence an older copy may be stored
  last (`ReadIsStored` without `~cadence`); behind a line too long for the scanner, or
  when the response breaks off, the rest of a turn is not stored and Run returns no
  error.
- *Sandbox*: a turn aborted while it awaits its attachments is never told, and runs
  beside the one that superseded it (docs/07:134 says one active turn); of a turn whose
  SDK ends without a result no reply is told, and what it had buffered stays until a
  reply takes it or its session is deleted.
- *Conversation*: a reconnect amid text applies the replayed events again, and the
  text is displayed twice until the session is loaded again; plugin events are
  appended again; a failed POST of an answer leaves its question answered; an
  artifact registered by a call and announced by its event in one message is
  previewed twice in it (`ShownOnce` counts messages, not places in one); the error of a
  failed turn and the split of an answer are not restored (README.md:43 says
  "identically"); a subagent whose end never came shows as running in every
  later turn.
- *Session hook*: answers of `loadArtifacts` and of the fallback are applied without
  asking whether the session is still shown; `createSession` keeps the todos of the
  session before; a resume does not abort the stream before, and a resumed or
  reconnected stream cannot be aborted, and one that breaks leaves the display
  streaming; of two resumes the last answer wins.
- *Composer*: submitting again while files upload sends the text twice, the second
  time without the files that were under way; text typed during an upload is cleared
  with the rest; the recorder's last data is transcribed although the recording was
  cancelled; a second start before the first is granted leaves its microphone open, and so does a
  recorder that cannot be made.
- *Artifact views*: a late answer of another artifact is shown under the selected
  one's name; object URLs of a closed dialog are not revoked; the late failure of a
  request made before an artifact was saved replaces its preview by "Loading" for
  good; so does an empty file, and an image, which is fetched once, when that fails; a
  webapp and an unknown type are blank in the dialog, a `data:` URL of text has no preview
  in the viewer.
- *Session list*: a late poll of a session that was left stops or replaces the poll of
  the new one; an operation that two polls see to end is notified twice after another
  one; a state of `error` is polled for ever; a stale list drops a new row;
  `loadMore` appends rows that are there already; the hook reads `data.sessions`
  where the Go host writes an array, so that its list has only the rows of creates until
  a refresh takes them away; a deleted session returns with the next refresh,
  as the host keeps its row; results of an earlier search may come last and stay.

Why the bounds are enough. Two sessions are the fewest that can contend for a
port or a name and three exhaust the pool; two ports and three ids are the fewest with
which a session can be destroyed and provisioned again beside another; two callers are the fewest that
overlap, and one crash is the fewest, as the state after it is again one the
first phase can reach. In `Runner` sessions meet only in the query counter and in
the fleet, neither of which the checked properties depend on across sessions, so
one session with two messages and two or three containers (original, restored,
restored again) reaches every case of `ensureRunning`. `MaxFaults`, `MaxCrashes`,
`MaxLosses`, `MaxDeaths`, `MaxSends` and the finite `Ids` are bounds, each a guard of
the action it bounds; `EnvDestroy` does not give an id back. `Bounded` stops a run of
the Runner where calls for its one session have overlapped: of a crossed session only
`EventsKept` says anything, which is proved for any overlap. It also leaves out that a
session goes stale during a caller's call unless the archive loop has listed it, as the
loop may as well have listed it before the call. `WorkView` is the VIEW of
`runner_restart`: no property of that run, and no guard, depends on the stored events,
the query numbers or what the agents remember.

In `Sandbox` nothing but a turn map is shared by the turns of a session and
nothing by two sessions, so one session with a turn and its successor shows every
overlap. The turns emit five events in all (`Bounded`), those that start and end them
included, and no result comes after a first one beyond `MaxSent` of them: with a buffer
of two that is an eviction, two deltas and a boundary, or deltas on both sides of a reply
that joins. Two
replies are the query's own and one that attaches late. A late listener is
promised nothing about a query that was over when it came, so no liveness is
stated; `CompleteIsLast` is what the service does promise.

In `EventPipeline` three frames after the prompt are the fewest with two deltas
and something between them, and the frames are of every type the code tells
apart. The agent's next frame is sent when the last was read: what waits in the
connection is seen by nobody, so nothing is lost by that.

In `ChatView` the conversations are chosen so that each kind of call meets text,
another call, and the stored form once; two calls are the fewest that run in parallel
or register one file twice, three turns the fewest with a question answered between
two others. In `ChatSession` three operations are a turn, one that interferes, and one
after it; a second reconnect is the first again one level deeper, with the limit one
lower. In `Composer` two of each are the fewest that overlap. In `ArtifactViews` two
artifacts and four requests allow an answer to come after those of a selection, of
another, and of the first again. In `SessionList` two polls in flight (`MaxInFlight`) are
the fewest that overtake each other, and the timer polls only while that could change
something. `Bounded` limits what the user does and types together to three, of which the
second needs a host whose list the panel can read, and the third a list longer than a
page (so that a refresh merges) with no poll going on.

Deadlock is not checked: when ids and messages are used up the model stops, as an
idle host does.

Symmetry is used over sessions, ids and callers, only in runs without liveness.

Fairness. `DinD!Fairness`: weak fairness of each call's
next step (goroutines are scheduled; every Docker, HTTP and database call returns,
fails or times out; `EventPipeline` and its flusher likewise), of the restart and
of Recover's steps (a supervisor restarts the host). `ChatSession`: weak fairness of
the answers to what the browser waits for, as a request is answered, fails or is
cut off, and a stream ends.
Nothing is assumed of callers: no message, archive, crash or disconnect has to
happen.

## 4. Proofs

TLAPS checks the following for every value of the constants. Of `DinD`, for any
number of sessions, ports, containers, callers, failures, crashes and overlapping
calls, and for every `containerName`:

| Theorem (`DinDProofs`) | States |
| --- | --- |
| `TypeCorrect` | `Spec => []TypeOK` |
| `PortsConserved` | `Spec => []PoolPartition` |
| `RecoveryIsComplete` | `Spec => RecoveryComplete` |
| `NothingOrphaned` | `Spec => []NoOrphan` |
| `LeasesBackInstances` | `Spec => []LeaseBacksInstance` |
| `NoLeaseLeaks` | `Spec => []NoLeakedLease` |
| `OnlyReadyHandedOut` | `Spec => HandedOutReady` (an action property no run repeats): what a session whose calls did not overlap is handed |
| `EnvironmentKept` | `Spec => ImplementsEnvironment`: `DinD` implements `Environment`, which waives a session whose calls overlap |

Of the in-image server, for any sessions, turns, replies, number of events and
buffer size:

| Theorem (`SandboxProofs`) | States |
| --- | --- |
| `TypeCorrect` | `Spec => []TypeOK` |
| `OthersAbortedAlways` | `Spec => []OthersAborted` |
| `MemoryFreedAlways` | `Spec => []MemoryFreed` |
| `NothingLostAlways` | `Spec => []NothingLost` |
| `InOrderAlways` | `Spec => []InOrder` |
| `CompleteIsLastAlways` | `Spec => []CompleteIsLast` |

Of the event pipeline, for any frames, texts, failures and ticks:

| Theorem (`EventPipelineProofs`) | States |
| --- | --- |
| `GuardAlwaysCounts` | `Spec => []GuardCounts` |
| `StoredWhole` | `Spec => []WholeRow`: after a good return of the default Run, it had read on until one of its three stops and the row is `Compacted(collected)` |
| `CompactionKeepsText` | `Compacted(in)` is a compaction of `in` (`CompactionOf`), for every sequence of envelopes |
| `RowAlwaysBeginning` | `Spec => []RowIsBeginning` |
| `ReadAlwaysStored` | `Spec => []ReadIsStored` |

Of the Runner, for any sessions, workers, callers, messages, failures, restarts,
deaths, losses and overlapping calls:

| Theorem (`RunnerProofs`) | States |
| --- | --- |
| `TypeCorrect` | `Spec => []TypeOK` |
| `EventsKeptUntilRestart` | `Spec => [](crashes = 0 => EventsKept)` |
| `WorkAlwaysKept` | `Spec => []WorkKept` |
| `AlwaysRecoverable` | `Spec => []Recoverable` |
| `NeverSpurious` | `Spec => []NoSpuriousRestore` |
| `NeverStray` | `Spec => []NoStray` |
| `AgentAlwaysRemembers` | `Spec => []AgentRemembers` |

The last five say nothing of a session once its calls have overlapped (`excused`,
`crossed`), and all they say of the others whatever that one's calls do. `EventsKept`
holds on its condition only: after a restart the query numbers start again and rows are
written over. `AgentRemembers` is of the turns whose events are stored, and excepts what
is `unloaded`: a failed load-conversation is logged and the message posted all the same.

Of the chat UI, for any sessions, operations, requests, pieces of text, files,
submissions, recordings and artifacts, in whatever order answers come:

| Theorem | States |
| --- | --- |
| `TypeCorrect` (`ChatSessionProofs`) | `Spec => []TypeOK` |
| `InSyncAlways` (`ChatSessionProofs`) | `Spec => []InSync` |
| `SettledAlways` (`ChatSessionProofs`) | `Spec => []Settled` |
| `OneSessionAlways` (`ChatSessionProofs`) | `Spec => []OneSession` |
| `CreateAlwaysFollowed` (`PanelsProofs`) | `PanelSpec => []CreateFollowed` |
| `RowAlwaysSettles` (`PanelsProofs`) | `PanelSpec => []RowSettles` |
| `ListAlwaysOnce` (`PanelsProofs`) | `PanelSpec => ListOnce` |
| `SearchesAlwaysWanted` (`PanelsProofs`) | `PanelSpec => SearchesWanted` |
| `TextAlwaysKept` (`PanelsProofs`) | `ComposerSpec => []TextKept` |
| `MicAlwaysShown` (`PanelsProofs`) | `ComposerSpec => []MicShown` |
| `AlwaysUploadedOnce` (`PanelsProofs`) | `ComposerSpec => []UploadedOnce` |
| `ShownAlwaysAlive` (`PanelsProofs`) | `ViewsSpec => []ShownAlive` |
| `NeverBlankAlways` (`PanelsProofs`) | `ViewsSpec => []NeverBlank` |
| `TextPreviewAlwaysSettles` (`PanelsProofs`) | `ViewsSpec => []TextPreviewSettles` |
| `CallsAlwaysShownOnce` (`TranscriptProofs`) | `Spec => [](reconnects = 0 => CallsShownOnce)` |
| `TextAlwaysInOrder` (`TranscriptProofs`) | `Spec => [](phase # "legacy" /\ reconnects = 0 => TextInOrder)` |
| `ScreenAlwaysFollows` (`TranscriptProofs`) | `ViewSpec => [](phase # "legacy" /\ reconnects = 0 => ScreenFollows)` |
| `MadeAlwaysShownOnce` (`TranscriptProofs`) | `ViewSpec => [](phase # "legacy" /\ reconnects = 0 /\ plugins = <<>> => ShownOnce)` |
| `LastingAlwaysRestored` (`RestoreProofs`) | `Spec => [](reconnects = 0 => LastingRestored)` |

The last five are of a client that did not lose its stream: after it attaches again, the
buffered events of the turn come once more, on top of what they made of the display
before. That repeats text (section 3); a turn of calls alone is left to TLC. In a
session older than event storage there are no calls under way, and `TextInOrder`,
`ScreenFollows` and `ShownOnce` are only checked (nothing is restored from stored events
there, and `LastingRestored` says nothing of it). With render plugins it is the host's
choice of their types that decides whether a table is shown once, so `ShownOnce` of the
plugins that `MCChatView` has is left to TLC too.

### Assumptions

The modules' own: the "no value" constants are not values, bounds and ports are
naturals, `containerName` is defined on the sessions (`PortsAssumption`,
`DaemonAssumption`, `DinDAssumption`); the buffer has a place (`StreamAssumption`,
`SandboxAssumption`); no row is the row that is not there (`PipelineAssumption`);
there is a session and a worker (`ExecEnvAssumption`, `RunnerAssumption`); what the
host has stored is of its sessions (`SessionsAssumption`); it lists a session once and
a page has a size (`OldAssumption`, `PageAssumption`); kinds have their three fields
(`KindsAssumption`); the composer's bounds are naturals (`ComposerAssumption`). TLC
evaluates each in every run of its module.

### The argument

Every strengthening below was an invariant of a TLC run on the instances of section 3
before it was proved.

**DinD.** `PoolPartition` is not inductive because of `Adopt`, which takes a
port without asking whether it is free. `IInv` adds what makes that safe:
`DaemonInv` (the daemon has one container per session and one running container
per port), `RecoverInv` (a container Recover has still to visit has its port free
and its session without a lease, and every running one is still listed or
adopted), `CallInv` (a call past its first step holds a session, a port and a
container that exists, and only while the host is up) and `MapInv`. One lemma per
conjunct shows that every action preserves it. The first section states what
each method of the pool guarantees (`AllocateLeases`, `ReleaseFrees`,
`AdoptLeases`), and `LowestIsFree` that the head of a nonempty pool exists, from
the well-foundedness of the naturals. `NoOrphan` needs `OrphanInv` on top: a
container in a call's hands is in no other's, and at `finish` it is gone.

What a session has until its calls overlap comes in two layers. `SerialInv`: calls under
way for a session that is not crossed are one at most, and it works on a container of
that session, a Provision's container is not known to the Runner before it returns, a
Destroy's is known and marked, and what is in the map is known or in a Provision's hands.
That is enough for the refinement: `EnvStep` shows, action by action, which step of
`Environment` each is (one that begins a call that overlaps is a `Waive`), or that it
changes nothing `Environment` speaks of; that a finished recovery owes nothing is
`RecoverInv`. `LeaseInv` follows the leases: from `create` to `release` the session leases
the call's port and has no entry but its own, a session has one entry, and
(`AloneOnPort`) while no calls overlapped, once a container was started no other runs on
its port, so that what answers the health check is the instance itself. `NoLeakedLease`
needs of this only that a call works on a container of its session: `LeaseHeld` says of
every session that its lease has an entry, or a call that will register one or give the
lease back.

**Sandbox.** One lemma per method of the stream service says that it takes
a well-formed record to one, and one per method and property below what it keeps.
`OthersAborted` is inductive with `Owned` (a turn
under way was started for a session): starting a turn aborts the registered one,
and ending a turn removes its own registration and no other's. `MemoryFreed`
needs `OverIsQuiet`, which starts at a result and ends if other messages follow it: in
between the key holds heartbeats only, by `EndQueryIsQuiet` and `StaysQuiet`.

`NothingLost` follows from `Registered`: of a turn that is registered and runs, the
numbers sent are split (`Split`) between what was written to a reply, what waits in the
buffer or among the deltas, and what was evicted. Inside a method that takes several
steps, `Accounted` names what the method has in hand. `InOrder` needs `AllTidy`: every
reply's line and the buffer are in order among themselves, and what waits as a delta
fits behind all of it (content may stand before the deltas it was emitted with, as it
flushes them first); a reply that joins is given the buffer as its line, so `Fresh`
says that it had none. `CompleteIsLast` needs `AllTold` from a result on, until another
message comes.

**EventPipeline.** `WholeRow` rests on `ReadInv` (once Run stopped reading, the
context is done or it is at one of its stops, and that cannot change back) and on the upsert
succeeding only while the context lives. `Compacted`, `Pieces` and `Stream` are
recursive functions, about which two facts are proved from the well-foundedness of the
naturals: such a function exists (`Recursion`), and two that take the same steps agree
(`Tracked`). `CompactionKeepsText` then goes along Compact's loop: `MergeKeeps` says
that one turn of it keeps the pieces of text, in their order, and leaves no two rows
side by side that could be joined. `StreamInv` says that what was collected is the turn
so far, and that what the flusher copied and what is stored are the turn up to some
frame: a flush can be late and never torn. `RowIsBeginning` and `ReadIsStored` follow
with `CompactionKeepsText`.

**Runner.** The four properties about work follow from one invariant, `Inv`. `TypeInv`
(types, what a call at each place has, tracked containers are of their session)
holds of every session. The rest is about a session that lost nothing and whose calls
have not overlapped. `Serial`: two calls of it meet only when one is a create and the
other a message or a resume; `Waits`: that other has left `await` only when the
create's container was tracked. So (`OneBrings`) one call at a time brings a session
a container, and a session has one (`OneContainer`), which is tracked or about to be
and is on the worker the session is bound to (`Place`), so that a Provision that finds
none to return boots from the image, and a restart tracks that one again. `Work` says where
the work is: in that container, and in the image whenever no container is tracked;
`CallDone` what an archive has to have stored before it destroys. `Waits` needs
`creating` to stay raised while a create runs, which Snapshot and Restore could lower:
`CallPhase` shows that neither meets it. The step that crosses a session takes it out of
all of this (`excused` grows, and nothing gives a session back), so that each lemma has
to look at the calls of the others only to see that they touch nothing of it; that is
where the proof uses that every map, row and container is of one session. `Containers`, `Tracking`, `Bindings` and the other lemmas of
their section say which steps can change one thing of a session, so that each conjunct
is proved from those steps alone.

`EventsKept` needs `Numbered`: the sends under way have turns and query numbers of
their own, and a row stored is under a number already given and not in use. It
asks nothing of how calls overlap, because the counter is atomic. Its first part
(`Turned`: the sends under way have turns of their own) holds across restarts too. `AgentRemembers` needs
`Remembers` on top of `Inv`: a turn not yet posted is new to every agent (`Unseen`), a
call uses the container that is tracked (`Holds`), the work of a turn and the memory of
it come together (`Knows`), and a tracked container remembers every finished turn whose
events are stored, is about to be given them, or is `unloaded` (`Recalls`). A restart
keeps that: it tracks the container that was tracked (`RecallsAgain`), or one that was not
yet, which it makes `unloaded`.

**Chat session.** `TypeInv` says of a call under way at which awaits it can be. `Settled`
follows from `Expected`: whatever shows as streaming has a call under way whose end, or
the end of what it goes on to, stops it; each exit of each operation was a case of it.
`OneSession` follows from `OneInv`: while operations do not overlap, beside the requests
for artifacts there is one operation at most (`Apart`), on the session shown or alone,
and what is shown is of that session. `DataStep` says which steps can show what.

**Conversation.** `ConvInv` says of every state what the next event of a turn relies on.
`UiInv`: messages have the ids they were numbered with, and while a turn runs the
current message is there and is the latest of the turn (`Numbered`, `UnderWay`).
`CallsInv`: a call that was not announced is in no message, and any other is in one,
once, with the status it should show. `PendInv` is what keeps that so: a call
that awaits its result is in `pendingToolCalls`, so that its end is told, and one that a
hook announced is in the map `toolCalls`, so that its message does not show it a second
time. `StreamInv` says when the display is streaming. `Same`, `Marks`, `Adds`, `Arrives`
and `Opens` are what events do to the messages, with one lemma per event of the
reducer, and `Persists` is what a step leaves of all other calls. A step emits several
events one after the other; `ReducedJoined` says, from the well-foundedness of the
naturals, that the fold over them is the fold over the last from where the first ones
lead. `TextInOrder` needs `TextInv`: the pieces so far stand at their places (`Told`),
and while a turn runs the message in hand is the last one and holds exactly the text
that the next piece will be put behind (`InHand`), which is what a split at a call and a
restart after a result could break. Most events leave all text alone (`Still`,
`Leaving`); a piece goes behind all others of its field (`LastGrows`) or begins a
message after them (`PieceComes`). `ScreenFollows` adds the groups of
calls: `GroupsOK` (every group is of a message with calls, and one that is open by
itself had a call running or has one that failed) is kept by every step, and after the
effect of a render (`FollowedOK`) the groups stand as `GroupsShown` says.

`ShownOnce` needs `TidyInv`. What was drawn or asked is of calls that were announced, and
every table and chart stands as its event has it (`Drawn`): one that was found in a
call's output is replaced by its event before the step ends (`EndThenMarker`), which is
what keeps the two from being shown side by side. Every artifact has a message that
registered it, and only replies register any (`Filed`); `PlacingBoth` carries that
through the events of a step. With `CallsInv` a call has one place, and so has what is
shown below it (`CardPlace`). The loop over the messages that claims the previews, from
the last message on, gives each what no later one has (`PreviewsAre`), although messages
of users and results need not have ids of their own; so the last message that registered
an artifact previews it, and no other does (`PreviewedOnce`).

`LastingRestored` needs `KeptInv`, and has a module of its own, as it is about two folds
over the whole conversation: of the events as they come, and of the rows they are stored
in. Stepwise, `Compacted` of a row and an event is the row with that event behind it, or
the row as it was (an event that is not stored), or the row whose last event has the text
of both (`StoredApart`, `Dropped`, `StoredDelta`). The first is a step of either fold
(`EventReplays`). Of the second kind each event changes only what is not compared
(`PassAlters`), although it may refresh the calls of a message, which is why `KeptInv` is
proved on top of `ConvInv`. For the third, two deltas one after the other
make what one delta with the text of both makes (`DeltaTwice`); that is false of a
state with no current message, so `Prior` keeps, of a row that ends in a delta, that what
stands before that delta is a state in which it can be put behind something. What remains
different is the questions: `sendMessage` marks the open ones as answered, and the
message it stores is replayed without doing so. `Marked` says that live a question is answered
exactly if a message of the user stands behind its call, which is what
`markAnsweredQuestions` looks for; a question is asked before any such message
(`Waiting`), as its call has not ended. A replay merges fragments before it
looks: `MergedFaithful` says that merging keeps which calls a user's message stands
behind.

**Session list.** Five invariants in a row, each about one thing and resting on those
before: `HostInv` (the host's operations), `CallsInv` (pages are what the host had),
`ListInv` (rows are of sessions the host has), `PollsInv` (so are polls, and one of a
session being created says so), `ShownInv`. `RowSettles` needs `Following` on top: what is opened is polled, or
no request of it is under way and its row will not change. `SearchesWanted` needs `TimerInv`:
one timer, with the query of the last keystroke. The rows a `Filter` leaves and a
`RemoveAt` are described by `Filtered` and `Removed`.

**Composer.** A submission's message empties the input, so `TextInv` adds that
each submission under way has all calm text that was not sent. `MicShown` needs
`VoiceInv`, where each recording stands in agreement with `recorderRef`, `stream` and
the overlay. `UploadedOnce` needs `UploadsInv`: no two submissions have the same file,
and a file that is pending was not uploaded, so that marking the pending ones before
the first await is what keeps a second submission from taking them.

**Artifact views.** A view shows an object URL of its own making, and revokes it
only with what it shows (`UrlInv`). `NeverBlank` needs `ContentInv`: what is shown and
what was asked for is in a form the view can draw of that artifact. `TextPreviewSettles`
needs `KeyInv` (the key the preview asked under is that of its last render) and
`LastInv` (the latest request is the one made when the artifact was extracted, or it
was answered).

### Model-checked only

- `LastingRestored`, `CallsShownOnce`, `ScreenFollows` and `ShownOnce` after a reconnect amid calls without
  text (with text, it is displayed twice: section 3), what they and `TextInOrder` say of
  a session older than event storage, and `ShownOnce` with render plugins.
- Liveness: `CallsReturn`, `RunReturns` and `StreamingEnds`.
- The assumptions of `ArtifactTree` and `CsvPreview`, which TLC evaluates on the inputs
  they list.

## 5. Not modelled, and what is next

Not modelled: shared-tenancy workers, where one container serves all sessions;
`Exec`, `CopyIn`, `CopyOut`, `Status` and `Stream`, which change none of the
modelled state; token issuing; a container without a published port in Recover;
a client-chosen session id that is used twice; logging, labels and environment
variables. Of the chat UI: markdown, highlighting, labels of tools, the grid of
artifacts, `CodeCreatedBlock` (for tools this harness does not have), publishing
and downloads, what stuck detection says while a stream is silent, and text
formatting. The scripts under `migration-reference` and the mock servers are of
another product or test doubles.

Plan, in order:

1. `CallsShownOnce` and `LastingRestored` after a reconnect amid calls.
2. `ExecEnv` against `Environment`, one instance per worker, so that what the
   Runner relies on and what `DinD` keeps are one specification.
3. `Store`: full-row updates against partial ones; `FleetPolicies`: LeastLoaded
   and RoundRobin as functions against a reference definition.
4. `ImageRegistry` and `Artifacts`; `Socket` as a variant of `DinD`.
