# Aviary in TLA+

A verification project for Aviary: TLA+ modules of the parts of the system that
are hard to test, the TLC configurations that check them on small instances,
and TLAPS proofs. Every definition is taken from the code; `PROJECT.json` maps
each one to the lines it stands for.

## The system

A browser tab holds a WebSocket to the **API**. A message it sends is saved and
handed to a task of the API's **stream manager**, which makes one long call to
the **supervisor**. The supervisor relays the **agent runtime**'s SSE to Redis,
where the tabs' WebSockets pick it up, assembles the message from the same
chunks and returns it; the API stores it and publishes the terminal event.
Workflows are graphs of nodes, drawn in the **web client**'s builder, deployed
as versions, run by a **Temporal worker** and watched over a WebSocket of their
own; an agent step of a workflow goes through the same supervisor. The runtime
also serves the files of the agent's pod to the client's workspace editor.

| component | state | operations | talks to | what is hard | what makes it correct |
|---|---|---|---|---|---|
| runtime: session registry (`runtime/src/session-manager.ts`, `server.ts`) | session map, a mutex per entry, abort controllers, directories on a volume | message, end of turn, hang-up, abort, delete, signal, shutdown | supervisor (HTTP), SDK | queued requests outliving the map entry, aborts of another turn, drain | one turn per mutex, FIFO, no lost waiter, aborts reach live turns only |
| runtime: SDK driver, accumulator, A2A and artifact tools (`agent.ts`, `streaming-accumulator.ts`, `a2a-tools.ts`) | per-turn counters, queue of tool ids, an artifact on disk | map SDK messages to events, call sub-agents, save artifacts | SDK, supervisor | the same text twice, parallel tools, handlers outliving their turn | text shown once and in order, parents differ, a reported save is stored |
| runtime: workspace (`workspace.ts`) | files | list, read, write, make, move, delete | agent, editor | lost updates, half-made trees | a write based on a stale read is refused; entries stand in directories |
| supervisor: chat turn (`routers/agents.py`, `stream_service.py`, `redis_client.py`) | running tasks, chunk list and status in Redis, gauge | message, relay, abort, hang-up | runtime, Redis, API | cancellation at any await, several replicas, death | nothing shown is lost, keys end terminal, an abort ends the turn |
| supervisor: assembly (`assembly.py`) | none | chunks to blocks, merge of A2A events | Redis | order, nesting | the message shown live is the one stored |
| supervisor: identity, routing, vault | none | look-ups | IdP, Vault | | |
| API: stream manager (`services/stream/manager.py`) | task registry | start, supersede, cancel, persist, roll back | supervisor, database, Redis | a superseded task, partial failure, deletion | database, terminal events and unread agree; one outcome per turn |
| API: chat WebSocket (`routers/sessions.py`) | subscription of each tab | connect, replay, relay, send | Redis, stream manager | events between replay and subscribe | a tab can follow what it was shown |
| API: session service | rows | save, delete | database | deletion during a stream | |
| API: workflow runs (`workflow_run_service.py`, `temporal_client.py`) | run rows | create, cancel, resume | Temporal, database | cancel against a closing run | an ended run is never left running, nor rewritten |
| API: workflow definitions (`workflow_service.py`) | definitions, versions | edit, deploy, revert, delete | database, Temporal | concurrent deploys, saves in flight | one version per number, no save lost |
| API: auth sessions (`auth/session_store.py`) | Redis entry | login, refresh, logout | IdP | concurrent refresh, logout during refresh | a logged-out session stays out |
| API: other CRUD, admin console | rows | one transaction per request | database | | |
| worker: run (`workflows/workflow_run.py`, `dag.py`, `activities/persistence.py`) | sets of a run, node and run rows | plan, batches, skip, carry, finish, cancel | Temporal, database | failure inside a batch, cancellation of writes, late writes | a node starts after what it needs; a finished run is settled |
| worker: agent step (`activities/agent_step.py`) | stream id, transcript | call, heartbeat, abort | supervisor | retry and cancellation | one transcript per step |
| run viewers (`worker/events.py`, `api/app/routers/workflows.py`, `use-workflow-run.ts`) | row, channel, replay list, sockets of a page | publish, subscribe, replay, view, trigger, resume | Redis, page | publish against replay, late answers, forced cancels | a viewer sees the end of the run |
| web: chat (`features/chat`) | socket, history, blocks, composer | connect, retry, reload, page, send, stop | chat WebSocket, REST | reconnection against answers under way | messages and blocks once, in order; reconnects |
| web: workspace editor (`features/workspace`) | tabs, generations, dialogs, grid of panes | open, type, save, rename, delete, split, drag | workspace routes | late answers, stale renders | no lost update, no tab that waits for nothing, a well-formed grid |
| web: workflow builder (`features/workflows`) | graph, history, auto-save, proposals, versions | draw, undo, drag, plan, deploy, edit, revert | definition routes | debounced saves against flows | a graph stays a graph, undo is a timeline, edits are saved |
| web: agent page (`features/agents`, `events`, `notifications`) | list, selection, feed | create, delete, select | event socket, REST | events against answers | the list is the API's |
| web: forms, catalogues, palette, login; charts, gateway patches, migrations | | | | | rendering, deployment, third-party glue |

`PROJECT.json` lists every hazard at its line, with the properties that cover it
or the reason why none does.

## Modules

### The agent runtime

**`TurnLock`** is what the session mutex promises: requests wait for a lock, at
most one holds it, a lock given up with someone waiting is handed on in the same
step.

**`RuntimeSession`** is the runtime process. Node runs a callback and the
promise continuations it releases before the next event, so an action is a whole
run of a handler up to its `await`: `Accept` is POST /message up to the
acquisition (look up or create the entry, take the mutex and register the abort
controller, or queue); `FinishLast` and `FinishHandOver` are the `finally` block
with, in the second, the waiter that `release()` wakes and the start of its
turn; `Disconnect`, `Abort`, `AbortSession`, `Delete` are the other events;
`Signal`, `ExitDrained`, `Die`, `Restart` are shutdown, death and return of the
pod. An entry is named after the request that created it, since one key can have
two entries over time and each has its own mutex. `TL == INSTANCE TurnLock` maps
`pc` to phases and `entry` to locks.

**`AgentTurn`** is one agent, turn after turn: `processMessage` over the SDK's
messages (`StreamEvent`, `Snapshot`, `AssistantAgain`, `ToolUse`, `ToolResults`,
`Result`, `Fail`), the accumulator (`ConsumeDelta`, `ConsumeBlock`), the hooks
and handlers of sub-agent calls (`PreToolUse`, `CallSubAgent`, `AnswerEnds`) and
`save_as_artifact` (`SaveArtifact`, `Copy`, `Copied`, `CopyFails`). A unit of text is a
pair of its block and its position. The SDK and the backend are inputs: any
message the driver handles, in the order its comments give. Handlers outlive an
aborted turn, and the next turn meets them.

**`WorkspaceFiles`** has the file operations of the workspace routes as
operators, the code each answers and the tree it leaves, redirections and
refusals included.

### Chat

**`SupervisorStream`** is one POST /message of the supervisor: the task of
`drive_stream` (`at` is the await it is suspended at), `post_message` around it
(`handler`), the Redis keys, the runtime as a source of events, abort requests
(local, or broadcast to all replicas), the caller's hang-up, and the replica's
death. `Cancelled` says where a cancellation takes the task: from inside the
`try` to its clean-up, from `begin()` and from after the `try` to the end of the
task without a result. Chunks are counted.

**`ChatStream`** is one chat session in the API: the turns' tasks of the stream
manager (`pc` is the await), the registry with its done-callbacks, the database,
the unread counter (kept as the set of turns it counts), and each tab's WebSocket
(connect and clear unread, replay, subscribe, relay). The supervisor is the set
of the answers it can give. Deletion cancels the registered task, later drops
the rows.

**`ChatClient`** is the chat view of a tab: history pages and reloads, the blocks
of the running turn, the socket with its backoff, the switch over its events, the
composer. The API is reduced to rows, published events, the replay and relays
that forward what is published once they subscribed, so the gap between replay
and subscription is in the model. A message is its row's number. `Lists` has what it
shares with `AgentHome` and `EditorGrid`: the order of a query and a filter.

**`AgentHome`** is the page of an agent: the list of sessions with its first
load, creation and deletion here and elsewhere, the selection, the event socket
and the feed of replies. An event is published before the transaction it tells of
commits, and the answer of a request leaves before that too, since FastAPI closes
the database dependency after the response.

### Workspace editor

**`WorkspaceEdit`** composes `WorkspaceFiles` with the panel that calls it:
loads with generations, saves with the time last read, the conflict, close,
delete and upload dialogs, creations, renames, and an agent that writes and
removes the same files. A call is sent, served and answered in three steps, and
the connection may be lost before or after it was served. `MCWorkspaceEdit` gives
a tree.

**`EditorGrid`** is the layout: rows of panes of tabs, focus, previews and pins,
splits, drags, renames, closings and deletions, with the dialogs' stale renders. A
deletion that is answered closes its tabs one after the other on the rows of the moment,
with the tabs and the focus of the render its dialog was opened in: the recursive
function of `DeleteAnswered` has the state after each. `LayoutKeepsDrafts` asks more than
a count: there is an injection from the drafts before a step to the drafts after it that
keeps each one's path, or takes it where `renameTab` did.

### Workflows

**`WorkflowRun`** is one run: `main` is where `run()` is, `pc[n]` the activity
node n's task awaits, `remaining`, `completed`, `skipped` and `failure` are
`run()`'s variables, `runRow` and `nodeRow` the database, `api` the cancel
request. Status writes may fail before or after their commit; a write cancelled
or overtaken by termination may still be carried out (`lateNodes`, `lateRun`).
`MCWorkflowRun` gives the graphs.

**`RunViewer`** is a page that watches runs: the row, the channel and the replay
list a run is recorded at, the run WebSocket (look at the row, subscribe, replay,
listen), forced cancels that the API publishes by itself, and the page's calls
and sockets. A run is two events, "running" and its end.

**`Timeline`** is what undo and redo promise: a line of states with a cursor.

**`WorkflowDraft`** is the builder over the definition kept by the API: canvas,
history, drag, inspector field, debounced save, PUTs in flight, the assistant's
plans, and the flows of the page (deploy, edit, cancel edit, delete, switch of
version), each served in several steps. `History == INSTANCE Timeline` maps the
two stacks and the current graph to a line and its cursor. `MCWorkflowDraft`
gives the first graph, the versions and the plans.

### Proofs

Theorems and their proofs stand apart from the models, in modules of their own:
`SessionProofs` (`RuntimeSession` and `SupervisorStream`), `TurnProofs` (`ChatStream` and
`AgentTurn`), `WorkflowRunProofs` (runs and the pages that watch them), `WorkspaceProofs`
(the tree, the tabs and the saves, over `WorkspaceFiles` and `WorkspaceEdit`),
`EditorGridProofs`, `WorkflowDraftProofs`, `AgentPageProofs` (the chat view and the list
of sessions beside it) and `ListProofs` (lemmas about lists, for the grid and the agent's
page). Two models proved about in one module keep
their names apart: `SupervisorStream` and `AgentTurn` prefix `Init`, `Next`, `Spec` with
`Stream` and `Agent`.

## Runs

| run | instance | states | shows |
|---|---|---|---|
| `runtime_session` | 1 session, 2 agents, 3 requests | 0.9 M | mutual exclusion per entry, no lost waiter, FIFO, refinement of `TurnLock`, abort registry, `Served` |
| `agent_turn` | 2 tool calls, 2 turns, blocks of 2 units | 5.4 M | text shown once, in order and whole; parents of calls differ; a reported artifact is the stored one |
| `supervisor_stream` | 1 stream, 3 chunks, 2 aborts | 19 k | the answer holds what was shown, status keys and gauge, `AbortEnds` |
| `chat_stream` | 1 tab, 2 turns | 1.1 M | terminal events have their rows, only unreached turns are rolled back, one outcome per turn, unread, `Concludes` |
| `chat_client` | 2 turns, 2 sockets, 2 history requests, 1 break | 1.4 M | agent messages once, blocks in order, `Reconnects` |
| `agent_home` | 2 sessions, 2 losses, 1 reply | 0.8 M | the list is the API's once nothing is on its way; a session that is gone is left |
| `workspace_edit` | a directory, 2 files, 2 slots for 3 calls | 4.3 M | the tree stays a tree; a save replaces what it had read; a spinner has a load |
| `editor_grid` | 2 files, 3 panes, 3 tabs | 0.6 M | shape of the grid; a layout step gives up no draft |
| `workflow_run` | 3 nodes, every acyclic graph up to renaming and a cyclic one, every choice of conditions and of carried nodes, 1 cancel | 1.4 M | start order, branches, settled completion, sweep, `RunCloses` |
| `run_viewer` | 2 runs, 2 sockets, 2 requests, 1 loss | 1.0 M | nothing slips between channel and list, a live view is watched, `EndIsShown` |
| `workflow_draft` | 3 nodes, 3 edits, 2 saves, 1 flow | 2.1 M | edges join nodes, no cycle by hand, `Timeline`, saved when quiet |

Each property of these runs is broken by a mutant of the code it is about: an
operator just before the mapped definition, marked "a plausible bug" or "mutant".

`delete_stops_streams` looks for a behaviour that contradicts a sentence of the
repository, and finds it: a superseded stream's done-callback unregisters its
successor, which then survives the deletion of the session (`manager.py:70`).

### Bounds

*RuntimeSession.* Three requests are a holder and two waiters, the least for the
order of a queue to matter, and also a holder, a waiter and a newcomer, which is
what the second entry of a key takes. Two agents of one session give
`AbortSession` more than one key. A request is used once, which bounds the runs;
deletes, aborts and crashes are bounded by the state only.

*AgentTurn.* Two calls are what an order of handlers takes; two blocks of two
units make a delta, a repeated block, a grown block and a second block; two turns
let the handlers of an aborted turn meet the next. One artifact is saved at a time.

*SupervisorStream.* One stream: streams of a session share only its status word
and the gauge. Three chunks cover a chunk read, one buffered and one on the wire.
Two aborts let a local and a broadcast one, or two in a row, meet a hang-up.

*ChatStream.* Two turns are one stream superseding another. Three turns or two
tabs with two turns exceed what TLC explores in minutes.

*ChatClient.* An old turn and a new one, pages of one row, two chunks: a page, a
reload and the terminal event can each bring the agent's row; a replay repeats a
chunk. One break with a second socket is a reconnection, and an effect that runs
again counts as one. `Impatient = FALSE` keeps "Retry now" from being pressed while
a socket is already opening (see below).

*AgentHome.* One session there at first and one to be made; two losses are a socket
and a call. *WorkspaceEdit.* A file, a free name for it to move to and their
directory; three calls, two at once, are a load, a save or a reload, and a rename or
a deletion in between; the clock moves at every write. *EditorGrid.* Two columns and
two rows, so that limits are met, and three tabs for a pane to keep one.

*WorkflowRun.* Three nodes hold a chain, a fork, a join, and a diamond's halves;
one cancel request meets every state of the run. A second signal would only
repeat `Interrupted` on a task already interrupted.

*RunViewer.* Two runs are a view and the one it replaces; two sockets a closing one
and its successor; two requests an answer that comes late. *WorkflowDraft.* Three
nodes make a cycle that is not a pair; histories of two make the oldest state fall
off; two saves can overtake one another; one flow interrupts them.

Deadlock is not checked: requests, turns, streams, runs and edits are finite in
number and the systems then stop, as they should.

### Fairness

* `RuntimeSession`: `WF(Finish(r))`. A turn ends: the SDK's query returns, fails
  or obeys its abort. Nothing is assumed of clients, aborts, signals or restarts.
* `SupervisorStream`: the event loop runs the task and the handler when they can
  run, and the abort listener hears what was published. Nothing is assumed of
  the runtime: `AbortEnds` holds though it may stay silent for ever.
* `ChatStream`: the event loop runs each turn's task. The supervisor's answer is
  not assumed; `Concludes` starts from it.
* `ChatClient`: timers fire, the API serves the sockets it accepted, their events
  are handled. Breaks are bounded, so `Reconnects` is about the time after the last.
* `AgentHome`: events are delivered, the list is served and applied. Users, losses
  and commits may never happen.
* `WorkflowRun`: `WF(Worker)`. Temporal schedules workflow tasks and activities,
  and every activity has a timeout.
* `RunViewer`: what a run has written is published, the WebSocket handler goes on,
  the browser delivers. The run itself need not go on: `EndIsShown` starts at its end.

## Proofs

What a run shows on a small instance the theorems state for every value of the
constants: any number of requests, turns, tabs, nodes, chunks, files or calls. A safety
property is seldom inductive, so each module strengthens it to an invariant of named
parts, proves that every action preserves each part, and reads the properties off.

**`SessionProofs`**, for the runtime (assumes that `Nobody` is no request). `IInv` says what
mutual exclusion rests on: `locked` names exactly the entries with a running turn
(`HolderInv`), a queue holds only queued requests of its entry, each once (`QueueInv`),
an entry is never made twice (`EntryInv`), and a registered entry is held by a turn
that can be aborted or was (`RegistryInv`). Hence `TypeCorrect`, `MutexExclusive`,
`MutexWakesWaiters`, `AbortFindsLiveTurns`, `RegisteredTurnsAbortable`, and the
refinement `MutexIsTurnLock`: a queue that is not empty is a set of waiters that is
not, and its head is one of them. `QueueIsFair` adds `OrderInv`, queues stand in the
order of arrival, and that a step starts only the head of a queue.

**`TurnProofs`**, for the agent's turn (the two absent values are no calls; the length of a block is
bounded by a natural number). For the parents of calls, `AgentInv`: an identifier is queued
once, only after its hook has run, and one that was taken is in no queue any more, so
`ParentsApart` cannot be broken by a handler that outlives its turn. `ReportIsKept`
follows an artifact through a save. For the text, `TextInv` relates the accumulator to
the blocks: the whole length of the block that grows is what it has counted for the
kind (`Growing`), a kind with no block in this round has a count of zero, and deltas
switch whole blocks off (`Counting`). `OnceInOrder` and `AllIsShown` then hold for
blocks of any length, which TLC sees only up to two units.

**`SessionProofs`**, for the supervisor (finitely many streams, natural bounds).
`StreamInv` follows a
chunk from the runtime to the answer. What is on the wire is ordered, at most one
"query started" first and one end last, so its chunks can be counted (`Flow`): what the
runtime wrote is what Redis holds, what is on the wire, and the one being appended.
Before the query nothing was written (`Fresh`), a cut connection carries nothing
(`Cut`), a stream that ended well left nothing on the wire (`Whole`), what was shown
was appended first (`Counted`), and the handler answers after the task is over
(`Replied`). `AnswerIsWhole`, `OverIsMarked` and `StreamTypeCorrect` follow. The gauge is part
of the invariant, as the cardinality of the set of streams inside the `try`.

**`TurnProofs`**, for the API (`NoTurn` is no turn). `Row` ties the stage of a turn's task to
what the database holds of it: no answer is stored before the call returned, what is
stored is what will be published, only a turn that never reached the SDK loses its row.
`Channel` ties the tabs to the events: what a tab was sent was published and is not
counted unread. From these `NoStaleUnread`, `EventsAreStored`, `OneOutcome` and
`TypeCorrect`, with every supersession, deletion and answer of the supervisor.

**`WorkflowRunProofs`** (graphs are sets of pairs of nodes; `MaxSignals` is a number).
`Core` relates the sets of `run()` to the rows: what it has taken for settled is
committed (`Settled`), a task that ended has its row unless a cancelled write may still
land (`EndedRows`, `LateInBatch`), what is off the list may release dependents
(`Accounted`). `CompletedSettles` and `StartsInOrder` follow. `Branches` adds
that a node is touched only if each node before it completed with this branch taken or
was left out for good, for `BranchStaysOut`. `Undisturbed` describes the runs nobody
cancelled, for `ClosedIsSettled`.

The same module has the viewers (the absent value is no call). `NothingSlips` needs that
the list holds what the channel carried and that it expires only when no connection
that is still to replay needs it; `LiveWatched` follows the page's calls and sockets.

**`WorkspaceProofs`** (`PathsAssumption`: paths are sequences of names, and a path's
directories are paths or the base; the first tree is a tree; files and renames are
paths). Calls and dialogs name paths (`AllAddressed`, `DialogNames`), and each operation
of `WorkspaceFiles` keeps the tree a tree, renaming a directory with all below it
included: `TreeStaysTree`. `SpinnerEnds` is proved path by path: a step leaves a path's
tab settled, or its loads and generation alone, or has just sent a load of its
generation. `SaveReplacesWhatItRead` is about the history of a file, under `ClockMoves`:
the clock moves at every write, and files of the first tree are older than it and differ
in time where they differ in text. Then a time tells a text (`TimesTellTexts`): whoever
holds a text with its time (a tab, a call on its way, an answer, a dialog) knows every
file of that time, and no time is still to come. A save whose time is that of the disk
thus replaces the text its tab had read. The
assumption is needed: the code compares times, and two writes within one tick share one.

**`WorkflowDraftProofs`** (finitely many nodes; a history holds at least one state; the
absent value is no graph; the first graph, the versions and the assistant's plans are of
their types). `WouldCycleIsExact` is about the search the canvas makes before it draws an
edge, on any graph without a cycle: it refuses exactly the edges that would close one.
`EdgesAlwaysJoinNodes` assumes that the first graphs' edges join their nodes
(`StartsSound`) and holds wherever a graph is kept, canvas, history, drag, saves on their
way and rows, since a node that goes takes its edges along. With first graphs that have no
cycle (`StartsAcyclic`), `NoCycleWithoutPlan`: only a plan of the assistant, which is
applied unsearched, can bring one. `SavedOnceQuiet` needs what the debounce promises:
what will reach the row last (the timer's graph, else the last save's, else the row
itself) is what the canvas shows (`Quiet`), and a drag has moved nodes and nothing else
(`DragOk`). `HistoryWalksALine` is the refinement of `Timeline`: the two stacks with the
graph between them are one line of states, a drag is one state of it, and the oldest state
falls off at the limit.

**`AgentPageProofs`**, for the chat (`ChatConstants`; numbers of turns and a page that is
not empty). `ChatBlocksInOrder` assumes `~Impatient`, as its run does: "Retry now" waits
for the timer. Its invariant `BInv` has two halves. The view heeds one socket at most, and
none while a reconnection is scheduled (`OneSocket`, `TimerAlone`, stated on their own by
`ChatConnectsOnce`), because a close is the last thing a socket says (`Closes`). And
what an inbox holds is in order (`Sane`): between two `replay_start` its chunks ascend,
those before the first one go on where the blocks stop, and none was sent that was not
published, so a chunk that is published comes after all of them. `ChatMessagesOnce` needs
that each page that came back has a row once and that joining, removing and appending
keep it so. For the list of sessions (`HomeConstants`: sessions are finitely many numbers
and the absent values are no lists of them), `HomeListIsTrue` follows from `Tracks`: as
long as the page missed nothing, it knows of each session what its row says, or an event
that tells is on the wire, and no creation is behind a deletion there.

**`EditorGridProofs`** (`GridConstants`: pane identifiers are numbers, the root's among
them, and the limits are not zero). `GridInv` strengthens `GridShape` by what the handlers
lean on. `Grid` says it of any rows, since a deletion goes through intermediate ones:
within the limits (`Sized`), panes apart (`Apart`), and every pane `Sound`, which adds that
a tab with a draft is pinned (`PinsDrafts`) and that only the root pane alone is empty
(`Filled`). Without `PinsDrafts`, a preview that `openFile` replaces could be a draft;
without "each path once" (`Once`), `nextActiveAfterRemoval` could name the tab that goes.
`Questions` says what a dialog's handler finds: a close names one path, a deletion a list
of panes and paths, which need not be there any more. Each operation on rows keeps `Grid`
by a lemma of its own, and `DeleteAnswered` by induction over the tabs it closes:
`GridCorrect`, `GridStaysShaped`. For `DraftsAreKept` each action that is no giving up
exhibits its injection: the identity, the pane a split or a drag took the draft to, or the
new name.

The lists of the web client are filtered, sorted, merged and flattened, and facts about
that are inductions over their length. The provers have no induction rule that can be
cited, so `ListProofs` proves one as a fact about sets of numbers: a set of naturals that
is not empty has a least element (`Least`), hence a set that has 0 and, with a number, the
next one has them all (`Induction`). `Lists` writes sorting as a choice and filtering as a
recursive function so that `SortedFacts` and `WithoutFacts` can be proved from it;
`InsertFacts`, `RemoveFacts` and `FlattenType` are about the community modules' operators.

Model-checked only: liveness (`Served`, `AbortEnds`, `Concludes`, `Reconnects`, `RunCloses`,
`EndIsShown`, `GoneIsLeft`), which is beyond the prover. Every other property of a passing
run is a theorem.

## Abstractions

* Redis: helpers are taken to succeed. The code swallows their errors, and a
  failed append is then a chunk shown and not stored. PUBLISH and RPUSH of a run's
  event are a pipeline that Redis is taken to run in one go.
* Events other than terminal ones are not told apart in `ChatStream`; chunks are
  counted in `SupervisorStream`. Wording, titles, timestamps and payloads are out.
* A relay's `send_json` and the unread DEL after it are one step.
* A disconnection that the WebSocket handler notices does not stop a message it is
  still starting; the turn goes on.
* Temporal's RPC errors, other than "not found", are out, and so is a node of an
  unknown type, which would make the workflow task fail for ever.
* Times: polls, grace periods, backoffs and deadlines are "at any moment".
* In the client, a render and the effects it runs are one step with the update that
  asks for it, except where a stale render matters (dialogs, splits, deletions).
* History variables say where a property makes an exception: `strays` (tabs renamed
  while loading), `blind` (an event missed, or overtaken by an older answer), `torn`,
  `clean` and `planned` (a key in mid-drag; a save lost or overtaken or a flow in
  between; an accepted plan).

## What the models show of the code

Behaviour the models have, which the properties are therefore stated around.

*Runtime.* A turn's end removes the key's entry while others wait for its mutex; the
next message gets a second mutex and runs beside them (`server.ts:122`, against the
header of the file). Deleting an idle key deletes nothing (`session-manager.ts:97`). The
close listener is attached after the lock was acquired (`server.ts:101`). A second block
of one kind in a round loses the head that is not longer than the first
(`streaming-accumulator.ts:8`). A save removes the old artifact before it copies
(`agent.ts:289`), and missing inputs are skipped silently (`agent.ts:325`). Parallel
sub-agent calls may swap identifiers (`a2a-tools.ts:156`), and a call outlives an aborted
turn.

*Chat.* An abort after the read loop loses the assembled text (`agents.py:134`). The API
deletes a message the SDK kept when the supervisor dies in mid-turn (`manager.py:247`).
The end of a stream may fall between a tab's replay and its subscription
(`sessions.py:604`). In the client, "Retry now" opens a second socket beside one that is
opening (`use-session-websocket.ts:25`) and blocks then repeat; a user's message can be
listed twice after a reload (`use-chat-messages.ts:97`); an old reload drops newer messages;
a rollback removes the last user message, whichever it is; the composer is cleared even if
the socket took nothing (`chat-input.tsx:224`).

*Agent page.* A creation answered after the session's deletion brings its row back; events
missed while the socket is down are never made up for; an event that meets the first load is
overwritten by the older list; a deletion answered late jumps to the first session.

*Workspace.* What is typed during a save is lost when it is answered. "Save" in the close
dialog never closes the tab. "Overwrite" in the conflict dialog sends the text of the refused
save. A tab renamed while it loads spins for ever. A tab dropped on a pane that has its path
loses its draft. A load of a closed and reopened tab may be applied late
(`use-workspace-editor.ts:150`). Two writes within a millisecond are told apart by nothing.

*Workflow builder and runs.* Deploy does not send the queued save first; switching away from
the draft drops it; PUTs may overtake one another and a failed one is not sent again; one
under way lands after Cancel has reverted (`use-auto-save.ts:59`). A plan is not checked for
cycles. Undo or delete by key in mid-drag leaves a history that is no line. Cancelling a run
that closes between the last poll and the termination leaves it unresolved
(`workflow_run_service.py:161`). A forced "cancelled" is published before its commit and never
listed, so a viewer that connects in between waits for ever; the `onclose` of an old socket
forgets the new one (`use-workflow-run.ts:123`), and nothing connects again after a loss.

## Not modelled

* Supervisor: `assembly.py` is a function of the chunk list, which `SupervisorStream`
  counts; the A2A stream; identity, routing and vault are look-ups.
* Worker: the agent step's own stream, heartbeat and retries; `WorkflowRun` sees its outcome.
* API: the auth session store; two users deploying one workflow; listings and CRUD, one
  transaction each.
* Web client: attachments, search, titles, badges and statuses of rows, image previews,
  clipboard, settings, catalogues, the command palette, login; rendering throughout.
* Admin console, charts, gateway patches, migrations.
