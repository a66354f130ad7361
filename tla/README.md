# Verification of the conversation engine

TLA+ specifications, TLC runs and TLAPS proofs for the multi-agent back end in
`src/backend/app`, for its web client (`src/frontend/src/App.jsx`), and for the part of the
OpenClaw gateway (`src/openclaw-main`) that decides which agent run works when. Line numbers
below are those of this commit; `SE`, `main`, `ceo`, `store` and `App` stand for
`step_executor.py`, `main.py`, `ceo.py`, `session_store.py` and `App.jsx`.

## 1. The system

A user opens conversations with a CEO, a department lead or a single agent. A question
becomes a *plan*, a list of nodes; the server runs one node that calls the language
model, pauses, and asks the user to continue, to regenerate the answer or to modify it.
The plan grows while it runs: the CEO's answer appends departments, a lead's answer
inserts agents.

| component | state | operations | talks to |
|---|---|---|---|
| step executor (`step_executor.py`) | local `plan`, `cursor`; the shared `AgentState` | `execute_step`, plan functions, `merge_output` | session store, nodes, the response body of its request |
| session store (`session_store.py`) | `_sessions`: id to `SessionData` (state, plan, cursor, last node, cancel flag) | save, get, delete, cancel, cleanup (never called) | only through the handlers and the executor |
| chat API (`main.py`) | one event queue per request | `/chat/stream` (fresh, typed answer, confirmation, expired), `/chat/stop`, `/chat`, Edict branch | creates executor tasks |
| CEO nodes (`ceo.py`) | fields `plan`, `plan_step`, `current_department` | analyse, dispatch, triggers, summary | model, departments |
| departments (`departments/`) | configuration; `sub_plan`, `sub_plan_step`, `results` | lead plan, dispatch, 17 sub-agents | model, knowledge, skills |
| token streaming (`utils/streaming.py`) | the writer found in the shared state | one event per token | the response body |
| web client (`App.jsx`) | conversations (loading, awaiting confirmation), one abort controller | send, confirm, done, stop, read events | chat API |
| message history (`utils/messages.py`) | none | first and last user message, history by turns | read by every node that asks the model |
| Edict pipeline (`main:522-651`, `core/openclaw.py`) | rolling window, current stage, log; in the client the phase shown | stage detection on a token stream | OpenClaw gateway, web client |
| knowledge bases (`kb.py`, `db/qdrant.py`) | JSON file, files, vector collections | create, update, add document, search, recall test | Qdrant, embeddings |
| document splitter (`kb.py:61-182`) | none; positions in the text while it works | clean, cut at breaks with an overlap, pack into chunks | `add_document`, which embeds the chunks |
| skills, bindings (`skill.py`, `agent_kb.py`) | three JSON files | create, change, delete with a cascade, bind | prompts, the client's dialog |
| agent configuration (`agent_config.py`) | JSON file of overrides | get, set, effective | prompts, the client's dialog |
| settings dialog (`App.jsx`) | registry and skills as last fetched, the open form, the save under way | open, edit, close, save | configuration, skills, bindings |
| OpenClaw gateway (`src/openclaw-main`, vendored) | command lanes, active runs, open replies, restart loop | enqueue, drain, clear, reconfigure, open and close a reply, restart | agent runs, replies, cron jobs; reached over one HTTP endpoint |

`PROJECT.json` lists every component with its status.

### What makes it hard

* **One event loop, many tasks.** Each request to `/chat/stream` starts a task. Tasks
  give up the loop only inside a model call (the event queue is unbounded, so putting an
  event never waits). There is no lock on a session: two tasks may work on the same
  `SessionData`, each with its own copy of plan and cursor.
* **State read early, written late.** `plan` and `cursor` are read when a task first runs
  and saved only when it pauses or is stopped. A failed model call saves nothing, but what
  silent nodes did to the shared state stays.
* **Two sequences to keep in step.** `plan_step` in the state counts departments, the
  cursor counts nodes; a regenerated answer steps back one of them.
* **Two views of a session.** The client's bar says where the session is paused and what
  comes next; the server may have lost, replaced or moved the session meanwhile.
* **File and collection.** What `kb.py` knows of a knowledge base is in a JSON file, its
  vectors in a collection of Qdrant; a handler changes one after the other, may fail or be
  killed in between, and the next handler starts from what is left.
* **A client that remembers.** The settings dialog shows the bindings as they were when the
  client last fetched them and writes them back whole, in three requests, while skills are
  made and deleted and the user closes the dialog and opens another.
* **A text without structure.** The phases of the Edict pipeline are markers in a stream that
  is cut anywhere; server and client look for them in different stretches of it.
* **Steps back in a loop.** The splitter goes back by the overlap after a piece it has cut short
  at a break; whether it gets on depends on three numbers a form sets.
* **Lanes within lanes.** A run of the gateway holds a slot of several queues at once, starts
  tasks in the middle of a drain, and may outlive the restart that emptied the queues. It waits
  for one lane while it holds another; a cron job that times out gives its lane back while
  its run goes on; and a reply is open around a run, outside all lanes.
* **Stop.** It travels on its own connection, may overtake the request it is about, sets a
  flag that is read only between nodes and that any resumption clears.

### What makes each part correct

* Executor: never runs past a plan, skips no node, asks after every agent, ends every
  body, and says exactly once how it ended.
* Plan functions: expansion leaves what has run alone; the node announced next is the one
  that runs; "final" is said when nothing is left.
* CEO: the department dispatched to is the one whose lead runs.
* Client: never two tasks on a session; the bar tells the truth; spinner and bar exclude
  each other; no answer leaves the spinner turning; Stop acts on an open request.
* Knowledge bases: a search finds a collection that takes its query, with vectors of the
  query's own model, and no vector that could be found is lost.
* Splitter: no text is lost, no chunk is too long, and it ends.
* Agents' inputs: who is asked to answer anew works on what the user said.
* Settings: no binding to a skill that was deleted; a save changes what the user changed, and
  what it saved is what the agent works with.
* Edict: phases come in the order of their markers and not too late; the log follows them.
* Lanes: no slot leaks or is given twice, no wake-up is lost, runs on a session exclude each
  other, whoever asked for a run hears how it ended, a restart does not need its timeout.

The 40 hazards in `PROJECT.json` tie these to lines and to the properties that cover them.

## 2. Modules

| module | models |
|---|---|
| `OrgChart` | departments, sub-agents, what each reads and writes, the kinds of nodes (`departments/registry.py`, the node tables of `SE`) |
| `PlanExpansion` | `compute_initial_plan`, `expand_plan_after_node`, `_find_next_pausable`: pure functions |
| `StepExecutor` | `/chat/stream`, `/chat/stop`, session store, `execute_step` and the nodes it runs |
| `AgentInputs` | what a node that asks the model reads of messages and results (`utils/messages.py`, the heads of the node functions) |
| `ChatSystem` | the web client composed with the server; its properties |
| `Dialogue` | the abstract specification of a conversation, which `ChatSystem` implements |
| `ChatClaims` | two statements of the documents that do not hold |
| `KnowledgeBase` | the JSON store of `kb.py` and the collections of `db/qdrant.py` it describes |
| `AgentSettings` | configuration, skills, bindings, and the dialog of a client that edits them |
| `TextSplitter` | how a document is cut into pieces and packed into chunks (`kb.py:61-97`, `138-182`) |
| `EdictPipeline` | stage detection, phases and log of the Edict branch, and the phase the client shows |
| `CommandLanes` | the gateway's queue, the runs that pass through it, the restart in its process |
| `MCStepExecutor`, `MCChatSystem`, `MCKnowledgeBase`, `MCTextSplitter`, `MCAgentSettings`, `MCEdictPipeline`, `MCCommandLanes` | constants of the instances TLC checks |
| `StepExecutorProofs`, `BodyProofs`, `ChatSystemProofs`, `EdictPipelineProofs`, `KnowledgeBaseProofs`, `TextSplitterProofs`, `AgentSettingsProofs`, `CommandLanesProofs` | theorems and proofs |

`AgentInputs` extends `StepExecutor` and `ChatSystem` extends `AgentInputs`.
`ChatSystem` extends `StepExecutor` with the client's variables; its steps are those of
the server with the client unchanged, those of the client with the server unchanged, and
two joint steps (`Deliver`, `StopArrives`) in which a request reaches its handler.

### State of `StepExecutor`

| variable | code |
|---|---|
| `store` | `_sessions`: session id to object, or `None` |
| `sessionData` | the `SessionData` objects, named by the request that built them; an object outlives its place in the store while a task still works on it |
| `task` | per request: where `execute_step` is (`pc`), its session id and object, its local `plan` and `cursor`, the writer its current model call has bound |
| `sse` | the response body: every event put into the request's queue |
| `ready`, `running` | the event loop: tasks that can run, first in first out, and the task that has the loop |

### Actions of `StepExecutor`

| action | code |
|---|---|
| `FreshRequest` | main:654-699 |
| `ResumeWithMessage` | main:510-520 |
| `Confirm`, `ConfirmExpired` | main:483-508 |
| `StopChat` | main:455-460, store:57-63 |
| `StartTask` | first run of the task, SE:286-291 |
| `StopAtCheck` | SE:293-301 |
| `SkipUnknownNode` | SE:306-309 |
| `RunDispatchToDepartment`, `RunDispatch`, `RunTriggerActions` | a silent node: one whole iteration of the loop |
| `CallNode`, `StreamChunk`, `ModelAnswers` | a node up to its model call, a token, the end of the call |
| `AnalyzeIntentReturns`, `LeadPlanReturns`, `AgentReturns`, `SummarizeReturns` | the rest of the iteration: merge, expand, report, pause |
| `NodeRaises` | the exception path, SE:407-412 |
| `FinishPlan` | SE:396-412 |
| `Restart` | the process ends; nothing is on disk |

All that an iteration does after its node has answered (merge, advance, expand, update
event, save, confirmation event, end of stream) is the operator `CompleteNode`, so that
no step of it can be left out or run apart.

What is abstracted: a message is the request or the task it comes from; a result is the
place it is written to; one token stands for all of an answer; a model's plan is any
member of `CeoPlans` or `SubPlans`, which include an empty answer and names nobody has
registered; "malformed" is an answer that is not JSON. `Moves` says which moves of the
environment an instance allows (typed answers, regenerate, modify, stop, failing calls,
malformed answers, restarts, tokens, lost connections).
The history a client sends along with a question is left out; when it is there, "the last
AI message" of a plan that ran nothing is the last one of the history.

### The client

`ui` is what each conversation shows, `call` the client's side of each request, `abortRef`
what the one shared `abortControllerRef` holds. `HandleSend`, `HandleConfirmation`,
`HandleDone`, `HandleStop` are the handlers (App:2068-2249) with the guards of the
interface (App:2978, 3004); `ReadEnding` and `ReadEnd` are `processSSEStream` and the
`finally` after it, apart because React may render, and the user click, in between.
`ConnectionLost` is the `catch` of a broken fetch. The browser and the user act when no
task waits for the loop: the queue of callbacks is emptied in far less time than a click
takes, and without this the handlers of one request would interleave with its own first
instructions to no purpose.

### Knowledge bases

`disk` is `knowledge_bases.json` (`Null` while it is torn between truncation and write),
`collection` what Qdrant holds for each id, `job` the handler at work with the store it has
read. The handlers never await between reading and writing, so one runs at a time; but each
call to Qdrant and each half of the write is a step, and `Abandon`, a call that raises or a
process that dies, may follow any of them.

| action | code |
|---|---|
| `CreateKB`, `UpdateKB`, `RecallTest` | kb.py:285-320, 362-392, 472-512, up to the write |
| `AddDocument` | kb.py:401-427, up to the vectors |
| `DropCollection`, `MakeCollection` | kb.py:429-431 with qdrant.py:38-43, in its two calls |
| `Upsert` | kb.py:432-466: the chunks, and the document in the list |
| `Truncate`, `Write` | kb.py:47-49 |
| `Abandon` | main:133-148; or the process dies and is started again |

A knowledge base is its model, its vector size and its list of documents; a document is one
point, or none if it has no text. Qdrant is external: a collection has a size, takes vectors
of this size only, and an upsert is done or not.

### The splitter

`document` is the segments that still wait, `cleaned` the one that is being cut, `start` where
its next piece begins, `current` the chunk that is being packed, `chunks` those that are closed.

| action | code |
|---|---|
| `TakeSegment` | kb.py:150-177: the next segment is packed, begins a chunk, or is to be cut |
| `CutPiece` | one turn of the loop kb.py:70-96: up to the last break before the limit, or to the limit |
| `CloseLast` | kb.py:179-182 |

A break is the last newline, blank or sign that ends a sentence. The two candidates of the code
that are two characters long (an empty line, a full stop with a blank) each contain a newline or
a blank that stands further on, so they never decide. `MinSize` (100 in the code) and
`BreakPercent` (45) are constants: an instance that TLC can enumerate needs chunks of a few
characters. `int(chunk_size * 0.45)` is computed in floating point; it is the whole part of the
product for every size up to 200,000.

### The dialogue

`Dialogue` knows nothing of tasks, sessions or requests: a conversation is idle, working or
deciding; somebody may have been promised to answer next. `ChatSystem!Seen` maps the client's
state to it, as the user sees it:

| `Dialogue` | `ChatSystem` |
|---|---|
| `phase` | working while `ui.loading`, deciding while `ui.awaiting`, idle otherwise |
| `promised` | what was announced for the request that is awaited (`call[r].announced`) |
| `said`, `next` | the two names in the confirmation bar |

A `Dialogue` step is one of a user or of a body that has been read; all steps of the server, of
the network and of the tasks are stutters of it. What it says of a step (the answer is that of
the promised agent; a conversation with a promise does not just end) follows from no single
handler: it rests on plan, cursor, expansion, pause and bar agreeing. `AnswersCome` is its
liveness. It is implemented as long as nothing goes wrong; the exceptions are in section 4.

### What the agents read

`Prompt(node, state)` is everything of the dialogue that goes into the prompt of a node:
`Query`, which is the last message (`analyze_intent`), the last message of the user (leads,
most agents) or the result an agent is chained to (the second of a chain, with the *first*
message as fallback), and the last `DEFAULT_CONTEXT_TURNS` turns before the question.

### Settings

`skills`, `config`, `kbBinding` and `skillBinding` are the stores; `registry` and `skillList`
what the client fetched last; `opening` and `dialog` its dialog; `save[p]` a save, which is
three requests and three refreshes one after the other. Skill ids are never given twice here.

| action | code |
|---|---|
| `CreateSkill`, `ToggleSkill`, `DeleteSkill` | skill.py:40-78, 116-124; a crash may cut the deletion short |
| `OpenDialog`, `ConfigArrives`, `ConfigFails` | App:2282-2319 |
| `Edit`, `CloseDialog` | the fields and buttons of the dialog, App:3311-3451 |
| `StartSave`, `PutConfig`, `PutKbBinding`, `PutSkillBinding`, `RefreshRegistry`, `EndSave` | App:2322-2343 with the handlers of `main` they call |
| `SaveFails` | App:2344-2347: a request is lost, or its answer is |
| `RefreshSkills` | the skill page, or another refresh |

Three variables are history: `orphans` (skills whose deletion was cut short), `astray`
(something came between a dialog and what it knows: an empty dialog, a failed save, a dialog
closed while it was being saved; until, after a save with nothing else under way, the client
knows the bindings again), `saved` (the form that was saved last and well).

### The Edict pipeline

A text is a sequence of units, plain or the k-th part of the marker of a stage; the gateway
writes whole markers and sends the text in pieces cut anywhere. `Delta` is one turn of the loop
main:603-633 with the events it queues and what the client makes of them (App:2016-2056),
`Finish` and `Fail` the two ends (main:634-649). The window holds `WindowSize` units, and of
the markers in it the first *in the list* is reported, not the last in the text.

### The gateway's lanes

A job is one agent run with a path of lanes: its session's, then a global one; a cron job holds
the cron lane before that and asks for `nested` within it. `queue`, `active`, `maxConcurrent`
and `generation` are the fields of a lane, `pumping` the stack of `drainLane` calls under way
(a task that starts may drain another lane before the first drain goes on; JavaScript does
nothing else until the stack is empty), `activeRun` the registry of `runs.ts`, `replyRun` that of
`reply-run-registry.ts`, `gateway` the state of the restart loop. A job with depth d and outer o
has entered the lanes o to d of its path: o is 2 once a cron job has timed out.

A run that answers a message stands within a reply, which is opened before the run asks for a
lane and closed after it has settled. Replies are not refused while the gateway drains, only what
they enqueue is; `getActiveEmbeddedRunCount` counts them, so a restart waits for them too.

| action | code (under `src/openclaw-main/src`) |
|---|---|
| `Submit`, `Start`, `DrainEnds`, `Return`, `GiveBack` | `enqueueCommandInLane`, `drainLane`, `completeTask`, process/command-queue.ts |
| `Clear`, `ResetAllLanes` | the functions of these names there |
| `Reload` | `setCommandLaneConcurrency` for each configured lane, gateway/server-reload-handlers.ts:138-140 |
| `OpenReply`, `AbortReply`, `CloseReply` | `createReplyOperation`, `abortByUser`, and the `finally` of `runReplyAgent`, auto-reply/reply/ |
| `Proceed` | a cron job or a reply asks for the lanes of its run, or has none to run |
| `CronTimesOut` | `executeJobCoreWithTimeout`, cron/service/timer.ts |
| `Register`, `Retry`, `Finish` | `setActiveEmbeddedRun`, `clearActiveEmbeddedRun`, agents/pi-embedded-runner/runs.ts, for each attempt of a run |
| `RequestRestart`, `PollRuns`, `Close`, `DrainTimesOut` | cli/gateway-cli/run-loop.ts |

The restart modelled is the one in the process, which the gateway takes when it cannot or must
not start a new process (run-loop.ts:75-112); a new process begins with `Init`.

### What is simplified

Where the modules say less, or more, than the code:

* *Lanes.* A reply asks for one run. In the code the compaction and the memory flush before it
  (agent-runner-memory.ts:403 and 715) and its fallback models are further runs under the same
  reply, one after the other. A reply that is aborted while it is `queued` is closed at once; the model
  does not tell `queued` from the phases that follow until the run is asked for, so it may be
  closed at once in any of these, or not. The lanes that are drained after a reset come in any
  order; the code has the one in which they were first used.
* *Settings.* `OpenDialog` has one fetch under way. App:2282-2292 lets the user open a second dialog
  meanwhile, and the late answer then replaces its contents.
* *Chat.* `HandleStop` is not repeated before its answer (App:2141 would send a second request, which
  does nothing new), and the request to `/chat/stop` does not fail: App:2158 logs a failure and
  goes on, with the client as after an answer and the server as if it had not been asked.
* *Executor.* Names of nodes and of agents are kept apart (`AgentNode` and the fixed nodes of
  `OrgChart`); in step_executor.py they share one namespace, so that a lead that names an internal
  node as an agent would run it. The shortcut for a lead that is asked for directly
  (base.py:75-85) is left out: no plan of the executor reaches it.
* *Knowledge bases.* `Upsert` needs the collection even for a document without text, for which
  kb.py:449 makes no request; the collection is always there then.

## 3. Runs

| run | instance | distinct states | question |
|---|---|---|---|
| `overlap` | 2 requests, each with or without a session id (without: the key `None`), every move | 66 thousand | does the executor stay sound however requests on one session overlap, and does every body end? |
| `dialogue` | 1 conversation with a lead or an agent, 3 requests | 36 thousand | does the client's picture stay true; does the spinner end? |
| `ceo` | 1 conversation with the CEO, 6 requests, two departments | 130 thousand | is the plan followed as announced? |
| `faults` | 1 conversation, 3 requests, stop, failure, restart, lost connection | 518 thousand | does the client stay usable when things go wrong? |
| `knowledge` | 2 knowledge bases, 3 uploads, 3 models of 2 sizes, any step the last | 73 thousand | do file and collection agree whatever fails? |
| `splitter` | every text of 8 characters in one segment, three segments of up to 7, 2 sizes, overlaps of -1, 2 and 9 | 71 thousand | is every text kept, in chunks that fit, and does the splitting end? |
| `settings` | 1 agent with 1 skill, any number of saves with 2 at a time (symmetric), any request lost | 2.8 million | does an edit save what the user meant, however stale the client's view? |
| `edict` | texts of up to 10 units, 4 stages, markers of 2, window of 6, pieces of up to 3 | 163 thousand | are phases in order, in time and logged? |
| `lanes` | a reply and a run on different sessions in the main lane, a cron job on the session of the run; 1 or 2 slots, 1 reload, 1 restart | 240 thousand | do lanes, registry and restart agree; does every job end? |
| `claim_question`, `claim_local_stop`, `claim_feedback` | smallest that show it | | three statements that are violated |

The properties of each run:

* `overlap`: `TypeOK`; `CursorInPlan`; `NodesBehindCursorRan` (no node is skipped);
  `PausesAfterEveryAgent`; `SaysOnceHowItEnded`; `StreamsEnd`, under `Fairness`.
* `dialogue`: `UserIsHeard`; `BarHasSession`; `TokensReachTheirRequest`; `ImplementsDialogue`,
  under `ChatFairness`.
* `ceo`: `OneTaskPerConversation`; `AnnouncedNodeRuns`; `DispatchedDepartmentIsNext`;
  `FinalMeansNothingNext`; `ImplementsDialogue`.
* `faults`: `BarOrSpinner`; `AbortRefIsOpen`.
* `knowledge`: `KBTypeOK`; `SearchesSucceed`; `VectorsOfOneModel`; `VectorsAreKept` (no step
  takes from a searched collection). The users do not clear the field of the model here;
  section 4 says what happens when they do.
* `settings`: `SettingsTypeOK`; `BindingsExist`; `SavedIsUsed`; `UntouchedIsKept` (a save
  changes the bindings the user changed, whatever the others did meanwhile).
* `splitter`: `TextIsKept` (what is no blank at an edge is in a chunk); `ChunksFit`;
  `PiecesAdvance` (with an overlap the break leaves room for); `SplittingEnds`.
* `edict`: `PhasesInOrder`; `StageIsCurrent`; `ReportCompletes`; `LogFollowsPhases`.
* `lanes`: `LanesTypeOK`; `NoIdleSlot`; `SlotsAreHeld`; `OneRunPerLifecycle`; `NothingIsCutOff`;
  `JobsSettle` and `RestartsEnd`, under the module's `Fairness`.

Every property has a mutant in `PROJECT.json`: a plausible slip in one definition that
makes TLC report it violated.

### Bounds

* *Requests.* Two on one session are a task at work and one that resumes, replaces or joins it;
  the theorems of section 5 cover any number of them, for all of the safety properties. Only the
  liveness rests on two: a task does not wait for another, so a third could not stop it either. A
  conversation with a lead needs three requests for question, agent and what comes after; the one
  with the CEO six, to go through plan, two departments with an agent each, summary, and on.
* *Sessions.* Sessions of different ids share no state on the server. They do on the client:
  `claim_local_stop` has two.
* *Plans.* The instances offer the empty plan (which falls back to CS), a department nobody
  leads before a known one, lead answers of no, one and two agents, an unknown agent. Longer
  plans repeat these transitions, and the theorems of section 5 hold for all of them.
* *Knowledge bases.* Knowledge bases share the file only, so two suffice. Of the models two
  have vectors of one length and one of another, which is what `add_document` tells apart.
  Three uploads are one before a change of model, one after it, and one without text.
* *Splitter.* With chunks of 5 and 6 characters a text of eight is cut several times, with
  breaks before, at and behind the least piece; the overlaps are none, two, and one that is cut
  down to half the size, which is more than the least piece. `MinSize` is 5 and `BreakPercent` 19
  to fit. The theorems cover all other texts and numbers; that the splitting ends is checked only.
* *Settings.* Agents do not share bindings; what they share, skills and the client's registry, is
  read whole. So one agent, edited again and again, with a second save begun at any moment of the
  first, meets every stale view. One skill goes through its whole life. Knowledge bases are
  bound as skills are, only that they never vanish: the run has none, for its size; the
  theorems cover them.
* *Edict.* The window takes three markers without a gap, as the real one (80 characters) takes
  several of the real markers; a piece is shorter, as long or longer than a marker. Two of the
  four stages are looked for in the order opposite to the pipeline's.
* *Lanes.* The run and the cron job compete for their session, the run and the reply for the main
  lane. So jobs wait in a global lane while they hold another: the run holds its session and
  waits for the reply, while the cron job holds the cron lane and waits for the session. The limit
  of the main lane is 1 and may be set to 2, which lets a job in that waited for it, or the other
  way round while two work; that of the cron lane may be 0, read as 1. A reply may be open in
  one session and keep a restart waiting when the tasks are through, or be opened while it waits.
  A second restart would find a job of two generations back in the place of one of the last; the
  safety theorems cover it, and any number of jobs, replies, sessions and limits. That every job
  settles and every restart ends is checked for this instance only.
* *CHECK_DEADLOCK FALSE*: when every request, save, job and text has been made and served nothing
  is left to do; and a torn file stops every handler of `kb.py` for good.

### Fairness

In `StepExecutor`, `Fairness` is weak fairness of `Advance(t)` for every task: asyncio serves every ready
callback, and a model call comes back, since the client is built with a timeout
(`core/llm.py`, 30 s) and then returns or raises. Nothing is assumed of users, of stops, of
restarts or of tokens. `ChatFairness` adds that a request that was not aborted reaches the
server, that its body reaches the client, that a connection to a process that is gone is
reported as broken, and that the answer to `/chat/stop` arrives. The user may stop acting
at any time.

The splitter is one function call: it goes on until it returns (`WF_vars(Next)`).

`CommandLanes` assumes that a drain goes on until it ends (it is synchronous), that a run ends,
by its own timeout if need be (`runEmbeddedPiAgent` always has one), that the promise of a task
that ended is served, that a reply is closed after its run has settled (`complete` is in the
`finally` of agent-runner.ts:869 and followup-runner.ts:375) and asks for its run or ends without,
and that the restart loop polls and goes on. It does not assume that a drain ever times out, so
`RestartsEnd` says that it need not, nor that a cron job does. `RestartsEnd` does rest on a bound
of the model: finitely many messages arrive. New replies are opened while the gateway drains, and
without end of them the poll might never find the registry empty and only the timeout would end
the wait.

## 4. What the code does not do

Three runs end in a counterexample; each quotes the sentence it contradicts.

1. **A new question gets the old answer** (`claim_question`; README.md:331). The user asks
   an agent, gets the answer with the bar, and clicks "done". Only the bar is cleared
   (App:2073); the session stays in the store with its cursor at the end of the plan. The
   next question is taken for a typed answer (main:510), no node runs, and the final event
   carries the last AI message: the answer to the first question.
2. **Stop is not local** (`claim_local_stop`; README.md:366). Ask in one conversation, ask in
   a second, go back to the first, stop: the second answer is cut off (App:1840, 2146).
3. **A suggestion reaches nobody** (`claim_feedback`; README.md:330). Ask the second agent of a
   chain to modify its answer: it takes the result it is chained to and of the messages only
   those before the last question, and is called again with the same prompt. The key the
   suggestion is stored under (main:501) is read by nobody.

Further divergences that were met while modelling and are visible in the definitions:

* No sale triggers a repair (ceo.py:173, README.md:265): the condition reads
  `results["SALES"]["quote"]`; the agent writes `results["quote"]`.
* Change the embedding model and upload a document: the collection is recreated with the chunks
  of that document alone; the earlier ones stay listed as available (kb.py:430, 460).
* `update_kb` resets the size only for a model that is named (kb.py:387), but an empty model is
  read as the default one (kb.py:221): after the field is cleared queries of one length go to a
  collection of another, or are compared with vectors of another model.
* `analyze_intent` regenerated analyses its own previous answer (ceo.py:38): `UserIsHeard` is
  false for the CEO, and is checked with leads and agents.
* If the configuration cannot be fetched the dialog opens blank (App:2305), and saving it wipes
  prompt and bindings of the agent. A skill deleted while the server crashes between the two
  files stays bound (skill.py:76). Two skills of one name made in the same second have one id
  (skill.py:43).
* Two overlapping saves of which one fails leave the client with bindings it fetched before the
  other was done: until a save ends with nothing else under way, the next dialog writes them
  back. `UntouchedIsKept` and `SavedIsUsed` exempt this (`astray`).
* With an overlap of 46 to 50 % of the chunk size (half is the most `_split_text` lets through) a piece that is cut at a break may end before
  the one before it did, so that chunks repeat each other (kb.py:94); it still ends, because the
  start always moves by a character at least.
* The phase shown may go back when three markers stand in one window, in spite of
  README.md:299: the client shows the third while the server still has to report the second.
  A piece longer than window and marker allow can hide a marker from the server altogether,
  which is why `StageIsCurrent` and `ReportCompletes` say `PiecesFit`.
* The task of the Edict branch belongs to no session: `/chat/stop` finds nothing to cancel and
  it runs on (main:651). When the gateway fails, the phase it was in stays active.
* Two runs do work on one session, against openclaw-main's docs/concepts/queue.md:83, when a
  restart in the process timed out: the lanes are reset while a run of the generation before is
  still at work. `OneRunPerLifecycle` is what is left of the promise.
* `/chat/stop` does not stop the node at work: it finishes and its pause is still saved
  (store:58, README.md:335-338).
* The error event of an expired confirmation is never delivered (main:487): `ConfirmExpired`
  closes an empty body, and the client keeps its spinner.
* An error event is thrown inside the `try` that logs unreadable chunks (App:2058): after a
  failed model call the spinner turns until the user presses Stop. `ImplementsDialogue`
  is therefore checked without failures.
* The `finally` of an older request clears the reference to a newer one, so that Stop does
  not abort it; only the weaker `AbortRefIsOpen` holds.
* A restart loses every paused session, in spite of README.md:886; nothing cleans up stale
  sessions, in spite of README.md:215.
* A crash between truncating and writing `knowledge_bases.json` leaves a file that no longer
  parses; nothing repairs it (kb.py:49).
* Regenerating a lead runs the agents of the new plan and then those of the old one.
* A node retried after a failure runs the silent dispatch before it again, on a `plan_step`
  that has already advanced.

## 5. Proofs

`tlapm` checks, for every set of requests, sessions, targets and moves and for every answer
of the models:

| theorem | says |
|---|---|
| `StepExecutorProofs!ExpansionKeepsThePast` | expansion yields a plan, at least as long as the cursor, with the same nodes behind it |
| `StepExecutorProofs!StepInvariant` | the inductive invariant |
| `StepExecutorProofs!TypeCorrect` | `Spec => []TypeOK` |
| `StepExecutorProofs!CursorsStayInPlans` | `Spec => []CursorInPlan` |
| `BodyProofs!NodesRunInOrder` | `Spec => []NodesBehindCursorRan` |
| `BodyProofs!OneAnswerPerRequest` | `Spec => []PausesAfterEveryAgent` |
| `BodyProofs!BodiesSayHowTheyEnded` | `Spec => []SaysOnceHowItEnded` |
| `BodyProofs!FinalIsTruthful` | `Spec => []FinalMeansNothingNext` (P) |
| `ChatSystemProofs!NeverBoth` | `ChatSpec => []BarOrSpinner` |
| `ChatSystemProofs!AbortsOpenRequests` | `ChatSpec => []AbortRefIsOpen` |
| `ChatSystemProofs!FinalIsTruthfulToClients` | `ChatSpec => []FinalMeansNothingNext` (P) |
| `ChatSystemProofs!OneTaskAtATime` | `ChatSpec => []OneTaskPerConversation` (S) |
| `ChatSystemProofs!TokensArrive` | `ChatSpec => []TokensReachTheirRequest` (S) |
| `ChatSystemProofs!BarIsBacked` | `ChatSpec => []BarHasSession` (S, R) |
| `ChatSystemProofs!AnnouncedRuns` | `ChatSpec => []AnnouncedNodeRuns` (S, R) |
| `ChatSystemProofs!DispatchedLeadRuns` | `ChatSpec => []DispatchedDepartmentIsNext` (S) |
| `ChatSystemProofs!ModificationsAreHeard` | `ChatSpec => []UserIsHeard` (S, U) |
| `ChatSystemProofs!ClientKeepsPromises` | `ChatSpec => Seen!DialogueSafety`: the refinement, without its liveness (S, R, F, P) |
| `EdictPipelineProofs!PhasesComeInOrder` | `Spec => []PhasesInOrder` |
| `EdictPipelineProofs!NoPhaseIsLate` | `Spec => []StageIsCurrent` |
| `EdictPipelineProofs!ReportIsShown` | `Spec => []ReportCompletes` |
| `EdictPipelineProofs!LogIsComplete` | `Spec => []LogFollowsPhases` |
| `KnowledgeBaseProofs!KBTypeCorrect` | `Spec => []KBTypeOK` |
| `KnowledgeBaseProofs!KBInvariant` | the inductive invariant, if no user clears the model |
| `KnowledgeBaseProofs!SearchesAlwaysSucceed` | then `Spec => []SearchesSucceed` |
| `KnowledgeBaseProofs!OneModelPerCollection` | then `Spec => []VectorsOfOneModel` |
| `KnowledgeBaseProofs!NothingIsLost` | then `Spec => VectorsAreKept` |
| `TextSplitterProofs!SplitInvariant` | the inductive invariant of the splitter |
| `TextSplitterProofs!SplitTypeCorrect` | `Spec => []SplitTypeOK` |
| `TextSplitterProofs!NoTextIsLost` | `Spec => []TextIsKept` |
| `TextSplitterProofs!EveryChunkFits` | `Spec => []ChunksFit` |
| `TextSplitterProofs!EveryPieceAdvances` | `Spec => PiecesAdvance` |
| `AgentSettingsProofs!SettingsInvariant` | the inductive invariant of the settings |
| `AgentSettingsProofs!SettingsTypeCorrect` | `Spec => []SettingsTypeOK` |
| `AgentSettingsProofs!BindingsLeadSomewhere` | `Spec => []BindingsExist` |
| `AgentSettingsProofs!WhatIsSavedIsUsed` | `Spec => []SavedIsUsed` |
| `AgentSettingsProofs!UntouchedBindingsAreKept` | `Spec => UntouchedIsKept` |
| `CommandLanesProofs!LanesInvariant` | the inductive invariant of the lanes |
| `CommandLanesProofs!LanesTypeCorrect` | `Spec => []LanesTypeOK` |
| `CommandLanesProofs!NoWakeUpIsLost` | `Spec => []NoIdleSlot` |
| `CommandLanesProofs!NoSlotLeaks` | `Spec => []SlotsAreHeld` |
| `CommandLanesProofs!RunsOfASessionExclude` | `Spec => []OneRunPerLifecycle` |
| `CommandLanesProofs!RestartWaits` | `Spec => []NothingIsCutOff` |

The letters are hypotheses of the theorem, which the passing runs that check the property satisfy.
Each is needed: without it TLC finds a counterexample, for `UserIsHeard` without S one of six
requests, in which later messages push the suggestion out of the history while the answer to it is
still under way.

* P: a sub-plan that is not empty ends with an agent that exists
  (`\A p \in SubPlans : p # <<>> => p[Len(p)] \in SubAgents`). A model may invent a name; behind
  the last known agent `is_final` and the next node then disagree (SE:268).
* S: nobody stops an answer and no connection breaks (`Moves \cap {"stop", "disconnect"} = {}`).
  A task goes on after either, and the client may send the next request beside it.
* R: the server does not restart (`"restart" \notin Moves`); a restart loses the sessions.
* U: nobody addresses the CEO or a chained agent, and no lead plans for one (`NobodyIsChained`).
  A chained agent works on a result, and the history leaves the suggestion out (`claim_feedback`);
  `analyze_intent` works on the last message, whoever wrote it (section 4).
* F: no call of a model fails (`"raise" \notin Moves`). After one the spinner stays (App:2058).

Typed answers, regenerating, modifying, tokens, malformed answers and any number of
conversations, requests and departments are covered in all of them.

Assumptions, each named in the module that declares the constant: departments, sub-agents,
`""` and `"CEO"` are among the `Names` (`NamesAssumption`); moves are moves
(`MovesAssumption`); clients address an orchestrator or an agent by a name
(`TargetsAssumption`, pydantic's check); models answer with sequences of names
(`PlansAssumption`); `None` is neither a request nor a session (`NoneAssumption`).

*The argument.* `TypeOK` and `CursorInPlan` are not inductive. A task that takes up an answer
appends to the messages of its object, so the object must exist: `TaskOK` says that a live
task has an object that was built. The handlers reach objects through the store, so
`StoreOK` says that what the store holds was built. A task at the model must still have a
node to complete and a body to write to, though it has not looked at its cursor since; and
only a task in its loop has the event loop (`RunningOK`). The conjunction is `StepInv`. Each
action changes one task and one object at most; `LocalChange` reduces the invariant to these
two, and one lemma per action shows them. `CompleteNode` is the hard case: it saves an
expanded plan with an advanced cursor, and needs `ExpansionKeepsThePast`.

`NodesBehindCursorRan` needs, beside `StepInv`, that what is behind a *task's* cursor has run
too (a task may save it later) and that a request without an object has done nothing
(`Unbound`): otherwise an event of its body would count for a session it does not belong to
once it gets one. Bodies only grow and tasks never change their object, so what has run stays
run; saving hands a task's past to its session; expansion leaves the past alone; completing a
node reports it in the same step.

*Knowledge bases.* Assumed are a positive vector length for each model, a default model among
them (`ModelsAssumption`), uploads without text among the uploads (`FilesAssumption`), and
that `Null` is none of the other values (`NullAssumption`). The last four theorems carry the
hypothesis `NoModel \notin Choices`: without it they are false, as section 4
says. `SearchesSucceed` is not inductive: a job writes the store it holds, so that store must
agree with the collections as well (`StoreSound`), and a job that drops a collection may do so
only because the *file* gives it no size, which follows from what the upload has read
(`UploadFollows`). A type lemma needs that an upload is for a known knowledge base
(`UploadKnown`).

*Response bodies.* To the invariant of the executor `BodyProofs` adds the shape of a body: while its
task is under way it holds no last word and no answer of a model (`Open`); when the task is done
the last word is its last but one event, and an answer of a model, if there is one, stands right
before it (`Closed`). Every action appends quiet events to an open body or closes it for good.

*Splitter.* `TextIsKept` speaks of the end only; the invariant (`Kept`) says at every step that each
character of the segments taken is in a chunk, in the chunk being packed, or ahead of the cut.
`ChunksFit` needs that what is being packed fits already. Assumed are only that blanks and breaks
are characters, that the numbers are numbers and `MinSize` is not zero, and that
segments come stripped (kb.py:151-153). `PiecesAdvance` compares two pieces: the next one begins
at most `chunk_overlap` before the end of this one, and has at least `MinBreak + 2` characters.

*Settings.* `BindingsExist` survives stale clients because everything they can send names skills that
were *given* at some time (`BaseOK`, for the registry, the list, the dialog and the saves), and
a skill made later cannot have one of these ids. `UntouchedIsKept` and `SavedIsUsed` need a
picture of the whole save: while nothing came between (`~astray`) there is one save, it is that of
the dialog, and before each of its requests the stores are what the dialog was opened with, after
each what its form says (`Progress`); when no save is under way the client knows all bindings
(`KnowsBindings`). Agreement is up to skills that were deleted meanwhile (`Agree`), which is what makes
it survive a deletion. A save takes back what was known as saved when it begins (`SaveOK`).

*Lanes.* A slot is counted for a job just when the job holds it since the last reset (`SlotOK`,
from which `SlotsAreHeld` and, with one slot per session lane, `OneRunPerLifecycle` follow). That a
slot is given back to the right lane needs that a job stands in its path where its record
says (`RecordOK`) and waits in no queue but that of the lane it asked for last, and there once
(`QueueOK`). A job gives slots back from the inside, a cron job that times out the outermost one
first; both are instances of one lemma (`GiveBackKeeps`), which asks only that the job holds the same
lanes as before without that one (`GivesUp`). `NoIdleSlot` speaks of idle moments; while drains are
under way somebody may wait in a lane with a free slot that is still to be drained (`AwakeOK`).
`NothingIsCutOff` needs `Committed`: a run that holds the lane of its session and works, or waits
in the last lane of its path, where it will start however long the drain has begun. A restart finds
all of these among the active tasks, and nobody becomes one while it drains (`RestartOK`); replies
only make it wait longer. Assumed are finitely many sessions, which the resets need to list the
lanes (`SessionsAssumption`), that every job has a session and a lane (`JobsAssumption`), that
`None` is no job, and numbers for limits.

*Final.* `is_final` is said of the cursor, the next node of what the plan still has to ask. The
invariant (`AsksInv`) is that every plan, of a session and of a task, ends with a node that
asks, if it has one at all: expansion appends the summary, or puts in front of the rest a
sub-plan that ends with an agent.

*Client.* Each section of `ChatSystemProofs` adds an invariant to those before it.

1. `ClientInv` and the invariants of the executor hold whatever goes wrong: a step of the whole is a
   step of the server or leaves it alone (`ChatStep`), so what the executor guarantees by itself it
   guarantees to a client. `BarOrSpinner` and `AbortRefIsOpen` are part of `ClientInv`.
2. `Disciplined` (S): where the server is with a request is what the client can know of it, the
   client waits while a task works, and for one request of a conversation only. A task that is alive is
   awaited (`LiveIsAwaited`), hence `OneTaskPerConversation`: the executor has no lock, but the
   two guards of the client are one.
3. `Owned` (S): what the store holds under a conversation was opened for it, and while a task works
   its session streams to it. A resumption changes the writer of a session; by `Disciplined` nobody
   else is streaming to it then.
4. `BarInv` (S, R): from the moment the task pauses until the user has decided the session waits where
   its event said (`WaitsAt`). This needs that the sessions of other conversations rest during a step
   (`OthersRest`), which is what `Owned` and `Disciplined` are for.
5. `ToldInv` (S, R): from the decision to the end of the answer the announced node is what lies ahead
   (`OnItsWay`): in the session, when the decision arrives; in the plan of the task, while it skips
   silent and unknown nodes; at its cursor, when it calls the model; in its body alone, when it is done.
   Regenerating steps back by one, on the node that asked last. A silent node that expands the plan or
   a failed call does not change what is ahead.
6. `Steady` (S, R, F, P) adds that no body carries an error and that the bar says "final" just when
   it names nobody. Then each click and each answer is a step of `Dialogue` (`ClickIsSeen`,
   `AnswerIsSeen`), and everything else, every step of the server included, is a stutter
   (`EndIsUnseen`, `StepIsSeen`).
7. `LedInv` (S): the dispatches a plan still holds name the departments the CEO's plan still holds, in
   order, each followed by its lead (`Aligned`), and a dispatch just made is followed by the lead
   of the current department (`Led`); both for the plan a task works on and for what a session at rest
   would be resumed with, one step back included (`RestsOnTrack`). A dispatch and the node after
   it are never apart: no node that asks is a dispatch, so no pause, expansion or step back
   falls between them, and no plan ends with one (`Ends`). A failed call leaves a session with the plan of the last save
   and the state of later dispatches, so it is *not* aligned; but its conversation waits in vain
   (App:2058) and asks no more (`Wrecked`). Only a restart, which drops the session, ends that wait.
8. `HeardInv` (S, U): every plan, of a session and of a task, holds only nodes that work on the last
   message of the user (`Listening`); every session has a message of the user; and while a task
   serves a modification the suggestion is the last of them (`SaidLast`). Nodes add only answers
   to the messages (`Replies`), and by `Owned` and `Disciplined` no other request adds to them. An
   expansion may bring in agents, so `LeadPlans` says whose.

*Edict.* The phases reported have markers of their own, at increasing positions
(`OrderedBy`). That alone is not inductive: a marker behind the one last reported might be found
later. So the invariant adds that what stands before it in the window is not preferred to
it by the list; detection then finds either the same stage again or a marker further on.
`StageIsCurrent` and `LogFollowsPhases` are inductive beside it; `ReportCompletes` needs that the
report is noticed when its marker arrives (`ReportNoticed`), for which `StagesAssumption` says
that it is looked for first (openclaw.py).

*Only model-checked*

* Everything under fairness, which is out of the prover's reach: `StreamsEnd`, `SplittingEnds`,
  `JobsSettle`, `RestartsEnd`, and `AnswersCome` of `Dialogue`.
* `UserIsHeard` where U does not hold: it is false there.

## 6. Plan

Done: the conversation from the client's click to the executor's last event, and the abstract
dialogue it implements; what agents read; knowledge bases and the splitter; settings; the Edict
pipeline; the gateway's lanes; the eight modules of proofs.

Next, in order of what is at stake for the user:

1. An orchestration specification (departments in the order the CEO planned, each agent once)
   that the executor and the LangGraph engine of `POST /chat` both implement. The web client does
   not call `POST /chat`.
2. A torn store (`skill.py`, `agent_kb.py`, `agent_config.py` rewrite their files in place as
   `kb.py` does, whose torn file is modelled).

Not to be modelled: prompts and the wording of events, layout of the client, logging, the
offline scripts, the prompt files of the OpenClaw agents, and of OpenClaw, a third-party project
of 2.4 million lines behind one HTTP endpoint, all but the lanes.
