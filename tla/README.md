# A verification of llm-assistant-api

The repository is a gateway (`src/llm_assistant_api`) in front of several model
servers, a terminal agent (`src/llm_assistant_agent`) that talks to the gateway
and works on files, and a VS Code extension (`vscode-extension`) that does the
same from the editor. This directory holds TLA+ models of the parts of it whose
correctness depends on the order in which things happen, TLC configurations that
check them on small instances, and TLAPS proofs of the safety of most of them.

Contents: [the system](#1-the-system), [modules](#2-modules),
[runs](#3-runs), [proofs](#4-proofs), [disagreements](#5-disagreements-with-the-documents),
[limits](#6-what-is-not-modelled), [plan](#7-plan).

## 1. The system

### Inventory

| Component | State it keeps | Operations | What makes it correct |
|---|---|---|---|
| Upstream proxy and circuit breakers (`proxy.py`, the client of `main.py`) | one breaker per upstream: state, list of failure times, opening time; the slots of one shared httpx connection pool; in each request's coroutine the attempt number | `forward` (JSON and streamed), the retry loop, `can_proceed`, `record_success`, `record_failure`, `reset` | a breaker counts its own upstream's final failures once each; nothing passes while it is open; connections come back; every request ends |
| Rate limiter and key check (`rate_limiting.py`, `deps.py`) | a deque of times per endpoint and client, the time of the last cleanup | `is_allowed`, `get_reset_time`, `get_remaining_requests`, `_maybe_cleanup`, `require_api_key` | no sliding window is overfilled; `Retry-After` is worth following |
| Agent session (`session.py`, `client.py`, the REPL of `cli.py`) | `messages` (sent to the model), `history` (everything said), failure counts, the session file, worker threads | `ask`, `_execute`, `repair_after_cancel`, `_compact_if_needed`, `keep`, `_resume` | every request is one the protocol accepts; what is saved is never taken back; what was refused does not run; a turn ends |
| Agent workspace (`workspace.py`, `tools.py`, `store.py`) | the sets `seen`, `written`, `written_since_read`, an LRU cache of texts by mtime, digests in the session file | `read`, `write`, `require_seen`, `_edit_approval`, `_edit_file`, `_write_file`, `save`, `restore_seen` | the cache is never stale; an edit lands only on a file the conversation read or wrote |
| Gateway application (`main.py`, `metrics.py`) | the map of active requests, counters, the retained history, the shutdown flag | middleware, `timed`, drain on shutdown, signal handlers | every request is accounted for once; a shutdown waits for what is active and no longer |
| Health and readiness (`routes/health.py`) | none of its own; reads the breakers | probes, breaker reset | readiness agrees with the breakers |
| Routing, payload preparation, context guard, tool-call normalisation (`proxy.py`, `payload.py`, `context.py`, `toolcalls.py`, the routes, `config.py`) | none | pure functions of a request | a request goes where a model is served; repairs lose nothing and need no second pass; what is forwarded fits |
| Streamed tool calls (`client.py`) | the partial calls of a turn | `_consume`, `_finalise` | only whole calls run; every call is run or complained about |
| Edit matching (`edits.py`, `_edit_file` of `tools.py`) | none | `apply_edit` and its hints | an edit changes the places meant or nothing; what is said of a miss is so |
| Sandbox (`sandbox.py`, `run` of `tools.py`, flags of `cli.py`) | one container per workspace, shared by all processes | `ensure_ready`, `_create`, `wipe`, `prepare` | who asked for a container is confined to it, and gets the network asked for |
| Saved sessions (`store.py`, `cli.py`) | a directory of files, temporary files beside them | `save`, `_prune`, `listing`, `delete`, `export_session`, `import_session` | readers see whole transcripts only; nothing goes that nobody chose; the directory stays bounded |
| Edit checks (`checks.py`) | the checkers found broken | running a checker after a write | - |
| Response cache (`cache.py`) | entries on disk | `get`, `set`, `stats` | never asked: the agent calls `stats` only |
| Plugins, documents, rendering, profiles | static | formatting, extraction | - |
| VS Code extension | chat history, sessions, pending approvals | chat loop, tool execution, retries, session switching | a tool call is executed once |
| Scripts and deployment | none | shell, Compose, Ansible, Terraform | - |

### How the parts interact

A client's request passes the API key check, which runs in a worker thread
because it is a synchronous dependency, and there the rate limiter; a route then
calls `forward`, which asks the breaker of the upstream it resolved, takes a slot
of the connection pool that all upstreams share, retries, records a verdict and
answers or relays a stream. The agent is one such client. Its session awaits one
streamed turn from the gateway at a time, then awaits each tool call of that turn
in a worker thread, where the workspace is read and written. The event loop shows
previews and prompts between those awaits, and saves the session when a turn is
over.

### What is hard about it

* Coroutines of several requests interleave at every `await`, and share breakers
  and connection slots. A verdict is recorded long after the breaker was asked.
* Worker threads share the limiter and read the clock before they take its lock.
* Ctrl-C cancels the coroutine that awaits a tool. It does not stop the tool's
  thread, which may write a file while the next turn is running, or while the
  session is being saved.
* The process may end between two saves; the next one starts from what is on
  disk, while the files may have changed.
* Transcripts are cut, repaired and resumed, and must stay acceptable to a
  protocol that wants one result for each call.
* Tool calls arrive in fragments, and the stream may end anywhere in them.
* Several processes of the agent share the container of a workspace and the
  directory of sessions, without a lock, through commands and system calls
  that fail one at a time.
* The shutdown must outlast requests that run and not wait for ones that are gone.

`PROJECT.json` lists these places under "hazards", each with the properties that
would notice it going wrong.

## 2. Modules

| Module | Models | Checked by |
|---|---|---|
| `UpstreamProxy` | `proxy.py`, the pool of `main.py`, the reset route | `MCUpstreamProxy`, `UpstreamProxyProofs` |
| `RateLimiter` | `rate_limiting.py`, `require_api_key` | `MCRateLimiter`, `RateLimiterProofs` |
| `AgentSession` | `session.py`, `ChatClient.turn`, the REPL of `cli.py` | `MCAgentSession`, `AgentSessionProofs` |
| `AgentWorkspace` | `workspace.py`, the file tools of `tools.py`, `_digests` and `restore_seen` of `store.py` | `MCAgentWorkspace`, `AgentWorkspaceProofs` |
| `GatewayLifecycle` | the middleware and lifespan of `main.py`, `metrics.py`, `readyz_detailed` | `MCGatewayLifecycle`, `GatewayLifecycleProofs` |
| `RequestPipeline` | target resolution and `prepare_payload` of `proxy.py`, `payload.py`, `toolcalls.py`, `context.py`, the routes, the settings they read | `MCRequestPipeline`, `RequestPipelineProofs` |
| `ToolCallStream` | `_consume` and `_finalise` of `client.py` | `MCToolCallStream`, `AgentSessionProofs` |
| `EditMatching` | `edits.py`, `_edit_file` and its preview in `tools.py` | `MCEditMatching`, `AgentWorkspaceProofs` |
| `Sandbox` | `sandbox.py`, the `run` tool, `--sandbox*` of `cli.py` | `MCSandbox`, `SandboxProofs` |
| `SavedSessions` | what a session store promises (abstract; no code of its own) | by `SessionStore` |
| `SessionStore` | `store.py`, `keep`, `_resume` and `_delete_sessions` of `cli.py` | `MCSessionStore`, `SessionStoreProofs` |

The `MC` modules only give constants their values. An operator with a suffix, such as
`Expire_Early`, is a plausible bug in the operator of the same name that follows it;
no specification uses it. It is there to show that a property notices the bug.

### UpstreamProxy

Each request is a coroutine with a control state `pc`: `new`, waiting for a slot
(`pool`), for the answer (`sent`), in the `backoff` sleep, `reading` an error body,
about to respond (`responding`), `relaying` or `done`. These are the awaits of
`forward`; everything between two of them is one action, breaker methods included.

| Code | Action or operator |
|---|---|
| `_CircuitBreaker.record_success/record_failure/can_proceed/reset` | the operators of the same names, `Recent`, `AfterCheck` |
| 503 while the breaker is open; request let through | `Reject`, `Admit` |
| connection pool: slot, `PoolTimeout`, `aclose` | `Acquire`, `PoolTimeout`, `Release` (the pool is httpx's, marked external) |
| `_retry_with_backoff` | `Retries`, `Raised`, `AfterAnswer`, `Wake` |
| an exchange that raises or answers | `ExchangeRaises`, `Answered`, `Verdict` |
| error body, start and end of the relay | `ReadErrorBody`, `StartRelay`, `EndRelay` |
| the client goes away | `Cancel` |
| `reset_circuit_breaker` for one or for all | `Reset` |

Status codes and exceptions are abstracted to the classes the code tells apart. The
list of failure times is a set of pairs of time and request, as no method looks at
its order. A streamed answer that is retried is dropped without `aclose()`, and a
relay that never starts never runs its `finally`: both keep the slot, as in the code.

### RateLimiter

`Begin` is `is_allowed` up to the lock, with the time it read; `Check` is everything under
the lock (cleanup, popping, the decision); `Throttle` takes the lock again to compute
`Retry-After`; `Remaining` is `get_remaining_requests`, which also pops. Time is in ticks,
`Second` of them to the second, since `int()` cuts off the fraction. `granted` and
`retry_at` are histories that only the properties use: `granted` has the time of the
decision, where the deque has the time that the thread had read, up to `MaxStall` ticks
earlier. No Redis client is configured: with one, the check is a coroutine that nobody
awaits (section 5).

### AgentSession

`pc` is the place of the REPL and its turn: `prompt`, `loop` (the head of the turn's
loop), `thinking` (awaiting the model), `executing` (about to take up call `current`),
`running` (awaiting its thread), `finished` (about to save), `crashed`. Messages keep
their role, the id of a call as turn and position, the tool names of an assistant message,
and the class of their text. Tool names stand for a call and its arguments, so
a name is also the signature by which failures are counted. Ids are unique, which the
code takes from the model server.

`Send`, `SendCompacted` and `CompactionRaises` are one iteration of the loop up to
the await. Whether the transcript is near the window is a question of token counts,
so any transcript long enough may be compacted or not. `edited` bounds which processes can
have a file in `written_since_read`, on which one branch of compaction depends.
`Cancel` is Ctrl-C together with the repair that `ask` makes; the call's thread goes
on unless it was still queued. `Keep` and `KeepFails` are the two ends of `keep`;
`Resume` is a new process, after `/exit` or a crash.

### AgentWorkspace

Contents are numbered by the write that made them. The number is also the mtime: the model
assumes, as the cache does, that every write moves the mtime, so two writes within one tick
of a coarse file system are outside it, and so are writes of the text a file already has.
`loop` is what the event loop does (`idle`, `asking`, `running`, `saving`, `dead`) and
`worker` holds the call of each thread and how far it has come: `begin`, `open` (after
`stat`), `apply`, `book` (after the write, before the bookkeeping). Methods of the cache are
single steps. `Previews` is `_edit_approval`: what has nothing to show (an edit that does
not fit, a write over a file that cannot be read or that has the text already) is not asked
about. A read ends early for a file that is missing, too large or no UTF-8; `WriteFails` is
an `OSError` of the write, which may leave the file torn, without the bookkeeping. `Outside`
is another program that writes or removes a file at any time. `BeginSave`, `Digest`,
`WalkRaises` and `EndSave` are `save`, one step for each file hashed; `Resume` is a new
process with `restore_seen`. Whether an edit fits a text is free, but the same for the same
text; `EditMatching` says when it does.

### GatewayLifecycle

`pc` is a request's place in the middleware: `new`, `handling` (in `call_next`),
`pinging`, `responded` (headers made, body not begun), `relaying`, `done`, `refused`,
`abandoned`. `start_request` and `complete` are the collector's methods, with entries by
request id, which clients choose and may share: `complete` removes whatever entry
stands under the id. `Abandon` is a cancellation that runs no cleanup: `except Exception`
does not catch it, and a generator that was never started has no `finally` to run. A
readiness check awaits its probes, reads the breaker and then, with Redis, awaits a
ping. `BreakerMoves` is `UpstreamProxy` seen from here: the breaker may open
or close at any moment. `Shutdown`, `EndDrain` and `CloseClient` are the lifespan's `finally`.

### RequestPipeline

One request from the route to the reply. Texts are lengths, contents and arguments are the
kinds that the code tells apart (text, list, wrapped in an object, a Python literal, blank,
broken, ...), a message may be no object at all, models are the four that a deployment can
have and names that none serves. `Prepare` and `Guard` are `prepare_payload`; `Forward` is
`forward`, which `UpstreamProxy` models, by its outcome. `BodyValue` and `Settings` are all
bodies and settings there are at this level; TLC takes a few hundred thousand combinations
of them, the proofs all.

### ToolCallStream

The model means to send a list of calls; each is a number of pieces of its name and of
its arguments. `Fragment` delivers the next piece of some call, `Finish` and
`_finalise` may come at any moment. A call may be marked `faulty`, and then the server
leaves out its index or sends chunks that `_consume` skips. `json.loads` is external, and
`Readings` is what it may make of a text: the whole arguments of a call are the value that the
model meant, a proper beginning of the arguments of an object is an error (its brace is not
closed), no text at all reads as `{}`, and any other text, with a piece missing or of two
calls, may be an error, a value or an object. `parsed` is the reading it got.

### EditMatching

Texts are sequences of `"nl"`, `"sp"` and code symbols, and the operators are the string
methods and helpers of `edits.py`. An action is one `edit_file` call: the preview, which is
`apply_edit`, and `_edit_file`, which looks for the anchor itself first. `outcome` is what
the former says, `told` what the model gets. An ambiguity is reported with the count of
occurrences that do not overlap and the first `MaxReported` of the lines where the anchor is
found (5 in the code, 2 in the run); a hint is reduced to which lines it speaks of, without
how they are shown. `Symbols` is what texts may be made of; the proofs take any set with the
two kinds of whitespace, TLC three symbols and a fourth for what is inserted. `Ascending`
lists a set of positions in order, as the loops of the code come by them.

### Sandbox

Each docker command is a step, and so is each directory that `_create` looks for. A command
that times out ends the process (`TimesOut`). One that fails does not, except `docker run`:
`_docker` does not look at the exit code, so a failed `ps`, `images` or `inspect` is an answer
without text (`ok` is FALSE), a failed `start` or `rm` one without effect.
`agent[a].at` is the place of a process in `ensure_ready`, `wipe` or its session.
`commands` are shell commands that run, those that the `run` tool has given up on
included; the container of a workspace goes by name, so a command runs in whatever
container has the name by then. `HostBuilds`, `HostCleans` and `Stops` are the user and
docker. `kept` is a history: the directories that the host has had ever since `_create` began
to look; `docker run` copies it into the container as `had`.

### SavedSessions and SessionStore

`SessionStore` has a file and a temporary file for each session, and `proc[p].at` goes
through the system calls of a save: open and truncate, write, replace, list, `stat` of each
listed file, unlink of each that goes. Other processes save and delete between any two of
them; `times` is what each `stat` said, and `Rank` goes by it. A process keeps its
descriptor when the file is moved or removed under it. `Crash` ends a process at any of
these, `WriteFails`, `ReplaceFails`, `StatFails` and `UnlinkFails` are the errors that
`keep` catches, `DeleteFails` the one that `delete` does. `Transcript` is the number of
turns and the workspace; a file that is no whole transcript has the text `Torn`.

`SavedSessions` says what this is for, without files: a session is a transcript or is not
there; `Put` replaces it in one step by that of a process that has it open; it goes only
after a process has listed it (`List`) and then chosen it: `Prune`, which spares `Keep` of
those it listed, or `Confirm`, by which what was shown goes, and nothing else.
`KeepsItsPromise` is the refinement: `saved` is the text of the file, `held` what a process
has open, `listed` and `doomed` the names it has listed and is about to unlink, and
everything a save does to the temporary file, and every `stat`, is a stutter. The mapping
holds with `Shared = FALSE`: no two processes have one session open. `store_shared` shows
that it needs this.

## 3. Runs

Runs that pass:

| Run | Properties | What it shows |
|---|---|---|
| `proxy_safety` | `TypeOK`, `BreakerConsistent`, `FailuresAreOwn`, `NothingAdmittedWhileOpen`, `OnlyStreamsLeak`, `EveryRequestEnds` | three requests of one upstream, two JSON and one streamed, against one breaker and two slots, with retries, cancellations and resets at any time; they end even when the stream has lost slots for good |
| `limiter_safety` | `TypeOK`, `SlidingWindow`, `RetryAfterASecondMore` | no window is overfilled as far back as the limiter is sure to remember, which is the shorter of the endpoint's and the global window, less the time a thread may lose between its clock and the lock; waiting one second more than `Retry-After` says is always enough |
| `session_safety` | `TypeOK`, `OnlyStoppedTurnsAreOpen`, `OneResultPerCall`, `SentIsHeadAndTail`, `DeclinedNeverRuns`, `SavedOnlyGrows`, `AskEnds` | interrupts, refusals, failures, compactions, failed saves, crashes and resumptions in any order; a message of the user comes to an end |
| `workspace_safety` | `TypeOK`, `CacheNeverStale`, `EditsFollowReads` | two threads, of which one may be abandoned, the event loop, a save and another program on two files |
| `gateway_lifecycle` | `Accounting`, `ActiveIsOwed`, `ClosedIsDrained`, `DrainEnds` | requests with shared and own ids, abandoned bodies, a readiness check and a shutdown at any time |
| `request_pipeline` | `ListedIsServed`, `PreparedIsFixpoint`, `EngineTakesIt`, `FitsTheWindow` | every small request under every combination of settings |
| `tool_call_stream` | `RunsOnlyWholeCalls`, `EveryCallIsAccountedFor` | every interleaving of up to three calls, cut off anywhere, with pieces skipped or misplaced, and any text that is no whole call read as JSON or not |
| `edit_matching` | `ReplacesTheAnchor`, `HintsAreHonest` | every short anchor against every short file, against a reference definition of replacement, of occurrences and of the lines they are on |
| `sandbox` | `AskedIsConfined`, `NetworkAsAsked`, `ReadyIsUsable`, `MaskedIsLocal` | two processes, one container name, a docker call that fails or times out, a host that builds and cleans at any time, commands that outlive their timeout |
| `session_store` | `WithinLimit`, `LatestIsKept`, `KeepsItsPromise` | two processes that save, prune, delete, export and import, with a crash or an error anywhere; the files implement `SavedSessions` |

Runs that end in a violation, each the subject of a finding:

| Run | Property | What TLC finds |
|---|---|---|
| `proxy_reopen` | `HalfOpenFailureReopens` | a failed test request leaves the breaker half-open |
| `store_shared` | `NothingHalfIsLeft` | two processes that resumed one session write one temporary file, and the mixture replaces a whole transcript |

### Bounds

* Proxy: with a threshold of 2, a window and a timeout of 1 tick and a clock up to 2,
  failures fall out of the window, the breaker opens, times out and is tested; two
  attempts give every path of the retry loop; three requests allow a late success, a late
  failure and a test together; two slots are fewer than the requests, and the stream can
  lose both.
* Limiter: five ticks are more than two global windows, with a cleanup in between. One
  endpoint has the global window and room for two requests, the other has a longer window
  and room for one. `MaxStall` is 1: a thread may be overtaken in the tick after it read the
  clock, and the bound is tight: with the whole horizon TLC finds an overfilled window.
* Session: two messages of the user and two turns of two calls each are enough for a
  turn to be abandoned or interrupted, compacted twice with the cut between a call and its
  result, saved, lost and resumed. Compaction starts above four messages and keeps
  three instead of the code's numbers, which only scales the transcript. The code
  abandons a call after 4 failures, the model after 2.
* Workspace: two files and a cache of one make eviction happen; two threads are one
  that is awaited and one that was abandoned. One write, by a thread or another
  program, can fall into each gap of a read, an edit or a save; files start out
  existing.
* Gateway: two requests and a check, which may share an id or not; a history of two, so
  that the third completion pushes out the first; a clock that just reaches the timeout.
* Pipeline: a request is one step after another, so no bound on steps; up to two
  messages and calls of every kind, caps and budgets on both sides of what is asked.
* Stream: three calls in up to three pieces each interleave in every way that two do
  and leave one between the others.
* Edits: five symbols are up to three lines, indented or not, blank or not; anchors of
  four overlap themselves and span two line breaks. Two lines are reported, so that an
  ambiguity on three cuts the list.
* Sandbox: two processes, one directory to mask, two containers after each other, one
  failed call. One failure is enough to leave a container half made or still there, or to
  hide a network mode.
* Store: two processes, three sessions, two of them kept, three saves, one crash or error
  and one export. The third save is the one that prunes. `LatestIsKept` needs no more
  processes than sessions are kept; the code keeps 100. All is in one workspace. That a session
  is saved again between its own `stat` and the end of the ranking takes a fourth save;
  an instance with four and without faults and exports gives the same answers, and the theorems
  are for any number.

Symmetry (files, threads, processes, sessions, workspaces) is used where no property and
no initial state names an element, and no liveness property is checked.

Deadlock is checked for the limiter and the sandbox. The other systems may stop: requests
are made once, the user may stop asking, a thread may be left with a write that the bound
forbids, an edit or a turn is over.

### Fairness

* `UpstreamProxy`: weak fairness of each request's own step once it has been
  admitted. Each await is bounded: httpx has connect, read and pool timeouts, the
  sleep is finite. Nothing makes a client send a request, or the clock reach a value.
* `AgentSession`: weak fairness of the turn and of the threads. A model reply ends
  or fails by httpx's timeout, tools have timeouts, and the user is taken to answer the
  prompts. Nothing makes the user ask, cancel or resume. The bound on turns lies where
  the step limit ends a turn first (`MaxSteps` is 2 for each of two messages).
* `GatewayLifecycle`: weak fairness of the clock, of the poll that ends the drain loop
  (`asyncio.sleep(0.1)`) and of the closing of the client. No request has to end: the
  drain must come to an end without.

## 4. Proofs

Eight modules hold proofs. Each theorem is about the specification that TLC checks, without
its bounds: for every set of requests, threads, processes, files or sessions, and
all numbers that the named assumption of the module allows.

`ToolCallStream` runs within a turn of `AgentSession` and `EditMatching` within an
edit of `AgentWorkspace`; what is proved of them stands in the modules about these, at the
end. These proof modules extend both, which is why the names of the two smaller
specifications are their own: `StreamSpec` and `EditSpec`, with `stage` for the control.

| Module | Theorem | States |
|---|---|---|
| `UpstreamProxyProofs` | `ProxyTypeOK` | `Spec => []TypeOK` |
| | `ProxyBreakerConsistent` | `Spec => []BreakerConsistent` |
| | `ProxyFailuresAreOwn` | `Spec => []FailuresAreOwn` |
| | `ProxyFailsFast` | `Spec => []NothingAdmittedWhileOpen` |
| | `ProxyOnlyStreamsLeak` | `Spec => []OnlyStreamsLeak` |
| `RateLimiterProofs` | `TypeCorrect` | `Spec => []TypeOK` |
| | `RetryIsHonest` | `Spec => RetryAfterASecondMore` |
| | `NoWindowIsOverfilled` | `Spec => []SlidingWindow` |
| `AgentSessionProofs` | `TypeCorrect` | `Spec => []TypeOK` |
| | `RequestsAreWellFormed` | `Spec => []OnlyStoppedTurnsAreOpen` |
| | `NoSecondAnswer` | `Spec => []OneResultPerCall` |
| | `SentFromHistory` | `Spec => []SentIsHeadAndTail` |
| | `RefusalHolds` | `Spec => []DeclinedNeverRuns` |
| | `SavesOnlyAdd` | `Spec => SavedOnlyGrows` |
| | `NoHalfCalls` | `StreamSpec => []RunsOnlyWholeCalls` |
| | `EveryIndexIsAnswered` | `StreamSpec => []EveryCallIsAccountedFor` |
| `AgentWorkspaceProofs` | `TypeCorrect` | `Spec => []TypeOK` |
| | `CacheIsFresh` | `Spec => []CacheNeverStale` |
| | `ReadBeforeEdit` | `Spec => EditsFollowReads` |
| | `EditsReplaceTheAnchor` | `EditSpec => []ReplacesTheAnchor` |
| | `WhatIsSaidIsSo` | `EditSpec => []HintsAreHonest` |
| `GatewayLifecycleProofs` | `BooksBalance` | `Spec => []Accounting` |
| | `DrainWaitsForTheRunning` | `Spec => []ActiveIsOwed` |
| | `ClosedUnderNobody` | `Spec => []ClosedIsDrained` |
| `SandboxProofs` | `Confinement` | `Spec => []AskedIsConfined` |
| | `NetworkHonest` | `Spec => []NetworkAsAsked` |
| | `Usability` | `Spec => []ReadyIsUsable` |
| | `Masking` | `Spec => []MaskedIsLocal` |
| `SessionStoreProofs` | `Refinement` | `Shared = FALSE => (Spec => KeepsItsPromise)` |
| | `NothingHalf` | `Shared = FALSE => (Spec => []NothingHalfIsLeft)` |
| | `DirectoryIsBounded` | `Spec => []WithinLimit` |
| | `LatestSurvives` | `Shared = FALSE /\ IsFiniteSet(Procs) /\ Cardinality(Procs) <= Keep => (Spec => LatestIsKept)` |
| `RequestPipelineProofs` | `RoutingIsRight` | `Spec => []ListedIsServed` |
| | `PreparationIsFinal` | `Spec => []PreparedIsFixpoint` |
| | `RepairIsComplete` | `Spec => []EngineTakesIt` |
| | `WhatPassesFits` | `Spec => []FitsTheWindow` |

In every module an inductive invariant implies the properties, none of which is inductive
as it stands. Lemmas say what the operators of the model do, then there is one lemma for
each action or group of actions, and the theorems end in a step by `PTL`.

### Inductive invariants

**UpstreamProxy.** `IInv` adds to the invariants `Finite`, that failure lists are finite
(`BreakerConsistent` counts them); `Suspended`, that a coroutine that waits has been
admitted, not later than now, with a legal attempt number, and only streams are
`reading`, `responding` or `relaying` (needed when a verdict is recorded and when a
breaker opens at this instant); and `JsonSlots`, that a JSON request holds no slot but
that of the exchange it is in.

**RateLimiter.** `RetryOK` is the state behind the action property: whoever was told to come
back will find the deque short of its limit, or its head out of the window, a second
after that time. Popping, appending and cleaning up keep it, because a deque only gets
longer when it was below its limit. For the sliding window, `KeyOK` relates the deque of a key
to its grants, which are in order of time (`Sorted`) although the deque need not be: the deque
stands for the last of them, each with a time that is a stall too early at most; those that
are gone were let through at least a horizon less the stall ago (`Remembers`); so any two that
are `Limit` apart in the order are that far apart in time (`Spaced`). The last
steps count: a window that held more than `Limit` grants would hold two that are too close.

**AgentSession.** `HistoryOK` describes a transcript: turns are numbered in order, every result
belongs to the assistant message before it and answers one of its calls, no call is answered
twice, results directly follow their calls, and all calls are answered but those of
the turn being executed and of turns that `_execute` abandoned. During execution the
results so far are exactly those of the calls before `current`. `SavedOK` says that the file
is such a transcript and that `history` continues it, from which `SavesOnlyAdd` follows;
`SentOK` that what is sent is all of it or its first message, a note and a tail that does
not start with a result, which is what `_compact_if_needed` is careful about;
`ThreadsOK` that a thread works on a call that was reached.

**AgentWorkspace.** `CacheOK` bounds the mtimes of entries by the writes so far and
keeps paths distinct: an outdated entry stays outdated, since no later write has its mtime.
For `EditsFollowReads`, everything that counts as read (the set `seen`, the files
that threads have come past `require_seen` with, those being hashed, those on disk)
was asked for.

**ToolCallStream.** In `StreamInv`, `InStep` says of an isolated call (no piece of it was lost
or lost its index, and no piece of another can have come to its index) that what stands at
its index is its pieces up to the last one sent, the name before the
arguments. Of any stream, `Placed` says that only pieces without an index are at another
call's, so that a name tells whose call is run, and `IdsOK` that an id, which comes
with the first piece, is at one index only. After `_finalise` the two lists are what it makes
of that and of the readings; of an isolated call the text is a beginning of its arguments, of
which `json.loads` takes only the whole, none, or one that was no object's.
`Enumerated` lists the indexes once each, so that the lists of good and bad indexes add up.

**EditMatching.** `EditInv` says that the state is what `apply_edit` and `_edit_file` make of
the text before; that a file can be edited only once is not used. The work is in what the
operators compute. `Scan` finds occurrences that do not overlap, and every other one overlaps
one of these; `Replace` is the flattening of the pieces between them, by adding what is
joined up to a symbol and what is still to come. For the hints: `Solid` of two texts
is the same when a map between their symbols other than whitespace keeps the order and
reaches all of them (`Follows`), which is so for a text and what `Strip` and `squash`
leave of it, and one is part of the other when it leaves none out in between. A
divergence is at the end of the longest agreement (`Agree`), so one more line cannot
agree. The lines of an ambiguity are the first of an ascending list of all (`Ascending`), and
its count is that of `Scan`.

**GatewayLifecycle.** `Books` ties the three ways of counting together: an entry belongs to a
request under way under its own id, what was completed is in the history once and has no
entry, and the counters add up to the requests that entered, exactly so when ids are not
shared. `Flagged` says that nobody enters once the drain has begun.

**Sandbox.** `Legal` says of each place in `ensure_ready` what a process knows there:
the ids it remembers are of containers that were made, the class follows the flag, what was
checked and told of the present container is so, and, while nobody else
interfered (`calm`), the container it saw is there and runs. Ids are never used again, so
what was learned of an old container says nothing of a new one; what was heard of a container
is told apart from what a failed `inspect` leaves open. For the masks, a directory that the
host has had since the look began is still to be looked for or among the masks, so `docker run`
masks all of `had`, and what a container has masked it never writes on the host.

**SessionStore.** The step that matters is `Replace`. `Consistent` says that the file open for
writing is torn and still has its name, and that what is moved next is the whole
transcript of the process that moves it; `Alone`, which `Shared = FALSE` gives, that no other
process writes that file. `Simulates` is the refinement step by step: every step of the
files is one step of `SavedSessions`, or a stutter. `store_shared` shows that the
hypothesis is needed. `NothingHalf` is the same property as the violated one, under it.

`WithinLimit` has no such hypothesis, so it rests on weaker types (`AnyTypes`: a descriptor
may have been moved with its file, or outlive it). A process that prunes removes what was
over the limit when it listed the files, and not what others have saved since. `Counted`
therefore has for each process that prunes the set `after` of those that moved a file into
place after it listed the files and are still at it: what it leaves is within the limit but
for these. While it asks for the times, it is the files that it did not list that are
counted. Whoever is in the set lists the files later, so that what that process leaves is a
bound for both, and a process that ends can be taken out of every set.

`LatestIsKept` needs an order of times. `Dated` names the process that finished a file at
each time (`author`): a file is made from its recorded time to its mtime, one process makes
its files one after the other, and what it is making now was begun after all of them. This
is said of the files there are and of every time that some `stat` has returned (`Seen`),
since a file may be replaced or gone by the time it is ranked. If `_prune` chose a session
with no later one among the kept ones, those, and the chosen one, would all have been in the
making when the chosen one was begun, by `Keep + 1` different processes (`FS_PigeonHole`).

**RequestPipeline.** `PInv` says at each point of the way that target and body are what
the client's body and the settings make of them. The work is in the lemmas about the
operators: repairing a repaired message changes nothing, the cap leaves what it has
capped, sums of characters are natural numbers and do not depend on what the
cap changes.

### Assumptions

`ConstantsOK`, `LimiterConstants`, `SessionConstants`, `WorkspaceConstants`,
`GatewayAssumption`, `SandboxConstants`, `StoreConstants`, `PipelineAssumption`,
`StreamConstants` and `Texts` ask that numbers are natural, positive where the code's are
(limits, windows, `_KEEP`, `_CACHE_MAX_SIZE`); that `None`, `Absent` and `"nobody"`, which
stand for Python's `None` or for no thread, are no values; that compaction starts above what
it keeps (`MinMessages > TailCount`; 8 and 6 in the code); and that bodies and settings have
the shapes of `BodyValue` and `Settings`, which are all that JSON and the validators of
`config.py` leave once texts are lengths; that calls have a name, of at least one piece; and
that files, anchors and new texts are texts. TLC evaluates each in the runs of its module.
Some theorems have a hypothesis of their own: `Shared = FALSE`, without which `store_shared`
shows what goes wrong, and for `LatestIsKept` that no more processes run than files are
kept, which are 100.

### Induction over data

The provers cannot use the induction theorems of the library, which have an operator as
parameter. Where a proof needs induction, it uses instead that a nonempty set of natural
numbers has a least element (`LeastNumber`, from `WFMin` and `NatLessThanWellFounded`, which
have none), on the set of counterexamples: this gives that the open calls of a turn can be
listed in order (`InOrder`, and `Enumerated` for the indexes of a stream), that the sums of
`Sums` are natural, and how many entries of a deque pruning pops. For the recursive
functions of `EditMatching` it gives first that they exist (`UpwardExists`,
`DownwardExists`: what is computed from a smaller place can be computed up to any), and
then, place by place, what they are.

### What is only model-checked

* `EveryRequestEnds`, `AskEnds` and `DrainEnds`: liveness under fairness is out of the
  prover's reach.

Every invariant and every action property of the runs that pass is also a theorem.

## 5. Disagreements with the documents

The two findings of `PROJECT.json` have runs. The following were met while modelling
and have none; where a property had to be stated around one, that is said.

Gateway:

* `proxy.py:108` says half-open allows one request; `can_proceed` lets every caller
  through until a verdict arrives.
* `rate_limiting.py:221` cleans up by the global window, so an endpoint with a longer
  one (`"Supports per-endpoint configuration"`, l.38) starts over too early. This is
  why `SlidingWindow` has a horizon.
* `rate_limiting.py:108` returns a coroutine when Redis is configured, which
  `deps.py:68` tests for truth without awaiting: every request is let through.
* `deps.py:70` cuts the fraction off the wait, so a client that comes back exactly when it
  was told can be throttled again. This is why `RetryAfterASecondMore` adds a second.
* `rate_limiting.py:104` reads the clock before it takes the lock. A thread that is
  overtaken in between appends an old time, pruning stops at the first late entry, and
  a window can hold more than its limit (`PROD_MODE_CHANGES.md:202`: "Thread-safe with
  proper locking"). This is why `SlidingWindow` takes the longest stall off the horizon.
* `proxy.py:482`: a `PoolTimeout` counts as a failure of the upstream that was not asked,
  so one upstream that holds all slots opens the breaker of another
  (`IMMEDIATE_IMPROVEMENTS.md:19` lists this as solved).
* `health.py:192` skips the only upstream of its loop when autocomplete is enabled, so
  no breaker is judged, while l.173 says 503 if the primary's is open. With Redis the
  breaker can open during the ping. No property is stated of what readiness tells.
* `main.py:93` replaces the server's signal handlers by ones that set an event nobody
  awaits; whether the lifespan ends is then up to a second signal or the supervisor.
* `metrics.py:100`: two requests with one id are one entry. The drain does not wait for
  the one that was overwritten, so `ActiveIsOwed` and `ClosedIsDrained` speak of requests
  with an id of their own.
* `context.py:91` reserves for `max_tokens` alone when both fields are given, so
  `FitsTheWindow` is stated for requests that use one.
* `payload.py:101` has a switch for empty arguments that `prepare_payload` never passes.

Agent:

* `session.py:353` and l.379 leave a turn without results for its remaining calls, and
  only a cancellation repairs that; l.414 says why the next request is then refused. This
  is why `OnlyStoppedTurnsAreOpen` has an exception.
* `session.py:527` (and l.501) call `.get` on the arguments of a call, which are JSON text:
  the first compaction that drops a `read_file` result raises `AttributeError`, which ends
  the process.
* `session.py:339`: an edit that has no preview is not put to the user; if the file or
  the read set changes before the thread looks again, it lands unapproved
  (`AGENT.md:263`: "Every edit prompts").
* `session.py:429` tells the model that an interrupted tool did not run; its thread
  may have run, or still be running.
* `session.py:317` counts failures over the whole session, while `AGENT.md:268` says
  "fails 4 times running".
* `tools.py:673` reads the file again after the approval, while `AGENT.md:424` says "what
  you approve is what gets written".
* `store.py:259` hashes files when the session is saved, while l.70 says "digest of
  the contents when it was read".
* `tools.py:673` reads through `Workspace.read`, so a failed edit clears
  `written_since_read` although the model has seen nothing.
* `store.py:257` walks over the live set `seen`; a thread left behind by Ctrl-C that
  adds to it makes the walk raise `RuntimeError`, which `keep` does not catch.
* `tools.py:676` refuses a missing anchor before `apply_edit` sees it, so none of the hints
  that `AGENT.md:243` describes reaches the model; the preview computes and drops them.
* `edits.py:314` counts occurrences that do not overlap, so an anchor that occurs twice in
  overlapping places (`aa` in `aaa`) is applied at the first, while l.8 and `AGENT.md:214`
  say that it must be unique or the edit is refused. `ReplacesTheAnchor` therefore asks that
  every occurrence overlaps a replaced one, and not that there is one. For the same reason
  an ambiguity (l.347) can name more lines than it counts occurrences.
* `client.py:259`: a call that is cut off right after its name, or within it, runs with
  `{}`, and one of which `_consume` skipped a fragment (l.227) runs with what is left if
  that is JSON, while l.7 says "A partial tool call is a failure to report, never something
  to act on". `RunsOnlyWholeCalls` has a case for the former and speaks of calls of which no
  fragment was skipped.
* `sandbox.py:172` does not look at the exit code: of a container that `docker inspect`
  failed for, the mode is empty, which passes `_check_reusable` and is told as "with
  network". Both docstrings (l.151, l.176) say otherwise. `NetworkAsAsked` speaks of
  containers whose mode was heard.
* `sandbox.py:208` masks the directories that exist when the container is made; one that
  appears later is shared with the host. `MaskedIsLocal` speaks of the former.
* `sandbox.py:138` and l.224 do not look at the result of `docker start` and `docker rm`, so
  "restarted" and "removed" may be said of a container that is neither.
* `store.py:314`: an imported session keeps its id, and its first save overwrites the
  session it was exported from, in the other workspace.
* `store.py:132` asks for the times one by one. A session that is saved again after its own
  `stat` is ranked as the file it was before, and l.134 removes it though it is the latest;
  and files that others delete after their `stat` count among those kept, so fewer than
  `_KEEP` may be left. `LatestIsKept` and `SavedSessions` speak of the files as they were
  listed and asked.
* `store.py:163`: `latest` is that of a workspace, while pruning goes over all of them, so
  the only session of a workspace goes once `_KEEP` others are newer.
* `cli.py:374`: a session that is saved again between its listing and the yes is deleted in its
  new state, which the user was not shown.

## 6. What is not modelled

* The VS Code extension: a second client of the gateway, in TypeScript. Its chat loop,
  retries and sessions would be a development of their own (section 7).
* The response cache: the agent constructs it and calls `stats` only; `get` and `set`
  have no caller.
* Edit checks, documents, rendering, profiles, plugins: external programs, formatting,
  extraction of text and static configuration.
* Counters that only `/metrics` shows, listing of models, liveness probes, the checks of
  settings at start-up, errors and logging.
* The Redis branch of the limiter (it never runs), and `clear`, which only tests use.
* The interleaving of two threads inside one method of the read cache; git; path checks.
* Scripts and deployment.

## 7. Plan

1. The extension's chat loop with its retry helper and sessions.
2. The composition of `AgentSession` and `AgentWorkspace`, with the cache's methods split at
   the points where threads can be switched.
