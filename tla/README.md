# Star Bridge: verification project

Star Bridge sits between a coding harness that speaks the Responses API over
HTTP and a native agent that speaks length-prefixed JSON frames over a pair of
pipes or a Unix socket (or plain text, over the legacy raw stdio transport).
This directory holds TLA+ modules translated from its source, TLC
configurations that check them on small instances, and proofs that TLAPS
checks. `PROJECT.json` maps every definition to the lines it stands for, lists
the hazards the properties are aimed at, and gives for each property a mutant
of the code that breaks it.

## 1. The system

| Component | Source | State | Operations | Modules |
|---|---|---|---|---|
| HTTP server | `server.c` | listening socket, accept queue, one connection at a time, request counter | accept, check, route; responses, compact, health, models, `DELETE`; stop on a signal | `TurnProtocol`, `AnswerDelivery`, `RawDelivery`, `Lifecycle` |
| turn lifecycle | `turn_context.c` | `TurnContext`: request id, `out_buf`, event and tool counts, remaining timeout | `turn_begin`, `turn_await_ack`, `turn_process_events`, `handle_midturn_control_plane`, `turn_cleanup` | `TurnProtocol`, `Sessions`, `ToolLoop` |
| engine | `bridge_core.c` | `cancelled`, `turn_active`, `current_request_id`, session ids, `conn_read_mutex`, child process, rings | frames in and out, health check, ping/pong, state operations, cancel, handshake, shutdown, heartbeat thread, reader thread | `TurnProtocol`, `Sessions`, `Lifecycle`, `RawDelivery` |
| native connection | `native_connection.c`, `uds_transport.c` | `ConnectionState`, descriptors | state changes, connect, bind and listen | `Lifecycle` |
| frame codec | `native_frame.c` | none | read with deadline, write | `FrameIO` |
| frame classification | `native_response.c` | none | type, lifecycle test, field extraction | `TurnProtocol` |
| Responses stream | `responses_stream_state.c`, `codex_stream_events.c` | sequence number, items, parts, terminal state | created / added / delta / done / completed / error / failed | `StreamOrder`, `AnswerDelivery`, `RawDelivery` |
| session keys and index | `config_manager.c` | session id and key, table of at most 64 entries, file | compute, look up, update, load, save | `Sessions` |
| tool policy, router, runner | `tool_policy.c`, `capability_router.c`, `tool_runner.c` | the child process, its output so far | classify a request, deny, validate, run with a timeout | `ToolRouting`, `ToolLoop` |
| tool history | `tool_history.c` | bounded entries and counters | append with eviction, tell the agent | `ToolLoop` |
| ring buffers | `ring_buffer.c` | head, tail, bytes | append (drops the oldest), read | `RawDelivery` |
| managed Codex config | `config_manager.c` | `~/.codex/config.toml` and its backup | `--install`, `--disable` | `ManagedConfig` |
| configuration, start, shutdown, doctor | `main.c`, `config_manager.c` | the configuration, the agent process, the socket file | load, override, validate, launch, connect, handshake, serve, shut down | `StartUp`, `Lifecycle` |
| agent wrapper | `agent/ds4_wrapper.py` | router thread, queue, main thread, ds4 process, session table | answer lifecycle frames, run requests, state operations, continue, restart ds4 | `TurnProtocol`, `Sessions`, `Ds4Wrapper` |
| the rest | request parsing, formatting, tracing, scripts | text | text in, text out | none |

### How they interact

One *server thread* accepts connections and runs each to its end. A turn is
run inside it: session operations and the request go to the agent as frames,
answers come back, and between reads the same thread polls the listening
socket, so that a `DELETE` or a `GET /v1/models` can be answered during a turn.
A *heartbeat thread* pings the agent over the same pipes. Reads are serialised
by `conn_read_mutex`, but nothing gives a frame to the thread it is meant for,
nor serialises writes; what keeps the two apart is the flag `turn_active`,
which the heartbeat reads once before it pings. In the agent a *router thread*
answers lifecycle frames at once and queues the rest for the *main thread*,
which talks to ds4 by lines and a marker. Tools run as children of the bridge,
inside the server thread. Over raw stdio there are no frames: a *reader thread*
fills a ring and a request is answered with what the ring holds.

Two files outlive the process: the session index, written by whichever turn or
`/debug/session` finds it dirty, and the user's Codex configuration, which the
user and Codex edit too.

### What is hard

* Two readers and two writers on one pipe, kept apart by a flag that is checked
  and then acted on.
* Frames of a turn that was cancelled, timed out or cut: they arrive in later
  turns, where some carry an id and some do not.
* Replies matched to requests by position (state operations, save, health)
  and others by id (ack, poll loop).
* `DELETE` racing the response, the timeout, the event limit and the cleanup.
* A silent, slow, hung or dying agent (and a ds4 behind it), with a different
  timeout in every wait.
* State on two sides of a pipe that must agree across failed operations and
  restarts: which session is active, what ds4 remembers, at which effort.
* Files rewritten in place, with a crash or a full disk in between.
* Buffers that overflow silently, or are marked as having done so.

What makes each component correct is written with its hazards in `PROJECT.json`.

## 2. Modules

| Module | What it is |
|---|---|
| `TurnProtocol` | server thread, heartbeat, both pipes, agent router and main thread |
| `TurnService` | abstract: what HTTP clients may rely on; `TurnProtocol` implements it |
| `AnswerDelivery` | the text of an answer from frames through buffers to a stream or a reply |
| `RawDelivery` | the same with or without frames: the ring, its reader thread, the unframed writer |
| `StreamOrder` | abstract: what a harness may rely on when it reads a stream; both deliveries implement it |
| `Sessions` | which native session a request runs in, the index, its file, restarts |
| `FrameIO` | one direction of the connection byte by byte |
| `ToolRouting`, `ToolLoop` | classification and policy; tool intents in a turn, the child process, the history |
| `ManagedConfig` | `--install`, `--disable`, the user's edits, faults |
| `StartUp`, `Lifecycle` | what is made of the arguments; one bridge process from its first line to its last |
| `Ds4Wrapper` | the wrapper's main thread and the ds4 process |
| `AnswerClaims`, `SessionClaims` | statements of the documents that the code does not keep |
| `MCTurnProtocol`, `MCSessions`, `MCToolLoop`, `MCManagedConfig`, `MCLifecycle` | values for constants |
| `TurnProtocol_proofs`, `RawDelivery_proofs`, `Sessions_proofs`, `FrameIO_proofs`, `ToolLoop_proofs`, `ManagedConfig_proofs`, `Lifecycle_proofs`, `Ds4Wrapper_proofs` | proofs, section 5 |

Each module abstracts where another one is exact. `TurnProtocol` takes a frame
as one step, which `FrameIO` justifies as long as two writers do not overlap and
no read gives up in the middle of a frame; it leaves open which session
operations a turn needs, which `Sessions` decides; `AnswerDelivery` leaves open how
a turn goes, which `TurnProtocol` decides; `Sessions` takes the agent's answers in
order, and `Lifecycle` ends where serving begins. They share no variables and
are not composed into one state space, with the exceptions named by EXTENDS
and INSTANCE.

### `TurnProtocol`

`pc` is the place of the server thread, with one value per blocking point:
`session`/`sessack`/`sesserr` for `turn_begin`'s state operations, `ack` for
`turn_await_ack`, `poll`/`read` for the two halves of a round of
`turn_process_events`, `save`/`saveack` for the save after a response,
`turnerr`/`finish` for the ways out, `health` for `engine_health_check`.
`owner`, `plan`, `tries`, `events`, `polls`, `out`, `verdict` are the locals and
the `TurnContext`; `out` is the set of requests whose text is in `out_buf`
(0 stands for the raw text of an unexpected frame). `reqId`, `cancelled`,
`turnActive`, `connState` are the engine's fields. `kind` and `replies` are the
requests and the replies of all connections in the order they came, `served`
the number accepted, so the accept queue is what follows `served`. `toAgent`
and `toBridge` are the pipes, `mainq`, `job`, `stage`, `chunks` the wrapper,
`hb`, `ping`, `strays` the heartbeat thread. `doomed` and `clean` are history,
read by properties only.

Each action is one handler up to its next blocking point, and everything it
calls on the way belongs to it: `PollControl`, for example, answers the whole
accept queue, sends the cancel frame and clears `turn_active` for a `DELETE`
among it, and ends the turn, because `handle_midturn_control_plane` and the
test that follows it do.

Abstractions, all named in the module: time is left out (a read times out on
an empty pipe, at any moment); the heartbeat's wait for a pong is a sequence of
reads, while the code holds the mutex through each (other interleavings only
delay the server thread); which session operations a turn needs, and whether it
saves, is a choice (`SessionPlans`, `Saves`); ids are numbers that grow; an
agent that died is one that sends nothing more, since every read then returns
`NULL`, which the callers treat as a timeout; `busy` and `rejected` come from
the frame contract, the ds4 wrapper always accepts (`Refusals`).

The id test is what the code makes of it, a search of the current id in the text of
the frame (`strstr`, `turn_context.c:298` and `:557`). A frame is therefore its id
and the ids its text quotes (`Quotes`, any set for the proofs), and `Names` holds of
a frame with the right id, with one that begins with it (`req-30` holds `req-3`:
`Spells`), and of one that quotes either. Such a frame of an earlier turn passes the
test of the poll loop. An ack carries an id and a status only, so nothing can be
quoted in it.

### `AnswerDelivery` and `RawDelivery`

`StartStream`/`StartBlock` are `handle_response` up to `turn_process_events`,
one action stands for each kind of frame that loop takes, `EventLimit` and
`Abort` for the ways out, and `CompleteStream`, `FailStream`, `ReplyBlock`,
`FailBlock` for what is written at the end. `out` and `prefix` are `out_buf` and
`event_prefix`, `part` is the stream's content part, `limited` the engine's
`turn_event_limited`, `wire` and `seq` the events of the latest stream and its
sequence number, `reply` the latest reply that is not a stream. The client of a
stream may leave at any moment (`gone`); the code ignores that its writes fail.

`RawDelivery` adds the unframed protocol on the same stream variables; whether a
bridge is `framed` is settled initially. `PushLine` is the reader thread, one
unit at a time (the code pushes a line under one lock, so a read in mid-line is
one behaviour more than it has),
`AppendUnit` and `RingText` are `ring_append` and `ring_read`, `StartRaw` a
request up to its wait, `OpenStream` and `RawBlock` the read and what follows,
`Chunk`, `CancelRaw`, `CompleteRaw` the loop of `handle_response_stream`, `Delete`
the request that sets `cancelled`, which nothing resets in this mode.

Text is a sequence of numbered units and a buffer is the number of units it
holds, with the NUL taken off. Left out: the wording of errors, the framing of
an event, the limits of the serialisation buffers (128 KiB for an event), a
failed allocation of the stream state.

### `Sessions`

`index` and `dirty` are `s_index` and its flag, `file` what is on disk and
whether it was written to its end, `last` is `last_session_id`, `active` the
wrapper's `_active_session_key`. A turn picks its session (`BeginReset`,
`Ask`, `Continue`, `BeginDefault`, `BeginPlain`), which makes `plan`, the state
operations still to do; `RunOp`, `OpReply`, `OpTimeout` do them, `RunReport` is the
error frame about a missing state; then the request, its answer, the save
after it (`SaveAfter`) and the write of the index in three steps (`WriteOpen`
empties the file, `WriteFails`, `WriteDone`), between which the process may
stop. `Restart` ends bridge and agent at any moment and starts them with another
workspace or model. A key is the hash of the workspace and an id; the code also
uses a key where an id is expected, so an id counts how often it is wrapped. An
index that is larger than the buffer it is loaded into is read as empty.
`loaded` and `late` are history. Left out: keys that do not fit 256 bytes.

### `FrameIO`

A byte is a unit that remembers which frame, part and position it is of.
`WriteHeader` and `WritePayload` are the two `write_all`s of `frame_write`, by
any of `Writers`; `ReadSome`, `Tick`, `TimeOut` are the rounds of
`read_all_deadline` under `conn_read_mutex`, first for the header, then, with
one tick less, for the payload. What is read as a header and is none is any of
`Junk` or too large. `due`, `torn`, `wrong` are history.

### `ToolRouting` and `ToolLoop`

`ToolRouting` has the router's confidence levels and the policy's verdicts as
operators on what the code's word lists find. In `ToolLoop` an agent asks for
tools in the middle of a turn; `ToolIntent` is the handler with its order of
checks (deny list, arguments, cycle limit, what can be run), `Record` is
`tool_history_append`, `BeginTurn` tells history and capabilities to the agent: the
history unless `hide` (`hide_tool_transcripts`, set by default; it is read once, and
the runs take both values), the capabilities if the request has tools.
`ChildWrites`, `ChildCloses`, `ChildExits` are the child, `PollReads`, `PollHangup`,
`PollIdle`, `Wait` the rounds of `tool_runner_run`. The child's standard error,
read the same way, redaction and its environment are left out. The ds4 wrapper
never sends a tool intent; the frame contract lets another agent do so.

### `ManagedConfig`

A file is a sequence of items: markers, the two parts of the block, tables
that the block displaces, other lines and tables of the user. `Installed` and
`Stripped` translate `find_managed_block` and `remove_all_managed_sections`,
`Extracted` the two sections (`Model`, `Provider`) that the block displaces and
disable brings back, `Content` the new file.
`Install` and `Disable` read; `Opens`, `Writes` and `Unlink` are the steps of
`write_file` and of the end, `OpenFails`, `WritesLess` and `Crash` the faults.
`User` adds or deletes an item at any moment. `owned`, `last` and `damage` are
history; an item is owned while it is outside every block and the user has not
deleted its last such copy. Left out: `generate_codex_config`, the model catalog and
`read_codex_toml_reasoning_effort`, which write once or only read, and
`--dry-run` and `--status`.

### `StartUp` and `Lifecycle`

`StartUp` is what `main` makes of `config.json`, `PORT` and flags: a source is a
function on the settings it gives. `Final` is the configuration a start runs
with, `Refusal` why it does not, `EarlyPort` and `DoctorPasses` what `--install`
and `--doctor` make of the same input. A relative socket path has its directory in
the workspace for a start and in the current directory for the doctor
(`ResolvedPath`, `SeenPath`), and `Listens` is the port left by the cut to 16 bits
(`MaxPort` stands for 65535). `Lifecycle` has one action per blocking
point of `main`: configure, the three ways to an agent (`InitExisting`,
`InitLaunch`, `InitPipes`), the rounds of `uds_connect`, the handshake, `Serve`,
`StopServing`, the steps of `engine_destroy`. The agent binds, listens, says any
frames, ends. An agent of an earlier run may listen at the path in every owner mode;
one that is there when a child is launched is the `"other"` agent of `sock`, and the
bridge may connect to it before the child has bound (`ConnectsOther`), which leaves
the child `"aside"`. `Accept` and `ClientDone` are a client that keeps the accept
loop (`held`). `Terminate` is a signal, which before the server runs kills the
process. Left out: the doctor's checks of venv, port, installed block and
catalog, the workspace monitor, the agent's environment.

### `Ds4Wrapper`

`pc` is the place of the wrapper's main thread: a launch waiting for the first
marker, a `/save` or `/switch`, a prompt, its stream, the judgement whether to
continue. `ds4`, `flag`, `home`, `input`, `busy`, `lines`, `mem`, `kept` are the
process: how it was launched, the lines to and from it, the requests its
context holds and the contexts it saved. `Reset` and `ChangeEffort` are the two
restarts; `Started`, `StartFails`, `ReadLine`, `ReadMarker`, `GiveUp`, `SeesExit` the
waits; `Judge` ends a turn or sends a continuation. Waits for output have deadlines,
writes to ds4's input have none: `Send` may leave the wrapper `writing`, until ds4
`Reads` or has exited. `late`, `faithful`, `told`,
`epoch`, `born` are history. That `/save` prints the id of what it saved and
that a command is followed by one marker are assumptions about ds4. Left out:
thinking events, the word lists behind "is it finished", the workspace prefix.

## 3. Runs

`CHECK_DEADLOCK FALSE` everywhere: clients may stop connecting, agents may
hang and bounded inputs end, so that a state with nothing to do is a legal one.
A stuck bridge is caught by the liveness properties instead.

| Run | Shows | Bounds |
|---|---|---|
| `TurnSafety` | `OwnOutputOnly`, `CancelWins`, and that `TurnProtocol` implements `TurnService` | 3 connections that stream, cancel or ask for health; 1 streamed chunk; event limit 2; one ping; texts that quote `req-30` |
| `TurnSync` | `TypeOK`; a turn that begins with nothing in flight meets only its own frames and leaves nothing behind | 2 connections, turns with state operations, saves, `busy`/`rejected`, compact turns |
| `TurnLive` | every connection is answered even if the agent hangs; stale frames are flushed | 2 connections, heartbeat for ever |
| `AnswerSafety` | framed and raw: `TypeOK`, `UnmarkedIsWhole`, `MarkIsOwn`, `NextOutput`, and that both deliveries implement `StreamOrder` | 2 requests, answers of at most 4 units, 3 events, caps of 2 to 4 units, with and without `max_output_chars`; 5 units printed into a ring of 4, 2 read at a time |
| `Sessions` | `TypeOK`, `SessionsStayApart`, `IdsAreOwn`, `SessionsAreKept` | 2 names clients ask for, 2 resets, 2 models, 3 turns in each of 2 processes, a table and a file of 2 entries |
| `FrameSafety` | `TypeOK`, `FramesAreIntact`, `ReadsEnd` | 2 writers of 2 frames each; payloads of 1, 3 and, one too long, 4 units; deadlines of 1 and 3 ticks; a pipe of 4 units |
| `ToolSafety` | `TypeOK`, `EveryIntentAnswered`, `PromptAddsUp`, `RouteIsConservative`, `OutputIsPrefix`, `SilentToolEnds` | 3 turns, 2 tool cycles, 3 events, a history of 3 of which 2 are told or none is, 5 units of output into a buffer of 3, 3 ticks |
| `ConfigSafety` | `TypeOK`, `OneBlock`, `UserKept`, `Recoverable` | 3 operations, 2 edits, 1 fault; files that begin empty, with a legacy block, with two blocks |
| `Lifecycle` | `TypeOK`, `ServesOnlyReady`, `EarlyModesAgree`, `NoOrphan`, `BridgeEnds` | files, variables and flags with each kind of wrong value, relative paths, ports that are cut, every transport and owner; an agent of an earlier run; 2 connect rounds, 2 frames of the agent |
| `Ds4Safety` | `TypeOK`, `OwnLines`, `ContextFollows`, `EffortAsked`, `RequestsEnd` | 3 requests, 2 efforts, 1 continuation, 1 line per command, 1 death of ds4 |
| `ClaimTruncated`, `ClaimConversation` | two statements of the documents that do not hold, section 6 | as small as the behaviour allows |

Why the bounds are enough.

* `Turn*`: three connections are a turn that is abandoned, the `DELETE` that
  abandons it and the turn that meets its frames; since the bridge keeps nothing
  of a turn but the pipes, `cancelled` and the connection state, longer histories
  only add more stale frames. An event limit of 2 lets a turn be cut with text in
  its buffer and be answered. `AckRetries` and `PongRetries` of 2 let a wait skip a
  frame, succeed and be exhausted. A text that quotes `req-30` names request 3 and
  no other: in the third turn whatever is left of the first two passes the id test,
  in the second nothing of the first does, so that both outcomes of the test occur
  on stale frames. `ToBridgeCap = 14` is never reached: with a
  small capacity TLC finds the deadlock of two full pipes (the agent blocked
  writing, the bridge blocked writing before it would read), a hazard the pipes'
  64 KiB make rare and that no code prevents.
* `AnswerSafety`: two requests, because `turn_event_limited`, the ring and
  `cancelled` are all that one request leaves to the next. With a field of 3
  units and answers of 4 a frame clips; three notices and an answer overfill
  `out_buf`, two notices and two units fill it exactly. Five units overflow a ring
  of 4 that keeps 3, also after a first read; a read may leave units behind, fill
  its buffer exactly, or find nothing. `PartCap` is twice the longest answer, the
  least room the refinement needs.
* `Sessions`: with a table of 2 a third session, by name or by reset, meets the
  limit. Three turns are a session, another one, and the return to the first; the
  second process finds the file of the first.
* `FrameSafety`: a pipe of 4 holds neither two frames nor a header with the longest
  payload, so that writers block in the middle of a frame; a deadline of 1 tick
  ends within a header, one of 3 within a payload.
* `ToolSafety`: two cycles, so that a third intent exceeds the limit; the history
  (3) is evicted and more is kept than told (2). `Ticks` 3 lets a child be polled,
  be silent, be polled again and time out. The number of units, not their size,
  decides whether the buffer is full before, at or after the last read.
* `ConfigSafety`: three operations are the shortest history with something
  installed, removed and installed again around edits; one fault, because the
  code says nothing of a second one before the first is repaired.
* `Lifecycle`: one value of each way a setting can be absent, right or wrong, a
  `PORT` out of range among them, and one that is cut to a port of its own; one
  connect round that fails and one that is the last.
* `Ds4Safety`: three requests are a turn, one that restarts ds4 and one that
  meets what is left of both.

Fairness. `TurnProtocol` (`FairSpec`): strong fairness for the server thread and
the router: each shares a pipe with another writer, and a writer blocked in
`write(2)` is not overtaken for ever when room appears again and again. Weak
fairness for the heartbeat thread. None for clients. The agent's main thread is
fair only where a property says so (`StaleFramesFlushed` assumes it).
`EveryConnectionAnswered` holds with a hanging agent because every wait of the
server thread ends by a timeout, a step of that thread on an empty pipe. Compact
turns are not in `TurnLive`: they do not set `turn_active`, the heartbeat goes on,
and each pong the turn takes resets its response timeout (`turn_context.c:528`),
so that under this untimed fairness a compact turn may be kept waiting for ever.
`ToolLoop`: weak fairness for the bridge's own loop (`Runner`), none for the
child. `Lifecycle`: weak fairness for the bridge and for `AgentStops`, an agent
ending once its input is closed; none for anything the agent says and none for
clients. The bridge is one thread, and what it waits for at the start and in the
shutdown has a deadline, with these exceptions: the writes of the hello and of the
shutdown frame, short frames which an agent is assumed to read; the join of the
reader thread, which `AgentStops` is for; and everything it reads from a client and
writes to one (`read_http_request`, `server.c:423`, and `write_all`), which may last
as long as the client likes. `held` is that wait: `StopServing` is not enabled in it,
`ClientDone` is not fair, and `BridgeEnds` promises nothing while it lasts.
`Ds4Wrapper`: weak fairness for the wrapper's main thread; none for ds4, which need
not read either. A write to a ds4 that reads nothing and has a full pipe lasts for
ever, so `RequestsEnd` excepts a wrapper that stays in a write (`StuckInWrite`);
without the exception TLC finds that behaviour.

## 4. Properties

Turns:

* `OwnOutputOnly`: the text of a finished turn is its own request's, whatever is
  left in the pipe and whatever that quotes. The id test of the poll loop is not
  what keeps it, since a quotation or a longer number passes (section 2). What does
  is the ack: acks quote nothing, the ids of one run of the bridge only grow, the
  wrapper takes one connection, and an agent that works in order has answered every
  earlier request before it acknowledges this one, so that nothing of theirs is
  behind the ack in the pipe. With an agent that reorders, the test in the poll loop
  would have to be exact, and is not.
* `CancelWins`: a turn whose client was told `cancelled` never looks completed.
  It ties a mid-turn reply to the final one across cleanup, which resets the flag.
* `ServiceSpec`: refinement of `TurnService` (FIFO, one outcome per turn,
  `cancelled` exactly when a `DELETE` came in during that turn).
* `CleanTurnStaysInSync`, `CleanTurnLeavesSync`: who takes which reply, across
  session operations, ack, poll loop, save and heartbeat. "Clean" is a history
  variable: nothing in flight when the turn began and no state operation timed
  out. Late answers really do break the rest of the turn, which is why it is there.
* `EveryConnectionAnswered`, `StaleFramesFlushed`: liveness.

Answers:

* `StreamSpec`: refinement of `StreamOrder`: events in order and without gaps in
  their numbers, each stream ended once, and closing events that hold exactly
  what the deltas showed. It ties two copies of the text together: the one sent
  and the one accumulated.
* `UnmarkedIsWhole`: an answer not marked as cut ends with the agent's whole
  answer. Three cuts with three marks, and a full buffer that looks like a
  clipped one.
* `MarkIsOwn`: the mark is of this request's turn, although the flag is the
  engine's and only one of the two writers clears it.
* `NextOutput`: over raw stdio an answer is the stretch of the agent's output after
  the one before, without hole or repetition, less what the ring had to drop.
  That it is the answer to this request nothing in that protocol says.

Sessions: `SessionsStayApart` (the agent is in the session a request or a save
is meant for, as long as no read timed out), `IdsAreOwn` (a state id on file is
the one the agent gave for that key, although replies are matched by order
alone), `SessionsAreKept` (writing the file loses no session, if it was read).

Frames: `FramesAreIntact` (what is read is the frame due, whole and in order,
until writers overlap or a read gives up inside a frame: the contract the other
modules rely on), `ReadsEnd` (a drip of bytes cannot hold `conn_read_mutex` for
ever).

Tools: `EveryIntentAnswered` (one answer and one history line per intent, in
order, on every path), `PromptAddsUp` (told and dropped entries add up to all
there were, unless tool transcripts are hidden, and then nothing is told),
`RouteIsConservative` (no tools, a definition alone or weak words activate nothing),
`OutputIsPrefix` (kept output has no hole and an unmarked one is all that was read),
`SilentToolEnds`.

Managed configuration: `OneBlock` (after a completed operation one block or
none), `UserKept` (nothing of the user is lost but by the user),
`Recoverable` (after the first fault the file or its backup has everything).

Life of a process: `ServesOnlyReady`, `EarlyModesAgree` (two readings of the same
arguments do not contradict each other, for a port that is a port, and but where the
doctor does not look: a bad socket path in a good directory, the assets of ds4, a
relative path whose directory is in the current directory only, and a `PORT` out of
range that `-p` hides from it while `main` still validates it; that exception was
found when a proof of the property without it failed), `NoOrphan` (a child that
was not connected to is ended; `bridge_listen` may leave one whose place an older
agent has taken), `BridgeEnds` (unless a client keeps the accept loop).

ds4: `OwnLines` (until a wait is given up a turn takes its own output only, and
a restart puts an end to foreign output), `ContextFollows` (no context from
before a reset, ever; the whole one if nothing failed), `EffortAsked`,
`RequestsEnd` (unless the wrapper stays in a write to ds4).

## 5. Proofs

Each theorem holds for every value of the constants that meets the assumptions
its module states (`BoundsAssumption`, `ChoicesAssumption`, `CapsAssumption`,
`RawBounds`, `SessionBounds`, `SessionChoices`, `FrameBounds`, `ToolBounds`,
`ConfigBounds`, `LifeBounds`, `PortBounds`, `Ds4Bounds`): mostly that a bound is a natural number.
Hypotheses beyond these are named below. No property proved here is inductive as
it stands, and each proof is an invariant, one lemma per group of actions or per
part, and a temporal step. The conjuncts of an invariant are kept apart, because
each is disturbed by a few actions only.

**Turns** (`TurnProtocol_proofs`): any number of connections,
any agent choices, any pipe capacities.

* `TypeCorrect == Spec => []TypeOK`. Counters stay natural because of where the
  thread is (`tries > 0` in the ack wait, `strays > 0` in the pong wait, `chunks`
  only counts down from a positive number), and replies go to `owner`, a
  connection that exists. `TypeInv` adds these (`Counters`).
* `OwnOutput == Spec => []OwnOutputOnly`, for any sets of quotations. `OwnInv` says
  that at every place of the turn `out` is within `{0, reqId}`; what a frame's text
  names is no help there. `AckedInv` is: request numbers grow from the pipe to the
  agent over its queue and its work to the pipe back (`OrderInv`, `LastInv`), so that
  from an ack of the last request on there is nothing of another one (`AckInv`), and
  a turn that polls is past its ack (`PollInv`). `SpellsUp` is why a frame with a
  smaller number is no ack of a larger one.
* `CancelledNeverCompletes == Spec => []CancelWins`. `CancelInv` keeps, for a
  turn still running, that `owner \in doomed` goes with `cancelled` set and with
  a verdict that is neither `ok` nor `limit`, and that turns yet to come are not
  doomed and have no reply.
* `ServiceImplemented == Spec => ServiceSpec`: the refinement of `TurnService`, each
  step mapped to a step of it or a stutter. `ServiceInv`, with `CancelInv`, gives what the
  abstract guards need: which connection holds the server and of what kind it is,
  and that a cancelled turn is one whose `DELETE` was answered.
* `StaysInSync` and `LeavesSync`: `CleanTurnStaysInSync` and `CleanTurnLeavesSync`.
  `SyncInv` describes both pipes, the agent's queue and its work at each place of a
  clean turn (`PipesInStep`): nothing under way before a state operation, one
  operation or its one answer after it, the request or its ack with the stream
  behind it, the rest of the stream while polling, nothing after the answer; and
  that `turn_active` is set and the heartbeat asleep while the turn reads. Reports
  of errors may be on their way throughout, since the agent's router drops them.
* `TurnRunsOut`: `StepsLeft` counts what a turn can still do (the state operations
  left, the tries of the ack wait, the events to `max_turn_events` with a round of
  empty polls for each, the end). Every step of the server thread inside a turn uses
  some of it up and no other thread gives any back. The exception is a pong or a
  health answer read in `turn_process_events`: it counts as no event, and the
  response timeout begins again with it (`turn_context.c:528`), so that the time of
  a turn is bounded only as far as such frames are rare. `BoundInv` says where the
  counters stand.

**Answers** (`RawDelivery_proofs`): any rings, buffers, answers and limits.

* `StreamsInOrder`: if `PartRoom`, then `Spec => StreamSpec`, for the framed
  delivery. The step that needs an invariant is a delta: the part must take it
  whole. `ShownBound` says that a running stream's part is no longer than what
  the agent has sent, so with `2 * MaxAnswer <= PartCap` there is room for the
  rest and for the response that repeats it all. Without `PartRoom` the statement
  is false.
* `BothStreamsInOrder`: with `PartRoom` and `RawRoom`, `DSpec => StreamSpec`, framed
  or raw. A raw stream's deltas are pieces of one text that was read before the
  first (`ChunkInv`), so the part holds no more than `offset`. `RawRoom` says that
  what one read of the ring gives fits the part, and that it is among the texts
  `StreamOrder` speaks of (whose length `MaxAnswer` bounds).
* `AnswersAreNextOutput == DSpec => []NextOutput`. The property
  speaks of what was read, so the invariant says where the ring stands: between
  tail and head its slots hold the units that were printed (`RingInv`), and the
  tail is right behind the last unit any request was given, or where the last
  `RingCap - 1` units begin (`TailInv`). `AppendKeeps` is the arithmetic of the
  slots: the new unit overwrites the one slot that leaves the ring, since indices
  closer than the capacity differ modulo it (`SlotsDiffer`); `ReadGives` and
  `ReadKeeps` are the read.
* `AnswersAreWhole` and `MarksAreOwn`, with `PartRoom`: `UnmarkedIsWhole` and
  `MarkIsOwn`. `AnswerInv` says where the whole answer is between the end of the
  turn and its delivery: at the end of the part of a stream, at the end of `out_buf`
  if that is not full. `DeliveredInv` is the properties, and that nothing is
  delivered while a request is busy.
* `DeliveryTypes == DSpec => []TypeOK`.

**Sessions** (`Sessions_proofs`): any names, workspaces, models, tables and restarts.

* `SessionTypes`, `SessionsApart`, `StateIdsAreOwn`, and `WritesKeepSessions`, which
  is about steps. Until a read of this process times out (`late # starts`), `WireInv`
  keeps one operation or its one reply under way, the one at the head of the plan,
  and says which session the agent is in by then; `PlanInv` says that the agent
  is in the session the bridge goes on with, or that the last operation of the plan
  leads there (`Leads`). `OwnInv` is the claim about state ids for both tables, since
  the file becomes the table at a restart. `KeysInv` is needed because the code uses
  a key where an id is expected: only keys of names are created or loaded.
  `LoadedInv` (memory knows what is on file, once that was read) gives
  `SessionsAreKept`.

**Frames** (`FrameIO_proofs`): any writers, frames, pipe and deadlines.

* `FramesWhole == Spec => []FramesAreIntact`. The property is about the read that is
  over; `LaidInv` says that before a tear what was read of a frame, what is in the
  pipe and what the one writer inside a frame has yet to write are, one behind the
  other, exactly the frames due. There are `start` places for them (`Laid`), so that
  one unit moved, a part finished, a frame begun or a frame read each change the
  picture at one end only, without a recursive definition of "laid out".
* `ReadsAreBounded == Spec => []ReadsEnd`. `TimeInv` is the potential of a read:
  twice the time spent is at most the budget of the parts so far less what the
  ticks that remain can still cost. It is what makes the bound quadratic.
* `FrameTypes == Spec => []TypeOK`.

**Tools** (`ToolLoop_proofs`): any history, pipe, buffer and numbers of cycles.

* `IntentsAnswered`: `AnswerInv` counts (one answer is owed while a child runs or when
  the cycle limit was passed, none else), `LinesInv` ties the history's last lines to
  the answers of this turn.
* `PromptComplete`: `KeptInv` says that the entries kept are the end of all lines
  appended and `dropped` the number of the others; for both values of `hide`.
* `OutputWhole`: `OutputInv` says that stored output is the first units, that the
  pipe holds the latest ones, and that a truncated buffer is full, so that nothing can
  be appended behind the hole.
* `SilenceIsCharged`, with `Ticks > 0` (without a timeout there is nothing to charge):
  `Patience` is what is left of the timeout and in the pipe; each round of
  `tool_runner_run` lowers it, and only what the child writes raises it.
* `RouteConservative`, `ToolTypes`.

**Managed configuration** (`ManagedConfig_proofs`): any files, edits, operations
and faults. A user's items are no markers (`ConfigBounds`).

* `NothingLost == Spec => []UserKept` and `FaultsRecoverable == Spec => []Recoverable`,
  for files with any mixture of blocks, half blocks and legacy blocks. `KeptInv` says
  at each place of an operation what holds the user's items: what was read, the file
  until it is emptied, the backup once it is written, the text to be written next;
  outside the blocks of each, because the next stripping takes the rest.
* `OneBlockLeft`: with `CleanStart`, `OneBlock` always. `CleanStart` says that the
  file at the start has whole blocks, and no legacy marker before a new block. The
  second half is needed: TLC finds that disable brings back, with the last section
  before a new block, a legacy `BEGIN` that stands in it (section 6). `BlocksInv`
  keeps both halves for the file, for what was read and for the backup.
* `ConfigTypes == Spec => []TypeOK`.
* The lemmas carry the weight: what is left by `Stripped`, a recursive function of
  the items. `Least` takes from the library that a set of naturals has a least element
  (`WFMin`, a fact about sets), `Backwards` makes of it an induction over the
  positions of a file from its end, and `RestExists` shows that the function
  `Stripped` chooses exists, so that it may be unfolded. Then: no markers are left
  of a file with whole blocks (`StrippedUnmarked`), no item outside a block goes
  (`StrippedKeeps`), and an edit of an item that is no marker leaves the blocks as
  they are (`Inserted`, `Removed`).

**Life of a process** (`Lifecycle_proofs`): any files, variables, flags and agents.

* `NoOrphanLeft == Spec => []NoOrphan`. `OrphanInv` says where a
  child that still waits for its connection can be met: while the bridge is in
  `uds_connect`, or after the bridge was killed; and that an `"other"` agent, and
  with it a child `"aside"`, is met only when no stale socket was removed.
* `ReadyBeforeServing`: with `OneDigit`, `Spec => []ServesOnlyReady`.
  `HandshakeInv` says that the frames not yet read are the last ones said
  (`ReadSoFar`), none of them read before the hello is awaited and one before the
  ready is; so the two frames that were accepted are the first two. `OneDigit`
  is needed because the code compares one digit of the version: version 12 would
  pass for 1.
* `EarlyModes == Spec => []EarlyModesAgree`. `ModesInv` is small (the configuration is
  that of the input, a process past its start was not refused, a refusal is the
  reason it gives); the weight is in lemmas about `StartUp`'s operators: `SamePort`
  (the port of an accepted configuration is `EarlyPort`, and the cut to 16 bits
  leaves one in range as it is) and `DoctorRefuses`, over `LayerFacts`, what one
  source of settings above another gives. `PortBounds` and `Input` (ports are
  integers) are all they assume.
* `LifecycleTypes == Spec => []TypeOK`, with a lemma that every end has a reason.
* `BridgeRunsOut`: from start to end main takes at most `ConnectTicks + 12` steps, since
  its stages come in one order (`Behind`) and only `uds_connect` goes round in one;
  neither the agent nor a client nor a signal moves it back.

**ds4** (`Ds4Wrapper_proofs`): any requests, efforts, lines and deaths.

* `LinesAreOwn`: `PlayInv` keeps every line and command of the process among the
  commands sent since its launch (`Sent`); `StepInv` says, until some wait was given
  up, that exactly one command is being worked on and how far it is.
* `ContextIsKept`: `ContextInv` (no context, live or saved, reaches behind the last
  reset) for the safe half, and `FaithInv` (where the conversation is while it is
  carried over a restart: in the process, or in the save whose id is known) for the
  other.
* `EffortIsAsked`: `EffortInv` ties the wrapper's note, if any, to the effort the
  running process was launched with. The note is lost and stale at times; only the
  places where a prompt is sent matter.
* `TurnRunsOut`: a turn takes at most `3 * MaxContinuations + 6` steps besides the lines
  it reads, and each of those makes the queue shorter. Only the next request gives
  steps back; a death or a hang of ds4 does not.
* `WrapperTypes`.

Only model-checked, and why:

* liveness (`EveryConnectionAnswered`, `StaleFramesFlushed`, `SilentToolEnds`,
  `BridgeEnds`, `RequestsEnd`): temporal reasoning under fairness is out of the
  prover's reach. What those that end a wait rest on besides fairness is proved: that
  the steps taken inside the wait use up something bounded which nobody else gives
  back (`TurnRunsOut` of `TurnProtocol_proofs` for `EveryConnectionAnswered`,
  `SilenceIsCharged` for `SilentToolEnds`, `BridgeRunsOut` for `BridgeEnds`,
  `TurnRunsOut` of `Ds4Wrapper_proofs` for `RequestsEnd`). What TLC adds is that such
  a step is always possible and, under the fairness stated, taken.

## 6. Where documents and code differ

Shown by a run:

* **Silent truncation** (`ClaimTruncated`): `HARNESS_CONTRACT.md:145`; a
  response's text is read into 4096 bytes, the rest is gone, and nothing is
  marked. A request that does not stream loses text it had already collected
  from the deltas.
* **Own conversation** (`ClaimConversation`): `HARNESS_CONTRACT.md:59` and `:129`;
  no state is created for a `previous_response_id` the index does not have, and the
  request runs in whatever session the agent is in.

Read in the code while modelling it, without a run of their own.

Turns and routes:

* any pong answers any ping (`bridge_core.c:1073` speaks of a matching id); one
  late pong leaves the connection a pong behind for good;
* `GET /health` is 503 when a stale frame is read first (`HARNESS_CONTRACT.md:44`
  ties 200 to the agent's answer), and 404 during a turn (`turn_context.c:429`);
* on an unhealthy connection two layers answer a request that does not stream
  (`HARNESS_CONTRACT.md:42`: one response);
* the id of a frame is looked for in its whole text, so that a quotation of the
  current id, or an id that begins with it, passes for it (`turn_context.c:557`);
* a stream that had deltas shows the whole response as deltas again (comment at
  `turn_context.c:718`);
* a compact turn cut at `max_turn_events` is answered without `incomplete_details`
  (`server.c:1731`, against `README.md:218`); an agent's error ends a stream with
  `response.error` (`server.c:1294`), where `HARNESS_CONTRACT.md:172` promises
  `response.failed`; a client that does not read its stream blocks the server
  thread in `write`.

Raw stdio: an answer is often only the first line printed, the rest answers the
next request; the ring (131072) is smaller than the default
`max_output_buffer` (262144), so that by default what overflows is dropped
unmarked; a text that exactly fills the buffer is marked; after one `DELETE` or
one client that does not read, every later stream fails with "cancelled".

Sessions:

* a failed switch does not end the turn (`turn_context.c:199`, against
  `HARNESS_CONTRACT.md:129`);
* an entry of another workspace or model is refused for a load only, not for a
  switch (`turn_context.c:200`, against `ARCHITECTURE.md:69`);
* a process whose first turn is a reset writes the index before it has read it,
  and earlier sessions are lost;
* a late answer to a create is filed under the next key;
* after a default session was created, `last_session_id` is a key, and that session
  is never saved again by that process;
* the wrapper's `switch_state` changes a table only: all conversations share one
  ds4 context.

Frames: the timeout is "for the entire frame read" (`native_frame.c:104`), but a
payload gets a deadline of its own.

Tools: what is in the pipe when the child exits is lost unmarked
(`tool_runner.c:382`); a child that keeps writing, or has closed its output, is
never timed out (`tool_runner.c:338`); denied, failed and timed out runs are
recorded as results; `tool_cycles_exceeded` emits no metrics, and the raw history
buffer, `tool_history_reset` and the application callback are not used.

Managed configuration:

* install and disable, in turn, duplicate the displaced sections (`README.md:127`,
  `config_manager.c:1481`, `:1535`);
* a legacy block before a new one, which no operation of this version leaves, but an
  older version beside it can, may come back from the backup with the displaced
  section it stands behind (`config_manager.c:1237`), so that the file still counts
  as installed after a disable;
* a file with a legacy block alone counts as installed, and disable refuses;
* a BEGIN without END makes two installs strip what is between (comment at
  `config_manager.c:1189`);
* a crash while writing, and then an install, overwrites the good backup; edits
  made during an operation are lost; the backup of an install is the cleaned text;
* the block is appended after the user's last TOML table.

Start and shutdown:

* flags are applied after validation and never validated: an unknown transport
  falls back and keeps the framing; without a valid `config.json` in between,
  `-p 70000` or `PORT=70000` listens on 4464 (`server.c:1887`) while `--install`
  writes 70000; `PORT=abc` makes `--install` write 8080 (`main.c:342`);
* the doctor takes the directory of a relative socket path from where it stands, the
  start from the workspace (`main.c:130`, `:555`);
* `--uds-connect-timeout-ms` has no effect, since the timeouts are set after
  `engine_init` has connected;
* a connect between the agent's bind and listen is refused and fatal;
* `bridge_listen` is `launch_and_connect` without the cleanup: where an agent of an
  earlier run still listens, it connects to that one, and the child it forked is left
  behind when it exits (the exception of `NoOrphan`); the cleanup removes `./*.sock`
  too; the protocol version is read as one digit;
* a client that sends nothing keeps a bridge that was asked to stop, since the
  shutdown flag is looked at between clients (`server.c:1917`);
* a failed bind leaves without `engine_destroy`, and so does any signal before the
  server runs;
* `engine_destroy` locks a mutex it has destroyed, waits for a `shutdown_ack` that
  the wrapper does not send, says nothing over a Unix socket, never kills a
  child, and joins the reader thread for as long as the agent lives;
* `engine_reconnect_uds` and `nc_reconnect` are called by nobody; the doctor does
  not look at the assets of ds4, the socket path itself or the flags, and with
  `-p 8080` it passes a `PORT=70000` that `main` refuses when it validates
  `config.json` before `-p` is applied.

Wrapper:

* `_parse_saved_session_id` says "Returns None if no id is found"; error texts
  parse to words such as `ds4-agent`, and `/switch` is sent with them;
* "All lines still go to parts" does not hold for listings beyond 12 lines, and
  deltas already shown are missing from the final text after ds4 exits;
* a ds4 that died is not restarted until a reset or another effort; until then each
  request is answered "completed" with an error text;
* `write` and `flush` to ds4's input have no deadline (`ds4_wrapper.py:531`): a ds4
  that hangs with a full pipe keeps the main thread for ever;
* a relaunch that times out leaves the new process running, and a failed reset
  ends the main thread while the router still answers pings.

## 7. Not modelled, and what is next

Not modelled: reading, decoding and checking requests (authorization, host
check), formatting of responses, JSON helpers, traces and logs (text in, text
out, no state between steps); the HTML log ring, which nothing reads; the
workspace monitor, which only logs; functions nobody calls (reconnect, reasoning
and function call deltas, envelope builders of unused frames); scripts, tests
and vendored code. Partly modelled components, and what is missing from each, are
listed in `PROJECT.json`.

Not composed: `TurnProtocol` with `Sessions`, `ToolLoop` or `Ds4Wrapper`. Each pair
multiplies two state spaces that are near what TLC can search; the interface
between them is the choice that one leaves open and the other decides.

Every invariant and action property that a run checks is now stated by a theorem.
What is left is to extend the model: the composition above, the checks of a request
before its turn (`codex_request_parser.c`), and a rank for `StaleFramesFlushed`, which
would have to count frames in both pipes and the agent's queue at once.
