------------------------------ MODULE ToolLoop ------------------------------
(***************************************************************************)
(* Tool intents: an agent that follows the frame contract asks for tools in *)
(* the middle of a turn, the bridge refuses, or runs a shell command as a   *)
(* child process, answers with a frame and keeps a history that it tells    *)
(* the agent with the next request.                                         *)
(*                                                                         *)
(* Output is a sequence of numbered units; the child's standard error is    *)
(* read the same way and left out.  One tick is the 50 ms of a poll.        *)
(***************************************************************************)
EXTENDS ToolRouting, Sequences

CONSTANTS
    MaxTurns,           \* bound
    MaxToolCycles, MaxTurnEvents,
    HistoryMax,         \* max_history_entries, at most MAX_HISTORY_ENTRIES
    ShownMax,           \* entries told to the agent, 12 in the code
    ShellEnabled,       \* shell_command_enabled
    Ticks,              \* shell_command_timeout_ms
    PipeCap, Chunk,     \* a read takes at most Chunk
    BufMax,             \* room of stdout_buf, without its NUL
    MaxOutput,          \* bound: units a child writes
    Offered             \* the tools the agent asks for

ASSUME ToolBounds ==
    /\ MaxTurns \in Nat /\ MaxToolCycles \in Nat /\ MaxTurnEvents \in Nat
    /\ HistoryMax \in Nat \ {0} /\ ShownMax \in Nat \ {0} /\ ShellEnabled \in BOOLEAN
    /\ Ticks \in Nat /\ PipeCap \in Nat \ {0} /\ Chunk \in Nat \ {0}
    /\ BufMax \in Nat \ {0} /\ MaxOutput \in Nat
    /\ Offered \subseteq Calls

VARIABLES
    hide,               \* hide_tool_transcripts, read once from the configuration
    pc,                 \* "idle", "begun", "events", "run"
    turn, request, prompt,
    cycles, events,
    call,               \* the tool that runs
    answers,            \* frames sent for the intents of this turn
    entries, dropped,   \* g_history_entries, g_history_drop_count
    \* the child and tool_runner_run's loop
    child, open, wrote, inPipe,
    phase, left, stored, truncated,
    \* history: intents of this turn, every line appended so far
    intents, lines

turnVars == <<turn, request, prompt, cycles, events>>
history  == <<entries, dropped, lines>>
childVars == <<child, open, wrote>>
runVars  == <<phase, left, stored, truncated>>
vars == <<hide, pc, turnVars, call, answers, history, childVars, inPipe, runVars, intents>>

NoCall    == [tool |-> "unnamed", args |-> "empty"]
NoRequest == [cap |-> "none"]
NoPrompt  == [dropped |-> 0, entries |-> <<>>, active |-> FALSE]

Least(a, b) == IF a < b THEN a ELSE b

Init ==
    /\ hide \in BOOLEAN
    /\ pc = "idle" /\ turn = 0 /\ request = NoRequest /\ prompt = NoPrompt
    /\ cycles = 0 /\ events = 0 /\ call = NoCall
    /\ answers = <<>> /\ entries = <<>> /\ dropped = 0
    /\ child = "none" /\ open = FALSE /\ wrote = 0 /\ inPipe = <<>>
    /\ phase = "poll" /\ left = 0 /\ stored = <<>> /\ truncated = FALSE
    /\ intents = <<>> /\ lines = <<>>

-----------------------------------------------------------------------------
(* Tool history.                                                           *)

\* the oldest entries make room for one
EvictNothing == 0
Evicted == IF Len(entries) >= HistoryMax THEN Len(entries) - HistoryMax + 1 ELSE 0

DroppedNow     == dropped + Evicted

\* what tool_history_append keeps of a line: its tool, and whether it says
\* TOOL_ERROR or TOOL_RESULT
Record(c, isError) ==
    LET line == [tool |-> c.tool, status |-> IF isError THEN "error" ELSE "ok"] IN
    /\ entries' = Append(SubSeq(entries, Evicted + 1, Len(entries)), line)
    /\ dropped' = DroppedNow
    /\ lines' = Append(lines, line)

\* tool_history_build_json shows the latest entries and counts the rest
StartIndex == IF Len(entries) > ShownMax THEN Len(entries) - ShownMax ELSE 0
ForgetsCut == dropped
Missing    == dropped + StartIndex

\* The two places that tell it, the prompt's text and the frame's field, have the same
\* guard; by default it is hidden and the agent is told nothing.
ToldHistory ==
    IF ~hide /\ Len(entries) > 0
      THEN [dropped |-> Missing, entries |-> SubSeq(entries, StartIndex + 1, Len(entries))]
      ELSE [dropped |-> 0, entries |-> <<>>]

-----------------------------------------------------------------------------
(* The turn.                                                               *)

\* handle_response_native composes the prompt, turn_begin sends it
BeginTurn(q) ==
    /\ pc = "idle" /\ turn < MaxTurns
    /\ pc' = "begun" /\ turn' = turn + 1 /\ request' = q
    /\ prompt' = [dropped |-> ToldHistory.dropped, entries |-> ToldHistory.entries,
                  active  |-> Routed(q)]
    /\ cycles' = 0 /\ events' = 0 /\ answers' = <<>> /\ intents' = <<>>
    /\ UNCHANGED <<hide, call, history, childVars, inPipe, runVars>>

Accepted ==
    /\ pc = "begun" /\ pc' = "events" /\ request' = NoRequest /\ prompt' = NoPrompt
    /\ UNCHANGED <<hide, turn, cycles, events, call, answers, history, childVars, inPipe,
                   runVars, intents>>

\* the answer to an intent, and its line in the history
Answer(c, kind, isError) ==
    /\ answers' = Append(answers, [tool |-> c.tool, kind |-> kind])
    /\ Record(c, isError)
    /\ events' = events + 1

SilentRefusal(c, kind) ==
    /\ answers' = Append(answers, [tool |-> c.tool, kind |-> kind])
    /\ events' = events + 1 /\ UNCHANGED history
Refuse(c, kind) == Answer(c, kind, TRUE)

\* tool_runner_run starts a process for an enabled shell_command only; for the
\* rest it fails, and the line still says TOOL_RESULT
Starts(c) == c.tool = "shell_command" /\ ShellEnabled

Spawn ==
    /\ child' = "runs" /\ open' = TRUE /\ wrote' = 0 /\ inPipe' = <<>>
    /\ phase' = "poll" /\ left' = Ticks /\ stored' = <<>>
    /\ truncated' = FALSE

TooManyCycles(n) == n > MaxToolCycles

ToolIntent(c) ==
    /\ pc = "events" /\ events < MaxTurnEvents
    /\ cycles' = cycles + 1 /\ intents' = Append(intents, c.tool)
    /\ \/ /\ TooManyCycles(cycles + 1)
          /\ pc' = "idle"
          /\ UNCHANGED <<events, call, answers, history, childVars, inPipe, runVars>>
       \/ /\ ~TooManyCycles(cycles + 1)
          /\ \/ /\ IsDenied(c) /\ Refuse(c, "denied")
                /\ UNCHANGED <<pc, call, childVars, inPipe, runVars>>
             \/ /\ ~IsDenied(c) /\ ~ArgsValid(c) /\ Refuse(c, "malformed")
                /\ UNCHANGED <<pc, call, childVars, inPipe, runVars>>
             \/ /\ ~IsDenied(c) /\ ArgsValid(c) /\ Answer(c, "error", FALSE)
                \* not started, or pipe or posix_spawnp failed
                /\ UNCHANGED <<pc, call, childVars, inPipe, runVars>>
             \/ /\ ~IsDenied(c) /\ ArgsValid(c) /\ Starts(c)
                /\ pc' = "run" /\ call' = c /\ Spawn
                /\ UNCHANGED <<events, answers, history>>
    /\ UNCHANGED <<hide, turn, request, prompt>>

\* any frame that is counted and does not end the turn
OtherEvent ==
    /\ pc = "events" /\ events < MaxTurnEvents /\ events' = events + 1
    /\ UNCHANGED <<hide, pc, turn, request, prompt, cycles, call, answers, history,
                   childVars, inPipe, runVars, intents>>

\* the response, the event limit, a cancel, an error or a timeout
EndTurn ==
    /\ pc \in {"begun", "events"} /\ pc' = "idle"
    /\ request' = NoRequest /\ prompt' = NoPrompt
    /\ UNCHANGED <<hide, turn, cycles, events, call, answers, history, childVars, inPipe,
                   runVars, intents>>

-----------------------------------------------------------------------------
(* The child.                                                              *)

ChildUnchanged == UNCHANGED <<hide, pc, turnVars, call, answers, history, runVars, intents>>

ChildWrites ==
    /\ child = "runs" /\ open /\ wrote < MaxOutput
    /\ \E n \in 1 .. MaxOutput - wrote :
         /\ Len(inPipe) + n <= PipeCap
         /\ inPipe' = inPipe \o [i \in 1..n |-> wrote + i]
         /\ wrote' = wrote + n
    /\ UNCHANGED <<child, open>> /\ ChildUnchanged

\* it may close its output and go on
ChildCloses ==
    /\ child = "runs" /\ open /\ open' = FALSE
    /\ UNCHANGED <<child, wrote, inPipe>> /\ ChildUnchanged

ChildExits ==
    /\ child = "runs" /\ child' = "exited" /\ open' = FALSE
    /\ UNCHANGED <<wrote, inPipe>> /\ ChildUnchanged

-----------------------------------------------------------------------------
(* The loop of tool_runner_run.                                            *)

RunUnchanged == UNCHANGED <<hide, pc, turnVars, call, answers, history, intents>>

\* the pipes are closed, and what is left in them is gone
RunEnds(late) ==
    /\ pc' = "events" /\ call' = NoCall
    /\ Answer(call, IF late THEN "error" ELSE "result", FALSE)
    /\ child' = "none" /\ open' = FALSE /\ inPipe' = <<>> /\ wrote' = 0
    /\ phase' = "poll" /\ left' = 0 /\ stored' = <<>> /\ truncated' = FALSE
    /\ UNCHANGED <<hide, turn, request, prompt, cycles, intents>>

\* room left, one short of what there is once output was cut
DropsChunk(n, space)  == IF n >= space THEN 0 ELSE n
Kept(n, space) == IF n >= space THEN (IF space > 0 THEN space - 1 ELSE 0) ELSE n

PollReads ==
    /\ pc = "run" /\ phase = "poll" /\ inPipe # <<>>
    /\ LET n     == Least(Chunk, Len(inPipe))
           space == BufMax - Len(stored)
           k     == Kept(n, space)
       IN /\ inPipe' = SubSeq(inPipe, n + 1, Len(inPipe))
          /\ stored' = stored \o SubSeq(inPipe, 1, k)
          /\ truncated' = (truncated \/ n >= space)
    /\ phase' = "wait"
    /\ UNCHANGED <<childVars, left>> /\ RunUnchanged

\* poll returns at once when the other end is closed, and charges nothing
PollHangup ==
    /\ pc = "run" /\ phase = "poll" /\ inPipe = <<>> /\ ~open
    /\ phase' = "wait"
    /\ UNCHANGED <<childVars, inPipe, left, stored, truncated>> /\ RunUnchanged

NotCharged == left
Charged    == left - 1

\* 50 ms without a byte; without a timeout, poll does not wait at all
PollIdle ==
    /\ pc = "run" /\ phase = "poll" /\ inPipe = <<>> /\ open
    /\ \/ /\ Ticks > 0 /\ Charged <= 0
          /\ RunEnds(TRUE)
       \/ /\ Ticks > 0 /\ Charged > 0
          /\ left' = Charged /\ phase' = "wait"
          /\ UNCHANGED <<childVars, inPipe, stored, truncated>> /\ RunUnchanged
       \/ /\ Ticks = 0 /\ phase' = "wait"
          /\ UNCHANGED <<childVars, inPipe, left, stored, truncated>> /\ RunUnchanged

Wait ==
    /\ pc = "run" /\ phase = "wait"
    /\ \/ child = "exited" /\ RunEnds(FALSE)
       \/ /\ child = "runs" /\ phase' = "poll"
          /\ UNCHANGED <<childVars, inPipe, left, stored, truncated>> /\ RunUnchanged

Runner == PollReads \/ PollHangup \/ PollIdle \/ Wait

-----------------------------------------------------------------------------
Next == \/ \E q \in Requests : BeginTurn(q)
        \/ Accepted \/ OtherEvent \/ EndTurn
        \/ \E c \in Offered : ToolIntent(c)
        \/ ChildWrites \/ ChildCloses \/ ChildExits
        \/ Runner

\* the server thread runs; the agent and the child need not
Spec == Init /\ [][Next]_vars /\ WF_vars(Runner)

-----------------------------------------------------------------------------
(* Properties.                                                             *)

Entries == [tool : Tools, status : {"ok", "error"}]

\* The types of all variables; the history stays within max_history_entries
\* (tool_history.c:88-94), the prompt within what is shown, and a turn's answers
\* within the tool cycle limit.
TypeOK ==
    /\ hide \in BOOLEAN
    /\ pc \in {"idle", "begun", "events", "run"} /\ turn \in 0..MaxTurns
    /\ request \in Requests \cup {NoRequest}
    /\ Len(prompt.entries) <= ShownMax
    /\ cycles \in 0 .. MaxToolCycles + 1 /\ events \in 0..MaxTurnEvents
    /\ call \in Calls
    /\ Len(answers) <= MaxToolCycles
    /\ \A i \in DOMAIN answers : answers[i] \in
         [tool : Tools, kind : {"denied", "malformed", "error", "result"}]
    /\ entries \in Seq(Entries) /\ Len(entries) <= HistoryMax /\ dropped \in Nat
    /\ child \in {"none", "runs", "exited"} /\ open \in BOOLEAN
    /\ wrote \in 0..MaxOutput /\ Len(inPipe) <= PipeCap
    /\ phase \in {"poll", "wait"} /\ left \in 0..Ticks
    /\ Len(stored) <= BufMax /\ truncated \in BOOLEAN
    /\ intents \in Seq(Tools) /\ lines \in Seq(Entries)

\* Every intent read is answered once, in order and under its own tool's name, and
\* leaves one line in the history; only the one that runs, or the one over
\* MAX_TOOL_CYCLES, has no answer (turn_context.c:643-707).
EveryIntentAnswered ==
    LET owed == IF pc = "run" \/ cycles > MaxToolCycles THEN 1 ELSE 0 IN
    /\ Len(answers) + owed = Len(intents)
    /\ Len(lines) >= Len(answers)
    /\ \A i \in DOMAIN answers :
         /\ answers[i].tool = intents[i]
         /\ lines[Len(lines) - Len(answers) + i].tool = intents[i]

\* Unless hide_tool_transcripts keeps all of it from the agent (server.c:1076), what the
\* agent is told, entries and number dropped, adds up to every tool it has used,
\* however many are kept and shown (tool_history.c:119-126).
PromptAddsUp ==
    pc = "begun" =>
      IF hide THEN prompt.dropped = 0 /\ prompt.entries = <<>>
      ELSE /\ prompt.dropped + Len(prompt.entries) = Len(lines)
           /\ prompt.entries = SubSeq(lines, prompt.dropped + 1, Len(lines))

\* In a request that defines tools, only a tool_choice that names it or words that
\* confirm it activate a capability: a definition alone, and weak words, never do
\* (capability_router.c:304-400).  Without tool definitions nothing is routed.
RouteIsConservative ==
    pc = "begun" => (prompt.active = (/\ request.tools
                                      /\ request.named \/ Intent(request) = Confirmed))

\* What tool_runner_run keeps of a child's output is the beginning of what the
\* child wrote, without a hole, even after the buffer was full; and as long as it is
\* not marked as truncated it is all that was read (tool_runner.c:349-364).
OutputIsPrefix ==
    /\ \A i \in DOMAIN stored : stored[i] = i
    /\ ~truncated => Len(stored) + Len(inPipe) = wrote

\* A child that goes silent with its output open does not hold up the turn: it is
\* killed when the polls have used up the timeout (tool_runner.c:338-347).
SilentToolEnds == (pc = "run" /\ open) ~> ~(pc = "run" /\ open)

=============================================================================
