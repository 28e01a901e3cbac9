---------------------------- MODULE TurnProtocol ----------------------------
(***************************************************************************)
(* One turn of the bridge, end to end: the HTTP server thread that runs    *)
(* turns and, while one runs, drains the accept queue; the heartbeat       *)
(* thread that shares the agent connection with it; the two pipes to the   *)
(* native agent; and the agent (agent/ds4_wrapper.py), a router thread and *)
(* a main thread.                                                          *)
(*                                                                         *)
(* Transport: framed protocol over stdio, after the handshake.  Writing a  *)
(* frame, and reading one under conn_read_mutex, are single steps.  A read *)
(* times out only on an empty pipe, at any moment: time is not modelled.   *)
(* A writer blocks while its pipe is full.                                 *)
(***************************************************************************)
EXTENDS Integers, Sequences

CONSTANTS
    MaxConns,       \* bound: connections the clients open
    Kinds,          \* the requests clients send, a subset of ClientKinds
    SessionPlans,   \* the steps turn_begin may go through for the session
    Saves,          \* whether a response is followed by save_state
    Refusals,       \* the ways the agent may refuse a request
    AckRetries,     \* frames turn_await_ack reads before it gives up
    MaxEvents,      \* max_turn_events
    Polls,          \* empty polls that make up response_timeout_ms
    PongRetries,    \* frames engine_wait_pong reads before it gives up
    MaxChunks,      \* bound: frames the agent streams for a request
    Quotes,         \* the sets of request ids a text of the agent may quote
    PingIds,        \* bound: distinct ping ids
    PingsRecur,     \* whether the heartbeat goes on, reusing ids, after these
    ToAgentCap,     \* frames the pipe to the agent holds
    ToBridgeCap     \* frames the pipe to the bridge holds

ClientKinds == {"stream", "block", "compact", "delete", "health", "models"}
StateOps    == {"create_state", "load_state", "save_state", "switch_state"}
\* what turn_begin does about the session: state operations, and reports to the
\* agent that a state is missing or belongs elsewhere
PlanSteps   == StateOps \cup {"error"}

ASSUME BoundsAssumption ==
    /\ MaxConns \in Nat /\ MaxChunks \in Nat /\ MaxEvents \in Nat
    /\ AckRetries \in Nat \ {0} /\ Polls \in Nat \ {0}
    /\ PongRetries \in Nat \ {0} /\ PingIds \in Nat \ {0}
    /\ ToAgentCap \in Nat \ {0} /\ ToBridgeCap \in Nat \ {0}
ASSUME ChoicesAssumption ==
    /\ Kinds \subseteq ClientKinds
    /\ SessionPlans \subseteq Seq(PlanSteps) /\ SessionPlans # {}
    /\ Saves \subseteq BOOLEAN /\ Saves # {}
    /\ Refusals \subseteq {"busy", "rejected"}
    /\ Quotes \subseteq SUBSET Nat
    /\ PingsRecur \in BOOLEAN

VARIABLES
    \* the server thread: its position, and the TurnContext it works on
    pc, owner, plan, tries, events, polls, out, verdict,
    \* the engine fields the two bridge threads share
    reqId, cancelled, turnActive, connState,
    \* HTTP: what each connection asked, its replies; the accept queue is
    \* what follows connection number served
    kind, replies, served,
    toAgent, toBridge,
    \* the wrapper: queue between its threads, request being worked on
    mainq, job, stage, chunks,
    \* the heartbeat thread
    hb, ping, strays,
    \* history, read by properties only: turns whose DELETE was answered, and
    \* whether the turn began in sync with the agent and has stayed so
    doomed, clean

ctxVars   == <<owner, plan, tries, events, polls, out, verdict>>
flagVars  == <<reqId, cancelled, turnActive, connState>>
httpVars  == <<kind, replies, served>>
agentVars == <<mainq, job, stage, chunks>>
hbVars    == <<hb, ping, strays>>
ghostVars == <<doomed, clean>>
vars == <<pc, ctxVars, flagVars, httpVars, toAgent, toBridge, agentVars,
          hbVars, ghostVars>>

-----------------------------------------------------------------------------
(* Frames.  id 0 is a frame without id; ids of lifecycle frames are drawn  *)
(* from their own name spaces ("ping_...", "health_..."), so they never    *)
(* hold a request id.  quotes are the request ids in the frame's text: the *)
(* agent may repeat one it read in a prompt or a log, an earlier or a      *)
(* later request's as well as its own.                                     *)

Frame(t, i)   == [type |-> t, id |-> i, quotes |-> {}]
Text(t, i, q) == [type |-> t, id |-> i, quotes |-> q]

LifecycleTypes == {"ping", "pong", "health"}
Lifecycle(f)   == f.type \in LifecycleTypes

\* "req-i" holds "req-j": without its last k digits, i is j
Spells(i, j) ==
    i = j \/ \E k \in 1..(i \div 10) : 10^k \in 1..i /\ i \div 10^k = j

\* strstr(frame, request_id): anywhere in the frame, its id or its text
Names(f, r) == \E i \in {f.id} \cup f.quotes : Spells(i, r)

\* a frame with an id that nowhere names the current request, for the poll loop
Mismatch(f) == f.id # 0 /\ ~Names(f, reqId)

Accepted(f)  == f.type = "ack"
AckFrame(f)  == f.type \in {"ack", "busy", "rejected"}

Send(fs)   == Len(toAgent) + Len(fs) <= ToAgentCap /\ toAgent' = toAgent \o fs
Answer(fs) == Len(toBridge) + Len(fs) <= ToBridgeCap /\ toBridge' = toBridge \o fs

\* engine_read_frame_timeout when a frame is there, and when it times out
Receive     == toBridge # <<>> /\ toBridge' = Tail(toBridge)
NothingRead == toBridge = <<>> /\ UNCHANGED toBridge

\* engine_send_error: the bridge reports its own failures to the agent
SendError == Send(<<Frame("error", 0)>>)

-----------------------------------------------------------------------------
Init ==
    /\ pc = "idle" /\ owner = 0 /\ plan = <<>> /\ tries = 0 /\ events = 0
    /\ polls = 0 /\ out = {} /\ verdict = "none"
    /\ reqId = 0 /\ cancelled = FALSE /\ turnActive = FALSE /\ connState = "ready"
    /\ kind = <<>> /\ replies = <<>> /\ served = 0
    /\ toAgent = <<>> /\ toBridge = <<>>
    /\ mainq = <<>> /\ job = 0 /\ stage = "idle" /\ chunks = 0
    /\ hb = "sleep" /\ ping = 0 /\ strays = 0
    /\ doomed = {} /\ clean = FALSE

-----------------------------------------------------------------------------
(* Clients: a connection carries one request and waits for its reply.      *)

ClientConnect ==
    /\ Len(kind) < MaxConns
    /\ \E k \in Kinds : kind' = Append(kind, k)
    /\ replies' = Append(replies, <<>>)
    /\ UNCHANGED <<pc, ctxVars, flagVars, served, toAgent, toBridge, agentVars,
                   hbVars, ghostVars>>

-----------------------------------------------------------------------------
(* Server thread, between turns: start_codex_api_server serves the oldest  *)
(* connection to its end before it accepts the next.                       *)

Oldest      == served + 1
Arrived(ks) == pc = "idle" /\ served < Len(kind) /\ kind[Oldest] \in ks
Reply(c, r) == replies' = [replies EXCEPT ![c] = Append(@, r)]

\* nothing in flight between bridge and agent, and the heartbeat asleep
InSync == /\ toAgent = <<>> /\ toBridge = <<>> /\ mainq = <<>>
          /\ job = 0 /\ hb = "sleep"

\* turn_begin, up to its first state operation
KeepCancel  == UNCHANGED cancelled
ClearCancel == cancelled' = FALSE

BeginTurn ==
    /\ served' = Oldest /\ owner' = Oldest /\ reqId' = Oldest
    /\ ClearCancel
    /\ plan' \in SessionPlans
    /\ pc' = "session"
    /\ UNCHANGED <<tries, events, polls, out, verdict, connState, kind, replies,
                   toAgent, toBridge, agentVars, hbVars, doomed>>

PostTurn ==
    /\ Arrived({"stream", "block"}) /\ connState = "ready"
    /\ turnActive' = TRUE
    /\ clean' = InSync
    /\ BeginTurn

\* handle_compact runs a turn without setting turn_active
CompactTurn ==
    /\ Arrived({"compact"}) /\ connState = "ready"
    /\ clean' = FALSE
    /\ UNCHANGED turnActive
    /\ BeginTurn

\* handle_response_native answers 503 itself; when the request does not
\* stream its caller then answers 503 as well
TurnUnavailable ==
    /\ Arrived({"stream", "block", "compact"}) /\ connState # "ready"
    /\ served' = Oldest
    /\ replies' = [replies EXCEPT ![Oldest] =
         IF kind[Oldest] = "block" THEN <<"unavailable", "unavailable">>
                                   ELSE <<"unavailable">>]
    /\ UNCHANGED <<pc, ctxVars, flagVars, kind, toAgent, toBridge, agentVars,
                   hbVars, ghostVars>>

\* engine_cancel: idempotent, and the cancel frame names the last request
CancelFrame == IF cancelled THEN <<>> ELSE <<Frame("cancel", reqId)>>

IdleDelete ==
    /\ Arrived({"delete"})
    /\ Send(CancelFrame)
    /\ cancelled' = TRUE
    /\ served' = Oldest /\ Reply(Oldest, "ok")
    /\ UNCHANGED <<pc, ctxVars, reqId, turnActive, connState, kind, toBridge,
                   agentVars, hbVars, ghostVars>>

IdleModels ==
    /\ Arrived({"models"})
    /\ served' = Oldest /\ Reply(Oldest, "ok")
    /\ UNCHANGED <<pc, ctxVars, flagVars, kind, toAgent, toBridge, agentVars,
                   hbVars, ghostVars>>

\* engine_health_check; the connection number stands for its health id
HealthSend ==
    /\ Arrived({"health"})
    /\ Send(<<Frame("health", Oldest)>>)
    /\ served' = Oldest /\ owner' = Oldest /\ pc' = "health"
    /\ UNCHANGED <<plan, tries, events, polls, out, verdict, flagVars, kind,
                   replies, toBridge, agentVars, hbVars, ghostVars>>

HealthAnswer(ok) ==
    /\ Reply(owner, IF ok THEN "ok" ELSE "unavailable")
    /\ pc' = "idle" /\ owner' = 0
    /\ UNCHANGED <<plan, tries, events, polls, out, verdict, flagVars, kind,
                   served, toAgent, agentVars, hbVars, ghostVars>>

HealthRead ==
    /\ pc = "health" /\ Receive
    /\ HealthAnswer(Head(toBridge) = Frame("health", owner))

HealthTimeout ==
    /\ pc = "health" /\ NothingRead
    /\ HealthAnswer(FALSE)

-----------------------------------------------------------------------------
(* Server thread, turn_begin: the state operations, then the request.      *)

SessionSend ==
    /\ pc = "session" /\ plan # <<>> /\ Head(plan) # "error"
    /\ Send(<<Frame(Head(plan), 0)>>)
    /\ plan' = Tail(plan) /\ pc' = "sessack"
    /\ UNCHANGED <<owner, tries, events, polls, out, verdict, flagVars, httpVars,
                   toBridge, agentVars, hbVars, ghostVars>>

SessionNotice ==
    /\ pc = "session" /\ plan # <<>> /\ Head(plan) = "error"
    /\ SendError /\ plan' = Tail(plan)
    /\ UNCHANGED <<pc, owner, tries, events, polls, out, verdict, flagVars,
                   httpVars, toBridge, agentVars, hbVars, ghostVars>>

SessionUnchanged ==
    UNCHANGED <<ctxVars, flagVars, httpVars, agentVars, hbVars, doomed>>

\* the next frame is taken for the reply, whatever it answers; a failed
\* operation is reported to the agent and the turn goes on
SessionAck ==
    /\ pc = "sessack" /\ Receive
    /\ pc' = IF Accepted(Head(toBridge)) THEN "session" ELSE "sesserr"
    /\ SessionUnchanged /\ UNCHANGED <<toAgent, clean>>

SessionTimeout ==
    /\ pc = "sessack" /\ NothingRead
    /\ pc' = "sesserr" /\ clean' = FALSE
    /\ SessionUnchanged /\ UNCHANGED toAgent

SessionError ==
    /\ pc = "sesserr" /\ SendError /\ pc' = "session"
    /\ SessionUnchanged /\ UNCHANGED <<toBridge, clean>>

SendRequest ==
    /\ pc = "session" /\ plan = <<>>
    /\ Send(<<Frame("request", reqId)>>)
    /\ pc' = "ack" /\ tries' = AckRetries
    /\ UNCHANGED <<owner, plan, events, polls, out, verdict, flagVars, httpVars,
                   toBridge, agentVars, hbVars, ghostVars>>

-----------------------------------------------------------------------------
(* Server thread, turn_await_ack.                                          *)

\* the turn is over with verdict v; the agent is told of it, or not
Report(v)  == pc' = "turnerr" /\ verdict' = v
EndTurn(v) == pc' = "finish" /\ verdict' = v

TurnError ==
    /\ pc = "turnerr" /\ SendError /\ pc' = "finish"
    /\ UNCHANGED <<ctxVars, flagVars, httpVars, toBridge, agentVars, hbVars,
                   ghostVars>>

AckUnchanged ==
    UNCHANGED <<owner, plan, events, polls, out, flagVars, httpVars, toAgent,
                agentVars, hbVars, ghostVars>>

\* ack_retries-- > 0
LastTryMissed == tries = 0
LastTry       == tries = 1

AckSkip ==
    /\ pc = "ack" /\ Receive
    /\ Lifecycle(Head(toBridge)) \/ Head(toBridge).type = "event"
    /\ tries' = tries - 1
    /\ IF LastTry THEN Report("ack_exhausted") ELSE UNCHANGED <<pc, verdict>>
    /\ AckUnchanged

AnyAck(f)       == AckFrame(f)
Acknowledges(f) == AckFrame(f) /\ Names(f, reqId)

AckRead ==
    /\ pc = "ack" /\ Receive
    /\ LET f == Head(toBridge) IN
       /\ ~Lifecycle(f) /\ f.type # "event"
       /\ \/ ~Acknowledges(f) /\ EndTurn("ack_invalid")
          \/ Acknowledges(f) /\ f.type = "busy"     /\ Report("busy")
          \/ Acknowledges(f) /\ f.type = "rejected" /\ EndTurn("rejected")
          \/ Acknowledges(f) /\ Accepted(f) /\ pc' = "poll" /\ UNCHANGED verdict
    /\ UNCHANGED tries
    /\ AckUnchanged

AckTimeout ==
    /\ pc = "ack" /\ NothingRead
    /\ Report("ack_timeout")
    /\ UNCHANGED tries
    /\ AckUnchanged

-----------------------------------------------------------------------------
(* Server thread, handle_midturn_control_plane: answers every connection   *)
(* in the accept queue.                                                    *)

Waiting == { c \in DOMAIN kind : c > served }
Deletes == { c \in Waiting : kind[c] = "delete" }

MidTurnReply(k) ==
    IF k \in {"models", "delete"} THEN "ok"
    ELSE IF k \in {"stream", "block"} THEN "conflict" ELSE "notfound"

DrainControlPlane ==
    /\ replies' = [c \in DOMAIN kind |->
         IF c \in Waiting THEN Append(replies[c], MidTurnReply(kind[c]))
                          ELSE replies[c]]
    /\ served' = Len(kind)
    /\ IF Deletes = {}
       THEN UNCHANGED <<cancelled, turnActive, toAgent, doomed>>
       ELSE /\ Send(CancelFrame)
            /\ cancelled' = TRUE /\ turnActive' = FALSE
            /\ doomed' = doomed \cup {owner}
    /\ UNCHANGED <<kind, reqId, connState>>

-----------------------------------------------------------------------------
(* Server thread, turn_process_events: one round of the loop is            *)
(* PollControl, then ReadFrame or ReadTimeout.                             *)

PollControl ==
    /\ pc = "poll" /\ events < MaxEvents
    /\ DrainControlPlane
    /\ IF cancelled' THEN EndTurn("cancelled")
                     ELSE pc' = "read" /\ UNCHANGED verdict
    /\ UNCHANGED <<owner, plan, tries, events, polls, out, toBridge, agentVars,
                   hbVars, clean>>

EventLimit ==
    /\ pc = "poll" /\ events = MaxEvents
    /\ EndTurn("limit")
    /\ UNCHANGED <<owner, plan, tries, events, polls, out, flagVars, httpVars,
                   toAgent, toBridge, agentVars, hbVars, ghostVars>>

\* the loop goes on, having counted n events and put text from o in out_buf
Continue(n, o) ==
    /\ pc' = "poll" /\ events' = events + n /\ out' = o
    /\ UNCHANGED verdict

\* response: out_buf is overwritten; the state is saved if the session has one
Complete(f) ==
    /\ out' = {f.id} /\ verdict' = "ok"
    /\ \E s \in Saves : pc' = IF s THEN "save" ELSE "finish"
    /\ UNCHANGED events

\* A frame that is not a lifecycle frame is handled by its type; text of an
\* unexpected type overwrites out_buf with the raw frame, which out shows as 0.
\* Lifecycle frames are dropped uncounted: their ids match no request.
ReadFrame ==
    /\ pc = "read" /\ Receive
    /\ polls' = 0
    /\ LET f == Head(toBridge)
           Own(t) == ~Lifecycle(f) /\ ~Mismatch(f) /\ f.type = t
       IN \/ Lifecycle(f) /\ Continue(0, out)
          \/ ~Lifecycle(f) /\ Mismatch(f) /\ Report("mismatch") /\ UNCHANGED <<events, out>>
          \/ Own("text_delta") /\ Continue(1, out \cup {f.id})
          \/ Own("event")      /\ Continue(1, out)
          \/ Own("error")      /\ EndTurn("agent_error") /\ UNCHANGED <<events, out>>
          \/ Own("response")   /\ Complete(f)
          \/ \E t \in {"ack", "busy", "rejected"} : Own(t) /\ Continue(1, {0})
    /\ UNCHANGED <<owner, plan, tries, flagVars, httpVars, toAgent, agentVars,
                   hbVars, ghostVars>>

\* remaining_timeout -= poll_ms
TimeoutNotCharged == polls
TimeoutCharged    == polls + 1

ReadTimeout ==
    /\ pc = "read" /\ NothingRead
    /\ IF TimeoutCharged < Polls
       THEN /\ polls' = TimeoutCharged /\ pc' = "poll"
            /\ UNCHANGED <<verdict, flagVars, httpVars, toAgent, doomed>>
       ELSE DrainControlPlane /\ Report("timeout") /\ UNCHANGED polls
    /\ UNCHANGED <<owner, plan, tries, events, out, agentVars, hbVars, clean>>

-----------------------------------------------------------------------------
(* Server thread: engine_save_session_state after a response, whose        *)
(* outcome is ignored, then the end of the turn.                           *)

SaveUnchanged ==
    UNCHANGED <<ctxVars, flagVars, httpVars, agentVars, hbVars, doomed>>

SaveDoesNotWait ==
    /\ pc = "save" /\ Send(<<Frame("save_state", 0)>>)
    /\ pc' = "finish"
    /\ SaveUnchanged /\ UNCHANGED <<toBridge, clean>>

SaveSend ==
    /\ pc = "save" /\ Send(<<Frame("save_state", 0)>>)
    /\ pc' = "saveack"
    /\ SaveUnchanged /\ UNCHANGED <<toBridge, clean>>

SaveAck ==
    /\ pc = "saveack" /\ Receive
    /\ pc' = "finish"
    /\ SaveUnchanged /\ UNCHANGED <<toAgent, clean>>

SaveTimeout ==
    /\ pc = "saveack" /\ NothingRead
    /\ pc' = "finish" /\ clean' = FALSE
    /\ SaveUnchanged /\ UNCHANGED toAgent

\* turn_cleanup clears eng->cancelled; the server reads it before
CancelReadAfterCleanup(c) == FALSE
CancelCaptured(c)         == c

TurnReply(k, v, c) ==
    IF v = "ok" THEN "completed"
    ELSE IF v = "limit" THEN (IF k = "compact" THEN "completed" ELSE "incomplete")
    ELSE IF k = "stream" /\ CancelCaptured(c) THEN "cancelled" ELSE "failed"

\* each request starts from an empty out_buf
EmptyBuffer == {}

FinishTurn ==
    /\ pc = "finish"
    /\ Reply(owner, TurnReply(kind[owner], verdict, cancelled))
    /\ cancelled' = FALSE /\ turnActive' = FALSE
    /\ pc' = "idle" /\ owner' = 0 /\ plan' = <<>> /\ tries' = 0 /\ events' = 0
    /\ polls' = 0 /\ out' = EmptyBuffer /\ verdict' = "none"
    /\ clean' = FALSE
    /\ UNCHANGED <<reqId, connState, kind, served, toAgent, toBridge, agentVars,
                   hbVars, doomed>>

-----------------------------------------------------------------------------
(* The wrapper.  Its router thread answers lifecycle frames at once, even  *)
(* while the main thread works on a request, and queues the others.        *)

AgentUnchanged ==
    UNCHANGED <<pc, ctxVars, flagVars, httpVars, hbVars, ghostVars>>

Router ==
    /\ toAgent # <<>> /\ toAgent' = Tail(toAgent)
    /\ LET f == Head(toAgent) IN
       \/ f.type = "ping"   /\ Answer(<<Frame("pong", f.id)>>) /\ UNCHANGED mainq
       \/ f.type = "health" /\ Answer(<<Frame("health", f.id)>>) /\ UNCHANGED mainq
       \/ f.type = "error"  /\ UNCHANGED <<toBridge, mainq>>
       \/ /\ f.type \notin {"ping", "health", "error"}
          /\ mainq' = Append(mainq, f) /\ UNCHANGED toBridge
    /\ UNCHANGED <<job, stage, chunks>>
    /\ AgentUnchanged

MainNext(ts) == stage = "idle" /\ mainq # <<>> /\ Head(mainq).type \in ts

MainRequest ==
    /\ MainNext({"request"})
    /\ LET i == Head(mainq).id IN
       \/ /\ Answer(<<Frame("ack", i)>>)
          /\ job' = i /\ stage' = "accepted" /\ chunks' = MaxChunks
       \/ \E r \in Refusals :
          /\ Answer(<<Frame(r, i)>>) /\ UNCHANGED <<job, stage, chunks>>
    /\ mainq' = Tail(mainq)
    /\ UNCHANGED toAgent /\ AgentUnchanged

\* apply_effort_change announces the restart of ds4, and may fail
EffortRestart ==
    /\ stage = "accepted" /\ stage' = "restarting"
    /\ Answer(<<Frame("event", 0)>>)
    /\ UNCHANGED <<toAgent, mainq, job, chunks>> /\ AgentUnchanged

EffortFails ==
    /\ stage = "restarting" /\ stage' = "idle" /\ job' = 0 /\ chunks' = 0
    /\ Answer(<<Frame("error", 0)>>)
    /\ UNCHANGED <<toAgent, mainq>> /\ AgentUnchanged

\* stream_prompt_with_deltas: a first event, then text and silences
StreamStart ==
    /\ stage \in {"accepted", "restarting"} /\ stage' = "streaming"
    /\ Answer(<<Frame("event", 0)>>)
    /\ UNCHANGED <<toAgent, mainq, job, chunks>> /\ AgentUnchanged

StreamChunk ==
    /\ stage = "streaming" /\ chunks > 0 /\ chunks' = chunks - 1
    /\ \/ \E q \in Quotes : Answer(<<Text("text_delta", job, q)>>)
       \/ Answer(<<Frame("event", 0)>>)
    /\ UNCHANGED <<toAgent, mainq, job, stage>> /\ AgentUnchanged

MainRespond ==
    /\ stage = "streaming" /\ stage' = "idle" /\ job' = 0 /\ chunks' = 0
    /\ \E q \in Quotes : Answer(<<Text("response", job, q)>>)
    /\ UNCHANGED <<toAgent, mainq>> /\ AgentUnchanged

MainState ==
    /\ MainNext(StateOps)
    /\ Answer(<<Frame("ack", 0)>>)
    /\ mainq' = Tail(mainq)
    /\ UNCHANGED <<toAgent, job, stage, chunks>> /\ AgentUnchanged

\* cancel frames are no frame type of the wrapper
MainUnknown ==
    /\ MainNext({"cancel"})
    /\ Answer(<<Frame("error", 0)>>)
    /\ mainq' = Tail(mainq)
    /\ UNCHANGED <<toAgent, job, stage, chunks>> /\ AgentUnchanged

-----------------------------------------------------------------------------
(* The heartbeat thread.                                                   *)

HeartbeatUnchanged ==
    UNCHANGED <<pc, ctxVars, reqId, cancelled, turnActive, httpVars, agentVars,
                ghostVars>>

\* turn_active is read once, before the ping
AlwaysMayPing   == TRUE
PingIfHealthy   == ~turnActive /\ connState = "ready"
MayPing         == ~turnActive

HbWake ==
    /\ hb = "sleep" /\ MayPing /\ hb' = "ping"
    /\ ping < PingIds \/ PingsRecur
    /\ UNCHANGED <<ping, strays, connState, toAgent, toBridge>>
    /\ HeartbeatUnchanged

HbPing ==
    /\ hb = "ping" /\ hb' = "pong"
    /\ ping' = (ping % PingIds) + 1 /\ strays' = PongRetries
    /\ Send(<<Frame("ping", ping')>>)
    /\ UNCHANGED <<connState, toBridge>>
    /\ HeartbeatUnchanged

\* a pong ends the wait, whichever ping it answers; other frames are dropped
HbRead ==
    /\ hb = "pong" /\ Receive
    /\ IF Head(toBridge).type = "pong"
       THEN hb' = "sleep" /\ strays' = 0
       ELSE strays' = strays - 1 /\ hb' = IF strays = 1 THEN "fail" ELSE hb
    /\ UNCHANGED <<ping, connState, toAgent>> /\ HeartbeatUnchanged

HbTimeout ==
    /\ hb = "pong" /\ NothingRead /\ hb' = "fail" /\ strays' = 0
    /\ UNCHANGED <<ping, connState, toAgent>> /\ HeartbeatUnchanged

HbFail ==
    /\ hb = "fail" /\ SendError /\ hb' = "sleep" /\ connState' = "unhealthy"
    /\ UNCHANGED <<ping, strays, toBridge>> /\ HeartbeatUnchanged

-----------------------------------------------------------------------------
Serve == \/ PostTurn \/ CompactTurn \/ TurnUnavailable
         \/ IdleDelete \/ IdleModels
         \/ HealthSend \/ HealthRead \/ HealthTimeout

RunTurn == \/ SessionSend \/ SessionAck \/ SessionTimeout \/ SessionError
           \/ SessionNotice \/ SendRequest \/ AckSkip \/ AckRead \/ AckTimeout
           \/ PollControl \/ EventLimit \/ ReadFrame \/ ReadTimeout
           \/ SaveSend \/ SaveAck \/ SaveTimeout
           \/ TurnError \/ FinishTurn

Server == Serve \/ RunTurn

Main == \/ MainRequest \/ EffortRestart \/ EffortFails \/ StreamStart
        \/ StreamChunk \/ MainRespond \/ MainState \/ MainUnknown

Heartbeat == HbWake \/ HbPing \/ HbRead \/ HbTimeout \/ HbFail

Next == ClientConnect \/ Server \/ Router \/ Main \/ Heartbeat

Spec == Init /\ [][Next]_vars

\* The threads of the bridge and the agent's router run.  Strong fairness for the
\* threads that share a pipe with another writer: write(2) does not let one
\* blocked writer be overtaken for ever.  The agent's main thread may hang at
\* any moment, and clients may stop asking.
FairSpec == Spec /\ SF_vars(Server) /\ SF_vars(Router) /\ WF_vars(Heartbeat)

-----------------------------------------------------------------------------
(* Types.                                                                  *)

Verdicts == {"none", "ok", "limit", "cancelled", "ack_timeout", "ack_invalid",
             "ack_exhausted", "busy", "rejected", "mismatch", "timeout",
             "agent_error"}
TurnPcs    == {"session", "sessack", "sesserr", "ack", "poll", "read", "save",
               "saveack", "turnerr", "finish"}
Replies    == {"ok", "unavailable", "conflict", "notfound", "completed",
               "incomplete", "cancelled", "failed"}
ToAgentFrames  ==
    [type : {"request"}, id : Nat \ {0}, quotes : {{}}] \cup
    [type : StateOps \cup {"cancel", "error", "health", "ping"}, id : Nat,
     quotes : {{}}]
ToBridgeFrames ==
    [type : {"text_delta", "response"}, id : Nat \ {0}, quotes : SUBSET Nat] \cup
    [type : {"ack", "busy", "rejected", "event", "error", "pong", "health"}, id : Nat,
     quotes : {{}}]

ServerType ==
    /\ pc \in TurnPcs \cup {"idle", "health"}
    /\ owner \in Nat /\ plan \in Seq(PlanSteps)
    /\ tries \in Nat /\ events \in Nat /\ polls \in Nat
    /\ out \in SUBSET Nat /\ verdict \in Verdicts
EngineType ==
    /\ reqId \in Nat /\ cancelled \in BOOLEAN /\ turnActive \in BOOLEAN
    /\ connState \in {"ready", "unhealthy"}
HttpType ==
    /\ kind \in Seq(Kinds) /\ replies \in Seq(Seq(Replies))
    /\ Len(replies) = Len(kind)
    /\ served \in 0..Len(kind)
PipeType ==
    /\ toAgent \in Seq(ToAgentFrames) /\ toBridge \in Seq(ToBridgeFrames)
AgentType ==
    /\ mainq \in Seq(ToAgentFrames)
    /\ job \in Nat /\ stage \in {"idle", "accepted", "restarting", "streaming"}
    /\ chunks \in Nat
HeartbeatType ==
    /\ hb \in {"sleep", "ping", "pong", "fail"} /\ ping \in Nat /\ strays \in Nat
HistoryType == doomed \in SUBSET Nat /\ clean \in BOOLEAN

\* Every variable keeps the shape the code gives it; requests, and the text the
\* agent sends for them, always carry an id.
TypeOK == /\ ServerType /\ EngineType /\ HttpType /\ PipeType /\ AgentType
          /\ HeartbeatType /\ HistoryType

-----------------------------------------------------------------------------
(* Safety.                                                                 *)

\* The text a finished turn answers with came from the agent's frames for that
\* very request, whatever earlier turns left in the pipe: a response replaces
\* it by the request's own, a turn cut at the event limit holds its own deltas
\* (or, as 0, a raw frame without id).  The test of the id in the poll loop does
\* not keep this, for a stale text that quotes the id passes it: the ack does,
\* for the agent works in order, and only an ack cannot quote.
OwnOutputOnly ==
    /\ verdict = "ok"    => out = {reqId}
    /\ verdict = "limit" => out \subseteq {0, reqId}

\* A turn whose client was told "cancelled" never answers as if it had gone
\* through, and a stream then ends with the cancelled terminal even when the
\* DELETE came in with the response timeout.
CancelWins ==
    \A t \in doomed : \A i \in DOMAIN replies[t] :
        replies[t][i] = IF kind[t] = "stream" THEN "cancelled" ELSE "failed"

\* A turn that starts with nothing in flight, whose state operations were all
\* answered in time, never meets a frame that is not its own: heartbeats stay
\* off the pipe and every operation takes its reply with it.
CleanTurnStaysInSync ==
    clean => verdict \notin {"ack_invalid", "ack_exhausted", "mismatch"}

\* Such a turn, when it answers normally, hands the pipes on as it found them.
CleanTurnLeavesSync ==
    clean /\ pc = "finish" /\ verdict = "ok" =>
        toAgent = <<>> /\ toBridge = <<>> /\ mainq = <<>> /\ job = 0

\* What clients may rely on, TurnService, is what the bridge does: FIFO service,
\* one turn at a time, one outcome per turn, cancelled exactly when a DELETE
\* came in during the turn.
Service == INSTANCE TurnService WITH active <- owner
ServiceSpec == Service!SSpec

-----------------------------------------------------------------------------
(* Liveness.                                                               *)

\* Every connection is answered, even when the agent's main thread hangs: each
\* wait of the server thread ends by a frame or by its timeout.
EveryConnectionAnswered ==
    \A c \in 1..MaxConns : (Len(kind) >= c) ~> (c <= Len(replies) /\ replies[c] # <<>>)

\* With an agent that keeps working too, the frames an abandoned turn left
\* behind are flushed by the heartbeat: the pipe does not stay out of step once
\* the bridge is idle.
StaleFramesFlushed ==
    SF_vars(Main) => []<>(\A i \in DOMAIN toBridge : Lifecycle(toBridge[i]))

=============================================================================
