----------------------------- MODULE Lifecycle -----------------------------
(***************************************************************************)
(* The life of one bridge process, main from its first line to its last,   *)
(* and of its agent: the configuration, the connection over pipes or a     *)
(* Unix socket, the handshake, serving, and the shutdown.                  *)
(*                                                                         *)
(* The agent is another process: it may say anything, late or never, and   *)
(* end at any time.  What happens while serving is TurnProtocol's.         *)
(***************************************************************************)
EXTENDS StartUp, Sequences

CONSTANTS
    Inputs,             \* files, variables, flags and agents to start with
    ConnectTicks,       \* BRIDGE_SOCKET_CONNECT_TIMEOUT_MS, in 10 ms rounds
    Versions,           \* protocol versions agents speak
    MaxSaid             \* bound: frames the agent says

ASSUME LifeBounds ==
    /\ ConnectTicks \in Nat \ {0} /\ MaxSaid \in Nat /\ Versions \subseteq 0..99
    /\ \A in \in Inputs : Input(in)

ProtocolVersion == 1

VARIABLES
    input, cfg,
    stage,      \* where main is
    why,        \* why it ended
    waited,     \* rounds of uds_connect
    sock,       \* the socket file: absent, left by an earlier run, bound, listening, stale
                \* since its agent has ended, or an "other" agent's than the child's
    peer,       \* the agent process the bridge talks to, or waits for
    child,      \* the process forked by engine_init: none, the peer, "aside" when the
                \* bridge has connected to the other agent, and then gone
    unread,     \* frames from the agent
    said,       \* history: all the agent said
    asked,      \* SIGINT or SIGTERM has been asked for
    handled,    \* the server has set its signal handlers, SIGPIPE's too
    held        \* the accept loop is with a client

vars == <<input, cfg, stage, why, waited, sock, peer, child, unread, said, asked, handled, held>>
config == <<input, cfg>>
agent  == <<sock, peer, child, unread, said>>
control == <<asked, handled, held>>

Frames ==
    [type : {"hello"}, version : Versions, good : BOOLEAN]  \* good: nothing else is missing
        \cup [type : {"ready", "log"}, version : {0}, good : BOOLEAN]   \* good: the model is loaded

-----------------------------------------------------------------------------
Init ==
    /\ input \in Inputs /\ cfg = Final(input)
    /\ stage = "start" /\ why = "" /\ waited = 0
    /\ sock \in {"absent", "left", "listening"}
    /\ peer = "none" /\ child = "none" /\ unread = <<>> /\ said = <<>>
    /\ asked = FALSE /\ handled = FALSE /\ held = FALSE

\* Mutant: the reason is lost.
ExitQuietly(reason) == stage' = "exited" /\ UNCHANGED why
Exit(reason) == stage' = "exited" /\ why' = reason
Goto(next) == stage' = next /\ UNCHANGED why

Configure ==
    /\ stage = "start"
    /\ IF Refusal(input) # "" THEN Exit(Refusal(input)) ELSE Goto("init")
    /\ UNCHANGED <<config, waited, agent, control>>

\* cleanup_stale_socket, for launch_and_connect only.
\* Mutant: in no mode.
NotCleaned == sock
Cleaned == IF cfg.owner = "launch_and_connect" /\ cfg.path # "none" THEN "absent" ELSE sock

\* engine_init.  In connect_existing somebody may have started an agent, or be
\* about to; the other owner modes start one, bridge_listen too.
InitExisting ==
    /\ stage = "init" /\ cfg.transport = "uds" /\ cfg.owner = "connect_existing"
    /\ IF cfg.path = "none" THEN Exit("no agent") /\ UNCHANGED peer
       ELSE Goto("connect") /\ peer' \in (IF sock = "listening" THEN {"started"} ELSE {"none", "started"})
    /\ UNCHANGED <<config, waited, sock, child, unread, said, control>>

InitLaunch ==
    /\ stage = "init" /\ cfg.transport = "uds" /\ cfg.owner # "connect_existing"
    /\ sock' = (IF Cleaned = "listening" THEN "other" ELSE Cleaned) /\ child' = "peer"
    /\ IF cfg.path = "none" THEN Exit("no path") /\ peer' = "exited"     \* and the child is ended
                            ELSE Goto("connect") /\ peer' = "started"
    /\ UNCHANGED <<config, waited, unread, said, control>>

InitPipes ==
    /\ stage = "init" /\ cfg.transport # "uds"
    /\ peer' = "up" /\ child' = "peer" /\ Goto(IF cfg.framed THEN "send hello" ELSE "serve")
    /\ sock' = Cleaned
    /\ UNCHANGED <<config, waited, unread, said, control>>

\* uds_connect: a file that is there is connected to, and a refusal is final;
\* one that is not there is waited for.
ConnectFails(reason) ==
    /\ Exit(reason) /\ peer' = IF child = "peer" THEN "exited" ELSE peer
\* Mutant: the wait is not counted.
Forever == waited
Round == waited + 1

Connects ==
    /\ stage = "connect" /\ waited < ConnectTicks /\ sock = "listening"
    /\ peer' = "up" /\ Goto("send hello")
    /\ UNCHANGED <<config, waited, sock, child, unread, said, control>>
\* An agent of an earlier run is as good as the child, which is then on its own.
ConnectsOther ==
    /\ stage = "connect" /\ waited < ConnectTicks /\ sock = "other"
    /\ peer' = "up" /\ child' = (IF peer = "started" THEN "aside" ELSE "gone")
    /\ Goto("send hello")
    /\ UNCHANGED <<config, waited, sock, unread, said, control>>
Refused ==
    /\ stage = "connect" /\ waited < ConnectTicks /\ sock \in {"left", "stale", "bound"}
    /\ ConnectFails("refused")
    /\ UNCHANGED <<config, waited, sock, child, unread, said, control>>
Waits ==
    /\ stage = "connect" /\ waited < ConnectTicks /\ sock = "absent" /\ waited' = Round
    /\ UNCHANGED <<config, stage, why, agent, control>>
ConnectTimeout ==
    /\ stage = "connect" /\ waited = ConnectTicks /\ ConnectFails("connect timeout")
    /\ UNCHANGED <<config, waited, sock, child, unread, said, control>>

-----------------------------------------------------------------------------
\* Before the server runs nothing ignores SIGPIPE: a write to an agent that has
\* ended ends the bridge, without a message.
Write(next) ==
    IF peer = "exited" /\ ~handled THEN stage' = "killed" /\ why' = "SIGPIPE" ELSE Goto(next)

SendHello ==
    /\ stage = "send hello" /\ Write("await hello")
    /\ UNCHANGED <<config, waited, agent, control>>

\* The version is read as one digit.
Digit(n) == IF n < 10 THEN n ELSE n \div 10
GoodHello(f) == f.type = "hello" /\ f.good /\ Digit(f.version) = ProtocolVersion
\* Mutant: model_loaded is not looked at.
ReadyFrame(f) == f.type = "ready"
GoodReady(f) == f.type = "ready" /\ f.good

\* A frame is taken, whatever it is; engine_send_error goes to the pipe only.
\* (A hello whose max_frame_bytes is too small gets none.)
Reply == IF cfg.transport = "uds" THEN Goto("shut down") ELSE Write("shut down")
Handshake(at, Good(_), next) ==
    /\ stage = at
    /\ \/ unread # <<>> /\ unread' = Tail(unread)
          /\ IF Good(Head(unread)) THEN Goto(next)
             ELSE Reply \/ (at = "await hello" /\ Goto("shut down"))
       \/ unread = <<>> /\ UNCHANGED unread     \* the deadline, or end of file
          /\ IF at = "await ready" THEN Reply ELSE Goto("shut down")
    /\ UNCHANGED <<config, waited, sock, peer, child, said, control>>
ReadNativeHello == Handshake("await hello", GoodHello, "await ready")
WaitForReady == Handshake("await ready", GoodReady, "serve")

\* start_codex_api_server: exit, without engine_destroy, when the port is taken.
Serve ==
    /\ stage = "serve"
    /\ (Goto("serving") /\ handled' = TRUE) \/ (Exit("port") /\ UNCHANGED handled)
    /\ UNCHANGED <<config, waited, agent, asked, held>>
\* The accept loop looks at the flag between clients.
StopServing ==
    /\ stage = "serving" /\ asked /\ ~held /\ Goto("shut down")
    /\ UNCHANGED <<config, waited, agent, control>>

-----------------------------------------------------------------------------
\* engine_destroy: the shutdown frame, on pipes; one frame or five seconds for
\* an answer; ten looks at the child; the descriptors; the reader thread.
ShutDown ==
    /\ stage = "shut down"
    /\ IF cfg.framed /\ cfg.transport # "uds" THEN Write("await ack") ELSE Goto("reap")
    /\ UNCHANGED <<config, waited, agent, control>>
AwaitAck ==
    /\ stage = "await ack" /\ Goto("reap")
    /\ unread' = IF unread = <<>> THEN unread ELSE Tail(unread)
    /\ UNCHANGED <<config, waited, sock, peer, child, said, control>>
CloseFds == peer' = IF peer = "exited" THEN peer ELSE "told"
Reap ==
    /\ stage = "reap" /\ CloseFds
    /\ IF cfg.transport = "uds" THEN Exit("done") ELSE Goto("join")
    /\ UNCHANGED <<config, waited, sock, child, unread, said, control>>
\* The thread is in read() until the agent writes or ends.
Join ==
    /\ stage = "join" /\ peer = "exited" /\ Exit("done")
    /\ UNCHANGED <<config, waited, agent, control>>
JoinOnOutput ==
    /\ stage = "join" /\ peer # "exited" /\ Exit("done")
    /\ UNCHANGED <<config, waited, agent, control>>

Bridge ==
    Configure \/ InitExisting \/ InitLaunch \/ InitPipes \/ Connects \/ ConnectsOther \/ Refused \/ Waits
    \/ ConnectTimeout \/ SendHello \/ ReadNativeHello \/ WaitForReady \/ Serve \/ StopServing
    \/ ShutDown \/ AwaitAck \/ Reap \/ Join

-----------------------------------------------------------------------------
\* A client that is accepted: read_http_request and the writes of its answer wait for
\* it without a deadline.  (One accepted just after the signal, before the flag is
\* looked at, was accepted just before it.)
Accept ==
    /\ stage = "serving" /\ ~asked /\ ~held /\ held' = TRUE
    /\ UNCHANGED <<config, stage, why, waited, agent, asked, handled>>
ClientDone ==
    /\ stage = "serving" /\ held /\ held' = FALSE
    /\ UNCHANGED <<config, stage, why, waited, agent, asked, handled>>

\* An agent on a socket removes what is there, binds, and then listens.
Bind ==
    /\ peer = "started" /\ sock \in {"absent", "left", "other"} /\ sock' = "bound"
    /\ UNCHANGED <<config, stage, why, waited, peer, child, unread, said, control>>
Listen ==
    /\ peer = "started" /\ sock = "bound" /\ sock' = "listening"
    /\ UNCHANGED <<config, stage, why, waited, peer, child, unread, said, control>>
Say ==
    /\ peer = "up" /\ cfg.framed /\ Len(said) < MaxSaid
    /\ \E f \in Frames : said' = Append(said, f) /\ unread' = Append(unread, f)
    /\ UNCHANGED <<config, stage, why, waited, sock, peer, child, control>>
AgentEnds ==
    /\ peer \in {"started", "up"} /\ peer' = "exited"
    /\ sock' = IF sock \in {"bound", "listening"} THEN "stale" ELSE sock
    /\ UNCHANGED <<config, stage, why, waited, child, unread, said, control>>
\* The other agent, before it is connected to; and the child that it has replaced,
\* whose own socket nobody connects to.
OtherEnds ==
    /\ stage = "connect" /\ sock = "other" /\ sock' = "left"
    /\ UNCHANGED <<config, stage, why, waited, peer, child, unread, said, control>>
AsideEnds ==
    /\ child = "aside" /\ child' = "gone"
    /\ UNCHANGED <<config, stage, why, waited, sock, peer, unread, said, control>>
\* It has read the shutdown frame or the end of its input.
AgentStops ==
    /\ peer = "told" /\ peer' = "exited"
    /\ UNCHANGED <<config, stage, why, waited, sock, child, unread, said, control>>

Terminate ==
    /\ ~asked /\ stage \notin {"exited", "killed"} /\ asked' = TRUE
    /\ IF handled THEN UNCHANGED <<stage, why>> ELSE stage' = "killed" /\ why' = "signal"
    /\ UNCHANGED <<config, waited, agent, handled, held>>

Next ==
    \/ Bridge \/ JoinOnOutput \/ Accept \/ ClientDone \/ Terminate
    \/ Bind \/ Listen \/ Say \/ AgentEnds \/ AgentStops \/ OtherEnds \/ AsideEnds

\* The process runs; an agent reads the two short frames of hello and shutdown (their
\* writes have no deadline) and ends when its input has ended; a client need do nothing.
Spec == Init /\ [][Next]_vars /\ WF_vars(Bridge) /\ WF_vars(AgentStops)

-----------------------------------------------------------------------------
Over == stage \in {"exited", "killed"}

\* A process that is over has a reason, handlers are set by serving only, and
\* nothing is unread that was not said.
TypeOK ==
    /\ input \in Inputs /\ cfg = Final(input)
    /\ stage \in {"start", "init", "connect", "send hello", "await hello", "await ready", "serve",
                  "serving", "shut down", "await ack", "reap", "join", "exited", "killed"}
    /\ Over <=> why # ""
    /\ waited \in 0..ConnectTicks
    /\ sock \in {"absent", "left", "bound", "listening", "stale", "other"}
    /\ peer \in {"none", "started", "up", "told", "exited"}
    /\ child \in {"none", "peer", "aside", "gone"}
    /\ said \in Seq(Frames) /\ \E i \in 0..Len(said) : unread = SubSeq(said, i + 1, Len(said))
    /\ asked \in BOOLEAN /\ handled \in BOOLEAN /\ held \in BOOLEAN

\* Requests are only served when a framed agent has said hello in the bridge's
\* version and then that its model is loaded (bridge_core.c:725).
ServesOnlyReady ==
    stage = "serving" /\ cfg.framed =>
        /\ Len(said) >= 2 /\ said[2].type = "ready" /\ said[2].good
        /\ said[1].type = "hello" /\ said[1].version = ProtocolVersion

Sane(f) == "port" \in DOMAIN f => f.port > 0

\* -p hides a PORT out of range from the doctor, and only from it
Hidden(in) == Positive(in.flags) /\ "port" \in DOMAIN in.env /\ in.env.port > MaxPort

\* What the early modes say is what the start then does.  The port that
\* --install writes is the port the server listens on, for the same arguments
\* (main.c:342), if it is a port at all, PORT and -p are numbers where they are given
\* and config.json is one the bridge accepts.  And what main refuses without flags
\* the doctor does not call well (run_doctor), but for what it does not look at, a bad
\* socket path in a good directory and the assets of ds4; for a relative path whose
\* directory is good where the doctor stands and not in the workspace; and for a PORT
\* that -p hides.
EarlyModesAgree ==
    /\ /\ stage = "serving" /\ Sane(input.env) /\ Sane(input.flags)
       /\ EarlyPort(input) <= MaxPort
       => Listens(cfg) = EarlyPort(input)
    /\ /\ why \in {"configuration", "socket path", "agent"} /\ DOMAIN input.flags \subseteq {"port"}
       /\ Sane(input.env) /\ ~Hidden(input) /\ input.agent # "no assets"
       /\ Overridden(input).path \notin {"bad", "in cwd"}
       => ~DoctorPasses(input)

\* Unless it is killed, the bridge leaves no agent behind that waits for it on its
\* socket.  A child that could not be connected to is ended; and one whose place an
\* agent of an earlier run has taken is none of launch_and_connect's, which removes
\* that agent's socket first (bridge_listen does not, and leaves the child waiting).
NoOrphan ==
    stage = "exited" => /\ child = "peer" => peer # "started"
                        /\ child = "aside" => cfg.owner # "launch_and_connect"

\* A bridge that does not serve comes to an end, and so does one that is asked
\* to stop: no wait of the start or of the shutdown is for ever, if an agent
\* ends with its input.  A serving one that is asked ends unless a client keeps it.
BridgeEnds ==
    (stage # "serving" \/ (asked /\ ~held)) ~> (Over \/ (stage = "serving" /\ (~asked \/ held)))
=============================================================================
