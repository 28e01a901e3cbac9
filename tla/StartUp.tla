------------------------------ MODULE StartUp ------------------------------
(***************************************************************************)
(* What main makes of its arguments, the PORT variable and config.json     *)
(* before it starts an agent: the configuration it runs with, whether it   *)
(* refuses it, and what --install and --doctor make of the same input.     *)
(*                                                                         *)
(* A source of settings is a function on the settings it gives.  "sound"   *)
(* stands for the numbers and names that are only checked to be in range.  *)
(***************************************************************************)
EXTENDS Integers

CONSTANTS DefaultPort, MaxPort

ASSUME PortBounds == MaxPort \in Nat /\ DefaultPort \in 1..MaxPort

Transports == {"auto", "uds", "stdio_framed", "stdio"}
Owners     == {"connect_existing", "launch_and_connect", "bridge_listen"}
\* The two last are relative: their directory is usable in the workspace only, or
\* in the current directory only.
Paths      == {"none", "good", "bad parent", "bad", "in workspace", "in cwd"}

Settings == {"port", "transport", "owner", "path", "framed", "sound"}

\* What below says, with the word of above before it.
Layer(above, below) ==
    [s \in DOMAIN above \cup DOMAIN below |-> IF s \in DOMAIN above THEN above[s] ELSE below[s]]

\* init_global_config.
Defaults(port) ==
    [port |-> port, transport |-> "auto", owner |-> "connect_existing", path |-> "none",
     framed |-> FALSE, sound |-> TRUE]

Positive(f) == "port" \in DOMAIN f /\ f.port > 0
Reads(in)   == in.found /\ ~in.no_config

\* config_validate_all.
Valid(c) ==
    c.port \in 1..MaxPort /\ c.transport \in Transports /\ c.owner \in Owners /\ c.sound

\* What main can start with.
Input(in) ==
    /\ DOMAIN in.file \subseteq Settings /\ DOMAIN in.flags \subseteq Settings
    /\ DOMAIN in.env \subseteq {"port"}
    /\ \A f \in {in.file, in.flags, in.env} : "port" \in DOMAIN f => f.port \in Int

-----------------------------------------------------------------------------
\* The configuration when config.json has been read, if it is.
Loaded(in) ==
    LET start == Defaults(IF "port" \in DOMAIN in.env THEN in.env.port ELSE DefaultPort)
    IN  IF Reads(in) THEN Layer(in.file, start) ELSE start

\* The flags are applied after the file has been validated; PORT comes before
\* the file and after -p.
\* Mutant: PORT is applied last.
EnvAlways(in) == Positive(in.env)
EnvWins(in) == Positive(in.env) /\ ~("port" \in DOMAIN in.flags /\ in.flags.port # 0)
Overridden(in) ==
    LET c == Layer(in.flags, Loaded(in))
    IN  IF EnvWins(in) THEN Layer(in.env, c) ELSE c

\* A relative path is taken from one of the two.  resolve_native_socket_path takes it
\* from the workspace, before main looks at its directory.
From(here, elsewhere, path) ==
    IF path = here THEN "good" ELSE IF path = elsewhere THEN "bad parent" ELSE path
ResolvedPath(path) == From("in workspace", "in cwd", path)

\* The doctor looks at the path as it is written, from the current directory; for a
\* name without a directory it looks at /, and refuses that.
SeenPath(path) == From("in cwd", "in workspace", path)

\* auto is uds when there is a socket path; an unknown name keeps the framing.
Resolved(c) ==
    LET transport == CASE c.transport \notin Transports -> "stdio_framed"
                       [] c.transport = "auto" -> IF c.path = "none" THEN "stdio_framed" ELSE "uds"
                       [] OTHER -> c.transport
        framed    == IF c.transport \in Transports THEN c.transport # "stdio" ELSE c.framed
    IN  [c EXCEPT !.transport = transport, !.framed = framed, !.path = ResolvedPath(c.path)]

\* ds4-agent runs behind the wrapper, over a socket of its own.
Wrapped(c) ==
    [c EXCEPT !.transport = "uds", !.framed = TRUE, !.path = "good", !.owner = "launch_and_connect"]

Agents == {"ds4-agent", "no agent", "no assets", "other"}
Final(in) ==
    LET c == Resolved(Overridden(in)) IN IF in.agent = "ds4-agent" THEN Wrapped(c) ELSE c

\* The server listens on htons((uint16_t)port), whatever nobody has validated: a port
\* of PORT or -p is cut, and 0 leaves the choice to the kernel.
Listens(c) == c.port % (MaxPort + 1)

\* Why main does not start an agent, or "".
Refusal(in) ==
    IF Reads(in) /\ ~Valid(Loaded(in)) THEN "configuration"
    ELSE IF ResolvedPath(Overridden(in).path) \in {"bad", "bad parent"} THEN "socket path"
    ELSE IF in.agent \in {"no agent", "no assets"} THEN "agent"
    ELSE ""

-----------------------------------------------------------------------------
\* The port --install writes into the managed block: main's early look at the
\* same arguments.
EarlyPort(in) ==
    IF Positive(in.flags) THEN in.flags.port
    ELSE IF "port" \in DOMAIN in.env THEN IF in.env.port > 0 THEN in.env.port ELSE DefaultPort
    ELSE IF Reads(in) /\ Positive(in.file) THEN in.file.port
    ELSE DefaultPort

\* run_doctor up to the agent: config valid, agent found, socket parent usable.
\* It takes the early port for a file that has none, and no other flag, and does
\* not look for the assets of a ds4-agent.
\* Mutant: the doctor does not look at the file.
DoctorSkips(in) == in.agent # "no agent"
DoctorPasses(in) ==
    LET c == IF Reads(in) THEN Layer(in.file, Defaults(EarlyPort(in))) ELSE Defaults(EarlyPort(in))
    IN  Valid(c) /\ in.agent # "no agent" /\ SeenPath(c.path) # "bad parent"
=============================================================================
