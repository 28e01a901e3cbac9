-------------------------- MODULE Lifecycle_proofs --------------------------
(***************************************************************************)
(* Lifecycle's safety properties, for all inputs, waits and numbers of       *)
(* frames: no agent of ours is left waiting on its socket; a bridge serves   *)
(* only after its agent has said hello and that its model is loaded; what    *)
(* --install and --doctor make of the arguments is what the start then does; *)
(* the types, with the frames read in the order they were said; and that     *)
(* neither the start nor the shutdown can go on for ever.                    *)
(***************************************************************************)
EXTENDS Lifecycle, SequenceTheorems, TLAPS

-----------------------------------------------------------------------------
\* The steps of agents and clients that main only sees later.
Around == Bind \/ Listen \/ AgentEnds \/ AgentStops \/ OtherEnds \/ AsideEnds \/ Accept \/ ClientDone

LEMMA AroundMain ==
    ASSUME Around
    PROVE  UNCHANGED <<config, stage, why, waited, unread, said, asked, handled>>
<1> USE DEF config, agent, control
<1>1. CASE Bind \/ Listen \/ AgentEnds \/ AgentStops
  BY <1>1 DEF Bind, Listen, AgentEnds, AgentStops
<1>2. CASE OtherEnds \/ AsideEnds \/ Accept \/ ClientDone
  BY <1>2 DEF OtherEnds, AsideEnds, Accept, ClientDone
<1> QED
  BY <1>1, <1>2 DEF Around

-----------------------------------------------------------------------------
(* NoOrphan.                                                               *)

\* A child that has not been connected to is one that main connects to, unless
\* the bridge has connected to an older agent; launch_and_connect cannot see one.
Before == {"start", "init"}
OrphanInv ==
    /\ stage \in Before => peer = "none" /\ child = "none"
    /\ child = "peer" /\ peer = "started" => stage \in {"connect", "killed"}
    /\ stage = "connect" /\ sock = "other" => cfg.owner # "launch_and_connect"
    /\ child = "aside" => cfg.owner # "launch_and_connect"

LEMMA OrphanInit == Init => OrphanInv
  BY DEF Init, OrphanInv

LEMMA OrphanStep == OrphanInv /\ [Next]_vars => OrphanInv'
<1> SUFFICES ASSUME OrphanInv, [Next]_vars PROVE OrphanInv'
  OBVIOUS
<1> USE DEF OrphanInv, Before, config, agent, control, Exit, Goto
<1>1. CASE Configure
  BY <1>1 DEF Configure
<1>2. CASE InitExisting \/ InitPipes
  BY <1>2 DEF InitExisting, InitPipes
<1>14. CASE InitLaunch
  <2>1. cfg' = cfg /\ child' = "peer" /\ stage' \in {"connect", "exited"}
    BY <1>14 DEF InitLaunch
  <2>2. stage' = "exited" => peer' = "exited"
    BY <1>14 DEF InitLaunch
  <2>3. stage' = "connect" => cfg.path # "none"
    BY <1>14 DEF InitLaunch
  <2>4. cfg.path # "none" /\ sock' = "other" => cfg.owner # "launch_and_connect"
    BY <1>14 DEF InitLaunch, Cleaned
  <2> QED
    BY <2>1, <2>2, <2>3, <2>4
<1>3. CASE Connects \/ Waits
  BY <1>3 DEF Connects, Waits
<1>15. CASE ConnectsOther
  <2>1. /\ stage = "connect" /\ sock = "other" /\ stage' = "send hello" /\ peer' = "up"
        /\ child' \in {"aside", "gone"} /\ cfg' = cfg
    BY <1>15 DEF ConnectsOther
  <2> QED
    BY <2>1
<1>4. CASE Refused \/ ConnectTimeout
  <2>1. stage' = "exited" /\ child' = child /\ cfg' = cfg /\ (child = "peer" => peer' = "exited")
    BY <1>4 DEF Refused, ConnectTimeout, ConnectFails
  <2> QED
    BY <2>1
<1>5. CASE SendHello
  BY <1>5 DEF SendHello, Write
<1>6. CASE ReadNativeHello
  BY <1>6 DEF ReadNativeHello, Handshake, Reply, Write
<1>7. CASE WaitForReady
  BY <1>7 DEF WaitForReady, Handshake, Reply, Write
<1>8. CASE Serve \/ StopServing
  <2>1. ~(child = "peer" /\ peer = "started") /\ child' = child /\ peer' = peer /\ cfg' = cfg
    BY <1>8 DEF Serve, StopServing
  <2>2. stage' \notin Before \cup {"connect"}
    BY <1>8 DEF Serve, StopServing
  <2> QED
    BY <2>1, <2>2
<1>9. CASE ShutDown \/ AwaitAck \/ Reap
  <2>1. ~(child = "peer" /\ peer = "started") /\ child' = child /\ cfg' = cfg
    BY <1>9 DEF ShutDown, AwaitAck, Reap
  <2>2. peer' \in {peer, "told"} /\ stage' \notin Before \cup {"connect"}
    BY <1>9 DEF ShutDown, AwaitAck, Reap, Write, CloseFds
  <2> QED
    BY <2>1, <2>2
<1>10. CASE Join \/ JoinOnOutput
  BY <1>10 DEF Join, JoinOnOutput
<1>11. CASE Around \/ Say
  <2>1. CASE Bind \/ Listen \/ AgentEnds \/ AgentStops \/ Say
    BY <2>1 DEF Bind, Listen, AgentEnds, AgentStops, Say
  <2>2. CASE OtherEnds \/ AsideEnds \/ Accept \/ ClientDone
    BY <2>2 DEF OtherEnds, AsideEnds, Accept, ClientDone
  <2> QED
    BY <1>11, <2>1, <2>2 DEF Around
<1>12. CASE Terminate
  BY <1>12 DEF Terminate
<1>13. CASE UNCHANGED vars
  BY <1>13 DEF vars
<1> QED
  BY <1>1, <1>2, <1>3, <1>4, <1>5, <1>6, <1>7, <1>8, <1>9, <1>10, <1>11, <1>12, <1>13, <1>14, <1>15
  DEF Next, Bridge, Around

\* Whatever the configuration, how often the connection is tried and what the
\* agent says: a bridge that has exited leaves no child behind that still waits
\* to be connected to (engine_init's failure paths), but one of bridge_listen's whose
\* place an agent of an earlier run has taken.
THEOREM NoOrphanLeft == Spec => []NoOrphan
<1>1. OrphanInv => NoOrphan
  BY DEF OrphanInv, NoOrphan
<1> QED
  BY <1>1, OrphanInit, OrphanStep, PTL DEF Spec

-----------------------------------------------------------------------------
(* ServesOnlyReady.                                                        *)

\* With versions of one digit, the digit that is compared is the version.
OneDigit == Versions \subseteq 0..9

IsHello(f) == f.type = "hello" /\ f.version = ProtocolVersion

\* the frames not read are the last ones said
ReadSoFar(n) ==
    /\ Len(said) = Len(unread) + n
    /\ \A i \in 1..Len(unread) : unread[i] = said[i + n]

HandshakeInv ==
    /\ said \in Seq(Frames) /\ unread \in Seq(Frames)
    /\ stage \in {"start", "init", "connect", "send hello", "await hello"} => ReadSoFar(0)
    /\ stage = "await ready" => ReadSoFar(1) /\ IsHello(said[1])
    /\ stage \in {"serve", "serving"} /\ cfg.framed =>
         Len(said) >= 2 /\ IsHello(said[1]) /\ GoodReady(said[2])

LEMMA HandshakeInit == Init => HandshakeInv
<1>1. <<>> \in Seq(Frames) /\ Len(<<>>) = 0
  BY EmptySeq
<1>2. Init => stage = "start" /\ said = <<>> /\ unread = <<>>
  BY DEF Init
<1> QED
  BY <1>1, <1>2 DEF HandshakeInv, ReadSoFar

\* Reading takes the first of the frames not read.
LEMMA ReadOne ==
    ASSUME unread \in Seq(Frames), unread # <<>>, unread' = Tail(unread), said' = said
    PROVE  /\ Len(unread) \in Nat \ {0} /\ unread' \in Seq(Frames)
           /\ Head(unread) = unread[1] /\ unread[1] \in Frames
           /\ ReadSoFar(0) => ReadSoFar(1)'
<1>1. Len(unread) \in Nat \ {0}
  BY EmptySeq
<1>2. /\ Tail(unread) \in Seq(Frames) /\ Len(Tail(unread)) = Len(unread) - 1
      /\ \A i \in 1 .. Len(Tail(unread)) : Tail(unread)[i] = unread[i + 1]
  BY HeadTailProperties
<1>3. Head(unread) = unread[1] /\ unread[1] \in Frames
  BY <1>1, ElementOfSeq
<1>4. ASSUME ReadSoFar(0) PROVE ReadSoFar(1)'
  <2>1. Len(said) = Len(unread) /\ \A i \in 1..Len(unread) : unread[i] = said[i]
    BY <1>1, <1>4 DEF ReadSoFar
  <2>2. Len(said') = Len(unread') + 1
    BY <1>1, <1>2, <2>1
  <2>3. \A i \in 1..Len(unread') : unread'[i] = said'[i + 1]
    BY <1>1, <1>2, <2>1
  <2> QED
    BY <2>2, <2>3 DEF ReadSoFar
<1> QED
  BY <1>1, <1>2, <1>3, <1>4

\* Saying adds a frame to both.
LEMMA SayOne ==
    ASSUME said \in Seq(Frames), unread \in Seq(Frames), NEW f \in Frames,
           said' = Append(said, f), unread' = Append(unread, f)
    PROVE  /\ said' \in Seq(Frames) /\ unread' \in Seq(Frames)
           /\ Len(said) \in Nat /\ Len(said') = Len(said) + 1
           /\ \A i \in 1..Len(said) : said'[i] = said[i]
           /\ ReadSoFar(0) => ReadSoFar(0)'
           /\ ReadSoFar(1) => ReadSoFar(1)'
<1>1. Len(said) \in Nat /\ Len(unread) \in Nat
  BY LenProperties
<1>2. /\ said' \in Seq(Frames) /\ Len(said') = Len(said) + 1 /\ said'[Len(said) + 1] = f
      /\ \A i \in 1..Len(said) : said'[i] = said[i]
  BY AppendProperties
<1>3. /\ unread' \in Seq(Frames) /\ Len(unread') = Len(unread) + 1 /\ unread'[Len(unread) + 1] = f
      /\ \A i \in 1..Len(unread) : unread'[i] = unread[i]
  BY AppendProperties
<1>4. ASSUME NEW n \in {0, 1}, ReadSoFar(n) PROVE ReadSoFar(n)'
  <2>1. Len(said) = Len(unread) + n /\ \A i \in 1..Len(unread) : unread[i] = said[i + n]
    BY <1>4 DEF ReadSoFar
  <2>2. Len(said') = Len(unread') + n
    BY <1>1, <1>2, <1>3, <2>1
  <2>3. ASSUME NEW i \in 1..Len(unread') PROVE unread'[i] = said'[i + n]
    <3>1. CASE i \in 1..Len(unread)
      BY <1>1, <1>2, <1>3, <2>1, <3>1
    <3>2. CASE i = Len(unread) + 1
      <4>1. i + n = Len(said) + 1
        BY <1>1, <2>1, <3>2
      <4> QED
        BY <1>2, <1>3, <3>2, <4>1
    <3> QED
      <4>1. i \in 1 .. Len(unread) + 1
        BY <1>3
      <4>2. i \in 1..Len(unread) \/ i = Len(unread) + 1
        BY <1>1, <4>1
      <4> QED
        BY <3>1, <3>2, <4>2
  <2> QED
    BY <2>2, <2>3 DEF ReadSoFar
<1> QED
  BY <1>1, <1>2, <1>3, <1>4

\* A hello that is accepted has the bridge's version.
LEMMA HelloVersion ==
    ASSUME OneDigit, NEW f \in Frames, GoodHello(f)
    PROVE  IsHello(f)
<1>1. f.type = "hello" /\ Digit(f.version) = ProtocolVersion
  BY DEF GoodHello
<1>2. f.version \in Versions
  BY <1>1 DEF Frames
<1>3. f.version \in 0..9
  BY <1>2 DEF OneDigit
<1> QED
  BY <1>1, <1>3 DEF IsHello, Digit

LEMMA HandshakeStep == OneDigit /\ HandshakeInv /\ [Next]_vars => HandshakeInv'
<1> SUFFICES ASSUME OneDigit, HandshakeInv, [Next]_vars PROVE HandshakeInv'
  OBVIOUS
<1> DEFINE Same == said' = said /\ unread' = unread /\ cfg' = cfg
<1> USE DEF Exit, Goto, config, agent, control
<1>1. CASE Configure \/ InitExisting \/ InitLaunch \/ InitPipes
  <2>1. Same /\ stage \in {"start", "init"}
    BY <1>1 DEF Configure, InitExisting, InitLaunch, InitPipes
  <2>2. \/ stage' \in {"init", "connect", "send hello", "exited"}
        \/ stage' = "serve" /\ ~cfg.framed
    BY <1>1 DEF Configure, InitExisting, InitLaunch, InitPipes
  <2> QED
    BY <2>1, <2>2 DEF HandshakeInv, ReadSoFar
<1>2. CASE Connects \/ ConnectsOther \/ Refused \/ Waits \/ ConnectTimeout \/ SendHello
  <2>1. Same /\ stage \in {"connect", "send hello"}
    BY <1>2 DEF Connects, ConnectsOther, Refused, Waits, ConnectTimeout, SendHello
  <2>2. stage' \in {"connect", "send hello", "await hello", "exited", "killed"}
    BY <1>2 DEF Connects, ConnectsOther, Refused, Waits, ConnectTimeout, ConnectFails, SendHello, Write
  <2> QED
    BY <2>1, <2>2 DEF HandshakeInv, ReadSoFar
<1>3. CASE ReadNativeHello
  <2>1. said' = said /\ cfg' = cfg /\ stage = "await hello"
    BY <1>3 DEF ReadNativeHello, Handshake
  <2>2. unread \in Seq(Frames) /\ ReadSoFar(0)
    BY <2>1 DEF HandshakeInv
  <2>3. CASE unread # <<>> /\ unread' = Tail(unread) /\ GoodHello(Head(unread)) /\ stage' = "await ready"
    <3>1. /\ Len(unread) \in Nat \ {0} /\ unread' \in Seq(Frames) /\ ReadSoFar(1)'
          /\ Head(unread) = unread[1] /\ unread[1] \in Frames
      BY <2>1, <2>2, <2>3, ReadOne
    <3>2. IsHello(unread[1])
      BY <2>3, <3>1, HelloVersion
    <3>3. \A i \in 1..Len(unread) : unread[i] = said[i]
      BY <2>2, <3>1 DEF ReadSoFar
    <3>4. unread[1] = said[1]
      BY <3>1, <3>3
    <3>5. IsHello(said[1])'
      BY <2>1, <3>2, <3>4 DEF IsHello
    <3> QED
      BY <2>1, <2>3, <3>1, <3>5 DEF HandshakeInv
  <2>4. CASE stage' \in {"shut down", "killed"}
    <3>1. unread' = unread \/ (unread # <<>> /\ unread' = Tail(unread))
      BY <1>3 DEF ReadNativeHello, Handshake
    <3>2. unread' \in Seq(Frames)
      BY <2>1, <2>2, <3>1, ReadOne
    <3> QED
      BY <2>1, <2>4, <3>2 DEF HandshakeInv
  <2> QED
    BY <1>3, <2>3, <2>4 DEF ReadNativeHello, Handshake, Reply, Write
<1>4. CASE WaitForReady
  <2>1. said' = said /\ cfg' = cfg /\ stage = "await ready"
    BY <1>4 DEF WaitForReady, Handshake
  <2>2. unread \in Seq(Frames) /\ ReadSoFar(1) /\ IsHello(said[1])
    BY <2>1 DEF HandshakeInv
  <2>3. unread' = unread \/ (unread # <<>> /\ unread' = Tail(unread))
    BY <1>4 DEF WaitForReady, Handshake
  <2>4. unread' \in Seq(Frames)
    BY <2>1, <2>2, <2>3, ReadOne
  <2>5. CASE unread # <<>> /\ unread' = Tail(unread) /\ GoodReady(Head(unread)) /\ stage' = "serve"
    <3>1. Len(unread) \in Nat \ {0} /\ Head(unread) = unread[1]
      BY <2>1, <2>2, <2>5, ReadOne
    <3>2. Len(said) >= 2 /\ unread[1] = said[2]
      BY <2>2, <3>1 DEF ReadSoFar
    <3>3. Len(said') >= 2 /\ IsHello(said[1])' /\ GoodReady(said[2])'
      BY <2>1, <2>2, <2>5, <3>1, <3>2 DEF IsHello, GoodReady
    <3> QED
      BY <2>1, <2>4, <2>5, <3>3 DEF HandshakeInv
  <2>6. CASE stage' \in {"shut down", "killed"}
    BY <2>1, <2>4, <2>6 DEF HandshakeInv
  <2> QED
    BY <1>4, <2>5, <2>6 DEF WaitForReady, Handshake, Reply, Write
<1>5. CASE Serve \/ StopServing \/ ShutDown \/ Reap \/ Join \/ JoinOnOutput
  <2>1. Same
    BY <1>5 DEF Serve, StopServing, ShutDown, Reap, Join, JoinOnOutput
  <2>2. \/ stage' \in {"exited", "killed", "shut down", "await ack", "reap", "join"}
        \/ stage = "serve" /\ stage' = "serving"
    BY <1>5 DEF Serve, StopServing, ShutDown, Reap, Join, JoinOnOutput, Write
  <2> QED
    BY <2>1, <2>2 DEF HandshakeInv
<1>6. CASE AwaitAck
  <2>1. said' = said /\ stage' = "reap"
    BY <1>6 DEF AwaitAck
  <2>2. unread' = unread \/ (unread # <<>> /\ unread' = Tail(unread))
    BY <1>6 DEF AwaitAck
  <2>3. unread' \in Seq(Frames)
    BY <2>1, <2>2, ReadOne DEF HandshakeInv
  <2> QED
    BY <2>1, <2>3 DEF HandshakeInv
<1>7. CASE Around \/ Terminate \/ UNCHANGED vars
  <2>1. Same
    BY <1>7, AroundMain DEF Terminate, vars
  <2>2. stage' \in {stage, "killed"}
    BY <1>7, AroundMain DEF Terminate, vars
  <2> QED
    BY <2>1, <2>2 DEF HandshakeInv, ReadSoFar
<1>8. CASE Say
  <2>1. PICK f \in Frames : said' = Append(said, f) /\ unread' = Append(unread, f)
    BY <1>8 DEF Say
  <2>2. cfg' = cfg /\ stage' = stage
    BY <1>8 DEF Say
  <2>3. said \in Seq(Frames) /\ unread \in Seq(Frames)
    BY DEF HandshakeInv
  <2>4. /\ said' \in Seq(Frames) /\ unread' \in Seq(Frames)
        /\ Len(said) \in Nat /\ Len(said') = Len(said) + 1
        /\ \A i \in 1..Len(said) : said'[i] = said[i]
        /\ ReadSoFar(0) => ReadSoFar(0)'
        /\ ReadSoFar(1) => ReadSoFar(1)'
    BY <2>1, <2>3, SayOne
  <2>5. ASSUME stage = "await ready" PROVE IsHello(said[1])'
    <3>1. Len(said) = Len(unread) + 1 /\ IsHello(said[1])
      BY <2>5 DEF HandshakeInv, ReadSoFar
    <3>2. Len(unread) \in Nat
      BY <2>3, LenProperties
    <3>3. said'[1] = said[1]
      BY <2>4, <3>1, <3>2
    <3> QED
      BY <3>1, <3>3 DEF IsHello
  <2>6. ASSUME stage \in {"serve", "serving"}, cfg.framed
        PROVE  Len(said') >= 2 /\ IsHello(said[1])' /\ GoodReady(said[2])'
    <3>1. Len(said) >= 2 /\ IsHello(said[1]) /\ GoodReady(said[2])
      BY <2>6 DEF HandshakeInv
    <3>2. said'[1] = said[1] /\ said'[2] = said[2] /\ Len(said') >= 2
      BY <2>4, <3>1
    <3> QED
      BY <3>1, <3>2 DEF IsHello, GoodReady
  <2> QED
    BY <2>2, <2>4, <2>5, <2>6 DEF HandshakeInv
<1> QED
  BY <1>1, <1>2, <1>3, <1>4, <1>5, <1>6, <1>7, <1>8 DEF Next, Bridge, Around

\* Whatever the agent says, and when: a framed bridge that serves has read a
\* hello of its version first and then a ready that says the model is loaded
\* (read_native_hello, wait_for_ready), as long as versions have one digit.
THEOREM ReadyBeforeServing ==
    ASSUME OneDigit
    PROVE  Spec => []ServesOnlyReady
<1>1. HandshakeInv => ServesOnlyReady
  BY DEF HandshakeInv, ServesOnlyReady, IsHello, GoodReady
<1>2. HandshakeInv /\ [Next]_vars => HandshakeInv'
  BY HandshakeStep
<1> QED
  BY <1>1, <1>2, HandshakeInit, PTL DEF Spec

-----------------------------------------------------------------------------
(* EarlyModesAgree: what the arguments come to, read twice.                *)

LEMMA LayerFacts ==
    ASSUME NEW f, NEW g, DOMAIN f \subseteq Settings, DOMAIN g = Settings
    PROVE  /\ DOMAIN Layer(f, g) = Settings
           /\ \A s \in Settings : Layer(f, g)[s] = IF s \in DOMAIN f THEN f[s] ELSE g[s]
<1>1. DOMAIN Layer(f, g) = DOMAIN f \cup DOMAIN g
  BY DEF Layer
<1>2. DOMAIN f \cup DOMAIN g = Settings
  OBVIOUS
<1>3. ASSUME NEW s \in Settings
      PROVE  Layer(f, g)[s] = IF s \in DOMAIN f THEN f[s] ELSE g[s]
  BY <1>2 DEF Layer
<1> QED
  BY <1>1, <1>2, <1>3

LEMMA DefaultsFacts ==
    ASSUME NEW port
    PROVE  /\ DOMAIN Defaults(port) = Settings /\ Defaults(port)["port"] = port
           /\ Defaults(port)["path"] = "none"
BY DEF Defaults, Settings

LEMMA DefaultsSame ==
    ASSUME NEW port, NEW other, NEW s \in Settings \ {"port"}
    PROVE  Defaults(port)[s] = Defaults(other)[s]
<1>1. s \in {"transport", "owner", "path", "framed", "sound"}
  BY DEF Settings
<1>2. CASE s \in {"transport", "owner"}
  BY <1>2 DEF Defaults
<1>3. CASE s = "path"
  BY <1>3 DEF Defaults
<1>4. CASE s = "framed"
  BY <1>4 DEF Defaults
<1>5. CASE s = "sound"
  BY <1>5 DEF Defaults
<1> QED
  BY <1>1, <1>2, <1>3, <1>4, <1>5

LEMMA SettingNames == {"port", "path", "transport", "owner", "sound"} \subseteq Settings
BY DEF Settings

EnvPort(in) == IF "port" \in DOMAIN in.env THEN in.env["port"] ELSE DefaultPort

LEMMA FileLayer ==
    ASSUME NEW in, Input(in), NEW port
    PROVE  \A s \in Settings : Layer(in.file, Defaults(port))[s] =
             IF s \in DOMAIN in.file THEN in.file[s] ELSE Defaults(port)[s]
<1>1. DOMAIN in.file \subseteq Settings
  BY DEF Input
<1> QED
  BY <1>1, DefaultsFacts, LayerFacts

LEMMA FilePath ==
    ASSUME NEW in, Input(in), NEW port
    PROVE  Layer(in.file, Defaults(port))["path"] =
             IF "path" \in DOMAIN in.file THEN in.file["path"] ELSE "none"
<1>1. Layer(in.file, Defaults(port))["path"] =
        IF "path" \in DOMAIN in.file THEN in.file["path"] ELSE Defaults(port)["path"]
  BY FileLayer, SettingNames
<1> QED
  BY <1>1, DefaultsFacts

LEMMA LoadedFacts ==
    ASSUME NEW in, Input(in)
    PROVE  /\ DOMAIN Loaded(in) = Settings
           /\ Loaded(in) = IF Reads(in) THEN Layer(in.file, Defaults(EnvPort(in)))
                           ELSE Defaults(EnvPort(in))
           /\ Loaded(in)["port"] = IF Reads(in) /\ "port" \in DOMAIN in.file
                                   THEN in.file["port"] ELSE EnvPort(in)
<1>1. Loaded(in) = IF Reads(in) THEN Layer(in.file, Defaults(EnvPort(in)))
                   ELSE Defaults(EnvPort(in))
  BY DEF Loaded, EnvPort
<1>2. /\ DOMAIN Defaults(EnvPort(in)) = Settings /\ Defaults(EnvPort(in))["port"] = EnvPort(in)
      /\ "port" \in Settings /\ DOMAIN in.file \subseteq Settings
  BY DefaultsFacts DEF Input, Settings
<1>3. CASE Reads(in)
  <2>1. DOMAIN Layer(in.file, Defaults(EnvPort(in))) = Settings
    BY <1>2, LayerFacts
  <2>2. Layer(in.file, Defaults(EnvPort(in)))["port"] =
          IF "port" \in DOMAIN in.file THEN in.file["port"] ELSE Defaults(EnvPort(in))["port"]
    BY <1>2, LayerFacts
  <2> QED
    BY <1>1, <1>2, <1>3, <2>1, <2>2
<1>4. CASE ~Reads(in)
  BY <1>1, <1>2, <1>4
<1> QED
  BY <1>3, <1>4

LEMMA OverriddenFacts ==
    ASSUME NEW in, Input(in)
    PROVE  /\ DOMAIN Overridden(in) = Settings
           /\ Overridden(in)["port"] =
                IF EnvWins(in) THEN in.env["port"]
                ELSE IF "port" \in DOMAIN in.flags THEN in.flags["port"] ELSE Loaded(in)["port"]
           /\ "path" \notin DOMAIN in.flags => Overridden(in)["path"] = Loaded(in)["path"]
<1> DEFINE c == Layer(in.flags, Loaded(in))
<1>1. Overridden(in) = IF EnvWins(in) THEN Layer(in.env, c) ELSE c
  BY DEF Overridden
<1>2. /\ DOMAIN Loaded(in) = Settings /\ DOMAIN in.flags \subseteq Settings
      /\ DOMAIN in.env \subseteq {"port"} /\ {"port", "path"} \subseteq Settings
  BY LoadedFacts DEF Input, Settings
<1>3. /\ DOMAIN c = Settings
      /\ c["port"] = IF "port" \in DOMAIN in.flags THEN in.flags["port"] ELSE Loaded(in)["port"]
      /\ "path" \notin DOMAIN in.flags => c["path"] = Loaded(in)["path"]
  BY <1>2, LayerFacts
<1> HIDE DEF c
<1>4. CASE EnvWins(in)
  <2>1. "port" \in DOMAIN in.env /\ "path" \notin DOMAIN in.env
    BY <1>2, <1>4 DEF EnvWins, Positive
  <2>2. /\ DOMAIN Layer(in.env, c) = Settings /\ Layer(in.env, c)["port"] = in.env["port"]
        /\ Layer(in.env, c)["path"] = c["path"]
    BY <1>2, <1>3, <2>1, LayerFacts
  <2> QED
    BY <1>1, <1>3, <1>4, <2>2
<1>5. CASE ~EnvWins(in)
  BY <1>1, <1>3, <1>5
<1> QED
  BY <1>4, <1>5

LEMMA FinalPort ==
    ASSUME NEW in, Input(in)
    PROVE  Final(in)["port"] = Overridden(in)["port"]
<1> DEFINE c == Overridden(in)
<1>1. "port" \in DOMAIN c
  BY OverriddenFacts DEF Settings
<1> HIDE DEF c
<1>2. Resolved(c)["port"] = c["port"] /\ "port" \in DOMAIN Resolved(c)
  BY <1>1 DEF Resolved
<1>3. Wrapped(Resolved(c))["port"] = Resolved(c)["port"]
  BY <1>2 DEF Wrapped
<1> QED
  BY <1>2, <1>3 DEF Final, c

\* The port of a bridge that does not refuse its configuration is the early one.
LEMMA SamePort ==
    ASSUME NEW in, Input(in), Sane(in.env), Sane(in.flags), ~(Reads(in) /\ ~Valid(Loaded(in)))
    PROVE  Final(in)["port"] = EarlyPort(in)
<1>1. /\ "port" \in DOMAIN in.env => in.env["port"] \in Int /\ in.env["port"] > 0
      /\ "port" \in DOMAIN in.flags => in.flags["port"] \in Int /\ in.flags["port"] > 0
      /\ "port" \in DOMAIN in.file => in.file["port"] \in Int
  BY DEF Input, Sane
<1>2. Positive(in.env) <=> "port" \in DOMAIN in.env
  BY <1>1 DEF Positive
<1>3. Positive(in.flags) <=> "port" \in DOMAIN in.flags
  BY <1>1 DEF Positive
<1>4. EnvWins(in) <=> "port" \in DOMAIN in.env /\ "port" \notin DOMAIN in.flags
  BY <1>1, <1>2 DEF EnvWins
<1>5. CASE "port" \in DOMAIN in.flags
  BY <1>3, <1>4, <1>5, FinalPort, OverriddenFacts DEF EarlyPort
<1>6. CASE "port" \notin DOMAIN in.flags /\ "port" \in DOMAIN in.env
  BY <1>1, <1>3, <1>4, <1>6, FinalPort, OverriddenFacts DEF EarlyPort
<1>7. CASE "port" \notin DOMAIN in.flags /\ "port" \notin DOMAIN in.env
  <2>1. Final(in)["port"] = Loaded(in)["port"]
    BY <1>4, <1>7, FinalPort, OverriddenFacts
  <2>2. EarlyPort(in) = IF Reads(in) /\ Positive(in.file) THEN in.file["port"] ELSE DefaultPort
    BY <1>3, <1>7 DEF EarlyPort
  <2>3. Loaded(in)["port"] = IF Reads(in) /\ "port" \in DOMAIN in.file
                             THEN in.file["port"] ELSE DefaultPort
    BY <1>7, LoadedFacts DEF EnvPort
  <2>4. CASE Reads(in) /\ "port" \in DOMAIN in.file
    <3>1. Valid(Loaded(in))
      BY <2>4
    <3>2. in.file["port"] \in 1..MaxPort
      BY <2>3, <2>4, <3>1 DEF Valid
    <3>3. Positive(in.file)
      BY <2>4, <3>2 DEF Positive
    <3> QED
      BY <2>1, <2>2, <2>3, <2>4, <3>3
  <2>5. CASE ~(Reads(in) /\ "port" \in DOMAIN in.file)
    <3>1. ~(Reads(in) /\ Positive(in.file))
      BY <2>5 DEF Positive
    <3> QED
      BY <2>1, <2>2, <2>3, <2>5, <3>1
  <2> QED
    BY <2>4, <2>5
<1> QED
  BY <1>5, <1>6, <1>7

LEMMA EarlyPositive ==
    ASSUME NEW in, Input(in)
    PROVE  EarlyPort(in) \in Nat \ {0}
<1>1. DefaultPort \in Nat \ {0}
  BY PortBounds
<1>2. \A f \in {in.file, in.flags, in.env} : "port" \in DOMAIN f => f["port"] \in Int
  BY DEF Input
<1> QED
  BY <1>1, <1>2 DEF EarlyPort, Positive

\* A port in range is listened on as it is.
LEMMA Uncut ==
    ASSUME NEW c, MaxPort \in Nat, c["port"] \in 1..MaxPort
    PROVE  Listens(c) = c["port"]
<1> DEFINE n == c["port"]
<1>1. n % (MaxPort + 1) = n
  <2>1. n \in 0..MaxPort
    OBVIOUS
  <2> HIDE DEF n
  <2> QED
    BY <2>1
<1> QED
  BY <1>1 DEF Listens

\* What the doctor looks at, when the file is not one main accepts.
LEMMA DoctorConfig ==
    ASSUME NEW in, Input(in), Sane(in.env), ~Hidden(in), Reads(in),
           Valid(Layer(in.file, Defaults(EarlyPort(in))))
    PROVE  Valid(Loaded(in))
<1> DEFINE c == Layer(in.file, Defaults(EarlyPort(in)))
           d == Layer(in.file, Defaults(EnvPort(in)))
<1>1. d = Loaded(in) /\ Valid(c)
  BY LoadedFacts
<1>2. \A s \in Settings : c[s] = IF s \in DOMAIN in.file THEN in.file[s] ELSE Defaults(EarlyPort(in))[s]
  BY FileLayer
<1>3. \A s \in Settings : d[s] = IF s \in DOMAIN in.file THEN in.file[s] ELSE Defaults(EnvPort(in))[s]
  BY FileLayer
<1> HIDE DEF c, d
<1>4. \A s \in Settings \ {"port"} : c[s] = d[s]
  <2> SUFFICES ASSUME NEW s \in Settings \ {"port"} PROVE c[s] = d[s]
    OBVIOUS
  <2>1. Defaults(EarlyPort(in))[s] = Defaults(EnvPort(in))[s]
    BY DefaultsSame
  <2> QED
    BY <1>2, <1>3, <2>1
<1>5. c["port"] \in 1..MaxPort
  BY <1>1 DEF Valid
<1>6. d["port"] \in 1..MaxPort
  <2>1. CASE "port" \in DOMAIN in.file
    BY <1>2, <1>3, <1>5, <2>1, SettingNames
  <2>2. CASE "port" \notin DOMAIN in.file
    <3>1. d["port"] = EnvPort(in)
      BY <1>1, <2>2, LoadedFacts
    <3>2. c["port"] = EarlyPort(in)
      BY <1>2, <2>2, SettingNames, DefaultsFacts
    <3>3. EarlyPort(in) \in 1..MaxPort
      BY <1>5, <3>2
    <3>4. MaxPort \in Nat /\ DefaultPort \in 1..MaxPort
      BY PortBounds
    <3>5. CASE "port" \notin DOMAIN in.env
      BY <3>1, <3>4, <3>5 DEF EnvPort
    <3>6. CASE "port" \in DOMAIN in.env
      <4>1. in.env["port"] \in Int /\ in.env["port"] > 0 /\ EnvPort(in) = in.env["port"]
        BY <3>6 DEF Input, Sane, EnvPort
      <4>2. CASE Positive(in.flags)
        <5>1. ~(in.env["port"] > MaxPort)
          BY <3>6, <4>2 DEF Hidden
        <5> QED
          BY <3>1, <3>4, <4>1, <5>1
      <4>3. CASE ~Positive(in.flags)
        <5>1. EarlyPort(in) = in.env["port"]
          BY <3>6, <4>1, <4>3 DEF EarlyPort
        <5> QED
          BY <3>1, <3>3, <4>1, <5>1
      <4> QED
        BY <4>2, <4>3
    <3> QED
      BY <3>5, <3>6
  <2> QED
    BY <2>1, <2>2
<1>7. c["transport"] = d["transport"] /\ c["owner"] = d["owner"] /\ c["sound"] = d["sound"]
  BY <1>4, SettingNames
<1>8. Valid(d)
  BY <1>1, <1>6, <1>7 DEF Valid
<1> QED
  BY <1>1, <1>8

LEMMA RefusalCases ==
    ASSUME NEW in
    PROVE  /\ Refusal(in) = "" => ~(Reads(in) /\ ~Valid(Loaded(in)))
           /\ Refusal(in) = "configuration" => Reads(in) /\ ~Valid(Loaded(in))
           /\ Refusal(in) = "socket path" =>
                ResolvedPath(Overridden(in).path) \in {"bad", "bad parent"}
           /\ Refusal(in) = "agent" => in.agent \in {"no agent", "no assets"}
BY Zenon DEF Refusal

\* The doctor does not call well what main refuses.
LEMMA DoctorRefuses ==
    ASSUME NEW in, Input(in), Refusal(in) \in {"configuration", "socket path", "agent"},
           DOMAIN in.flags \subseteq {"port"}, Sane(in.env), ~Hidden(in),
           Overridden(in).path \notin {"bad", "in cwd"}, in.agent # "no assets"
    PROVE  ~DoctorPasses(in)
<1> SUFFICES ASSUME DoctorPasses(in) PROVE FALSE
  OBVIOUS
<1> DEFINE c == IF Reads(in) THEN Layer(in.file, Defaults(EarlyPort(in))) ELSE Defaults(EarlyPort(in))
<1>1. Valid(c) /\ in.agent # "no agent" /\ SeenPath(c.path) # "bad parent"
  BY DEF DoctorPasses
<1>2. CASE Refusal(in) = "configuration"
  <2>1. Reads(in) /\ ~Valid(Loaded(in))
    BY <1>2, RefusalCases
  <2> QED
    BY <1>1, <2>1, DoctorConfig
<1>3. CASE Refusal(in) = "agent"
  BY <1>1, <1>3, RefusalCases
<1>4. CASE Refusal(in) = "socket path"
  <2>1. Overridden(in).path = "bad parent"
    BY <1>4, RefusalCases DEF ResolvedPath, From
  <2>2. Loaded(in).path = "bad parent"
    BY <2>1, OverriddenFacts
  <2>3. CASE Reads(in)
    <3>1. Loaded(in) = Layer(in.file, Defaults(EnvPort(in)))
      BY <2>3, LoadedFacts
    <3>2. Layer(in.file, Defaults(EarlyPort(in)))["path"] = Layer(in.file, Defaults(EnvPort(in)))["path"]
      BY FilePath
    <3>3. c = Layer(in.file, Defaults(EarlyPort(in)))
      BY <2>3
    <3> HIDE DEF c
    <3>4. c.path = "bad parent"
      BY <2>2, <3>1, <3>2, <3>3
    <3> QED
      BY <1>1, <3>4 DEF SeenPath, From
  <2>4. CASE ~Reads(in)
    <3>1. Loaded(in) = Defaults(EnvPort(in))
      BY <2>4, LoadedFacts
    <3>2. Loaded(in)["path"] = "none"
      BY <3>1, DefaultsFacts
    <3> QED
      BY <2>2, <3>2
  <2> QED
    BY <2>3, <2>4
<1> QED
  BY <1>2, <1>3, <1>4

\* The settings and the reason to refuse them are those of the input, to the
\* end: a bridge past its start was not refused.
EarlyReasons == {"configuration", "socket path", "agent"}
Accepted(in) == Refusal(in) = ""
ModesInv ==
    /\ input \in Inputs /\ cfg = Final(input)
    /\ stage \notin {"start", "exited", "killed"} => Accepted(input)
    /\ why \in EarlyReasons => why = Refusal(input)

LEMMA ModesInit == Init => ModesInv
<1> SUFFICES ASSUME Init PROVE ModesInv
  OBVIOUS
<1>1. input \in Inputs /\ cfg = Final(input) /\ stage = "start" /\ why = ""
  BY DEF Init
<1>2. why \notin EarlyReasons
  BY Zenon, <1>1 DEF EarlyReasons
<1> QED
  BY <1>1, <1>2 DEF ModesInv

LEMMA ConfigureStep ==
    ASSUME Configure
    PROVE  /\ UNCHANGED config
           /\ \/ stage' = "init" /\ Accepted(input) /\ why' = why
              \/ stage' = "exited" /\ ~Accepted(input) /\ why' = Refusal(input)
BY Zenon DEF Configure, Exit, Goto, Accepted

\* No other step looks at the arguments.
LEMMA LaterStep ==
    ASSUME [Next]_vars, ~Configure
    PROVE  /\ UNCHANGED config
           /\ why' = why \/ why' \notin EarlyReasons
           /\ \/ stage' \in {stage, "exited", "killed"}
              \/ stage \notin {"start", "exited", "killed"}
<1> USE DEF config, agent, control, Exit, Goto, EarlyReasons
<1>1. CASE InitExisting \/ InitLaunch \/ InitPipes
  BY <1>1 DEF InitExisting, InitLaunch, InitPipes
<1>2. CASE Connects \/ ConnectsOther \/ Refused \/ Waits \/ ConnectTimeout \/ SendHello
  BY <1>2 DEF Connects, ConnectsOther, Refused, Waits, ConnectTimeout, ConnectFails, SendHello, Write
<1>3. CASE ReadNativeHello
  BY <1>3 DEF ReadNativeHello, Handshake, Reply, Write
<1>4. CASE WaitForReady
  BY <1>4 DEF WaitForReady, Handshake, Reply, Write
<1>5. CASE Serve \/ StopServing \/ ShutDown \/ AwaitAck \/ Reap \/ Join \/ JoinOnOutput
  BY <1>5 DEF Serve, StopServing, ShutDown, AwaitAck, Reap, Join, JoinOnOutput, Write
<1>6. CASE Around \/ Say \/ Terminate \/ UNCHANGED vars
  BY <1>6, AroundMain DEF Say, Terminate, vars
<1> QED
  BY <1>1, <1>2, <1>3, <1>4, <1>5, <1>6 DEF Next, Bridge, Around

LEMMA ModesStep == ModesInv /\ [Next]_vars => ModesInv'
<1> SUFFICES ASSUME ModesInv, [Next]_vars PROVE ModesInv'
  OBVIOUS
<1>1. CASE Configure
  <2>1. input' = input /\ cfg' = cfg
    BY <1>1, ConfigureStep DEF config
  <2>2. CASE stage' = "init" /\ Accepted(input) /\ why' = why
    BY <2>1, <2>2 DEF ModesInv
  <2>3. CASE stage' = "exited" /\ why' = Refusal(input)
    BY <2>1, <2>3 DEF ModesInv
  <2> QED
    BY <1>1, <2>2, <2>3, ConfigureStep
<1>2. CASE ~Configure
  <2>1. input' = input /\ cfg' = cfg
    BY <1>2, LaterStep DEF config
  <2>2. why' = why \/ why' \notin EarlyReasons
    BY <1>2, LaterStep
  <2>3. \/ stage' \in {stage, "exited", "killed"}
        \/ stage \notin {"start", "exited", "killed"}
    BY <1>2, LaterStep
  <2> QED
    BY <2>1, <2>2, <2>3 DEF ModesInv
<1> QED
  BY <1>1, <1>2

\* For every file, PORT and flags that can be given: a bridge that serves listens
\* on the port that main's early look at the same arguments gave --install, if it
\* is one, and run_doctor does not pass a start that main refuses, within the
\* exceptions EarlyModesAgree names.
THEOREM EarlyModes == Spec => []EarlyModesAgree
<1>1. ASSUME ModesInv PROVE EarlyModesAgree
  <2>1. Input(input) /\ cfg = Final(input)
    BY <1>1, LifeBounds DEF ModesInv
  <2>2. ASSUME stage = "serving", Sane(input.env), Sane(input.flags), EarlyPort(input) <= MaxPort
        PROVE  Listens(cfg) = EarlyPort(input)
    <3>1. Accepted(input)
      BY <1>1, <2>2 DEF ModesInv
    <3>2. ~(Reads(input) /\ ~Valid(Loaded(input)))
      BY Zenon, <3>1, RefusalCases DEF Accepted
    <3>3. cfg["port"] = EarlyPort(input)
      BY <2>1, <2>2, <3>2, SamePort
    <3>4. EarlyPort(input) \in 1..MaxPort /\ MaxPort \in Nat
      BY <2>1, <2>2, EarlyPositive, PortBounds
    <3> QED
      BY <3>3, <3>4, Uncut
  <2>3. ASSUME why \in EarlyReasons, DOMAIN input.flags \subseteq {"port"}, Sane(input.env),
               ~Hidden(input), input.agent # "no assets",
               Overridden(input).path \notin {"bad", "in cwd"}
        PROVE  ~DoctorPasses(input)
    <3>1. Refusal(input) \in {"configuration", "socket path", "agent"}
      BY <1>1, <2>3 DEF ModesInv, EarlyReasons
    <3> QED
      BY <2>1, <2>3, <3>1, DoctorRefuses
  <2> QED
    BY Zenon, <2>2, <2>3 DEF EarlyModesAgree, EarlyReasons
<1> QED
  BY <1>1, ModesInit, ModesStep, PTL DEF Spec

-----------------------------------------------------------------------------
(* TypeOK.                                                                 *)

Stages == {"start", "init", "connect", "send hello", "await hello", "await ready", "serve",
           "serving", "shut down", "await ack", "reap", "join", "exited", "killed"}
Reasoned == Over <=> why # ""

PartTypes ==
    /\ stage \in Stages /\ waited \in 0..ConnectTicks
    /\ sock \in {"absent", "left", "bound", "listening", "stale", "other"}
    /\ peer \in {"none", "started", "up", "told", "exited"}
    /\ child \in {"none", "peer", "aside", "gone"}
    /\ asked \in BOOLEAN /\ handled \in BOOLEAN /\ held \in BOOLEAN

\* the frames not read are a tail of those said
UnreadIsTail ==
    /\ said \in Seq(Frames)
    /\ \E i \in 0..Len(said) : unread = SubSeq(said, i + 1, Len(said))

LEMMA SomeTicks == ConnectTicks \in Nat /\ 0 \in 0..ConnectTicks
<1>1. ConnectTicks \in Nat
  BY Zenon, LifeBounds
<1> QED
  BY <1>1

LEMMA TypesInit == Init => PartTypes /\ Reasoned /\ UnreadIsTail
<1> SUFFICES ASSUME Init PROVE PartTypes /\ Reasoned /\ UnreadIsTail
  OBVIOUS
<1>1. PartTypes
  <2>1. waited \in 0..ConnectTicks
    <3>1. waited = 0
      BY DEF Init
    <3> QED
      BY <3>1, SomeTicks
  <2>2. sock \in {"absent", "left", "listening"}
    BY DEF Init
  <2> QED
    BY <2>1, <2>2 DEF Init, PartTypes, Stages
<1>2. Reasoned
  <2>1. stage = "start" /\ why = ""
    BY DEF Init
  <2> QED
    BY Zenon, <2>1 DEF Reasoned, Over
<1>3. UnreadIsTail
  <2>1. said = <<>> /\ unread = <<>>
    BY DEF Init
  <2>2. said \in Seq(Frames) /\ Len(said) = 0
    BY <2>1, EmptySeq
  <2>3. SubSeq(said, 0 + 1, Len(said)) = <<>>
    BY <2>1, <2>2
  <2>4. 0 \in 0..Len(said)
    BY <2>2
  <2> QED
    BY <2>1, <2>2, <2>3, <2>4 DEF UnreadIsTail
<1> QED
  BY <1>1, <1>2, <1>3

LEMMA PartTypesStep == PartTypes /\ [Next]_vars => PartTypes'
<1> SUFFICES ASSUME PartTypes, [Next]_vars PROVE PartTypes'
  OBVIOUS
<1> USE DEF PartTypes, Stages, config, agent, control, Exit, Goto
<1>1. CASE Configure
  BY <1>1 DEF Configure
<1>2. CASE InitExisting \/ InitLaunch \/ InitPipes
  <2>1. CASE InitExisting
    BY <2>1 DEF InitExisting
  <2>2. CASE InitLaunch
    BY <2>2 DEF InitLaunch, Cleaned
  <2>3. CASE InitPipes
    BY <2>3 DEF InitPipes, Cleaned
  <2> QED
    BY <1>2, <2>1, <2>2, <2>3
<1>3. CASE Connects \/ ConnectsOther \/ Refused \/ ConnectTimeout
  BY <1>3 DEF Connects, ConnectsOther, Refused, ConnectTimeout, ConnectFails
<1>4. CASE Waits
  <2>1. waited < ConnectTicks /\ waited' = waited + 1
    BY <1>4 DEF Waits, Round
  <2>2. waited' \in 0..ConnectTicks
    <3>1. waited \in 0..ConnectTicks
      OBVIOUS
    <3> HIDE DEF PartTypes
    <3> QED
      BY <2>1, <3>1, SomeTicks
  <2> QED
    BY <1>4, <2>2 DEF Waits
<1>5. CASE SendHello
  BY <1>5 DEF SendHello, Write
<1>6. CASE ReadNativeHello \/ WaitForReady
  <2>1. UNCHANGED <<config, waited, sock, peer, child, said, control>>
    BY <1>6 DEF ReadNativeHello, WaitForReady, Handshake
  <2>2. \/ stage' \in {"await ready", "serve", "shut down"}
        \/ stage' = "killed"
    BY <1>6 DEF ReadNativeHello, WaitForReady, Handshake, Reply, Write
  <2>3. stage' \in Stages
    BY <2>2
  <2> QED
    BY <2>1, <2>3
<1>7. CASE Serve \/ StopServing \/ ShutDown \/ AwaitAck \/ Reap \/ Join \/ JoinOnOutput
  <2>1. CASE Serve \/ StopServing
    BY <2>1 DEF Serve, StopServing
  <2>2. CASE ShutDown
    BY <2>2 DEF ShutDown, Write
  <2>3. CASE AwaitAck \/ Join \/ JoinOnOutput
    BY <2>3 DEF AwaitAck, Join, JoinOnOutput
  <2>4. CASE Reap
    BY <2>4 DEF Reap, CloseFds
  <2> QED
    BY <1>7, <2>1, <2>2, <2>3, <2>4
<1>8. CASE Around \/ Say
  <2>1. CASE Bind \/ Listen \/ AgentEnds \/ AgentStops \/ Say
    BY <2>1 DEF Bind, Listen, AgentEnds, AgentStops, Say
  <2>2. CASE OtherEnds \/ AsideEnds \/ Accept \/ ClientDone
    BY <2>2 DEF OtherEnds, AsideEnds, Accept, ClientDone
  <2> QED
    BY <1>8, <2>1, <2>2 DEF Around
<1>9. CASE Terminate \/ UNCHANGED vars
  BY <1>9 DEF Terminate, vars
<1> QED
  BY <1>1, <1>2, <1>3, <1>4, <1>5, <1>6, <1>7, <1>8, <1>9 DEF Next, Bridge, Around

\* A process that ends says why.
Ends(reason) == stage' \in {"exited", "killed"} /\ why' = reason /\ reason # ""
GoesOn == stage' \notin {"exited", "killed"} /\ stage \notin {"exited", "killed"} /\ why' = why

LEMMA Reasons ==
    ASSUME [Next]_vars
    PROVE  \/ GoesOn \/ \E reason : Ends(reason)
           \/ stage' = stage /\ why' = why
<1> DEFINE Names == {"no agent", "no path", "refused", "connect timeout", "port", "done",
                     "SIGPIPE", "signal"}
           Named == stage' \in {"exited", "killed"} /\ why' \in Names
           Stays == stage' = stage /\ why' = why
<1> USE DEF Exit, Goto
<1>1. "" \notin Names
  BY Zenon
<1>2. CASE Configure
  <2>1. stage = "start"
    BY <1>2 DEF Configure
  <2>2. CASE stage' = "init" /\ why' = why
    BY <2>1, <2>2 DEF GoesOn
  <2>3. CASE stage' = "exited" /\ ~Accepted(input) /\ why' = Refusal(input)
    BY Zenon, <2>3 DEF Ends, Accepted
  <2> QED
    BY <1>2, <2>2, <2>3, ConfigureStep
<1>3. CASE ~Configure
  <2> SUFFICES GoesOn \/ Named \/ Stays
    BY Zenon, <1>1 DEF Ends
  <2>1. CASE InitExisting \/ InitLaunch \/ InitPipes
    BY <2>1 DEF InitExisting, InitLaunch, InitPipes, GoesOn
  <2>2. CASE Connects \/ ConnectsOther \/ Refused \/ Waits \/ ConnectTimeout
    BY <2>2 DEF Connects, ConnectsOther, Refused, Waits, ConnectTimeout, ConnectFails, GoesOn
  <2>3. CASE SendHello
    BY <2>3 DEF SendHello, Write, GoesOn
  <2>4. CASE ReadNativeHello
    BY <2>4 DEF ReadNativeHello, Handshake, Reply, Write, GoesOn
  <2>5. CASE WaitForReady
    BY <2>5 DEF WaitForReady, Handshake, Reply, Write, GoesOn
  <2>6. CASE Serve \/ StopServing \/ ShutDown \/ AwaitAck
    BY <2>6 DEF Serve, StopServing, ShutDown, AwaitAck, Write, GoesOn
  <2>7. CASE Reap \/ Join \/ JoinOnOutput
    BY <2>7 DEF Reap, Join, JoinOnOutput, GoesOn
  <2>8. CASE Around \/ Say \/ UNCHANGED vars
    BY <2>8, AroundMain DEF Say, vars
  <2>9. CASE Terminate
    BY <2>9 DEF Terminate
  <2> QED
    BY <1>3, <2>1, <2>2, <2>3, <2>4, <2>5, <2>6, <2>7, <2>8, <2>9 DEF Next, Bridge, Around
<1> QED
  BY <1>2, <1>3

LEMMA ReasonedStep == Reasoned /\ [Next]_vars => Reasoned'
<1> SUFFICES ASSUME Reasoned, [Next]_vars PROVE Reasoned'
  OBVIOUS
<1>1. CASE GoesOn
  BY Zenon, <1>1 DEF GoesOn, Reasoned, Over
<1>2. ASSUME NEW reason, Ends(reason) PROVE Reasoned'
  BY Zenon, <1>2 DEF Ends, Reasoned, Over
<1>3. CASE stage' = stage /\ why' = why
  BY Zenon, <1>3 DEF Reasoned, Over
<1> QED
  BY <1>1, <1>2, <1>3, Reasons

LEMMA TailOfTail ==
    ASSUME said \in Seq(Frames), NEW i \in 0..Len(said),
           unread = SubSeq(said, i + 1, Len(said)), unread # <<>>
    PROVE  i + 1 \in 0..Len(said) /\ Tail(unread) = SubSeq(said, i + 2, Len(said))
<1>1. Len(said) \in Nat
  BY LenProperties
<1>2. i < Len(said)
  <2> SUFFICES ASSUME i = Len(said) PROVE FALSE
    BY <1>1
  <2>1. SubSeq(said, i + 1, Len(said)) = <<>>
    BY <1>1
  <2> QED
    BY <2>1
<1>3. \A j \in 1 .. Len(said) - i : i + j \in 1..Len(said)
  BY <1>1
<1>4. Tail(SubSeq(said, i + 1, Len(said))) = SubSeq(said, i + 2, Len(said))
  BY <1>1, <1>2
<1> QED
  BY <1>1, <1>2, <1>4

LEMMA AppendToTail ==
    ASSUME said \in Seq(Frames), NEW f \in Frames, NEW i \in 0..Len(said),
           unread = SubSeq(said, i + 1, Len(said))
    PROVE  /\ Len(Append(said, f)) = Len(said) + 1 /\ i \in 0..Len(Append(said, f))
           /\ Append(unread, f) = SubSeq(Append(said, f), i + 1, Len(Append(said, f)))
<1>1. Len(said) \in Nat /\ Len(Append(said, f)) = Len(said) + 1
  BY LenProperties, AppendProperties
<1>2. Append(SubSeq(said, i + 1, Len(said)), f) = SubSeq(Append(said, f), i + 1, Len(said) + 1)
  BY <1>1
<1>3. i \in 0 .. Len(said) + 1
  BY <1>1
<1> QED
  BY <1>1, <1>2, <1>3

LEMMA UnreadStep == UnreadIsTail /\ [Next]_vars => UnreadIsTail'
<1> SUFFICES ASSUME UnreadIsTail, [Next]_vars PROVE UnreadIsTail'
  OBVIOUS
<1> USE DEF config, agent, control
<1>1. CASE said' = said /\ unread' = unread
  BY <1>1 DEF UnreadIsTail
<1>2. CASE said' = said /\ unread # <<>> /\ unread' = Tail(unread)
  <2>1. said \in Seq(Frames)
    BY DEF UnreadIsTail
  <2>2. PICK i \in 0..Len(said) : unread = SubSeq(said, i + 1, Len(said))
    BY DEF UnreadIsTail
  <2>3. i + 1 \in 0..Len(said) /\ Tail(unread) = SubSeq(said, i + 2, Len(said))
    BY <1>2, <2>1, <2>2, TailOfTail
  <2>4. (i + 1) + 1 = i + 2
    BY <2>3
  <2>5. unread' = SubSeq(said', (i + 1) + 1, Len(said')) /\ i + 1 \in 0..Len(said')
    BY <1>2, <2>3, <2>4
  <2> QED
    BY <1>2, <2>1, <2>5 DEF UnreadIsTail
<1>3. CASE Say
  <2>1. said \in Seq(Frames)
    BY DEF UnreadIsTail
  <2>2. PICK i \in 0..Len(said) : unread = SubSeq(said, i + 1, Len(said))
    BY DEF UnreadIsTail
  <2>3. PICK f \in Frames : said' = Append(said, f) /\ unread' = Append(unread, f)
    BY <1>3 DEF Say
  <2>4. said' \in Seq(Frames)
    BY <2>1, <2>3, AppendProperties
  <2>5. i \in 0..Len(said') /\ unread' = SubSeq(said', i + 1, Len(said'))
    BY <2>1, <2>2, <2>3, AppendToTail
  <2> QED
    BY <2>4, <2>5 DEF UnreadIsTail
<1>4. CASE ReadNativeHello \/ WaitForReady \/ AwaitAck
  BY <1>1, <1>2, <1>4 DEF ReadNativeHello, WaitForReady, Handshake, AwaitAck
<1>5. CASE Configure \/ InitExisting \/ InitLaunch \/ InitPipes
  BY <1>1, <1>5 DEF Configure, InitExisting, InitLaunch, InitPipes
<1>6. CASE Connects \/ ConnectsOther \/ Refused \/ Waits \/ ConnectTimeout \/ SendHello
  BY <1>1, <1>6 DEF Connects, ConnectsOther, Refused, Waits, ConnectTimeout, SendHello
<1>7. CASE Serve \/ StopServing \/ ShutDown \/ Reap \/ Join \/ JoinOnOutput
  BY <1>1, <1>7 DEF Serve, StopServing, ShutDown, Reap, Join, JoinOnOutput
<1>8. CASE Around \/ Terminate \/ UNCHANGED vars
  BY <1>1, <1>8, AroundMain DEF Terminate, vars
<1> QED
  BY <1>3, <1>4, <1>5, <1>6, <1>7, <1>8 DEF Next, Bridge, Around

\* Whatever it starts with and whatever the agent does: the process is in a stage
\* of main, has a reason exactly when it is over, and has read the frames of the
\* agent in the order they were said, each once (engine_read_frame).
THEOREM LifecycleTypes == Spec => []TypeOK
<1>1. ModesInv /\ PartTypes /\ Reasoned /\ UnreadIsTail => TypeOK
  BY Zenon DEF ModesInv, PartTypes, Stages, Reasoned, UnreadIsTail, TypeOK
<1>2. Init => ModesInv /\ PartTypes /\ Reasoned /\ UnreadIsTail
  BY ModesInit, TypesInit
<1> QED
  BY <1>1, <1>2, ModesStep, PartTypesStep, ReasonedStep, UnreadStep, PTL DEF Spec

-----------------------------------------------------------------------------
(* The steps a bridge can still take.                                       *)

\* Every wait of the start and of the shutdown is one step, but for uds_connect,
\* which goes round while the socket is absent.
Behind(s) ==
    IF s = "start" THEN 12 ELSE IF s = "init" THEN 11 ELSE IF s = "connect" THEN 10
    ELSE IF s = "send hello" THEN 9 ELSE IF s = "await hello" THEN 8
    ELSE IF s = "await ready" THEN 7 ELSE IF s = "serve" THEN 6 ELSE IF s = "serving" THEN 5
    ELSE IF s = "shut down" THEN 4 ELSE IF s = "await ack" THEN 3 ELSE IF s = "reap" THEN 2
    ELSE IF s = "join" THEN 1 ELSE 0
StepsLeft == Behind(stage) + (ConnectTicks - waited)

LEMMA Falls ==
    /\ Behind("init") < Behind("start") /\ Behind("exited") < Behind("start")
    /\ Behind("connect") < Behind("init") /\ Behind("send hello") < Behind("init")
    /\ Behind("serve") < Behind("init") /\ Behind("exited") < Behind("init")
    /\ Behind("send hello") < Behind("connect") /\ Behind("exited") < Behind("connect")
    /\ Behind("await hello") < Behind("send hello") /\ Behind("killed") < Behind("send hello")
    /\ Behind("await ready") < Behind("await hello") /\ Behind("shut down") < Behind("await hello")
    /\ Behind("killed") < Behind("await hello")
    /\ Behind("serve") < Behind("await ready") /\ Behind("shut down") < Behind("await ready")
    /\ Behind("killed") < Behind("await ready")
    /\ Behind("serving") < Behind("serve") /\ Behind("exited") < Behind("serve")
    /\ Behind("shut down") < Behind("serving")
    /\ Behind("await ack") < Behind("shut down") /\ Behind("reap") < Behind("shut down")
    /\ Behind("killed") < Behind("shut down")
    /\ Behind("reap") < Behind("await ack")
    /\ Behind("join") < Behind("reap") /\ Behind("exited") < Behind("reap")
    /\ Behind("exited") < Behind("join")
    /\ \A s : Behind("killed") <= Behind(s) /\ Behind(s) <= Behind(s)
    /\ Behind("exited") <= Behind("join")
<1>1. ASSUME NEW s PROVE Behind("killed") <= Behind(s) /\ Behind(s) <= Behind(s)
  BY DEF Behind
<1> QED
  BY <1>1 DEF Behind

LEMMA StepsSum ==
    ASSUME PartTypes, waited' = waited
    PROVE  /\ Behind(stage') < Behind(stage) => StepsLeft' < StepsLeft
           /\ Behind(stage') <= Behind(stage) => StepsLeft' <= StepsLeft
<1>1. ConnectTicks \in Nat /\ waited \in 0..ConnectTicks
  BY SomeTicks DEF PartTypes
<1>2. Behind(stage) \in Nat /\ Behind(stage') \in Nat
  BY DEF Behind
<1> QED
  BY <1>1, <1>2 DEF StepsLeft

LEMMA BridgeCounts ==
    ASSUME PartTypes, Bridge
    PROVE  StepsLeft' < StepsLeft
<1>1. CASE Waits
  <2>1. ConnectTicks \in Nat /\ waited \in 0..ConnectTicks /\ Behind(stage) \in Nat
    BY SomeTicks DEF PartTypes, Behind
  <2>2. stage' = stage /\ waited' = waited + 1
    BY <1>1 DEF Waits, Round
  <2> QED
    BY <2>1, <2>2 DEF StepsLeft
<1> SUFFICES ASSUME ~Waits PROVE waited' = waited /\ Behind(stage') < Behind(stage)
  BY <1>1, StepsSum
<1> USE DEF config, agent, control
<1>2. CASE Configure \/ InitExisting \/ InitLaunch \/ InitPipes
  BY <1>2, Falls DEF Configure, InitExisting, InitLaunch, InitPipes, Exit, Goto
<1>3. CASE Connects \/ ConnectsOther \/ Refused \/ ConnectTimeout
  BY <1>3, Falls DEF Connects, ConnectsOther, Refused, ConnectTimeout, ConnectFails, Exit, Goto
<1>4. CASE SendHello \/ ShutDown \/ AwaitAck
  BY <1>4, Falls DEF SendHello, ShutDown, AwaitAck, Write, Goto
<1>5. CASE ReadNativeHello
  BY <1>5, Falls DEF ReadNativeHello, Handshake, Reply, Write, Goto
<1>6. CASE WaitForReady
  BY <1>6, Falls DEF WaitForReady, Handshake, Reply, Write, Goto
<1>7. CASE Serve \/ StopServing \/ Reap \/ Join
  BY <1>7, Falls DEF Serve, StopServing, Reap, Join, Exit, Goto
<1> QED
  BY <1>2, <1>3, <1>4, <1>5, <1>6, <1>7 DEF Bridge

LEMMA OthersDoNot ==
    ASSUME PartTypes, [Next]_vars, ~Bridge
    PROVE  StepsLeft' <= StepsLeft
<1> SUFFICES waited' = waited /\ Behind(stage') <= Behind(stage)
  BY StepsSum
<1> USE DEF config, agent, control
<1>2. CASE JoinOnOutput \/ Terminate
  BY <1>2, Falls DEF JoinOnOutput, Terminate, Exit
<1>3. CASE Around \/ Say \/ UNCHANGED vars
  BY Falls, AroundMain, <1>3 DEF Say, vars
<1> QED
  BY <1>2, <1>3 DEF Next, Around

\* Beside its clients, a bridge process takes at most twelve steps and one for each
\* round of uds_connect, whatever it starts with: every step of main uses one up and
\* no agent, client or signal gives one back.  So what is left for it to end is that
\* its waits do (uds_connect, engine_read_frame_timeout, engine_destroy), and that a
\* client that is served is done (read_http_request).
THEOREM BridgeRunsOut ==
    Spec => /\ [](StepsLeft \in 0..ConnectTicks + 12)
            /\ [][StepsLeft' <= StepsLeft /\ (Bridge => StepsLeft' < StepsLeft)]_vars
<1>1. PartTypes => StepsLeft \in 0..ConnectTicks + 12
  <2>1. Behind(stage) \in 0..12
    BY DEF Behind
  <2> QED
    BY <2>1, SomeTicks DEF PartTypes, StepsLeft
<1>2. PartTypes /\ PartTypes' /\ [Next]_vars =>
         [StepsLeft' <= StepsLeft /\ (Bridge => StepsLeft' < StepsLeft)]_vars
  <2> SUFFICES ASSUME PartTypes, PartTypes', [Next]_vars
               PROVE  StepsLeft' <= StepsLeft /\ (Bridge => StepsLeft' < StepsLeft)
    OBVIOUS
  <2>1. CASE Bridge
    <3>1. StepsLeft' < StepsLeft
      BY <2>1, BridgeCounts
    <3>2. Behind(stage) \in Nat /\ Behind(stage') \in Nat
      BY DEF Behind
    <3>3. StepsLeft' <= StepsLeft
      BY <3>1, <3>2, SomeTicks DEF PartTypes, StepsLeft
    <3> QED
      BY <3>1, <3>3
  <2>2. CASE ~Bridge
    BY <2>2, OthersDoNot
  <2> QED
    BY <2>1, <2>2
<1> QED
  BY <1>1, <1>2, TypesInit, PartTypesStep, PTL DEF Spec

=============================================================================
