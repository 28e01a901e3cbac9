------------------------ MODULE TurnProtocol_proofs ------------------------
(***************************************************************************)
(* TurnProtocol, proved for every value of its constants: types; that a    *)
(* turn answers with its own request's text only, and never with a normal  *)
(* completion once its DELETE was answered; that clients get the service    *)
(* TurnService promises them; that a turn which begins in step with the    *)
(* agent stays so; and that a turn uses up a bounded number of steps.      *)
(***************************************************************************)
EXTENDS TurnProtocol, SequenceTheorems, TLAPS

\* What TypeOK needs to be inductive: the counters that steps decrement are
\* positive where they do, and whoever writes a request or its text has its id.
Counters ==
    /\ pc = "ack" => tries > 0
    /\ hb = "pong" => strays > 0
    /\ pc # "idle" => owner \in 1..served
    /\ pc \in TurnPcs => reqId = owner
    /\ stage # "idle" => job # 0

TypeInv == TypeOK /\ Counters

LEMMA InitTypeInv == Init => TypeInv
<1> SUFFICES ASSUME Init PROVE TypeInv
    OBVIOUS
<1> USE DEF Init
<1>1. ServerType  BY DEF ServerType, TurnPcs, Verdicts
<1>2. EngineType  BY DEF EngineType
<1>3. HttpType    BY DEF HttpType
<1>4. PipeType    BY DEF PipeType
<1>5. AgentType   BY DEF AgentType
<1>6. HeartbeatType BY DEF HeartbeatType
<1>7. HistoryType BY DEF HistoryType
<1>8. Counters    BY DEF Counters, TurnPcs
<1> QED BY <1>1, <1>2, <1>3, <1>4, <1>5, <1>6, <1>7, <1>8 DEF TypeInv, TypeOK

LEMMA SendType ==
    ASSUME PipeType, NEW fs \in Seq(ToAgentFrames), Send(fs), UNCHANGED toBridge
    PROVE  PipeType'
BY DEF PipeType, Send

LEMMA AnswerType ==
    ASSUME PipeType, NEW fs \in Seq(ToBridgeFrames), Answer(fs), UNCHANGED toAgent
    PROVE  PipeType'
BY DEF PipeType, Answer

LEMMA ReceiveType ==
    ASSUME PipeType, Receive
    PROVE  /\ Head(toBridge) \in ToBridgeFrames
           /\ toBridge' \in Seq(ToBridgeFrames)
BY HeadTailProperties DEF PipeType, Receive

-----------------------------------------------------------------------------
(* What each actor leaves alone.                                           *)

LEMMA ServerFrame == Server => UNCHANGED <<agentVars, hbVars>>
<1> SUFFICES ASSUME Server PROVE UNCHANGED <<agentVars, hbVars>>
    OBVIOUS
<1>1. CASE Serve
    BY <1>1 DEF Serve, PostTurn, CompactTurn, BeginTurn, TurnUnavailable, IdleDelete,
       IdleModels, HealthSend, HealthRead, HealthTimeout, HealthAnswer
<1>2. CASE RunTurn
  <2>1. CASE SessionSend \/ SessionAck \/ SessionTimeout \/ SessionError \/ SessionNotice
           \/ SendRequest
      BY <2>1 DEF SessionSend, SessionAck, SessionTimeout, SessionError, SessionNotice, SendRequest,
         SessionUnchanged
  <2>2. CASE AckSkip \/ AckRead \/ AckTimeout
      BY <2>2 DEF AckSkip, AckRead, AckTimeout, AckUnchanged
  <2>3. CASE PollControl \/ EventLimit \/ ReadFrame \/ ReadTimeout
      BY <2>3 DEF PollControl, EventLimit, ReadFrame, ReadTimeout
  <2>4. CASE SaveSend \/ SaveAck \/ SaveTimeout \/ TurnError \/ FinishTurn
      BY <2>4 DEF SaveSend, SaveAck, SaveTimeout, SaveUnchanged, TurnError, FinishTurn
  <2> QED BY <1>2, <2>1, <2>2, <2>3, <2>4 DEF RunTurn
<1> QED BY <1>1, <1>2 DEF Server

LEMMA AgentFrame ==
    Router \/ Main => UNCHANGED <<pc, ctxVars, flagVars, httpVars, hbVars, ghostVars>>
BY DEF Router, Main, MainRequest, EffortRestart, EffortFails, StreamStart, StreamChunk,
   MainRespond, MainState, MainUnknown, AgentUnchanged

LEMMA HeartbeatFrame ==
    Heartbeat => UNCHANGED <<pc, ctxVars, reqId, cancelled, turnActive, httpVars,
                             agentVars, ghostVars>>
BY DEF Heartbeat, HbWake, HbPing, HbRead, HbTimeout, HbFail, HeartbeatUnchanged

LEMMA ClientFrame ==
    ClientConnect => UNCHANGED <<pc, ctxVars, flagVars, served, toAgent, toBridge,
                                 agentVars, hbVars, ghostVars>>
BY DEF ClientConnect

-----------------------------------------------------------------------------
(* Type correctness, one part of TypeInv at a time.                        *)

LEMMA HeartbeatStep ==
    ASSUME TypeInv, [Next]_vars
    PROVE  HeartbeatType' /\ (hb' = "pong" => strays' > 0)
<1> USE DEF TypeInv, TypeOK, HeartbeatType, Counters, hbVars
<1>1. CASE ClientConnect \/ Server \/ Router \/ Main
    BY <1>1, ClientFrame, ServerFrame, AgentFrame
<1>2. CASE HbWake  BY <1>2 DEF HbWake
<1>3. CASE HbPing  BY <1>3, BoundsAssumption DEF HbPing
<1>4. CASE HbRead  BY <1>4 DEF HbRead
<1>5. CASE HbTimeout \/ HbFail  BY <1>5 DEF HbTimeout, HbFail
<1>6. CASE UNCHANGED vars  BY <1>6 DEF vars
<1> QED BY <1>1, <1>2, <1>3, <1>4, <1>5, <1>6 DEF Next, Heartbeat

LEMMA AgentStep ==
    ASSUME TypeInv, [Next]_vars
    PROVE  AgentType' /\ (stage' # "idle" => job' # 0)
<1> USE DEF TypeInv, TypeOK, AgentType, Counters, agentVars
<1>1. CASE ClientConnect \/ Server \/ Heartbeat
    BY <1>1, ClientFrame, ServerFrame, HeartbeatFrame
<1>2. CASE Router
  <2>1. toAgent # <<>> /\ Head(toAgent) \in ToAgentFrames
      BY <1>2, HeadTailProperties DEF Router, PipeType
  <2>2. mainq' = mainq \/ mainq' = Append(mainq, Head(toAgent))
      BY <1>2 DEF Router
  <2>3. mainq \in Seq(ToAgentFrames)
      OBVIOUS
  <2>4. mainq' \in Seq(ToAgentFrames)
      BY <2>1, <2>2, <2>3, AppendProperties
  <2> QED BY <1>2, <2>4 DEF Router
<1>3. CASE MainRequest
  <2>1. Head(mainq) \in ToAgentFrames /\ Tail(mainq) \in Seq(ToAgentFrames)
      BY <1>3, HeadTailProperties DEF MainRequest, MainNext
  <2>2. Head(mainq).id \in Nat \ {0}
      BY <1>3, <2>1 DEF MainRequest, MainNext, ToAgentFrames, StateOps
  <2> QED BY <1>3, <2>1, <2>2, BoundsAssumption DEF MainRequest
<1>4. CASE MainState \/ MainUnknown
    BY <1>4, HeadTailProperties DEF MainState, MainUnknown, MainNext
<1>5. CASE EffortRestart \/ EffortFails \/ StreamStart \/ StreamChunk \/ MainRespond
    BY <1>5 DEF EffortRestart, EffortFails, StreamStart, StreamChunk, MainRespond
<1>6. CASE UNCHANGED vars  BY <1>6 DEF vars
<1> QED BY <1>1, <1>2, <1>3, <1>4, <1>5, <1>6 DEF Next, Main

LEMMA OldestIsNat == TypeInv => Oldest \in Nat \ {0}
BY LenProperties DEF TypeInv, TypeOK, HttpType, Oldest

LEMMA EngineStep ==
    ASSUME TypeInv, [Next]_vars
    PROVE  EngineType'
<1> USE DEF TypeInv, TypeOK, EngineType, flagVars
<1>1. CASE ClientConnect \/ Router \/ Main
    BY <1>1, ClientFrame, AgentFrame
<1>2. CASE Heartbeat
    BY <1>2 DEF Heartbeat, HbWake, HbPing, HbRead, HbTimeout, HbFail, HeartbeatUnchanged
<1>3. CASE PostTurn \/ CompactTurn
    BY <1>3, OldestIsNat DEF PostTurn, CompactTurn, BeginTurn, ClearCancel
<1>8. CASE TurnUnavailable \/ IdleDelete \/ IdleModels \/ HealthSend \/ HealthRead
           \/ HealthTimeout
    BY <1>8 DEF TurnUnavailable, IdleDelete, IdleModels, HealthSend, HealthRead,
       HealthTimeout, HealthAnswer
<1>4. CASE SessionSend \/ SessionAck \/ SessionTimeout \/ SessionError \/ SessionNotice
           \/ SendRequest
           \/ AckSkip \/ AckRead \/ AckTimeout
    BY <1>4 DEF SessionSend, SessionAck, SessionTimeout, SessionError, SessionNotice, SendRequest,
       SessionUnchanged, AckSkip, AckRead, AckTimeout, AckUnchanged
<1>5. CASE PollControl \/ EventLimit \/ ReadFrame \/ ReadTimeout
    BY <1>5 DEF PollControl, EventLimit, ReadFrame, ReadTimeout, DrainControlPlane
<1>6. CASE SaveSend \/ SaveAck \/ SaveTimeout \/ TurnError \/ FinishTurn
    BY <1>6 DEF SaveSend, SaveAck, SaveTimeout, SaveUnchanged, TurnError, FinishTurn
<1>7. CASE UNCHANGED vars  BY <1>7 DEF vars
<1> QED BY <1>1, <1>2, <1>3, <1>4, <1>5, <1>6, <1>7, <1>8 DEF Next, Server, Serve, RunTurn

LEMMA ServerTypeStep ==
    ASSUME TypeInv, [Next]_vars
    PROVE  ServerType'
<1> USE DEF TypeInv, TypeOK, ServerType, TurnPcs
<1>1. CASE ClientConnect \/ Router \/ Main \/ Heartbeat
    BY <1>1, ClientFrame, AgentFrame, HeartbeatFrame DEF ctxVars
<1>2. CASE PostTurn \/ CompactTurn
    BY <1>2, OldestIsNat, ChoicesAssumption DEF PostTurn, CompactTurn, BeginTurn
<1>3. CASE TurnUnavailable \/ IdleDelete \/ IdleModels
    BY <1>3 DEF TurnUnavailable, IdleDelete, IdleModels, ctxVars
<1>4. CASE HealthSend  BY <1>4, OldestIsNat DEF HealthSend
<1>5. CASE HealthRead \/ HealthTimeout
  <2>1. PICK ok : HealthAnswer(ok)
      BY <1>5 DEF HealthRead, HealthTimeout
  <2> QED BY <2>1 DEF HealthAnswer
<1>6. CASE SessionSend \/ SessionNotice
    BY <1>6, HeadTailProperties DEF SessionSend, SessionNotice
<1>7. CASE SessionAck \/ SessionTimeout \/ SessionError
    BY <1>7 DEF SessionAck, SessionTimeout, SessionError, SessionUnchanged, ctxVars
<1>8. CASE SendRequest  BY <1>8, BoundsAssumption DEF SendRequest
<1>9. CASE AckSkip
    BY <1>9 DEF AckSkip, AckUnchanged, LastTry, Report, Verdicts, Counters
<1>10. CASE AckRead
    BY <1>10 DEF AckRead, AckUnchanged, Report, EndTurn, Verdicts
<1>11. CASE AckTimeout
    BY <1>11 DEF AckTimeout, AckUnchanged, Report, Verdicts
<1>12. CASE PollControl
    BY <1>12 DEF PollControl, EndTurn, Verdicts
<1>13. CASE EventLimit
    BY <1>13 DEF EventLimit, EndTurn, Verdicts
<1>14. CASE ReadTimeout
    BY <1>14 DEF ReadTimeout, TimeoutCharged, Report, Verdicts
<1>15. CASE ReadFrame
  <2>1. Head(toBridge).id \in Nat
      BY <1>15, ReceiveType DEF ReadFrame, ToBridgeFrames
  <2>2. events' \in Nat
      BY <1>15 DEF ReadFrame, Continue, Complete
  <2>4. out' \in SUBSET Nat
    <3>1. \/ out' = out \/ out' = out \cup {Head(toBridge).id}
          \/ out' = {Head(toBridge).id} \/ out' = {0}
        BY <1>15, ZenonT(30) DEF ReadFrame, Continue, Complete
    <3>2. ASSUME NEW x \in out' PROVE x \in Nat
        BY <2>1, <3>1, <3>2, 0 \in Nat, Zenon
    <3> QED BY <3>2
  <2>3. pc' \in TurnPcs /\ verdict' \in Verdicts
      BY <1>15 DEF ReadFrame, Continue, Complete, Report, EndTurn, Verdicts
  <2> QED BY <1>15, <2>2, <2>3, <2>4 DEF ReadFrame
<1>16. CASE SaveSend \/ SaveAck \/ SaveTimeout
    BY <1>16 DEF SaveSend, SaveAck, SaveTimeout, SaveUnchanged, ctxVars
<1>17. CASE TurnError
    BY <1>17 DEF TurnError, ctxVars
<1>19. CASE FinishTurn
  <2>1. plan' \in Seq(PlanSteps)
      BY <1>19, EmptySeq DEF FinishTurn
  <2> QED BY <1>19, <2>1 DEF FinishTurn, EmptyBuffer, Verdicts
<1>18. CASE UNCHANGED vars  BY <1>18 DEF vars, ctxVars
<1> QED BY <1>1, <1>2, <1>3, <1>4, <1>5, <1>6, <1>7, <1>8, <1>9, <1>10, <1>11, <1>12,
           <1>13, <1>14, <1>15, <1>16, <1>17, <1>18, <1>19
        DEF Next, Server, Serve, RunTurn

\* tries and reqId are what turn_await_ack and turn_begin find
LEMMA TriesStep ==
    ASSUME TypeInv, [Next]_vars
    PROVE  pc' = "ack" => tries' > 0
<1> USE DEF TypeInv, TypeOK, ServerType, Counters, ctxVars
<1>1. CASE ClientConnect \/ Router \/ Main \/ Heartbeat
    BY <1>1, ClientFrame, AgentFrame, HeartbeatFrame
<1>2. CASE SendRequest  BY <1>2, BoundsAssumption DEF SendRequest
<1>3. CASE AckSkip      BY <1>3 DEF AckSkip, LastTry, Report
<1>4. CASE AckRead      BY <1>4 DEF AckRead, Report, EndTurn
<1>5. CASE AckTimeout   BY <1>5 DEF AckTimeout, Report
<1>6. CASE Serve
    BY <1>6 DEF Serve, PostTurn, CompactTurn, BeginTurn, TurnUnavailable, IdleDelete,
       IdleModels, HealthSend, HealthRead, HealthTimeout, HealthAnswer
<1>7. CASE SessionSend \/ SessionAck \/ SessionTimeout \/ SessionError \/ SessionNotice
    BY <1>7 DEF SessionSend, SessionAck, SessionTimeout, SessionError, SessionNotice
<1>8. CASE PollControl \/ EventLimit \/ ReadFrame \/ ReadTimeout
    BY <1>8, ChoicesAssumption DEF PollControl, EventLimit, ReadFrame, ReadTimeout,
       Continue, Complete, Report, EndTurn
<1>9. CASE SaveSend \/ SaveAck \/ SaveTimeout \/ TurnError \/ FinishTurn
    BY <1>9 DEF SaveSend, SaveAck, SaveTimeout, TurnError, FinishTurn
<1>10. CASE UNCHANGED vars  BY <1>10 DEF vars
<1> QED BY <1>1, <1>2, <1>3, <1>4, <1>5, <1>6, <1>7, <1>8, <1>9, <1>10
        DEF Next, Server, RunTurn

\* a busy server has just begun a turn or a health check, or goes on with it
LEMMA BusyStep ==
    ASSUME [Next]_vars, pc' # "idle"
    PROVE  \/ PostTurn \/ CompactTurn \/ HealthSend
           \/ /\ pc # "idle" /\ UNCHANGED <<reqId, owner>>
              /\ pc' \in TurnPcs => pc \in TurnPcs
<1> USE DEF TurnPcs
<1>1. CASE ClientConnect \/ Router \/ Main \/ Heartbeat
    BY <1>1, ClientFrame, AgentFrame, HeartbeatFrame DEF ctxVars, flagVars
<1>2. CASE TurnUnavailable \/ IdleDelete \/ IdleModels
    BY <1>2 DEF TurnUnavailable, IdleDelete, IdleModels, Arrived
<1>3. CASE HealthRead \/ HealthTimeout
    BY <1>3 DEF HealthRead, HealthTimeout, HealthAnswer
<1>4. CASE SessionSend \/ SessionAck \/ SessionTimeout \/ SessionError \/ SessionNotice
           \/ SendRequest
    BY <1>4 DEF SessionSend, SessionAck, SessionTimeout, SessionError, SessionNotice, SendRequest,
       SessionUnchanged, ctxVars, flagVars
<1>5. CASE AckSkip \/ AckRead \/ AckTimeout
    BY <1>5 DEF AckSkip, AckRead, AckTimeout, AckUnchanged, flagVars
<1>6. CASE PollControl \/ EventLimit \/ ReadFrame \/ ReadTimeout
    BY <1>6 DEF PollControl, EventLimit, ReadFrame, ReadTimeout, DrainControlPlane,
       flagVars
<1>7. CASE SaveSend \/ SaveAck \/ SaveTimeout \/ TurnError
    BY <1>7 DEF SaveSend, SaveAck, SaveTimeout, SaveUnchanged, TurnError, ctxVars, flagVars
<1>8. CASE FinishTurn       BY <1>8 DEF FinishTurn
<1>9. CASE UNCHANGED vars  BY <1>9 DEF vars, ctxVars, flagVars
<1> QED BY <1>1, <1>2, <1>3, <1>4, <1>5, <1>6, <1>7, <1>8, <1>9
        DEF Next, Server, Serve, RunTurn

\* connections are served in order, one by one or, mid-turn, all that wait
LEMMA ServedStep ==
    ASSUME TypeInv, [Next]_vars
    PROVE  served' \in {served, served + 1, Len(kind)} /\ served' >= served
<1> USE DEF TypeInv, TypeOK, HttpType
<1>1. CASE ClientConnect \/ Router \/ Main \/ Heartbeat
    BY <1>1, ClientFrame, AgentFrame, HeartbeatFrame DEF httpVars
<1>2. CASE Serve
    BY <1>2 DEF Serve, PostTurn, CompactTurn, BeginTurn, TurnUnavailable, IdleDelete,
       IdleModels, HealthSend, HealthRead, HealthTimeout, HealthAnswer, Oldest
<1>3. CASE SessionSend \/ SessionAck \/ SessionTimeout \/ SessionError \/ SessionNotice
           \/ SendRequest
           \/ AckSkip \/ AckRead \/ AckTimeout
    BY <1>3 DEF SessionSend, SessionAck, SessionTimeout, SessionError, SessionNotice, SendRequest,
       SessionUnchanged, AckSkip, AckRead, AckTimeout, AckUnchanged, httpVars
<1>4. CASE PollControl \/ EventLimit \/ ReadFrame \/ ReadTimeout
    BY <1>4 DEF PollControl, EventLimit, ReadFrame, ReadTimeout, DrainControlPlane, httpVars
<1>5. CASE SaveSend \/ SaveAck \/ SaveTimeout \/ TurnError \/ FinishTurn
    BY <1>5 DEF SaveSend, SaveAck, SaveTimeout, SaveUnchanged, TurnError, FinishTurn,
       httpVars
<1>6. CASE UNCHANGED vars  BY <1>6 DEF vars, httpVars
<1> QED BY <1>1, <1>2, <1>3, <1>4, <1>5, <1>6 DEF Next, Server, RunTurn

LEMMA OwnerStep ==
    ASSUME TypeInv, [Next]_vars
    PROVE  /\ pc' # "idle" => owner' \in 1..served'
           /\ pc' \in TurnPcs => reqId' = owner'
<1> SUFFICES ASSUME pc' # "idle"
             PROVE  owner' \in 1..served' /\ (pc' \in TurnPcs => reqId' = owner')
    BY DEF TurnPcs
<1>1. served' \in Nat /\ served' >= served /\ served \in Nat
    BY ServedStep, LenProperties DEF TypeInv, TypeOK, HttpType
<1>2. CASE PostTurn \/ CompactTurn
    BY <1>1, <1>2 DEF PostTurn, CompactTurn, BeginTurn, Oldest
<1>3. CASE HealthSend
    BY <1>1, <1>3 DEF HealthSend, Oldest, TurnPcs
<1>4. CASE /\ pc # "idle" /\ UNCHANGED <<reqId, owner>>
           /\ pc' \in TurnPcs => pc \in TurnPcs
    BY <1>1, <1>4 DEF TypeInv, Counters
<1> QED BY <1>2, <1>3, <1>4, BusyStep

-----------------------------------------------------------------------------
(* The connections' part.                                                  *)

\* the reply to a connection that was opened
LEMMA ReplyType ==
    ASSUME HttpType, NEW c \in 1..Len(kind), NEW r \in Replies, Reply(c, r)
    PROVE  replies' \in Seq(Seq(Replies)) /\ Len(replies') = Len(kind)
<1>1. c \in 1..Len(replies) /\ replies[c] \in Seq(Replies)
    BY ElementOfSeq DEF HttpType
<1>2. Append(replies[c], r) \in Seq(Replies)
    BY <1>1, AppendProperties
<1>3. replies' = [replies EXCEPT ![c] = Append(replies[c], r)]
    BY DEF Reply
<1> QED BY <1>1, <1>2, <1>3, ExceptSeq DEF HttpType

LEMMA ArrivedType ==
    ASSUME HttpType, NEW ks, Arrived(ks)
    PROVE  /\ Oldest \in 1..Len(kind)
           /\ kind[Oldest] \in ks /\ kind[Oldest] \in Kinds
<1>1. Oldest \in 1..Len(kind)
    BY LenProperties DEF HttpType, Arrived, Oldest
<1> QED BY <1>1, ElementOfSeq DEF HttpType, Arrived

LEMMA MidTurnReplyType == \A k : MidTurnReply(k) \in Replies
BY DEF MidTurnReply, Replies

LEMMA TurnReplyType == \A k, v, c : TurnReply(k, v, c) \in Replies
BY DEF TurnReply, Replies

LEMMA DrainType ==
    ASSUME HttpType, DrainControlPlane
    PROVE  HttpType'
<1>1. /\ Len(kind) \in Nat /\ DOMAIN kind = 1..Len(kind)
      /\ \A c \in 1..Len(kind) : replies[c] \in Seq(Replies)
    BY LenProperties, ElementOfSeq DEF HttpType
<1> DEFINE e == [c \in 1..Len(kind) |->
         IF c \in Waiting THEN Append(replies[c], MidTurnReply(kind[c]))
                          ELSE replies[c]]
<1>2. e \in [1..Len(kind) -> Seq(Replies)]
    BY <1>1, MidTurnReplyType, AppendProperties
<1>3. replies' = e
    BY <1>1 DEF DrainControlPlane
<1>4. e \in Seq(Seq(Replies)) /\ Len(e) = Len(kind)
    BY <1>1, <1>2, SeqDef, LenProperties
<1>5. replies' \in Seq(Seq(Replies)) /\ Len(replies') = Len(kind)
    BY <1>3, <1>4, Zenon
<1>6. UNCHANGED kind /\ served' = Len(kind)
    BY DEF DrainControlPlane
<1> QED BY <1>1, <1>5, <1>6 DEF HttpType

LEMMA HttpStep ==
    ASSUME TypeInv, [Next]_vars
    PROVE  HttpType'
<1>0. HttpType /\ (pc # "idle" => owner \in 1..Len(kind))
    BY LenProperties DEF TypeInv, TypeOK, HttpType, Counters
<1>1. CASE ClientConnect
  <2>1. \A k \in Kinds : /\ Append(kind, k) \in Seq(Kinds)
                          /\ Len(Append(kind, k)) = Len(kind) + 1
      BY <1>0, AppendProperties DEF HttpType
  <2>2. /\ Append(replies, <<>>) \in Seq(Seq(Replies))
        /\ Len(Append(replies, <<>>)) = Len(replies) + 1
      BY <1>0, EmptySeq, AppendProperties DEF HttpType
  <2> QED BY <1>0, <1>1, <2>1, <2>2, LenProperties DEF ClientConnect, HttpType
<1>2. CASE Router \/ Main \/ Heartbeat
    BY <1>0, <1>2, AgentFrame, HeartbeatFrame DEF httpVars, HttpType
<1>3. CASE PostTurn \/ CompactTurn \/ HealthSend
    BY <1>0, <1>3, ArrivedType DEF PostTurn, CompactTurn, BeginTurn, HealthSend, HttpType
<1>4. CASE TurnUnavailable
  <2>1. PICK r \in Seq(Replies) : replies' = [replies EXCEPT ![Oldest] = r]
    <3>1. <<"unavailable">> \in Seq(Replies) /\ <<"unavailable", "unavailable">> \in Seq(Replies)
        BY DEF Replies
    <3> QED BY <1>4, <3>1 DEF TurnUnavailable
  <2>2. Oldest \in 1..Len(kind) /\ Oldest \in 1..Len(replies)
      BY <1>0, <1>4, ArrivedType DEF TurnUnavailable, HttpType
  <2>3. replies' \in Seq(Seq(Replies)) /\ Len(replies') = Len(kind)
      BY <1>0, <2>1, <2>2, ExceptSeq DEF HttpType
  <2>4. UNCHANGED kind /\ served' = Oldest
      BY <1>4 DEF TurnUnavailable
  <2> QED BY <1>0, <2>2, <2>3, <2>4 DEF HttpType
<1>5. CASE IdleDelete \/ IdleModels
  <2>1. Oldest \in 1..Len(kind) /\ Reply(Oldest, "ok") /\ served' = Oldest /\ kind' = kind
      BY <1>0, <1>5, ArrivedType DEF IdleDelete, IdleModels
  <2>2. "ok" \in Replies
      BY DEF Replies
  <2> QED BY <1>0, <2>1, <2>2, ReplyType DEF HttpType
<1>6. CASE HealthRead \/ HealthTimeout
  <2>1. PICK ok : HealthAnswer(ok)
      BY <1>6 DEF HealthRead, HealthTimeout
  <2>2. PICK r \in Replies : Reply(owner, r)
      BY <2>1 DEF HealthAnswer, Replies
  <2>3. owner \in 1..Len(kind)
      BY <1>0, <1>6 DEF HealthRead, HealthTimeout
  <2> QED BY <1>0, <2>1, <2>2, <2>3, ReplyType DEF HealthAnswer, HttpType
<1>7. CASE SessionSend \/ SessionAck \/ SessionTimeout \/ SessionError \/ SessionNotice
           \/ SendRequest
           \/ AckSkip \/ AckRead \/ AckTimeout
    BY <1>0, <1>7 DEF SessionSend, SessionAck, SessionTimeout, SessionError, SessionNotice,
       SendRequest, SessionUnchanged, AckSkip, AckRead, AckTimeout, AckUnchanged, httpVars, HttpType
<1>8. CASE PollControl
    BY <1>0, <1>8, DrainType DEF PollControl
<1>9. CASE EventLimit \/ ReadFrame
    BY <1>0, <1>9 DEF EventLimit, ReadFrame, httpVars, HttpType
<1>10. CASE ReadTimeout
  <2>1. DrainControlPlane \/ UNCHANGED httpVars
      BY <1>10 DEF ReadTimeout
  <2> QED BY <1>0, <2>1, DrainType DEF httpVars, HttpType
<1>11. CASE SaveSend \/ SaveAck \/ SaveTimeout \/ TurnError
    BY <1>0, <1>11 DEF SaveSend, SaveAck, SaveTimeout, SaveUnchanged, TurnError, httpVars,
       HttpType
<1>12. CASE FinishTurn
  <2>1. PICK r \in Replies : Reply(owner, r)
      BY <1>12, TurnReplyType DEF FinishTurn
  <2>2. owner \in 1..Len(kind)
      BY <1>0, <1>12 DEF FinishTurn
  <2> QED BY <1>0, <1>12, <2>1, <2>2, ReplyType DEF FinishTurn, HttpType
<1>13. CASE UNCHANGED vars  BY <1>0, <1>13 DEF vars, httpVars, HttpType
<1> QED BY <1>1, <1>2, <1>3, <1>4, <1>5, <1>6, <1>7, <1>8, <1>9, <1>10, <1>11, <1>12, <1>13
        DEF Next, Server, Serve, RunTurn

-----------------------------------------------------------------------------
(* The pipes.                                                              *)

LEMMA ToAgentFrameType ==
    /\ \A i \in Nat \ {0} : Frame("request", i) \in ToAgentFrames
    /\ \A t \in StateOps \cup {"cancel", "error", "health", "ping"}, i \in Nat :
          Frame(t, i) \in ToAgentFrames
BY DEF Frame, ToAgentFrames

LEMMA ToBridgeFrameType ==
    /\ \A t \in {"text_delta", "response"}, i \in Nat \ {0}, q \in Quotes :
          Text(t, i, q) \in ToBridgeFrames
    /\ \A t \in {"ack", "busy", "rejected", "event", "error", "pong", "health"}, i \in Nat :
          Frame(t, i) \in ToBridgeFrames
BY ChoicesAssumption DEF Frame, Text, ToBridgeFrames

LEMMA SendFrameType ==
    ASSUME PipeType, NEW f \in ToAgentFrames, Send(<<f>>), UNCHANGED toBridge
    PROVE  PipeType'
<1>1. <<f>> \in Seq(ToAgentFrames)
    OBVIOUS
<1> QED BY <1>1, SendType

LEMMA AnswerFrameType ==
    ASSUME PipeType, NEW f \in ToBridgeFrames, Answer(<<f>>), UNCHANGED toAgent
    PROVE  PipeType'
<1>1. <<f>> \in Seq(ToBridgeFrames)
    OBVIOUS
<1> QED BY <1>1, AnswerType

LEMMA CancelFrameType ==
    ASSUME PipeType, reqId \in Nat, Send(CancelFrame), UNCHANGED toBridge
    PROVE  PipeType'
<1>1. CancelFrame \in Seq(ToAgentFrames)
  <2>1. Frame("cancel", reqId) \in ToAgentFrames
      BY ToAgentFrameType
  <2>2. <<Frame("cancel", reqId)>> \in Seq(ToAgentFrames) /\ <<>> \in Seq(ToAgentFrames)
      BY <2>1
  <2> QED BY <2>2 DEF CancelFrame
<1> QED BY <1>1, SendType

LEMMA SendErrorType ==
    ASSUME PipeType, SendError, UNCHANGED toBridge
    PROVE  PipeType'
BY SendFrameType, ToAgentFrameType DEF SendError

LEMMA DrainPipeType ==
    ASSUME PipeType, reqId \in Nat, DrainControlPlane, UNCHANGED toBridge
    PROVE  PipeType'
<1>1. CASE Deletes = {}   BY <1>1 DEF DrainControlPlane, PipeType
<1>2. CASE Deletes # {}   BY <1>2, CancelFrameType DEF DrainControlPlane
<1> QED BY <1>1, <1>2

LEMMA ServerPipeStep ==
    ASSUME TypeInv, Server
    PROVE  PipeType'
<1>0. /\ PipeType /\ reqId \in Nat /\ plan \in Seq(PlanSteps)
      /\ pc = "session" => reqId \in Nat \ {0}
    BY DEF TypeInv, TypeOK, EngineType, ServerType, Counters, TurnPcs
<1>1. CASE UNCHANGED <<toAgent, toBridge>>
    BY <1>0, <1>1 DEF PipeType
<1>2. CASE Receive /\ UNCHANGED toAgent
    BY <1>0, <1>2, ReceiveType DEF PipeType
<1>3. CASE IdleDelete
    BY <1>0, <1>3, CancelFrameType DEF IdleDelete
<1>4. CASE HealthSend
  <2>1. Oldest \in Nat
      BY OldestIsNat
  <2> QED BY <1>0, <1>4, <2>1, SendFrameType, ToAgentFrameType DEF HealthSend
<1>5. CASE SessionSend
  <2>1. Head(plan) \in StateOps
      BY <1>0, <1>5, HeadTailProperties DEF SessionSend, PlanSteps
  <2> QED BY <1>0, <1>5, <2>1, SendFrameType, ToAgentFrameType DEF SessionSend
<1>6. CASE SendRequest
    BY <1>0, <1>6, SendFrameType, ToAgentFrameType DEF SendRequest
<1>7. CASE SaveSend
    BY <1>0, <1>7, SendFrameType, ToAgentFrameType DEF SaveSend, StateOps
<1>8. CASE SessionError \/ SessionNotice \/ TurnError
    BY <1>0, <1>8, SendErrorType DEF SessionError, SessionNotice, TurnError
<1>9. CASE PollControl
    BY <1>0, <1>9, DrainPipeType DEF PollControl
<1>10. CASE ReadTimeout
  <2>1. UNCHANGED toBridge /\ (DrainControlPlane \/ UNCHANGED toAgent)
      BY <1>10 DEF ReadTimeout, NothingRead
  <2> QED BY <1>0, <1>1, <2>1, DrainPipeType
<1>11. CASE PostTurn \/ CompactTurn \/ TurnUnavailable \/ IdleModels
    BY <1>1, <1>11 DEF PostTurn, CompactTurn, BeginTurn, TurnUnavailable, IdleModels
<1>12. CASE HealthRead \/ HealthTimeout
    BY <1>1, <1>2, <1>12 DEF HealthRead, HealthTimeout, HealthAnswer, NothingRead
<1>13. CASE SessionAck \/ SessionTimeout
    BY <1>1, <1>2, <1>13 DEF SessionAck, SessionTimeout, NothingRead
<1>14. CASE AckSkip \/ AckRead \/ AckTimeout
    BY <1>1, <1>2, <1>14 DEF AckSkip, AckRead, AckTimeout, AckUnchanged, NothingRead
<1>15. CASE EventLimit \/ ReadFrame
    BY <1>1, <1>2, <1>15 DEF EventLimit, ReadFrame
<1>16. CASE SaveAck \/ SaveTimeout \/ FinishTurn
    BY <1>1, <1>2, <1>16 DEF SaveAck, SaveTimeout, FinishTurn, NothingRead
<1> QED BY <1>3, <1>4, <1>5, <1>6, <1>7, <1>8, <1>9, <1>10, <1>11, <1>12, <1>13, <1>14,
           <1>15, <1>16
        DEF Server, Serve, RunTurn

LEMMA AgentPipeStep ==
    ASSUME TypeInv, Router \/ Main
    PROVE  PipeType'
<1>0. /\ PipeType /\ mainq \in Seq(ToAgentFrames) /\ job \in Nat
      /\ stage # "idle" => job \in Nat \ {0}
    BY DEF TypeInv, TypeOK, AgentType, Counters
<1>1. CASE Router
  <2>1. /\ Head(toAgent).id \in Nat
        /\ toAgent' \in Seq(ToAgentFrames)
    <3>1. Head(toAgent) \in ToAgentFrames /\ Tail(toAgent) \in Seq(ToAgentFrames)
        BY <1>0, <1>1, HeadTailProperties DEF Router, PipeType
    <3> QED BY <1>1, <3>1 DEF Router, ToAgentFrames
  <2>2. \/ UNCHANGED toBridge
        \/ \E t \in {"pong", "health"} : Answer(<<Frame(t, Head(toAgent).id)>>)
      BY <1>1 DEF Router
  <2>3. toBridge' \in Seq(ToBridgeFrames)
    <3>1. CASE UNCHANGED toBridge
        BY <1>0, <3>1 DEF PipeType
    <3>2. CASE \E t \in {"pong", "health"} : Answer(<<Frame(t, Head(toAgent).id)>>)
      <4>1. PICK f \in ToBridgeFrames : Answer(<<f>>)
          BY <2>1, <3>2, ToBridgeFrameType
      <4> QED BY <1>0, <4>1, <<f>> \in Seq(ToBridgeFrames), ConcatProperties
              DEF Answer, PipeType
    <3> QED BY <2>2, <3>1, <3>2
  <2> QED BY <2>1, <2>3 DEF PipeType
<1>2. CASE MainRequest
  <2>1. Head(mainq).id \in Nat
      BY <1>0, <1>2, HeadTailProperties DEF MainRequest, MainNext, ToAgentFrames
  <2>2. PICK t \in {"ack", "busy", "rejected"} : Answer(<<Frame(t, Head(mainq).id)>>)
      BY <1>2, ChoicesAssumption DEF MainRequest
  <2> QED BY <1>0, <1>2, <2>1, <2>2, AnswerFrameType, ToBridgeFrameType DEF MainRequest
<1>3. CASE EffortRestart \/ EffortFails \/ StreamStart \/ MainState \/ MainUnknown
  <2>1. PICK t \in {"event", "error", "ack"} : Answer(<<Frame(t, 0)>>)
      BY <1>3 DEF EffortRestart, EffortFails, StreamStart, MainState, MainUnknown
  <2>2. UNCHANGED toAgent
      BY <1>3 DEF EffortRestart, EffortFails, StreamStart, MainState, MainUnknown
  <2> QED BY <1>0, <2>1, <2>2, AnswerFrameType, ToBridgeFrameType
<1>4. CASE StreamChunk
  <2>1. \/ \E q \in Quotes : Answer(<<Text("text_delta", job, q)>>)
        \/ Answer(<<Frame("event", 0)>>)
      BY <1>4 DEF StreamChunk
  <2>2. UNCHANGED toAgent /\ job \in Nat \ {0}
      BY <1>0, <1>4 DEF StreamChunk
  <2> QED BY <1>0, <2>1, <2>2, AnswerFrameType, ToBridgeFrameType
<1>5. CASE MainRespond
    BY <1>0, <1>5, AnswerFrameType, ToBridgeFrameType DEF MainRespond
<1> QED BY <1>1, <1>2, <1>3, <1>4, <1>5 DEF Main

LEMMA HeartbeatPipeStep ==
    ASSUME TypeInv, Heartbeat
    PROVE  PipeType'
<1>0. PipeType /\ ping \in Nat
    BY DEF TypeInv, TypeOK, HeartbeatType
<1>1. CASE HbPing
  <2>1. ping' \in Nat
      BY <1>0, <1>1, BoundsAssumption DEF HbPing
  <2>2. Send(<<Frame("ping", ping')>>) /\ UNCHANGED toBridge
      BY <1>1 DEF HbPing
  <2>3. Frame("ping", ping') \in ToAgentFrames
      BY <2>1, ToAgentFrameType
  <2> QED BY <1>0, <2>2, <2>3, SendFrameType
<1>2. CASE HbFail
    BY <1>0, <1>2, SendErrorType DEF HbFail
<1>3. CASE HbRead
    BY <1>0, <1>3, ReceiveType DEF HbRead, PipeType
<1>4. CASE HbWake \/ HbTimeout
    BY <1>0, <1>4 DEF HbWake, HbTimeout, NothingRead, PipeType
<1> QED BY <1>1, <1>2, <1>3, <1>4 DEF Heartbeat

LEMMA PipeStep ==
    ASSUME TypeInv, [Next]_vars
    PROVE  PipeType'
<1>1. CASE ClientConnect \/ UNCHANGED vars
    BY <1>1, ClientFrame DEF vars, TypeInv, TypeOK, PipeType
<1> QED BY <1>1, ServerPipeStep, AgentPipeStep, HeartbeatPipeStep DEF Next

-----------------------------------------------------------------------------
LEMMA HistoryStep ==
    ASSUME TypeInv, [Next]_vars
    PROVE  HistoryType'
<1> USE DEF TypeInv, TypeOK, HistoryType, ghostVars
<1>1. CASE ClientConnect \/ Router \/ Main \/ Heartbeat
    BY <1>1, ClientFrame, AgentFrame, HeartbeatFrame
<1>2. CASE PostTurn \/ CompactTurn
    BY <1>2 DEF PostTurn, CompactTurn, BeginTurn, InSync
<1>3. CASE TurnUnavailable \/ IdleDelete \/ IdleModels \/ HealthSend \/ HealthRead
           \/ HealthTimeout
    BY <1>3 DEF TurnUnavailable, IdleDelete, IdleModels, HealthSend, HealthRead,
       HealthTimeout, HealthAnswer
<1>4. CASE SessionSend \/ SessionAck \/ SessionTimeout \/ SessionError \/ SessionNotice
           \/ SendRequest
    BY <1>4 DEF SessionSend, SessionAck, SessionTimeout, SessionError, SessionNotice, SendRequest,
       SessionUnchanged
<1>5. CASE AckSkip \/ AckRead \/ AckTimeout \/ EventLimit \/ ReadFrame
    BY <1>5 DEF AckSkip, AckRead, AckTimeout, AckUnchanged, EventLimit, ReadFrame
<1>6. CASE PollControl \/ ReadTimeout
  <2>1. doomed' = doomed \/ doomed' = doomed \cup {owner}
      BY <1>6 DEF PollControl, ReadTimeout, DrainControlPlane
  <2>2. owner \in Nat /\ UNCHANGED clean
      BY <1>6 DEF ServerType, PollControl, ReadTimeout
  <2> QED BY <2>1, <2>2
<1>7. CASE SaveSend \/ SaveAck \/ SaveTimeout \/ TurnError \/ FinishTurn
    BY <1>7 DEF SaveSend, SaveAck, SaveTimeout, SaveUnchanged, TurnError, FinishTurn
<1>8. CASE UNCHANGED vars  BY <1>8 DEF vars
<1> QED BY <1>1, <1>2, <1>3, <1>4, <1>5, <1>6, <1>7, <1>8 DEF Next, Server, Serve, RunTurn

LEMMA TypeInvStep ==
    ASSUME TypeInv, [Next]_vars
    PROVE  TypeInv'
<1>1. TypeOK'
    BY ServerTypeStep, EngineStep, HttpStep, PipeStep, AgentStep, HeartbeatStep, HistoryStep
       DEF TypeOK
<1>2. Counters'
    BY TriesStep, HeartbeatStep, OwnerStep, AgentStep DEF Counters
<1> QED BY <1>1, <1>2 DEF TypeInv

\* Every reachable state is well typed: no counter goes below zero, no frame
\* without an id poses as a request's text, no reply goes to a connection that
\* was not opened, whatever the agent, the clients and the heartbeat do.
THEOREM TypeCorrect == Spec => []TypeOK
<1>1. TypeInv /\ [Next]_vars => TypeInv'
    BY TypeInvStep
<1>2. TypeInv => TypeOK
    BY DEF TypeInv
<1> QED BY <1>1, <1>2, InitTypeInv, PTL DEF Spec

-----------------------------------------------------------------------------
(* What a verdict says of the turn.                                        *)

\* A verdict stands only while the turn winds down, so nothing is read into
\* out_buf after it; out_buf is empty between turns.
EndInv ==
    /\ verdict # "none" => pc \in {"save", "saveack", "turnerr", "finish"}
    /\ pc \notin TurnPcs => out = {}

LEMMA InitEndInv == Init => EndInv
BY DEF Init, EndInv

LEMMA EndReadStep ==
    ASSUME TypeInv, EndInv, ReadFrame
    PROVE  EndInv'
<1>0. pc = "read" /\ verdict = "none"
    BY DEF ReadFrame, EndInv
<1>1. \/ pc' = "poll" /\ UNCHANGED verdict
      \/ pc' \in {"turnerr", "finish", "save"}
    BY DEF ReadFrame, Continue, Complete, Report, EndTurn
<1> QED BY <1>0, <1>1 DEF EndInv, TurnPcs

LEMMA EndInvStep ==
    ASSUME TypeInv, EndInv, [Next]_vars
    PROVE  EndInv'
<1> USE DEF EndInv, TurnPcs
<1>1. CASE ClientConnect \/ Router \/ Main \/ Heartbeat
    BY <1>1, ClientFrame, AgentFrame, HeartbeatFrame DEF ctxVars, flagVars
<1>2. CASE PostTurn \/ CompactTurn
    BY <1>2 DEF PostTurn, CompactTurn, BeginTurn, Arrived
<1>3. CASE TurnUnavailable \/ IdleDelete \/ IdleModels \/ HealthSend
    BY <1>3 DEF TurnUnavailable, IdleDelete, IdleModels, HealthSend, Arrived, ctxVars,
       flagVars
<1>4. CASE HealthRead \/ HealthTimeout
  <2>1. PICK ok : HealthAnswer(ok) /\ pc = "health"
      BY <1>4 DEF HealthRead, HealthTimeout
  <2> QED BY <2>1 DEF HealthAnswer, flagVars
<1>5. CASE SessionSend \/ SessionAck \/ SessionTimeout \/ SessionError \/ SessionNotice
           \/ SendRequest
    BY <1>5 DEF SessionSend, SessionAck, SessionTimeout, SessionError, SessionNotice, SendRequest,
       SessionUnchanged, ctxVars, flagVars
<1>6. CASE AckSkip \/ AckRead \/ AckTimeout
    BY <1>6 DEF AckSkip, AckRead, AckTimeout, AckUnchanged, Report, EndTurn, flagVars
<1>7. CASE PollControl \/ EventLimit \/ ReadTimeout
    BY <1>7 DEF PollControl, EventLimit, ReadTimeout, DrainControlPlane, Report, EndTurn,
       flagVars
<1>8. CASE ReadFrame  BY <1>8, EndReadStep
<1>9. CASE SaveSend \/ SaveAck \/ SaveTimeout \/ TurnError
    BY <1>9 DEF SaveSend, SaveAck, SaveTimeout, SaveUnchanged, TurnError, ctxVars, flagVars
<1>10. CASE FinishTurn  BY <1>10 DEF FinishTurn, EmptyBuffer
<1>11. CASE UNCHANGED vars  BY <1>11 DEF vars, ctxVars, flagVars
<1> QED BY <1>1, <1>2, <1>3, <1>4, <1>5, <1>6, <1>7, <1>8, <1>9, <1>10, <1>11
        DEF Next, Server, Serve, RunTurn

-----------------------------------------------------------------------------
(* Cancellation.                                                           *)

\* A cancelled turn is winding down with cancelled still set; it has not been
\* answered, and nothing was answered to the connections not yet served.
CancelInv ==
    /\ doomed \subseteq 1..served
    /\ \A c \in 1..Len(kind) : c > served => replies[c] = <<>>
    /\ pc # "idle" => replies[owner] = <<>>
    /\ pc # "idle" /\ owner \in doomed =>
          pc \in {"turnerr", "finish"} /\ cancelled /\ verdict \in {"cancelled", "timeout"}
    /\ CancelWins

LEMMA InitCancelInv == Init => CancelInv
BY DEF Init, CancelInv, CancelWins

\* what TypeInv says of the connections, in the terms used below
LEMMA Connections ==
    ASSUME TypeInv
    PROVE  /\ Len(kind) \in Nat /\ DOMAIN kind = 1..Len(kind)
           /\ replies \in Seq(Seq(Replies)) /\ Len(replies) = Len(kind)
           /\ DOMAIN replies = 1..Len(kind)
           /\ served \in Nat /\ served <= Len(kind)
           /\ pc # "idle" => owner \in 1..served /\ owner \in 1..Len(kind)
<1>1. Len(kind) \in Nat /\ DOMAIN kind = 1..Len(kind) /\ DOMAIN replies = 1..Len(replies)
    BY LenProperties DEF TypeInv, TypeOK, HttpType
<1> QED BY <1>1 DEF TypeInv, TypeOK, HttpType, Counters

\* an answer to a connection whose turn, if any, was not cancelled
LEMMA AnswerElsewhere ==
    ASSUME TypeInv, CancelInv, NEW c \in 1..Len(kind), c \notin doomed, NEW r,
           replies' = [replies EXCEPT ![c] = r], UNCHANGED <<kind, doomed>>
    PROVE  CancelWins'
<1>1. \A t \in doomed : replies'[t] = replies[t]
    BY Connections DEF CancelInv
<1> QED BY <1>1 DEF CancelInv, CancelWins

LEMMA DrainCancel ==
    ASSUME TypeInv, CancelInv, DrainControlPlane, pc \in {"poll", "read"}
    PROVE  /\ doomed' \subseteq 1..served'
           /\ \A c \in 1..Len(kind') : c > served' => replies'[c] = <<>>
           /\ replies'[owner] = <<>>
           /\ owner \in doomed' => cancelled'
           /\ CancelWins'
<1>0. /\ Len(kind) \in Nat /\ DOMAIN kind = 1..Len(kind)
      /\ served \in Nat /\ served <= Len(kind)
      /\ owner \in 1..served /\ owner \notin doomed /\ replies[owner] = <<>>
      /\ doomed \subseteq 1..served
    BY Connections DEF CancelInv
<1>1. /\ UNCHANGED kind /\ served' = Len(kind)
      /\ \A c \in 1..served : replies'[c] = replies[c]
    BY <1>0 DEF DrainControlPlane, Waiting
<1>2. \/ UNCHANGED doomed
      \/ doomed' = doomed \cup {owner} /\ cancelled'
    BY DEF DrainControlPlane
<1>3. \A t \in doomed' : \/ t \in doomed /\ replies'[t] = replies[t]
                        \/ replies'[t] = <<>>
    BY <1>0, <1>1, <1>2
<1>4. CancelWins'
  <2> SUFFICES ASSUME NEW t \in doomed', NEW i \in DOMAIN (replies'[t])
               PROVE  replies'[t][i] = IF kind'[t] = "stream" THEN "cancelled" ELSE "failed"
      BY DEF CancelWins
  <2>1. CASE t \in doomed /\ replies'[t] = replies[t]
      BY <1>1, <2>1 DEF CancelInv, CancelWins
  <2>2. CASE replies'[t] = <<>>
      BY <2>2
  <2> QED BY <1>3, <2>1, <2>2
<1>5. doomed' \subseteq 1..served'
  <2>1. owner \in 1..served' /\ \A t \in doomed : t \in 1..served'
      BY <1>0, <1>1
  <2> QED BY <1>2, <2>1
<1> QED BY <1>0, <1>1, <1>2, <1>4, <1>5

\* the steps of a turn that answer nobody and cancel nothing
LEMMA QuietStep ==
    ASSUME TypeInv, CancelInv, UNCHANGED <<owner, cancelled, kind, replies, served, doomed>>,
           pc # "idle", pc' # "idle",
           pc \in {"turnerr", "finish"} =>
               pc' \in {"turnerr", "finish"} /\ UNCHANGED verdict
    PROVE  CancelInv'
BY DEF CancelInv, CancelWins

LEMMA ServeCancel ==
    ASSUME TypeInv, CancelInv, Serve
    PROVE  CancelInv'
<1>0. /\ Len(kind) \in Nat /\ DOMAIN kind = 1..Len(kind) /\ DOMAIN replies = 1..Len(kind)
      /\ served \in Nat /\ served <= Len(kind) /\ doomed \subseteq 1..served
      /\ \A c \in 1..Len(kind) : c > served => replies[c] = <<>>
      /\ Oldest = served + 1 /\ Oldest \notin doomed
    BY Connections DEF CancelInv, Oldest
<1>1. CASE PostTurn \/ CompactTurn \/ HealthSend
  <2>1. /\ pc = "idle" /\ served < Len(kind) /\ served' = Oldest /\ owner' = Oldest
        /\ UNCHANGED <<kind, replies, doomed>>
      BY <1>1 DEF PostTurn, CompactTurn, BeginTurn, HealthSend, Arrived, ghostVars
  <2>2. CancelWins'
      BY <2>1 DEF CancelInv, CancelWins
  <2> QED BY <1>0, <2>1, <2>2 DEF CancelInv
<1>2. CASE TurnUnavailable \/ IdleDelete \/ IdleModels
  <2>1. /\ pc = "idle" /\ pc' = pc /\ served < Len(kind) /\ served' = Oldest
        /\ UNCHANGED <<kind, doomed>>
      BY <1>2 DEF TurnUnavailable, IdleDelete, IdleModels, Arrived, ghostVars
  <2>2. PICK r : replies' = [replies EXCEPT ![Oldest] = r]
      BY <1>2 DEF TurnUnavailable, IdleDelete, IdleModels, Reply
  <2>3. Oldest \in 1..Len(kind)
      BY <1>0, <2>1
  <2>4. CancelWins'
      BY <1>0, <2>1, <2>2, <2>3, AnswerElsewhere
  <2>5. \A c \in 1..Len(kind) : c > Oldest => replies'[c] = <<>>
      BY <1>0, <2>2
  <2> QED BY <1>0, <2>1, <2>4, <2>5 DEF CancelInv
<1>3. CASE HealthRead \/ HealthTimeout
  <2>1. PICK ok : HealthAnswer(ok) /\ pc = "health"
      BY <1>3 DEF HealthRead, HealthTimeout
  <2>2. PICK r : replies' = [replies EXCEPT ![owner] = r]
      BY <2>1 DEF HealthAnswer, Reply
  <2>3. /\ pc' = "idle" /\ UNCHANGED <<kind, served, doomed>>
        /\ owner \in 1..served /\ owner \notin doomed
      BY <2>1, Connections DEF HealthAnswer, ghostVars, CancelInv
  <2>4. CancelWins'
    <3>1. owner \in 1..Len(kind)
        BY <1>0, <2>3
    <3> QED BY <2>2, <2>3, <3>1, AnswerElsewhere
  <2>5. \A c \in 1..Len(kind) : c > served => replies'[c] = <<>>
      BY <1>0, <2>2, <2>3
  <2> QED BY <1>0, <2>3, <2>4, <2>5 DEF CancelInv
<1> QED BY <1>1, <1>2, <1>3 DEF Serve

LEMMA FinishCancel ==
    ASSUME TypeInv, CancelInv, FinishTurn
    PROVE  CancelInv'
<1> DEFINE r == TurnReply(kind[owner], verdict, cancelled)
<1>0. /\ Len(kind) \in Nat /\ DOMAIN replies = 1..Len(kind)
      /\ served \in Nat /\ owner \in 1..served /\ owner \in 1..Len(kind)
      /\ replies[owner] = <<>>
    BY Connections DEF CancelInv, FinishTurn
<1>1. owner \in doomed => r = IF kind[owner] = "stream" THEN "cancelled" ELSE "failed"
    BY DEF FinishTurn, CancelInv, TurnReply, CancelCaptured
<1> HIDE DEF r
<1>2. /\ replies' = [replies EXCEPT ![owner] = <<r>>]
      /\ pc' = "idle" /\ UNCHANGED <<kind, served, doomed>>
    BY <1>0 DEF FinishTurn, Reply, r
<1>3. CancelWins'
  <2> SUFFICES ASSUME NEW t \in doomed', NEW i \in DOMAIN (replies'[t])
               PROVE  replies'[t][i] = IF kind'[t] = "stream" THEN "cancelled" ELSE "failed"
      BY DEF CancelWins
  <2>1. CASE t = owner
    <3>1. replies'[t] = <<r>> /\ i = 1
        BY <1>0, <1>2, <2>1
    <3> QED BY <1>1, <1>2, <2>1, <3>1
  <2>2. CASE t # owner
    <3>1. replies'[t] = replies[t] /\ t \in doomed
        BY <1>0, <1>2, <2>2 DEF CancelInv
    <3> QED BY <1>2, <3>1 DEF CancelInv, CancelWins
  <2> QED BY <2>1, <2>2
<1>4. \A c \in 1..Len(kind) : c > served => replies'[c] = <<>>
    BY <1>0, <1>2 DEF CancelInv
<1> QED BY <1>2, <1>3, <1>4 DEF CancelInv

LEMMA ConnectCancel ==
    ASSUME TypeInv, CancelInv, ClientConnect
    PROVE  CancelInv'
<1>0. UNCHANGED <<pc, owner, verdict, cancelled, served, doomed>>
    BY ClientFrame DEF ctxVars, flagVars, ghostVars
<1>1. PICK k \in Kinds : kind' = Append(kind, k)
    BY DEF ClientConnect
<1>2. replies' = Append(replies, <<>>)
    BY DEF ClientConnect
<1>3. /\ Len(kind) \in Nat /\ served \in Nat /\ served <= Len(kind)
      /\ pc # "idle" => owner \in 1..served
      /\ Len(kind') = Len(kind) + 1
      /\ \A c \in 1..Len(kind) : kind'[c] = kind[c] /\ replies'[c] = replies[c]
      /\ replies'[Len(kind) + 1] = <<>>
  <2>1. kind \in Seq(Kinds) /\ replies \in Seq(Seq(Replies)) /\ Len(replies) = Len(kind)
      BY DEF TypeInv, TypeOK, HttpType
  <2>2. <<>> \in Seq(Replies)
      BY EmptySeq
  <2> QED BY <1>1, <1>2, <2>1, <2>2, Connections, AppendProperties
<1>4. CancelWins'
    BY <1>0, <1>3 DEF CancelInv, CancelWins
<1> QED BY <1>0, <1>3, <1>4 DEF CancelInv

LEMMA CancelInvStep ==
    ASSUME TypeInv, CancelInv, [Next]_vars
    PROVE  CancelInv'
<1>1. CASE Router \/ Main \/ Heartbeat \/ UNCHANGED vars
  <2>1. UNCHANGED <<pc, owner, verdict, cancelled, kind, replies, served, doomed>>
      BY <1>1, AgentFrame, HeartbeatFrame DEF vars, ctxVars, flagVars, httpVars, ghostVars
  <2> QED BY <2>1 DEF CancelInv, CancelWins
<1>2. CASE ClientConnect  BY <1>2, ConnectCancel
<1>3. CASE Serve          BY <1>3, ServeCancel
<1>4. CASE SessionSend \/ SessionAck \/ SessionTimeout \/ SessionError \/ SessionNotice
           \/ SendRequest
    BY <1>4, QuietStep DEF SessionSend, SessionAck, SessionTimeout, SessionError, SessionNotice,
       SendRequest, SessionUnchanged, ctxVars, flagVars, httpVars, ghostVars
<1>5. CASE AckSkip \/ AckRead \/ AckTimeout
    BY <1>5, QuietStep DEF AckSkip, AckRead, AckTimeout, AckUnchanged, Report, EndTurn,
       flagVars, httpVars, ghostVars
<1>6. CASE EventLimit \/ ReadFrame
    BY <1>6, QuietStep DEF EventLimit, ReadFrame, Continue, Complete, Report, EndTurn,
       flagVars, httpVars, ghostVars
<1>7. CASE PollControl
  <2>1. pc \in {"poll", "read"} /\ DrainControlPlane
      BY <1>7 DEF PollControl
  <2>2. UNCHANGED owner /\ pc' # "idle"
        /\ (cancelled' => pc' = "finish" /\ verdict' = "cancelled")
      BY <1>7 DEF PollControl, EndTurn
  <2> QED BY <2>1, <2>2, DrainCancel DEF CancelInv
<1>8. CASE ReadTimeout
  <2>1. CASE DrainControlPlane /\ Report("timeout")
    <3>1. pc = "read" /\ UNCHANGED owner /\ pc' = "turnerr" /\ verdict' = "timeout"
        BY <1>8, <2>1 DEF ReadTimeout, Report
    <3> QED BY <2>1, <3>1, DrainCancel DEF CancelInv
  <2>2. CASE pc' = "poll" /\ UNCHANGED <<verdict, flagVars, httpVars, toAgent, doomed>>
      BY <1>8, <2>2, QuietStep DEF ReadTimeout, flagVars, httpVars
  <2> QED BY <1>8, <2>1, <2>2 DEF ReadTimeout
<1>9. CASE SaveSend \/ SaveAck \/ SaveTimeout \/ TurnError
    BY <1>9, QuietStep DEF SaveSend, SaveAck, SaveTimeout, SaveUnchanged, TurnError,
       ctxVars, flagVars, httpVars, ghostVars
<1>10. CASE FinishTurn  BY <1>10, FinishCancel
<1> QED BY <1>1, <1>2, <1>3, <1>4, <1>5, <1>6, <1>7, <1>8, <1>9, <1>10
        DEF Next, Server, RunTurn

\* Once handle_midturn_control_plane has answered a DELETE, its turn ends
\* cancelled or failed, and a stream with the cancelled terminal: no later frame,
\* timeout or connection, and no order of the two threads, changes that.
THEOREM CancelledNeverCompletes == Spec => []CancelWins
<1>1. TypeInv /\ CancelInv /\ [Next]_vars => (TypeInv /\ CancelInv)'
    BY TypeInvStep, CancelInvStep
<1>2. CancelInv => CancelWins
    BY DEF CancelInv
<1> QED BY <1>1, <1>2, InitTypeInv, InitCancelInv, PTL DEF Spec

-----------------------------------------------------------------------------
(* The service clients are promised.                                       *)

\* Who holds the server, and that a cancelled turn is one whose DELETE was answered.
ServiceInv ==
    /\ pc = "idle" => owner = 0
    /\ pc \in TurnPcs => kind[owner] \in {"stream", "block", "compact"}
    /\ pc = "health" => kind[owner] = "health"
    /\ pc \in TurnPcs /\ cancelled => owner \in doomed

LEMMA InitServiceInv == Init => ServiceInv
BY DEF Init, ServiceInv, TurnPcs

LEMMA ServiceInvStep ==
    ASSUME TypeInv, CancelInv, ServiceInv, [Next]_vars
    PROVE  ServiceInv'
<1> USE DEF ServiceInv, TurnPcs
<1>1. CASE Router \/ Main \/ Heartbeat \/ UNCHANGED vars
    BY <1>1, AgentFrame, HeartbeatFrame DEF vars, ctxVars, flagVars, httpVars, ghostVars
<1>2. CASE ClientConnect
  <2>1. UNCHANGED <<pc, owner, cancelled, doomed>>
      BY <1>2, ClientFrame DEF ctxVars, flagVars, ghostVars
  <2>2. pc # "idle" => kind'[owner] = kind[owner]
    <3>1. PICK k \in Kinds : kind' = Append(kind, k)
        BY <1>2 DEF ClientConnect
    <3>2. kind \in Seq(Kinds)
        BY DEF TypeInv, TypeOK, HttpType
    <3> QED BY <3>1, <3>2, Connections, AppendProperties
  <2> QED BY <2>1, <2>2
<1>3. CASE PostTurn \/ CompactTurn
    BY <1>3 DEF PostTurn, CompactTurn, BeginTurn, ClearCancel, Arrived
<1>4. CASE HealthSend
    BY <1>4 DEF HealthSend, Arrived
<1>5. CASE TurnUnavailable \/ IdleDelete \/ IdleModels
    BY <1>5 DEF TurnUnavailable, IdleDelete, IdleModels, Arrived, ctxVars
<1>6. CASE HealthRead \/ HealthTimeout
  <2>1. PICK ok : HealthAnswer(ok)
      BY <1>6 DEF HealthRead, HealthTimeout
  <2> QED BY <2>1 DEF HealthAnswer
<1>7. CASE SessionSend \/ SessionAck \/ SessionTimeout \/ SessionError \/ SessionNotice
           \/ SendRequest
    BY <1>7 DEF SessionSend, SessionAck, SessionTimeout, SessionError, SessionNotice, SendRequest,
       SessionUnchanged, ctxVars, flagVars, httpVars, ghostVars
<1>8. CASE AckSkip \/ AckRead \/ AckTimeout
    BY <1>8 DEF AckSkip, AckRead, AckTimeout, AckUnchanged, Report, EndTurn, flagVars,
       httpVars, ghostVars
<1>9. CASE EventLimit \/ ReadFrame
    BY <1>9 DEF EventLimit, ReadFrame, Continue, Complete, Report, EndTurn, flagVars,
       httpVars, ghostVars
<1>10. CASE PollControl \/ ReadTimeout
  <2>1. pc \in {"poll", "read"} /\ pc' \in TurnPcs /\ UNCHANGED <<owner, kind>>
      BY <1>10 DEF PollControl, ReadTimeout, DrainControlPlane, EndTurn, Report, httpVars
  <2>2. \/ UNCHANGED <<cancelled, doomed>>
        \/ owner \in doomed'
      BY <1>10 DEF PollControl, ReadTimeout, DrainControlPlane, flagVars
  <2> QED BY <2>1, <2>2
<1>11. CASE SaveSend \/ SaveAck \/ SaveTimeout \/ TurnError
    BY <1>11 DEF SaveSend, SaveAck, SaveTimeout, SaveUnchanged, TurnError, ctxVars,
       flagVars, httpVars, ghostVars
<1>12. CASE FinishTurn
    BY <1>12 DEF FinishTurn
<1> QED BY <1>1, <1>2, <1>3, <1>4, <1>5, <1>6, <1>7, <1>8, <1>9, <1>10, <1>11, <1>12
        DEF Next, Server, Serve, RunTurn

\* what clients see of a step
serviceVars == <<kind, replies, served, owner, doomed>>

LEMMA ServiceStarts ==
    ASSUME TypeInv, ServiceInv, PostTurn \/ CompactTurn \/ HealthSend
    PROVE  Service!Start
BY DEF PostTurn, CompactTurn, BeginTurn, HealthSend, Arrived, Oldest, ServiceInv, ghostVars,
   Service!Start, Service!TurnKinds

LEMMA ServiceAnswersAtOnce ==
    ASSUME TypeInv, CancelInv, ServiceInv, TurnUnavailable \/ IdleDelete \/ IdleModels
    PROVE  Service!AnswerAtOnce
<1> DEFINE r == IF TurnUnavailable
                THEN IF kind[Oldest] = "block" THEN <<"unavailable", "unavailable">>
                                               ELSE <<"unavailable">>
                ELSE <<"ok">>
<1>1. /\ owner = 0 /\ served < Len(kind) /\ served' = served + 1
      /\ UNCHANGED <<kind, owner, doomed>>
    BY DEF TurnUnavailable, IdleDelete, IdleModels, Arrived, Oldest, ServiceInv, ghostVars,
       ctxVars
<1>2. replies[Oldest] = <<>> /\ Oldest = served + 1
  <2>1. Oldest \in 1..Len(kind) /\ Oldest > served
      BY <1>1, Connections DEF Oldest
  <2> QED BY <2>1 DEF CancelInv, Oldest
<1>3. replies' = [replies EXCEPT ![served + 1] = r]
  <2>1. CASE TurnUnavailable
      BY <1>2, <2>1 DEF TurnUnavailable
  <2>2. CASE ~TurnUnavailable
    <3>1. replies' = [replies EXCEPT ![Oldest] = Append(@, "ok")]
        BY <2>2 DEF IdleDelete, IdleModels, Reply
    <3>2. Append(<<>>, "ok") = <<"ok">>
        OBVIOUS
    <3> QED BY <1>2, <2>2, <3>1, <3>2
  <2> QED BY <2>1, <2>2
<1>4. r \in Service!ImmediateReplies(kind[served + 1])
  <2>1. CASE TurnUnavailable
      BY <1>2, <2>1 DEF TurnUnavailable, Arrived, Service!ImmediateReplies
  <2>2. CASE ~TurnUnavailable
      BY <1>2, <2>2 DEF IdleDelete, IdleModels, Arrived, Service!ImmediateReplies
  <2> QED BY <2>1, <2>2
<1> HIDE DEF r
<1> QED BY <1>1, <1>3, <1>4 DEF Service!AnswerAtOnce

LEMMA ServiceDrains ==
    ASSUME TypeInv, CancelInv, ServiceInv, DrainControlPlane, UNCHANGED owner,
           pc \in {"poll", "read"}
    PROVE  Service!AnswerWaiting \/ UNCHANGED serviceVars
<1>0. /\ Len(kind) \in Nat /\ DOMAIN kind = 1..Len(kind) /\ DOMAIN replies = 1..Len(kind)
      /\ served \in Nat /\ served <= Len(kind) /\ owner \in 1..served
      /\ kind[owner] \in {"stream", "block", "compact"}
      /\ \A c \in 1..Len(kind) : c > served => replies[c] = <<>>
    BY Connections DEF CancelInv, ServiceInv, TurnPcs
<1>1. Waiting = served + 1 .. Len(kind)
    BY <1>0 DEF Waiting
<1>2. Deletes = {} <=> ~\E c \in served + 1 .. Len(kind) : kind[c] = "delete"
    BY <1>1 DEF Deletes
<1>3. doomed' = IF \E c \in served + 1 .. Len(kind) : kind[c] = "delete"
                THEN doomed \cup {owner} ELSE doomed
    BY <1>2 DEF DrainControlPlane
<1>4. replies' = [c \in DOMAIN replies |->
                    IF c > served THEN Service!DuringTurn(kind[c]) ELSE replies[c]]
  <2>1. ASSUME NEW c \in 1..Len(kind)
        PROVE  (IF c \in Waiting THEN Append(replies[c], MidTurnReply(kind[c])) ELSE replies[c])
               = (IF c > served THEN Service!DuringTurn(kind[c]) ELSE replies[c])
    <3>1. c \in Waiting <=> c > served
        BY <1>0, <1>1
    <3>2. c > served => Append(replies[c], MidTurnReply(kind[c])) = <<MidTurnReply(kind[c])>>
      <4>1. Append(<<>>, MidTurnReply(kind[c])) = <<MidTurnReply(kind[c])>>
          OBVIOUS
      <4>2. c > served => replies[c] = <<>>
          BY <1>0
      <4> QED BY <4>1, <4>2
    <3>3. <<MidTurnReply(kind[c])>> = Service!DuringTurn(kind[c])
        BY DEF MidTurnReply, Service!DuringTurn
    <3> QED BY <3>1, <3>2, <3>3
  <2> QED BY <1>0, <2>1 DEF DrainControlPlane
<1>5. served' = Len(kind) /\ UNCHANGED <<kind, owner>>
    BY DEF DrainControlPlane
<1>6. CASE served < Len(kind)
  <2>1. owner # 0
      BY <1>0
  <2> QED BY <1>0, <1>3, <1>4, <1>5, <1>6, <2>1 DEF Service!AnswerWaiting, Service!TurnKinds
<1>7. CASE served = Len(kind)
  <2>1. replies' = [c \in 1..Len(kind) |-> replies[c]]
      BY <1>0, <1>4, <1>7
  <2>2. replies = [c \in 1..Len(kind) |-> replies[c]]
    <3>1. replies \in [1..Len(kind) -> Seq(Replies)]
        BY Connections, LenProperties
    <3> QED BY <3>1
  <2>3. UNCHANGED doomed
      BY <1>0, <1>3, <1>7
  <2> QED BY <1>5, <1>7, <2>1, <2>2, <2>3 DEF serviceVars
<1>8. served < Len(kind) \/ served = Len(kind)
  <2>1. served \in Nat /\ Len(kind) \in Nat /\ served <= Len(kind)
      BY <1>0
  <2> QED BY <2>1
<1> QED BY <1>6, <1>7, <1>8

LEMMA ServiceFinishes ==
    ASSUME TypeInv, CancelInv, ServiceInv, FinishTurn \/ HealthRead \/ HealthTimeout
    PROVE  Service!Finish
<1>0. pc # "idle"
    BY DEF FinishTurn, HealthRead, HealthTimeout
<1>1. owner # 0 /\ replies[owner] = <<>> /\ owner' = 0 /\ UNCHANGED <<kind, served, doomed>>
    BY <1>0, Connections DEF CancelInv, FinishTurn, HealthRead, HealthTimeout, HealthAnswer,
       ghostVars
<1>2. CASE FinishTurn
  <2> DEFINE r == TurnReply(kind[owner], verdict, cancelled)
  <2>1. r \in Service!Outcomes(owner)
    <3>1. kind[owner] \in {"stream", "block", "compact"} /\ (cancelled => owner \in doomed)
        BY <1>2 DEF FinishTurn, ServiceInv, TurnPcs
    <3>2. owner \in doomed => cancelled /\ verdict \in {"cancelled", "timeout"}
        BY <1>0 DEF CancelInv
    <3> QED BY <3>1, <3>2 DEF TurnReply, CancelCaptured, Service!Outcomes
  <2>2. replies' = [replies EXCEPT ![owner] = <<r>>]
      BY <1>1, <1>2 DEF FinishTurn, Reply
  <2> HIDE DEF r
  <2> QED BY <1>1, <2>1, <2>2 DEF Service!Finish
<1>3. CASE HealthRead \/ HealthTimeout
  <2>1. PICK ok \in BOOLEAN : HealthAnswer(ok) /\ pc = "health"
      BY <1>3 DEF HealthRead, HealthTimeout
  <2> DEFINE r == IF ok THEN "ok" ELSE "unavailable"
  <2>2. r \in Service!Outcomes(owner)
      BY <2>1 DEF ServiceInv, Service!Outcomes
  <2>3. replies' = [replies EXCEPT ![owner] = <<r>>]
      BY <1>1, <2>1 DEF HealthAnswer, Reply
  <2> HIDE DEF r
  <2> QED BY <1>1, <2>2, <2>3 DEF Service!Finish
<1> QED BY <1>2, <1>3

LEMMA ServiceStep ==
    ASSUME TypeInv, CancelInv, ServiceInv, [Next]_vars
    PROVE  Service!SNext \/ UNCHANGED serviceVars
<1> USE DEF serviceVars, Service!SNext
<1>1. CASE Router \/ Main \/ Heartbeat \/ UNCHANGED vars
    BY <1>1, AgentFrame, HeartbeatFrame DEF vars, ctxVars, httpVars, ghostVars
<1>2. CASE ClientConnect
    BY <1>2 DEF ClientConnect, Service!Connect, ctxVars, ghostVars
<1>3. CASE PostTurn \/ CompactTurn \/ HealthSend
    BY <1>3, ServiceStarts
<1>4. CASE TurnUnavailable \/ IdleDelete \/ IdleModels
    BY <1>4, ServiceAnswersAtOnce
<1>5. CASE SessionSend \/ SessionAck \/ SessionTimeout \/ SessionError \/ SessionNotice
           \/ SendRequest
    BY <1>5 DEF SessionSend, SessionAck, SessionTimeout, SessionError, SessionNotice, SendRequest,
       SessionUnchanged, ctxVars, httpVars, ghostVars
<1>6. CASE AckSkip \/ AckRead \/ AckTimeout
    BY <1>6 DEF AckSkip, AckRead, AckTimeout, AckUnchanged, httpVars, ghostVars
<1>7. CASE EventLimit \/ ReadFrame
    BY <1>7 DEF EventLimit, ReadFrame, httpVars, ghostVars
<1>8. CASE PollControl
    BY <1>8, ServiceDrains DEF PollControl
<1>9. CASE ReadTimeout
  <2>1. pc \in {"poll", "read"} /\ UNCHANGED owner
      BY <1>9 DEF ReadTimeout
  <2>2. CASE DrainControlPlane
      BY <2>1, <2>2, ServiceDrains
  <2>3. CASE UNCHANGED <<httpVars, doomed>>
      BY <2>1, <2>3 DEF httpVars
  <2> QED BY <1>9, <2>2, <2>3 DEF ReadTimeout
<1>10. CASE SaveSend \/ SaveAck \/ SaveTimeout \/ TurnError
    BY <1>10 DEF SaveSend, SaveAck, SaveTimeout, SaveUnchanged, TurnError, ctxVars, httpVars,
       ghostVars
<1>11. CASE FinishTurn \/ HealthRead \/ HealthTimeout
    BY <1>11, ServiceFinishes
<1> QED BY <1>1, <1>2, <1>3, <1>4, <1>5, <1>6, <1>7, <1>8, <1>9, <1>10, <1>11
        DEF Next, Server, Serve, RunTurn

\* What clients see is TurnService, whatever the agent sends and the heartbeat
\* does: connections are taken in order, one turn at a time holds the server, those
\* who come in during a turn are answered at once, and each turn has one outcome,
\* "cancelled" exactly when a DELETE came in (start_codex_api_server,
\* handle_midturn_control_plane, handle_response_native).
THEOREM ServiceImplemented == Spec => ServiceSpec
<1>1. Init => Service!SInit
    BY DEF Init, Service!SInit
<1>2. TypeInv /\ CancelInv /\ ServiceInv /\ [Next]_vars
      => (TypeInv /\ CancelInv /\ ServiceInv)'
    BY TypeInvStep, CancelInvStep, ServiceInvStep
<1>3. TypeInv /\ CancelInv /\ ServiceInv /\ [Next]_vars => [Service!SNext]_(Service!svars)
    BY ServiceStep DEF serviceVars, Service!svars
<1> QED BY <1>1, <1>2, <1>3, InitTypeInv, InitCancelInv, InitServiceInv, PTL
        DEF Spec, ServiceSpec, Service!SSpec

-----------------------------------------------------------------------------
(* Staying in step with the agent.                                         *)

\* nothing is on its way in the agent or back, and no heartbeat is under way
Quiet == mainq = <<>> /\ job = 0 /\ toBridge = <<>>

\* reports of errors, which the agent's router drops, may be on their way
Still == Quiet /\ \A i \in 1..Len(toAgent) : toAgent[i].type = "error"

Clear == Quiet /\ toAgent = <<>>

\* one frame of S, behind such reports, is on its way to the agent's main thread
Underway(S) ==
    \/ /\ Quiet /\ toAgent # <<>> /\ toAgent[Len(toAgent)] \in S
       /\ \A i \in 1 .. Len(toAgent) - 1 : toAgent[i].type = "error"
    \/ /\ toAgent = <<>> /\ job = 0 /\ toBridge = <<>>
       /\ Len(mainq) = 1 /\ mainq[1] \in S

StateFrames == [type : StateOps, id : {0}, quotes : {{}}]

\* a state operation, or its answer
OpPending ==
    \/ Underway(StateFrames)
    \/ /\ toAgent = <<>> /\ mainq = <<>> /\ job = 0
       /\ Len(toBridge) = 1 /\ toBridge[1].type = "ack"

\* From toBridge[n] on, frames of this request's stream.  What ends it comes last,
\* when the agent has nothing more to do.
StreamFrom(n) ==
    /\ toAgent = <<>> /\ mainq = <<>> /\ job \in {0, reqId}
    /\ \A i \in n..Len(toBridge) :
         /\ toBridge[i].type \in {"event", "text_delta", "response", "error"}
         /\ toBridge[i].id \in {0, reqId}
         /\ toBridge[i].type \in {"response", "error"} => i = Len(toBridge) /\ job = 0

\* the request, or its answer with what follows it
RequestPending ==
    \/ Underway({Frame("request", reqId)})
    \/ /\ toBridge # <<>> /\ AckFrame(toBridge[1]) /\ toBridge[1].id = reqId
       /\ StreamFrom(2)

\* What the server may find in the pipes, at each point of a turn.
PipesInStep ==
    /\ pc \in {"session", "sesserr"} => Still
    /\ pc \in {"sessack", "saveack"} => OpPending
    /\ pc = "ack" => RequestPending
    /\ pc \in {"poll", "read"} => StreamFrom(1)
    /\ pc = "save" \/ (pc = "finish" /\ verdict = "ok") => Clear

InStep ==
    /\ pc \in TurnPcs
    /\ verdict \notin {"ack_invalid", "ack_exhausted", "mismatch"}
    /\ verdict \in {"none", "ok"} => turnActive /\ hb = "sleep"
    /\ pc \in {"save", "saveack"} => verdict = "ok"
    /\ pc = "turnerr" => verdict \notin {"none", "ok"}
    /\ PipesInStep

SyncInv == clean => InStep

-----------------------------------------------------------------------------
(* One frame more or less in a pipe.                                       *)

LEMMA SendOne ==
    ASSUME TypeInv, NEW f \in ToAgentFrames, Send(<<f>>)
    PROVE  /\ Len(toAgent) \in Nat /\ Len(toAgent') = Len(toAgent) + 1 /\ toAgent' # <<>>
           /\ toAgent'[Len(toAgent')] = f
           /\ \A i \in 1..Len(toAgent) : toAgent'[i] = toAgent[i]
<1>1. toAgent \in Seq(ToAgentFrames) /\ <<f>> \in Seq(ToAgentFrames) /\ Len(<<f>>) = 1
    BY DEF TypeInv, TypeOK, PipeType
<1>2. toAgent' = toAgent \o <<f>>
    BY DEF Send
<1>3. /\ Len(toAgent) \in Nat /\ toAgent' \in Seq(ToAgentFrames)
      /\ Len(toAgent') = Len(toAgent) + 1
      /\ \A i \in 1 .. Len(toAgent) + 1 :
           toAgent'[i] = IF i <= Len(toAgent) THEN toAgent[i] ELSE <<f>>[i - Len(toAgent)]
    BY <1>1, <1>2, ConcatProperties, LenProperties
<1>4. toAgent'[Len(toAgent')] = f
    BY <1>3
<1>5. toAgent' # <<>>
    BY <1>3, EmptySeq
<1> QED BY <1>3, <1>4, <1>5

LEMMA AnswerOne ==
    ASSUME TypeInv, NEW f \in ToBridgeFrames, Answer(<<f>>)
    PROVE  /\ Len(toBridge) \in Nat /\ Len(toBridge') = Len(toBridge) + 1 /\ toBridge' # <<>>
           /\ toBridge'[Len(toBridge')] = f
           /\ \A i \in 1..Len(toBridge) : toBridge'[i] = toBridge[i]
<1>1. toBridge \in Seq(ToBridgeFrames) /\ <<f>> \in Seq(ToBridgeFrames) /\ Len(<<f>>) = 1
    BY DEF TypeInv, TypeOK, PipeType
<1>2. toBridge' = toBridge \o <<f>>
    BY DEF Answer
<1>3. /\ Len(toBridge) \in Nat /\ toBridge' \in Seq(ToBridgeFrames)
      /\ Len(toBridge') = Len(toBridge) + 1
      /\ \A i \in 1 .. Len(toBridge) + 1 :
           toBridge'[i] = IF i <= Len(toBridge) THEN toBridge[i] ELSE <<f>>[i - Len(toBridge)]
    BY <1>1, <1>2, ConcatProperties, LenProperties
<1>4. toBridge'[Len(toBridge')] = f
    BY <1>3
<1>5. toBridge' # <<>>
    BY <1>3, EmptySeq
<1> QED BY <1>3, <1>4, <1>5

LEMMA ReceiveOne ==
    ASSUME TypeInv, Receive
    PROVE  /\ Len(toBridge) \in Nat \ {0} /\ Len(toBridge') = Len(toBridge) - 1
           /\ Head(toBridge) = toBridge[1]
           /\ \A i \in 1..Len(toBridge') : toBridge'[i] = toBridge[i + 1]
           /\ Len(toBridge) = 1 => toBridge' = <<>>
<1>1. toBridge \in Seq(ToBridgeFrames) /\ toBridge # <<>> /\ toBridge' = Tail(toBridge)
    BY DEF TypeInv, TypeOK, PipeType, Receive
<1>2. /\ Len(toBridge) \in Nat \ {0} /\ toBridge' \in Seq(ToBridgeFrames)
      /\ Len(toBridge') = Len(toBridge) - 1
      /\ \A i \in 1..Len(toBridge') : toBridge'[i] = toBridge[i + 1]
    BY <1>1, HeadTailProperties, EmptySeq
<1>3. Len(toBridge) = 1 => toBridge' = <<>>
    BY <1>2, EmptySeq
<1>4. Head(toBridge) = toBridge[1]
    BY <1>1
<1> QED BY <1>2, <1>3, <1>4

\* the router takes what is first in its pipe
LEMMA RouterOne ==
    ASSUME TypeInv, Router
    PROVE  /\ toAgent # <<>> /\ Len(toAgent) \in Nat \ {0} /\ Len(toAgent') = Len(toAgent) - 1
           /\ Head(toAgent) = toAgent[1]
           /\ \A i \in 1..Len(toAgent') : toAgent'[i] = toAgent[i + 1]
           /\ Len(toAgent) = 1 => toAgent' = <<>>
           /\ Len(toAgent) > 1 => toAgent' # <<>>
           /\ UNCHANGED <<job, stage>>
<1>1. toAgent \in Seq(ToAgentFrames) /\ toAgent # <<>> /\ toAgent' = Tail(toAgent)
    BY DEF TypeInv, TypeOK, PipeType, Router
<1>2. /\ Len(toAgent) \in Nat \ {0} /\ toAgent' \in Seq(ToAgentFrames)
      /\ Len(toAgent') = Len(toAgent) - 1
      /\ \A i \in 1..Len(toAgent') : toAgent'[i] = toAgent[i + 1]
    BY <1>1, HeadTailProperties, EmptySeq
<1>3. (Len(toAgent) = 1 => toAgent' = <<>>) /\ (Len(toAgent) > 1 => toAgent' # <<>>)
    BY <1>2, EmptySeq
<1>4. Head(toAgent) = toAgent[1]
    BY <1>1
<1>5. UNCHANGED <<job, stage>>
    BY DEF Router
<1> QED BY <1>1, <1>2, <1>3, <1>4, <1>5

-----------------------------------------------------------------------------
(* The agent's steps.                                                      *)

LEMMA RouterStill == ASSUME TypeInv, Still, Router PROVE Still'
<1>1. Head(toAgent).type = "error"
    BY RouterOne DEF Still
<1>2. UNCHANGED <<toBridge, mainq>>
    BY <1>1 DEF Router
<1>3. \A i \in 1..Len(toAgent') : toAgent'[i].type = "error"
    BY RouterOne DEF Still
<1> QED BY <1>2, <1>3, RouterOne DEF Still, Quiet

LEMMA RouterUnderway ==
    ASSUME TypeInv, NEW S, \A f \in S : f.type \notin {"ping", "health", "error"},
           Underway(S), Router
    PROVE  Underway(S)'
<1>1. /\ Quiet /\ toAgent[Len(toAgent)] \in S
      /\ \A i \in 1 .. Len(toAgent) - 1 : toAgent[i].type = "error"
    BY RouterOne DEF Underway
<1>2. CASE Len(toAgent) = 1
  <2>1. Head(toAgent) \in S
      BY <1>1, <1>2, RouterOne
  <2>2. mainq' = Append(<<>>, Head(toAgent)) /\ UNCHANGED toBridge
      BY <1>1, <2>1 DEF Router, Quiet
  <2>3. Len(mainq') = 1 /\ mainq'[1] \in S
      BY <2>1, <2>2
  <2> QED BY <1>1, <1>2, <2>2, <2>3, RouterOne DEF Underway, Quiet
<1>3. CASE Len(toAgent) > 1
  <2>1. Head(toAgent).type = "error"
      BY <1>1, <1>3, RouterOne
  <2>2. UNCHANGED <<toBridge, mainq>>
      BY <2>1 DEF Router
  <2>3. toAgent'[Len(toAgent')] \in S
      BY <1>1, <1>3, RouterOne
  <2>4. \A i \in 1 .. Len(toAgent') - 1 : toAgent'[i].type = "error"
      BY <1>1, RouterOne
  <2>5. Quiet'
      BY <1>1, <2>2, RouterOne DEF Quiet
  <2> QED BY <1>3, <2>3, <2>4, <2>5, RouterOne DEF Underway
<1> QED BY <1>2, <1>3, RouterOne

LEMMA MainRests ==
    ASSUME TypeInv, mainq = <<>>, job = 0
    PROVE  ~Main
BY DEF TypeInv, Counters, Main, MainRequest, EffortRestart, EffortFails, StreamStart,
   StreamChunk, MainRespond, MainState, MainUnknown, MainNext

\* the main thread takes the only frame there is for it
LEMMA MainTakes ==
    ASSUME TypeInv, Len(mainq) = 1
    PROVE  Tail(mainq) = <<>> /\ mainq # <<>> /\ Head(mainq) = mainq[1]
<1>1. mainq \in Seq(ToAgentFrames)
    BY DEF TypeInv, TypeOK, AgentType
<1>2. mainq # <<>>
    OBVIOUS
<1>3. Tail(mainq) \in Seq(ToAgentFrames) /\ Len(Tail(mainq)) = 0
    BY <1>1, <1>2, HeadTailProperties
<1>4. Tail(mainq) = <<>>
    BY <1>3, EmptySeq
<1>5. Head(mainq) = mainq[1]
    BY <1>1, <1>2
<1> QED BY <1>2, <1>4, <1>5

LEMMA StateAnswered ==
    ASSUME TypeInv, Underway(StateFrames), Main
    PROVE  OpPending'
<1>1. /\ toAgent = <<>> /\ job = 0 /\ stage = "idle" /\ toBridge = <<>>
      /\ Len(mainq) = 1 /\ mainq[1].type \in StateOps
    BY MainRests DEF Underway, Quiet, StateFrames, TypeInv, Counters
<1>2. mainq # <<>> /\ Head(mainq) = mainq[1] /\ Tail(mainq) = <<>>
    BY <1>1, MainTakes
<1>3. MainState
    BY <1>1, <1>2 DEF Main, MainRequest, EffortRestart, EffortFails, StreamStart,
       StreamChunk, MainRespond, MainUnknown, MainNext, StateOps
<1>4. mainq' = <<>> /\ UNCHANGED <<toAgent, job>>
    BY <1>2, <1>3 DEF MainState
<1>5. Len(toBridge') = 1 /\ toBridge'[1].type = "ack"
  <2>1. Frame("ack", 0) \in ToBridgeFrames /\ Frame("ack", 0).type = "ack"
      BY DEF Frame, ToBridgeFrames
  <2>2. Answer(<<Frame("ack", 0)>>)
      BY <1>3 DEF MainState
  <2>3. Len(toBridge) = 0
      BY <1>1
  <2> QED BY <2>1, <2>2, <2>3, AnswerOne
<1> QED BY <1>1, <1>4, <1>5 DEF OpPending

LEMMA RequestAnswered ==
    ASSUME TypeInv, reqId \in Nat, Underway({Frame("request", reqId)}), Main
    PROVE  RequestPending'
<1>1. /\ toAgent = <<>> /\ job = 0 /\ stage = "idle" /\ toBridge = <<>>
      /\ Len(mainq) = 1 /\ mainq[1] = Frame("request", reqId)
    BY MainRests DEF Underway, Quiet, TypeInv, Counters
<1>2. mainq # <<>> /\ Head(mainq) = mainq[1] /\ Tail(mainq) = <<>>
    BY <1>1, MainTakes
<1>3. Head(mainq).type = "request" /\ Head(mainq).id = reqId
    BY <1>1, <1>2 DEF Frame
<1>4. MainRequest
    BY <1>1, <1>3 DEF Main, MainState, EffortRestart, EffortFails, StreamStart,
       StreamChunk, MainRespond, MainUnknown, MainNext, StateOps
<1>5. mainq' = <<>> /\ UNCHANGED <<toAgent, reqId>> /\ job' \in {0, reqId}
    BY <1>1, <1>2, <1>3, <1>4 DEF MainRequest, AgentUnchanged, flagVars
<1>6. PICK t \in {"ack", "busy", "rejected"} : Answer(<<Frame(t, reqId)>>)
    BY <1>3, <1>4, ChoicesAssumption DEF MainRequest
<1>7. Len(toBridge') = 1 /\ toBridge' # <<>> /\ AckFrame(toBridge'[1]) /\ toBridge'[1].id = reqId
  <2>1. /\ Frame(t, reqId) \in ToBridgeFrames /\ AckFrame(Frame(t, reqId))
        /\ Frame(t, reqId).id = reqId
      BY DEF Frame, ToBridgeFrames, AckFrame
  <2>2. Len(toBridge) = 0
      BY <1>1
  <2> QED BY <1>6, <2>1, <2>2, AnswerOne
<1>8. StreamFrom(2)'
    BY <1>1, <1>5, <1>7 DEF StreamFrom
<1> QED BY <1>5, <1>7, <1>8 DEF RequestPending

LEMMA StreamGrows ==
    ASSUME TypeInv, NEW n \in {1, 2}, n = 2 => toBridge # <<>>, StreamFrom(n), Main
    PROVE  /\ StreamFrom(n)'
           /\ toBridge # <<>> => toBridge' # <<>> /\ toBridge'[1] = toBridge[1]
<1>1. /\ toAgent = <<>> /\ mainq = <<>> /\ job = reqId /\ job # 0 /\ stage # "idle"
    BY MainRests DEF StreamFrom, TypeInv, Counters, Main, MainRequest, EffortRestart,
       EffortFails, StreamStart, StreamChunk, MainRespond, MainState, MainUnknown, MainNext
<1>2. \A i \in n..Len(toBridge) : /\ toBridge[i].type \in {"event", "text_delta"}
                                  /\ toBridge[i].id \in {0, reqId}
    BY <1>1 DEF StreamFrom
<1>3. PICK f \in ToBridgeFrames :
         /\ Answer(<<f>>) /\ f.type \in {"event", "text_delta", "response", "error"}
         /\ f.id \in {0, reqId} /\ (f.type \in {"response", "error"} => job' = 0)
  <2>1. job \in Nat \ {0}
      BY <1>1 DEF TypeInv, TypeOK, AgentType
  <2>2. CASE EffortRestart \/ StreamStart
      BY <2>2 DEF EffortRestart, StreamStart, Frame, ToBridgeFrames
  <2>3. CASE EffortFails
      BY <2>3 DEF EffortFails, Frame, ToBridgeFrames
  <2>4. CASE MainRespond
    <3>1. PICK q \in Quotes : Answer(<<Text("response", job, q)>>)
        BY <2>4 DEF MainRespond
    <3>2. Text("response", job, q) \in ToBridgeFrames
        BY <2>1, ToBridgeFrameType
    <3> QED BY <1>1, <2>4, <3>1, <3>2 DEF MainRespond, Text
  <2>5. CASE StreamChunk
    <3>1. CASE Answer(<<Frame("event", 0)>>)
        BY <3>1 DEF Frame, ToBridgeFrames
    <3>2. CASE \E q \in Quotes : Answer(<<Text("text_delta", job, q)>>)
      <4>1. PICK q \in Quotes : Answer(<<Text("text_delta", job, q)>>)
          BY <3>2
      <4>2. Text("text_delta", job, q) \in ToBridgeFrames
          BY <2>1, ToBridgeFrameType
      <4> QED BY <1>1, <4>1, <4>2 DEF Text
    <3> QED BY <2>5, <3>1, <3>2 DEF StreamChunk
  <2> QED BY <1>1, <2>2, <2>3, <2>4, <2>5 DEF Main, MainRequest, MainState, MainUnknown,
            MainNext
<1>4. mainq' = mainq /\ toAgent' = toAgent /\ job' \in {0, job} /\ reqId' = reqId
    BY <1>1 DEF Main, MainRequest, MainState, MainUnknown, MainNext, EffortRestart,
       EffortFails, StreamStart, StreamChunk, MainRespond, AgentUnchanged, flagVars
<1>5. /\ Len(toBridge) \in Nat /\ Len(toBridge') = Len(toBridge) + 1 /\ toBridge' # <<>>
      /\ toBridge'[Len(toBridge')] = f
      /\ \A i \in 1..Len(toBridge) : toBridge'[i] = toBridge[i]
    BY <1>3, AnswerOne
<1>6. ASSUME NEW i \in n..Len(toBridge')
      PROVE  /\ toBridge'[i].type \in {"event", "text_delta", "response", "error"}
             /\ toBridge'[i].id \in {0, reqId}
             /\ toBridge'[i].type \in {"response", "error"} => i = Len(toBridge') /\ job' = 0
  <2>1. CASE i = Len(toBridge')
      BY <1>3, <1>5, <2>1
  <2>2. CASE i # Len(toBridge')
    <3>1. i \in n..Len(toBridge) /\ i \in 1..Len(toBridge)
        BY <1>5, <2>2
    <3> QED BY <1>2, <1>5, <3>1
  <2> QED BY <2>1, <2>2
<1>7. StreamFrom(n)'
    BY <1>1, <1>4, <1>6 DEF StreamFrom
<1>8. toBridge # <<>> => toBridge'[1] = toBridge[1]
  <2>1. toBridge # <<>> => 1 \in 1..Len(toBridge)
      BY <1>5, EmptySeq DEF TypeInv, TypeOK, PipeType
  <2> QED BY <1>5, <2>1
<1> QED BY <1>5, <1>7, <1>8

-----------------------------------------------------------------------------
(* The server's steps.                                                     *)

\* the server writes a frame and waits for its answer
LEMMA SendUnderway ==
    ASSUME TypeInv, Still, NEW S, NEW f \in ToAgentFrames, f \in S, Send(<<f>>),
           UNCHANGED <<toBridge, mainq, job>>
    PROVE  Underway(S)'
<1>1. Quiet'
    BY DEF Still, Quiet
<1>2. \A i \in 1..Len(toAgent') - 1 : toAgent'[i].type = "error"
    BY SendOne DEF Still
<1> QED BY <1>1, <1>2, SendOne DEF Underway

LEMMA SendErrorStill ==
    ASSUME TypeInv, Still, SendError, UNCHANGED <<toBridge, mainq, job>>
    PROVE  Still'
<1> DEFINE f == Frame("error", 0)
<1>1. f \in ToAgentFrames /\ f.type = "error"
    BY DEF Frame, ToAgentFrames
<1>2. Send(<<f>>)
    BY DEF SendError
<1> HIDE DEF f
<1>3. \A i \in 1..Len(toAgent') : toAgent'[i].type = "error"
  <2>1. /\ Len(toAgent) \in Nat /\ Len(toAgent') = Len(toAgent) + 1
        /\ toAgent'[Len(toAgent')] = f
        /\ \A i \in 1..Len(toAgent) : toAgent'[i] = toAgent[i]
      BY <1>1, <1>2, SendOne
  <2> QED BY <1>1, <2>1 DEF Still
<1> QED BY <1>3 DEF Still, Quiet

\* the answer to a state operation is all there is
LEMMA AnswerTaken ==
    ASSUME TypeInv, OpPending, Receive, UNCHANGED <<toAgent, mainq, job>>
    PROVE  Clear'
<1>1. toBridge # <<>>
    BY DEF Receive
<1>2. toAgent = <<>> /\ mainq = <<>> /\ job = 0 /\ Len(toBridge) = 1
    BY <1>1 DEF OpPending, Underway, Quiet
<1> QED BY <1>2, ReceiveOne DEF Clear, Quiet

\* what is left of the stream when its first frame has been read
LEMMA StreamRead ==
    ASSUME TypeInv, NEW n \in {1, 2}, StreamFrom(n), Receive,
           UNCHANGED <<toAgent, mainq, job, reqId>>
    PROVE  StreamFrom(1)'
<1>1. /\ Len(toBridge) \in Nat \ {0} /\ Len(toBridge') = Len(toBridge) - 1
      /\ \A i \in 1..Len(toBridge') : toBridge'[i] = toBridge[i + 1]
    BY ReceiveOne
<1>2. ASSUME NEW i \in 1..Len(toBridge')
      PROVE  /\ toBridge'[i].type \in {"event", "text_delta", "response", "error"}
             /\ toBridge'[i].id \in {0, reqId}
             /\ toBridge'[i].type \in {"response", "error"} => i = Len(toBridge') /\ job = 0
  <2>1. i + 1 \in n..Len(toBridge) /\ toBridge'[i] = toBridge[i + 1]
      BY <1>1
  <2>2. i + 1 = Len(toBridge) => i = Len(toBridge')
      BY <1>1
  <2> QED BY <2>1, <2>2 DEF StreamFrom
<1> QED BY <1>2 DEF StreamFrom

LEMMA BeginInStep ==
    ASSUME TypeInv, EndInv, SyncInv, Serve, clean'
    PROVE  InStep'
<1>1. pc \notin TurnPcs
    BY DEF Serve, PostTurn, CompactTurn, TurnUnavailable, IdleDelete, IdleModels,
       HealthSend, HealthRead, HealthTimeout, Arrived, TurnPcs
<1>2. ~clean
    BY <1>1 DEF SyncInv, InStep
<1>3. PostTurn
    BY <1>2 DEF Serve, CompactTurn, TurnUnavailable, IdleDelete, IdleModels,
       HealthSend, HealthRead, HealthTimeout, HealthAnswer, ghostVars
<1>4. InSync /\ turnActive' = TRUE
    BY <1>3 DEF PostTurn
<1>5. /\ pc = "idle" /\ pc' = "session" /\ UNCHANGED <<verdict, toAgent, toBridge, mainq, job, hb>>
    BY <1>3 DEF PostTurn, BeginTurn, Arrived, agentVars, hbVars
<1>6. verdict = "none"
    BY <1>5 DEF EndInv
<1>7. Still'
    BY <1>4, <1>5 DEF InSync, Still, Quiet
<1> QED BY <1>4, <1>5, <1>6, <1>7 DEF InStep, PipesInStep, InSync, TurnPcs

LEMMA SessionInStep ==
    ASSUME TypeInv, EndInv, SyncInv, clean',
           \/ SessionSend \/ SessionAck \/ SessionTimeout \/ SessionError \/ SessionNotice
           \/ SendRequest
    PROVE  InStep'
<1>1. /\ clean /\ pc \in {"session", "sessack", "sesserr"}
      /\ pc' \in {"session", "sessack", "sesserr", "ack"}
      /\ UNCHANGED <<verdict, turnActive, hb, mainq, job, reqId>>
    BY DEF SessionSend, SessionAck, SessionTimeout, SessionError, SessionNotice, SendRequest,
       SessionUnchanged, ctxVars, flagVars, agentVars, hbVars, ghostVars
<1>2. verdict = "none" /\ InStep
    BY <1>1 DEF EndInv, SyncInv
<1>3. CASE SessionSend
  <2>1. Head(plan) \in PlanSteps \ {"error"}
      BY <1>3, HeadTailProperties DEF SessionSend, TypeInv, TypeOK, ServerType
  <2>2. PICK f : f = Frame(Head(plan), 0)
      OBVIOUS
  <2>3. f \in StateFrames /\ f \in ToAgentFrames
      BY <2>1, <2>2 DEF Frame, StateFrames, ToAgentFrames, PlanSteps
  <2>4. Send(<<f>>) /\ pc = "session" /\ pc' = "sessack" /\ UNCHANGED toBridge
      BY <1>3, <2>2 DEF SessionSend
  <2>5. OpPending'
      BY <1>1, <1>2, <2>3, <2>4, SendUnderway DEF InStep, PipesInStep, OpPending
  <2> QED BY <1>1, <1>2, <2>4, <2>5 DEF InStep, PipesInStep, TurnPcs
<1>4. CASE SessionAck
  <2>1. pc = "sessack" /\ Receive /\ UNCHANGED toAgent /\ pc' \in {"session", "sesserr"}
      BY <1>4 DEF SessionAck
  <2>2. Clear'
      BY <1>1, <1>2, <2>1, AnswerTaken DEF InStep, PipesInStep
  <2>3. Still'
      BY <2>2 DEF Clear, Still
  <2> QED BY <1>1, <1>2, <2>1, <2>3 DEF InStep, PipesInStep, TurnPcs
<1>5. CASE SessionTimeout
    BY <1>5 DEF SessionTimeout
<1>6. CASE SessionError \/ SessionNotice
  <2>1. SendError /\ UNCHANGED toBridge /\ pc' = "session" /\ pc \in {"session", "sesserr"}
      BY <1>6 DEF SessionError, SessionNotice
  <2>2. Still'
      BY <1>1, <1>2, <2>1, SendErrorStill DEF InStep, PipesInStep
  <2> QED BY <1>1, <1>2, <2>1, <2>2 DEF InStep, PipesInStep, TurnPcs
<1>7. CASE SendRequest
  <2>1. PICK r : r = reqId
      OBVIOUS
  <2>2. Frame("request", r) \in ToAgentFrames
    <3>1. r \in Nat \ {0}
        BY <1>1, <2>1 DEF TypeInv, TypeOK, HttpType, Counters, TurnPcs
    <3> QED BY <3>1 DEF Frame, ToAgentFrames
  <2>3. Send(<<Frame("request", r)>>) /\ pc = "session" /\ pc' = "ack" /\ UNCHANGED toBridge
      BY <1>7, <2>1 DEF SendRequest
  <2>4. Underway({Frame("request", r)})'
      BY <1>1, <1>2, <2>2, <2>3, SendUnderway DEF InStep, PipesInStep
  <2>5. RequestPending'
      BY <1>1, <2>1, <2>4 DEF RequestPending
  <2> QED BY <1>1, <1>2, <2>3, <2>5 DEF InStep, PipesInStep, TurnPcs
<1> QED BY <1>3, <1>4, <1>5, <1>6, <1>7

LEMMA AckInStep ==
    ASSUME TypeInv, EndInv, SyncInv, clean', AckSkip \/ AckRead \/ AckTimeout
    PROVE  InStep'
<1>1. /\ clean /\ pc = "ack"
      /\ UNCHANGED <<turnActive, hb, mainq, job, reqId, toAgent>>
    BY DEF AckSkip, AckRead, AckTimeout, AckUnchanged, flagVars, agentVars, hbVars, ghostVars
<1>2. verdict = "none" /\ InStep /\ RequestPending
    BY <1>1 DEF EndInv, SyncInv, InStep, PipesInStep
<1>3. CASE Receive
  <2>1. /\ AckFrame(Head(toBridge)) /\ Head(toBridge).id = reqId /\ StreamFrom(2)
    <3>1. toBridge # <<>>
        BY <1>3 DEF Receive
    <3>2. AckFrame(toBridge[1]) /\ toBridge[1].id = reqId /\ StreamFrom(2)
        BY <1>2, <3>1 DEF RequestPending, Underway, Quiet
    <3> QED BY <1>3, <3>2, ReceiveOne
  <2>2. StreamFrom(1)'
      BY <1>1, <1>3, <2>1, StreamRead
  <2>3. AckRead \/ AckTimeout
      BY <2>1 DEF AckSkip, AckFrame, Lifecycle, LifecycleTypes
  <2>4. \/ pc' = "turnerr" /\ verdict' \in {"busy", "ack_timeout"}
        \/ pc' = "finish" /\ verdict' = "rejected"
        \/ pc' = "poll" /\ UNCHANGED verdict
      BY <2>1, <2>3 DEF AckRead, AckTimeout, Report, EndTurn, Acknowledges, Names, Spells
  <2> QED BY <1>1, <1>2, <2>2, <2>4 DEF InStep, PipesInStep, TurnPcs
<1>4. CASE ~Receive
  <2>1. AckTimeout
      BY <1>4 DEF AckSkip, AckRead
  <2>2. pc' = "turnerr" /\ verdict' = "ack_timeout"
      BY <2>1 DEF AckTimeout, Report
  <2> QED BY <2>2 DEF InStep, PipesInStep, TurnPcs
<1> QED BY <1>3, <1>4

LEMMA EventsInStep ==
    ASSUME TypeInv, EndInv, SyncInv, clean',
           PollControl \/ EventLimit \/ ReadFrame \/ ReadTimeout
    PROVE  InStep'
<1>1. clean /\ pc \in {"poll", "read"} /\ UNCHANGED <<hb, mainq, job, reqId>>
    BY DEF PollControl, EventLimit, ReadFrame, ReadTimeout, DrainControlPlane, flagVars,
       agentVars, hbVars, ghostVars
<1>2. verdict = "none" /\ InStep /\ StreamFrom(1)
    BY <1>1 DEF EndInv, SyncInv, InStep, PipesInStep
<1>3. CASE pc' \in {"turnerr", "finish"} /\ verdict' \in {"cancelled", "limit", "timeout", "agent_error"}
    BY <1>3 DEF InStep, PipesInStep, TurnPcs
<1>4. CASE /\ pc' \in {"poll", "read"}
           /\ UNCHANGED <<verdict, turnActive, toAgent, toBridge>>
  <2>1. StreamFrom(1)'
      BY <1>1, <1>2, <1>4 DEF StreamFrom
  <2> QED BY <1>1, <1>2, <1>4, <2>1 DEF InStep, PipesInStep, TurnPcs
<1>5. CASE PollControl
  <2>1. CASE cancelled'
      BY <1>3, <1>5, <2>1 DEF PollControl, EndTurn
  <2>2. CASE ~cancelled'
    <3>1. pc' = "read" /\ UNCHANGED <<verdict, toBridge>> /\ DrainControlPlane
        BY <1>5, <2>2 DEF PollControl
    <3>2. UNCHANGED <<turnActive, toAgent>>
        BY <2>2, <3>1 DEF DrainControlPlane
    <3> QED BY <1>4, <3>1, <3>2
  <2> QED BY <2>1, <2>2
<1>6. CASE EventLimit
    BY <1>3, <1>6 DEF EventLimit, EndTurn
<1>7. CASE ReadTimeout
    BY <1>3, <1>4, <1>7 DEF ReadTimeout, Report, NothingRead, flagVars
<1>8. CASE ReadFrame
  <2>1. Receive /\ UNCHANGED <<turnActive, toAgent>>
      BY <1>8 DEF ReadFrame, flagVars
  <2>2. /\ Head(toBridge).type \in {"event", "text_delta", "response", "error"}
        /\ Head(toBridge).id \in {0, reqId}
        /\ Head(toBridge).type = "response" => Len(toBridge) = 1 /\ job = 0
    <3>1. 1 \in 1..Len(toBridge) /\ Head(toBridge) = toBridge[1]
        BY <2>1, ReceiveOne
    <3> QED BY <1>2, <3>1 DEF StreamFrom
  <2>3. StreamFrom(1)'
      BY <1>1, <1>2, <2>1, StreamRead
  <2>4. \/ pc' = "poll" /\ UNCHANGED verdict
        \/ pc' = "finish" /\ verdict' = "agent_error"
        \/ pc' \in {"save", "finish"} /\ verdict' = "ok" /\ Head(toBridge).type = "response"
    <3> DEFINE f == Head(toBridge)
    <3>1. ~Lifecycle(f) /\ ~Mismatch(f)
        BY <2>2 DEF Lifecycle, LifecycleTypes, Mismatch, Names, Spells
    <3> QED BY <1>8, <3>1 DEF ReadFrame, Continue, Complete, Report, EndTurn
  <2>5. CASE pc' = "poll" /\ UNCHANGED verdict
      BY <1>1, <1>2, <2>1, <2>3, <2>5 DEF InStep, PipesInStep, TurnPcs
  <2>6. CASE pc' = "finish" /\ verdict' = "agent_error"
      BY <1>3, <2>6
  <2>7. CASE pc' \in {"save", "finish"} /\ verdict' = "ok" /\ Head(toBridge).type = "response"
    <3>1. Clear'
        BY <1>1, <1>2, <2>1, <2>2, <2>7, ReceiveOne DEF StreamFrom, Clear, Quiet
    <3> QED BY <1>1, <1>2, <2>1, <2>7, <3>1 DEF InStep, PipesInStep, TurnPcs
  <2> QED BY <2>4, <2>5, <2>6, <2>7
<1> QED BY <1>5, <1>6, <1>7, <1>8

LEMMA EndInStep ==
    ASSUME TypeInv, EndInv, SyncInv, clean',
           SaveSend \/ SaveAck \/ SaveTimeout \/ TurnError \/ FinishTurn
    PROVE  InStep'
<1>1. ~SaveTimeout /\ ~FinishTurn
    BY DEF SaveTimeout, FinishTurn
<1>2. /\ clean /\ pc \in {"save", "saveack", "turnerr"}
      /\ UNCHANGED <<verdict, turnActive, hb, mainq, job, reqId>>
    BY <1>1 DEF SaveSend, SaveAck, TurnError, SaveUnchanged, ctxVars, flagVars, agentVars,
       hbVars, ghostVars
<1>3. InStep
    BY <1>2 DEF SyncInv
<1>4. CASE SaveSend
  <2>1. Frame("save_state", 0) \in StateFrames /\ Frame("save_state", 0) \in ToAgentFrames
      BY DEF Frame, StateFrames, ToAgentFrames, StateOps
  <2>2. Send(<<Frame("save_state", 0)>>) /\ pc = "save" /\ pc' = "saveack" /\ UNCHANGED toBridge
      BY <1>4 DEF SaveSend
  <2>3. Still
      BY <1>3, <2>2 DEF InStep, PipesInStep, Clear, Still
  <2>4. OpPending'
      BY <1>2, <2>1, <2>2, <2>3, SendUnderway DEF OpPending
  <2> QED BY <1>2, <1>3, <2>2, <2>4 DEF InStep, PipesInStep, TurnPcs
<1>5. CASE SaveAck
  <2>1. Receive /\ UNCHANGED toAgent /\ pc = "saveack" /\ pc' = "finish"
      BY <1>5 DEF SaveAck
  <2>2. Clear'
      BY <1>2, <1>3, <2>1, AnswerTaken DEF InStep, PipesInStep
  <2> QED BY <1>2, <1>3, <2>1, <2>2 DEF InStep, PipesInStep, TurnPcs
<1>6. CASE TurnError
  <2>1. pc = "turnerr" /\ pc' = "finish"
      BY <1>6 DEF TurnError
  <2> QED BY <1>2, <1>3, <2>1 DEF InStep, PipesInStep, TurnPcs
<1> QED BY <1>1, <1>4, <1>5, <1>6

-----------------------------------------------------------------------------
(* The other actors' steps.                                                *)

\* with nothing on its way, neither thread of the agent has anything to do
LEMMA AgentRests ==
    ASSUME TypeInv, toAgent = <<>>, mainq = <<>>, job = 0
    PROVE  ~Router /\ ~Main
BY MainRests DEF Router

LEMMA OpPendingStep ==
    ASSUME TypeInv, OpPending, Router \/ Main
    PROVE  OpPending'
<1>1. Underway(StateFrames)
    BY AgentRests DEF OpPending
<1>2. \A f \in StateFrames : f.type \notin {"ping", "health", "error"}
    BY DEF StateFrames, StateOps
<1>3. CASE Router  BY <1>1, <1>2, <1>3, RouterUnderway DEF OpPending
<1>4. CASE Main    BY <1>1, <1>4, StateAnswered
<1> QED BY <1>3, <1>4

LEMMA RequestPendingStep ==
    ASSUME TypeInv, reqId \in Nat, RequestPending, Router \/ Main
    PROVE  RequestPending'
<1>1. UNCHANGED reqId
    BY AgentFrame DEF flagVars
<1>2. CASE Underway({Frame("request", reqId)}) /\ Router
  <2>1. PICK r : r = reqId
      OBVIOUS
  <2>2. Underway({Frame("request", r)})'
    <3>1. \A f \in {Frame("request", r)} : f.type \notin {"ping", "health", "error"}
        BY DEF Frame
    <3> QED BY <1>2, <2>1, <3>1, RouterUnderway
  <2> QED BY <1>1, <2>1, <2>2 DEF RequestPending
<1>3. CASE Underway({Frame("request", reqId)}) /\ Main
    BY <1>3, RequestAnswered
<1>4. CASE ~Underway({Frame("request", reqId)})
  <2>1. toBridge # <<>> /\ AckFrame(toBridge[1]) /\ toBridge[1].id = reqId /\ StreamFrom(2)
      BY <1>4 DEF RequestPending
  <2>2. Main
      BY <2>1 DEF StreamFrom, Router
  <2>3. StreamFrom(2)' /\ toBridge' # <<>> /\ toBridge'[1] = toBridge[1]
      BY <2>1, <2>2, StreamGrows
  <2> QED BY <1>1, <2>1, <2>3 DEF RequestPending, AckFrame
<1> QED BY <1>2, <1>3, <1>4

LEMMA AgentInStep ==
    ASSUME TypeInv, EndInv, SyncInv, clean', Router \/ Main
    PROVE  InStep'
<1>1. clean /\ UNCHANGED <<pc, verdict, turnActive, hb, reqId>>
    BY AgentFrame DEF ctxVars, flagVars, hbVars, ghostVars
<1>2. InStep /\ reqId \in Nat
    BY <1>1 DEF SyncInv, TypeInv, TypeOK, EngineType
<1>3. pc \in {"session", "sesserr"} => Still'
    BY <1>2, RouterStill, MainRests DEF InStep, PipesInStep, Still, Quiet
<1>4. pc \in {"sessack", "saveack"} => OpPending'
    BY <1>2, OpPendingStep DEF InStep, PipesInStep
<1>5. pc = "ack" => RequestPending'
    BY <1>2, RequestPendingStep DEF InStep, PipesInStep
<1>6. pc \in {"poll", "read"} => StreamFrom(1)'
  <2>1. StreamFrom(1) => Main
      BY DEF StreamFrom, Router
  <2> QED BY <1>2, <2>1, StreamGrows DEF InStep, PipesInStep
<1>7. ~(pc = "save" \/ (pc = "finish" /\ verdict = "ok"))
    BY <1>2, AgentRests DEF InStep, PipesInStep, Clear, Quiet
<1>8. PipesInStep'
    BY <1>1, <1>3, <1>4, <1>5, <1>6, <1>7 DEF PipesInStep
<1> QED BY <1>1, <1>2, <1>8 DEF InStep

\* while the turn runs turn_active keeps the heartbeat asleep
LEMMA HeartbeatInStep ==
    ASSUME TypeInv, EndInv, SyncInv, clean', Heartbeat
    PROVE  InStep'
<1>1. clean /\ UNCHANGED <<pc, verdict, turnActive>>
    BY HeartbeatFrame DEF ctxVars, ghostVars
<1>2. InStep
    BY <1>1 DEF SyncInv
<1>3. verdict \notin {"none", "ok"}
    BY <1>2 DEF InStep, Heartbeat, HbWake, HbPing, HbRead, HbTimeout, HbFail, MayPing
<1>4. pc \in {"turnerr", "finish"}
    BY <1>2, <1>3 DEF EndInv, InStep
<1> QED BY <1>1, <1>2, <1>3, <1>4 DEF InStep, PipesInStep

LEMMA SyncInvStep ==
    ASSUME TypeInv, EndInv, SyncInv, [Next]_vars
    PROVE  SyncInv'
<1> SUFFICES ASSUME clean' PROVE InStep'
    BY DEF SyncInv
<1>1. CASE ClientConnect \/ UNCHANGED vars
  <2>1. UNCHANGED <<pc, verdict, turnActive, reqId, clean, toAgent, toBridge, mainq, job, hb>>
      BY <1>1, ClientFrame DEF vars, ctxVars, flagVars, agentVars, hbVars, ghostVars
  <2> QED BY <2>1 DEF SyncInv, InStep, PipesInStep, Still, Quiet, Clear, OpPending, Underway,
            RequestPending, StreamFrom
<1>2. CASE Serve  BY <1>2, BeginInStep
<1>3. CASE RunTurn
    BY <1>3, SessionInStep, AckInStep, EventsInStep, EndInStep DEF RunTurn
<1>4. CASE Router \/ Main  BY <1>4, AgentInStep
<1>5. CASE Heartbeat       BY <1>5, HeartbeatInStep
<1> QED BY <1>1, <1>2, <1>3, <1>4, <1>5 DEF Next, Server

LEMMA SyncAlways == Spec => [](TypeInv /\ EndInv /\ SyncInv)
<1>1. Init => TypeInv /\ EndInv /\ SyncInv
    BY InitTypeInv, InitEndInv DEF Init, SyncInv
<1>2. TypeInv /\ EndInv /\ SyncInv /\ [Next]_vars => (TypeInv /\ EndInv /\ SyncInv)'
    BY TypeInvStep, EndInvStep, SyncInvStep
<1> QED BY <1>1, <1>2, PTL DEF Spec

\* A turn that begins with nothing in flight, and whose state operations are
\* answered before their timeouts, never reads a frame that is not for it, in
\* turn_await_ack or turn_process_events: turn_active keeps pings and pongs off
\* the connection, and every operation takes its one answer with it.
THEOREM StaysInSync == Spec => []CleanTurnStaysInSync
<1>1. SyncInv => CleanTurnStaysInSync
    BY DEF SyncInv, InStep, CleanTurnStaysInSync
<1> QED BY <1>1, SyncAlways, PTL

\* When such a turn answers normally, its response and the answer to its
\* engine_save_session_state were the last frames: the next turn begins in sync.
THEOREM LeavesSync == Spec => []CleanTurnLeavesSync
<1>1. SyncInv => CleanTurnLeavesSync
    BY DEF SyncInv, InStep, PipesInStep, Clear, Quiet, CleanTurnLeavesSync
<1> QED BY <1>1, SyncAlways, PTL

-----------------------------------------------------------------------------
(* The text a turn answers with.                                           *)

\* A smaller number names no larger one: digits taken off a number never give a
\* number above it.
LEMMA SpellsUp ==
    ASSUME NEW i \in Nat, NEW j \in Nat, i <= j, Spells(i, j)
    PROVE  i = j
<1>1. ASSUME NEW p \in 1..i, i \div p = j PROVE i = j
  <2>1. p \in Nat \ {0} /\ p * j <= i
      BY <1>1
  <2>2. j <= p * j
      BY <2>1
  <2> QED BY <2>1, <2>2
<1> QED BY <1>1 DEF Spells

\* Request numbers only grow: what is in flight is for the last request or for
\* an earlier one.
OrderInv ==
    /\ reqId <= served /\ job <= reqId /\ (stage = "idle" => job = 0)
    /\ \A k \in 1..Len(mainq) : mainq[k].type = "request" => mainq[k].id <= reqId
    /\ \A k \in 1..Len(toAgent) : toAgent[k].type = "request" => toAgent[k].id <= reqId
    /\ \A k \in 1..Len(toBridge) : ~Lifecycle(toBridge[k]) => toBridge[k].id <= reqId

Other(f) == f.type = "request" /\ f.id # reqId
IsOwn(f) == f.type = "request" /\ f.id = reqId

\* No request follows the last one to the agent.
LastInv ==
    /\ \A j \in 1..Len(mainq) : IsOwn(mainq[j]) =>
          /\ \A k \in 1..Len(mainq) : k > j => ~Other(mainq[k])
          /\ \A k \in 1..Len(toAgent) : ~Other(toAgent[k])
    /\ \A j \in 1..Len(toAgent) : IsOwn(toAgent[j]) =>
          \A k \in 1..Len(toAgent) : k > j => ~Other(toAgent[k])

\* From toBridge[n] on there is nothing of another request, nor will there be.
OwnFrom(n) ==
    /\ job \in {0, reqId}
    /\ \A k \in 1..Len(mainq) : ~Other(mainq[k])
    /\ \A k \in 1..Len(toAgent) : ~Other(toAgent[k])
    /\ \A k \in 1..Len(toBridge) :
          k >= n /\ ~Lifecycle(toBridge[k]) => toBridge[k].id \in {0, reqId}

OwnAck(f) == AckFrame(f) /\ f.id = reqId /\ f.id # 0

\* The agent works in order, so its acknowledgement of the last request is behind
\* whatever it wrote for earlier ones.
AckInv  == \A n \in 1..Len(toBridge) : OwnAck(toBridge[n]) => OwnFrom(n)
PollInv == pc \in {"poll", "read"} => OwnFrom(1)

AckedInv == OrderInv /\ LastInv /\ AckInv /\ PollInv

\* what the bridge's threads do to the pipes: read a frame, write one of their own
BridgeMove ==
    /\ UNCHANGED <<mainq, job, stage, reqId>>
    /\ UNCHANGED toBridge \/ Receive
    /\ \/ UNCHANGED toAgent
       \/ \E f \in ToAgentFrames : Send(<<f>>) /\ ~Other(f)

LEMMA CancelMove ==
    ASSUME TypeInv, Send(CancelFrame)
    PROVE  \/ UNCHANGED toAgent
           \/ \E f \in ToAgentFrames : Send(<<f>>) /\ ~Other(f)
<1>1. CASE cancelled
  <2>1. toAgent \in Seq(ToAgentFrames) /\ toAgent' = toAgent \o <<>>
      BY <1>1 DEF TypeInv, TypeOK, PipeType, Send, CancelFrame
  <2> QED BY <2>1
<1>2. CASE ~cancelled
  <2>1. Frame("cancel", reqId) \in ToAgentFrames /\ ~Other(Frame("cancel", reqId))
      BY DEF Frame, ToAgentFrames, Other, TypeInv, TypeOK, EngineType
  <2> QED BY <1>2, <2>1 DEF CancelFrame
<1> QED BY <1>1, <1>2

LEMMA ErrorMove ==
    ASSUME TypeInv, SendError
    PROVE  \E f \in ToAgentFrames : Send(<<f>>) /\ ~Other(f)
<1>1. Frame("error", 0) \in ToAgentFrames /\ ~Other(Frame("error", 0))
    BY DEF Frame, ToAgentFrames, Other
<1> QED BY <1>1 DEF SendError

LEMMA DrainMove ==
    ASSUME TypeInv, DrainControlPlane
    PROVE  \/ UNCHANGED toAgent
           \/ \E f \in ToAgentFrames : Send(<<f>>) /\ ~Other(f)
BY CancelMove DEF DrainControlPlane

LEMMA ServeMove ==
    ASSUME TypeInv, Serve, ~PostTurn, ~CompactTurn
    PROVE  BridgeMove
<1> USE DEF BridgeMove
<1>1. CASE TurnUnavailable \/ IdleModels
    BY <1>1 DEF TurnUnavailable, IdleModels, agentVars, flagVars
<1>2. CASE IdleDelete
    BY <1>2, CancelMove DEF IdleDelete, agentVars
<1>3. CASE HealthSend
  <2>1. Frame("health", Oldest) \in ToAgentFrames /\ ~Other(Frame("health", Oldest))
      BY OldestIsNat DEF Frame, ToAgentFrames, Other
  <2> QED BY <1>3, <2>1 DEF HealthSend, agentVars, flagVars
<1>4. CASE HealthRead \/ HealthTimeout
  <2>1. PICK ok : HealthAnswer(ok)
      BY <1>4 DEF HealthRead, HealthTimeout
  <2> QED BY <1>4, <2>1 DEF HealthRead, HealthTimeout, HealthAnswer, NothingRead, agentVars,
             flagVars
<1> QED BY <1>1, <1>2, <1>3, <1>4 DEF Serve

LEMMA TurnMove ==
    ASSUME TypeInv, RunTurn
    PROVE  BridgeMove
<1> USE DEF BridgeMove
<1>1. CASE SessionSend
  <2>1. Head(plan) \in StateOps
      BY <1>1, HeadTailProperties DEF SessionSend, TypeInv, TypeOK, ServerType, PlanSteps
  <2>2. /\ Frame(Head(plan), 0) \in ToAgentFrames
        /\ ~Other(Frame(Head(plan), 0))
      BY <2>1 DEF Frame, ToAgentFrames, Other, StateOps
  <2> QED BY <1>1, <2>2 DEF SessionSend, agentVars, flagVars
<1>2. CASE SessionAck \/ SessionTimeout
    BY <1>2 DEF SessionAck, SessionTimeout, SessionUnchanged, NothingRead, agentVars, flagVars
<1>3. CASE SessionError \/ SessionNotice \/ TurnError
    BY <1>3, ErrorMove DEF SessionError, SessionNotice, TurnError, SessionUnchanged, agentVars,
       flagVars
<1>4. CASE SendRequest
  <2>1. reqId \in Nat \ {0}
      BY <1>4 DEF SendRequest, TypeInv, TypeOK, HttpType, Counters, TurnPcs
  <2>2. Frame("request", reqId) \in ToAgentFrames /\ ~Other(Frame("request", reqId))
      BY <2>1 DEF Frame, ToAgentFrames, Other
  <2> QED BY <1>4, <2>2 DEF SendRequest, agentVars, flagVars
<1>5. CASE AckSkip \/ AckRead \/ AckTimeout
    BY <1>5 DEF AckSkip, AckRead, AckTimeout, AckUnchanged, NothingRead, agentVars, flagVars
<1>6. CASE PollControl
    BY <1>6, DrainMove DEF PollControl, DrainControlPlane, agentVars
<1>7. CASE EventLimit \/ ReadFrame
    BY <1>7 DEF EventLimit, ReadFrame, agentVars, flagVars
<1>8. CASE ReadTimeout
    BY <1>8, DrainMove DEF ReadTimeout, DrainControlPlane, NothingRead, agentVars, flagVars
<1>9. CASE SaveSend
  <2>1. Frame("save_state", 0) \in ToAgentFrames /\ ~Other(Frame("save_state", 0))
      BY DEF Frame, ToAgentFrames, Other, StateOps
  <2> QED BY <1>9, <2>1 DEF SaveSend, SaveUnchanged, agentVars, flagVars
<1>10. CASE SaveAck \/ SaveTimeout
    BY <1>10 DEF SaveAck, SaveTimeout, SaveUnchanged, NothingRead, agentVars, flagVars
<1>11. CASE FinishTurn
    BY <1>11 DEF FinishTurn, agentVars
<1> QED BY <1>1, <1>2, <1>3, <1>4, <1>5, <1>6, <1>7, <1>8, <1>9, <1>10, <1>11 DEF RunTurn

LEMMA HeartbeatMove ==
    ASSUME TypeInv, Heartbeat
    PROVE  BridgeMove
<1> USE DEF BridgeMove
<1>1. UNCHANGED <<mainq, job, stage, reqId>>
    BY HeartbeatFrame DEF agentVars
<1>2. CASE HbPing
  <2>1. ping' \in Nat
      BY <1>2, BoundsAssumption DEF HbPing, TypeInv, TypeOK, HeartbeatType
  <2>2. Frame("ping", ping') \in ToAgentFrames /\ ~Other(Frame("ping", ping'))
      BY <2>1 DEF Frame, ToAgentFrames, Other
  <2> QED BY <1>1, <1>2, <2>2 DEF HbPing
<1>3. CASE HbFail  BY <1>1, <1>3, ErrorMove DEF HbFail
<1>4. CASE HbWake \/ HbRead \/ HbTimeout
    BY <1>1, <1>4 DEF HbWake, HbRead, HbTimeout, NothingRead
<1> QED BY <1>2, <1>3, <1>4 DEF Heartbeat

-----------------------------------------------------------------------------
(* The bridge's steps keep the order.                                      *)

\* what the agent may be sent
LEMMA MoveToAgent ==
    ASSUME TypeInv, BridgeMove
    PROVE  /\ Len(toAgent) \in Nat /\ Len(toAgent') \in Nat
           /\ \A k \in 1..Len(toAgent') :
                 \/ k \in 1..Len(toAgent) /\ toAgent'[k] = toAgent[k]
                 \/ k > Len(toAgent) /\ ~Other(toAgent'[k])
<1>1. CASE UNCHANGED toAgent
    BY <1>1, LenProperties DEF TypeInv, TypeOK, PipeType
<1>2. CASE \E f \in ToAgentFrames : Send(<<f>>) /\ ~Other(f)
  <2>1. PICK f \in ToAgentFrames : Send(<<f>>) /\ ~Other(f)
      BY <1>2
  <2>2. /\ Len(toAgent) \in Nat /\ Len(toAgent') = Len(toAgent) + 1
        /\ toAgent'[Len(toAgent')] = f
        /\ \A i \in 1..Len(toAgent) : toAgent'[i] = toAgent[i]
      BY <2>1, SendOne
  <2> QED BY <2>1, <2>2
<1> QED BY <1>1, <1>2 DEF BridgeMove

\* what is left to read
LEMMA MoveToBridge ==
    ASSUME TypeInv, BridgeMove
    PROVE  /\ Len(toBridge) \in Nat /\ Len(toBridge') \in Nat
           /\ \/ UNCHANGED toBridge
              \/ /\ Receive /\ Len(toBridge') = Len(toBridge) - 1
                 /\ \A k \in 1..Len(toBridge') :
                       k + 1 \in 1..Len(toBridge) /\ toBridge'[k] = toBridge[k + 1]
<1>1. Len(toBridge) \in Nat
    BY LenProperties DEF TypeInv, TypeOK, PipeType
<1>2. CASE UNCHANGED toBridge
    BY <1>1, <1>2
<1>3. CASE Receive
  <2>1. /\ Len(toBridge) \in Nat \ {0} /\ Len(toBridge') = Len(toBridge) - 1
        /\ \A i \in 1..Len(toBridge') : toBridge'[i] = toBridge[i + 1]
      BY <1>3, ReceiveOne
  <2> QED BY <1>3, <2>1
<1> QED BY <1>2, <1>3 DEF BridgeMove

LEMMA MoveOrder ==
    ASSUME TypeInv, OrderInv, BridgeMove, served' >= served, served' \in Nat
    PROVE  OrderInv'
<1>1. UNCHANGED <<mainq, job, stage, reqId>> /\ reqId \in Nat /\ served \in Nat
    BY DEF BridgeMove, TypeInv, TypeOK, EngineType, HttpType
<1>2. reqId' <= served'
    BY <1>1 DEF OrderInv
<1>3. ASSUME NEW k \in 1..Len(toAgent'), toAgent'[k].type = "request"
      PROVE  toAgent'[k].id <= reqId
    BY <1>1, <1>3, MoveToAgent DEF OrderInv, Other
<1>4. ASSUME NEW k \in 1..Len(toBridge'), ~Lifecycle(toBridge'[k])
      PROVE  toBridge'[k].id <= reqId
    BY <1>4, MoveToBridge DEF OrderInv
<1> QED BY <1>1, <1>2, <1>3, <1>4 DEF OrderInv

LEMMA MoveLast ==
    ASSUME TypeInv, LastInv, BridgeMove
    PROVE  LastInv'
<1>1. UNCHANGED <<mainq, reqId>>
    BY DEF BridgeMove
<1>2. \A k \in 1..Len(toAgent') :
         \/ k \in 1..Len(toAgent) /\ toAgent'[k] = toAgent[k]
         \/ k > Len(toAgent) /\ ~Other(toAgent'[k])
    BY MoveToAgent
<1>3. Len(toAgent) \in Nat /\ Len(toAgent') \in Nat
    BY MoveToAgent
<1>4. ASSUME NEW j \in 1..Len(mainq), IsOwn(mainq[j]), NEW k \in 1..Len(toAgent')
      PROVE  ~Other(toAgent'[k])
    BY <1>2, <1>4 DEF LastInv
<1>5. ASSUME NEW j \in 1..Len(toAgent'), IsOwn(toAgent'[j]),
             NEW k \in 1..Len(toAgent'), k > j
      PROVE  ~Other(toAgent'[k])
  <2>1. CASE k > Len(toAgent)
      BY <1>2, <2>1
  <2>2. CASE ~(k > Len(toAgent))
    <3>1. k \in 1..Len(toAgent) /\ j \in 1..Len(toAgent)
        BY <1>3, <1>5, <2>2
    <3>2. toAgent'[k] = toAgent[k] /\ toAgent'[j] = toAgent[j]
        BY <1>2, <1>3, <1>5, <3>1
    <3> QED BY <1>5, <3>1, <3>2 DEF LastInv
  <2> QED BY <2>1, <2>2
<1> QED BY <1>1, <1>4, <1>5 DEF LastInv, IsOwn, Other

LEMMA MoveFrom ==
    ASSUME TypeInv, BridgeMove, NEW n \in Nat, OwnFrom(n)
    PROVE  /\ UNCHANGED toBridge => OwnFrom(n)'
           /\ \A m \in Nat : Receive /\ m + 1 >= n => OwnFrom(m)'
<1>1. UNCHANGED <<mainq, job, reqId>>
    BY DEF BridgeMove
<1>2. \A k \in 1..Len(toAgent') : ~Other(toAgent'[k])
    BY MoveToAgent DEF OwnFrom
<1>3. ASSUME UNCHANGED toBridge PROVE OwnFrom(n)'
    BY <1>1, <1>2, <1>3 DEF OwnFrom, Other
<1>4. ASSUME NEW m \in Nat, Receive, m + 1 >= n PROVE OwnFrom(m)'
  <2>1. \A k \in 1..Len(toBridge') :
           k + 1 \in 1..Len(toBridge) /\ toBridge'[k] = toBridge[k + 1]
      BY <1>4, ReceiveOne
  <2>2. ASSUME NEW k \in 1..Len(toBridge'), k >= m, ~Lifecycle(toBridge'[k])
        PROVE  toBridge'[k].id \in {0, reqId}
    <3>1. k + 1 \in 1..Len(toBridge) /\ toBridge'[k] = toBridge[k + 1] /\ k + 1 >= n
        BY <1>4, <2>1, <2>2
    <3> QED BY <2>2, <3>1 DEF OwnFrom
  <2> QED BY <1>1, <1>2, <2>2 DEF OwnFrom, Other
<1> QED BY <1>3, <1>4

LEMMA MoveAck ==
    ASSUME TypeInv, AckInv, BridgeMove
    PROVE  AckInv'
<1>1. UNCHANGED reqId
    BY DEF BridgeMove
<1>2. SUFFICES ASSUME NEW n \in 1..Len(toBridge'), OwnAck(toBridge'[n])
               PROVE  OwnFrom(n)'
    BY <1>1 DEF AckInv, OwnAck
<1>3. CASE UNCHANGED toBridge
  <2>1. n \in 1..Len(toBridge) /\ OwnAck(toBridge[n]) /\ n \in Nat
      BY <1>2, <1>3
  <2>2. OwnFrom(n)
      BY <2>1 DEF AckInv
  <2> QED BY <1>3, <2>1, <2>2, MoveFrom
<1>4. CASE Receive
  <2>1. n + 1 \in 1..Len(toBridge) /\ toBridge'[n] = toBridge[n + 1] /\ n \in Nat
      BY <1>2, <1>4, ReceiveOne
  <2>2. OwnAck(toBridge[n + 1])
      BY <1>2, <2>1
  <2>3. OwnFrom(n + 1) /\ n + 1 \in Nat /\ n + 1 >= n + 1
      BY <2>1, <2>2 DEF AckInv
  <2> QED BY <1>4, <2>1, <2>3, MoveFrom
<1> QED BY <1>3, <1>4 DEF BridgeMove

\* a new request has a number no frame in flight has
LEMMA BeginAcked ==
    ASSUME TypeInv, AckedInv, PostTurn \/ CompactTurn
    PROVE  AckedInv'
<1>1. /\ reqId' = served + 1 /\ served' = served + 1 /\ pc' = "session"
      /\ UNCHANGED <<mainq, job, stage, toAgent, toBridge>>
      /\ reqId \in Nat /\ served \in Nat
    BY DEF PostTurn, CompactTurn, BeginTurn, Oldest, agentVars, TypeInv, TypeOK, EngineType,
       HttpType
<1>2. reqId < reqId' /\ OrderInv
    BY <1>1 DEF AckedInv, OrderInv
<1>8. /\ job \in Nat /\ mainq \in Seq(ToAgentFrames) /\ toAgent \in Seq(ToAgentFrames)
      /\ toBridge \in Seq(ToBridgeFrames)
    BY DEF TypeInv, TypeOK, AgentType, PipeType
<1>9. /\ \A k \in 1..Len(mainq) : mainq[k].id \in Nat
      /\ \A k \in 1..Len(toAgent) : toAgent[k].id \in Nat
      /\ \A k \in 1..Len(toBridge) : toBridge[k].id \in Nat
  <2>1. \A f \in ToAgentFrames \cup ToBridgeFrames : f.id \in Nat
      BY DEF ToAgentFrames, ToBridgeFrames
  <2> QED BY <1>8, <2>1, ElementOfSeq
<1>3. OrderInv'
  <2>1. reqId' \in Nat /\ reqId' <= served' /\ job' <= reqId'
      BY <1>1, <1>2, <1>8 DEF OrderInv
  <2>2. \A k \in 1..Len(mainq) : mainq[k].type = "request" => mainq[k].id <= reqId'
      BY <1>1, <1>2, <1>9 DEF OrderInv
  <2>3. \A k \in 1..Len(toAgent) : toAgent[k].type = "request" => toAgent[k].id <= reqId'
      BY <1>1, <1>2, <1>9 DEF OrderInv
  <2>4. \A k \in 1..Len(toBridge) : ~Lifecycle(toBridge[k]) => toBridge[k].id <= reqId'
      BY <1>1, <1>2, <1>9 DEF OrderInv
  <2> QED BY <1>1, <1>2, <2>1, <2>2, <2>3, <2>4 DEF OrderInv
<1>4. LastInv'
  <2>1. \A j \in 1..Len(mainq) : mainq[j].type = "request" => mainq[j].id # reqId'
      BY <1>1, <1>2, <1>9 DEF OrderInv
  <2>2. \A j \in 1..Len(toAgent) : toAgent[j].type = "request" => toAgent[j].id # reqId'
      BY <1>1, <1>2, <1>9 DEF OrderInv
  <2> QED BY <1>1, <2>1, <2>2 DEF LastInv, IsOwn
<1>5. AckInv'
  <2>1. \A n \in 1..Len(toBridge) : AckFrame(toBridge[n]) => toBridge[n].id # reqId'
      BY <1>1, <1>2, <1>9 DEF OrderInv, AckFrame, Lifecycle, LifecycleTypes
  <2> QED BY <1>1, <2>1 DEF AckInv, OwnAck, AckFrame
<1>6. PollInv'
    BY <1>1 DEF PollInv
<1> QED BY <1>3, <1>4, <1>5, <1>6 DEF AckedInv

\* a turn that goes on to poll has read its own acknowledgement
LEMMA AcceptedOwn ==
    ASSUME TypeInv, AckedInv, AckRead, pc' = "poll"
    PROVE  OwnFrom(1)'
<1> DEFINE f == Head(toBridge)
<1>1. /\ pc = "ack" /\ Receive /\ Acknowledges(f)
    BY DEF AckRead, Report, EndTurn
<1>2. 1 \in 1..Len(toBridge) /\ f = toBridge[1] /\ f \in ToBridgeFrames
    BY <1>1, ReceiveOne, ReceiveType DEF TypeInv, TypeOK
<1>3. AckFrame(f) /\ f.quotes = {} /\ f.id \in Nat
    BY <1>1, <1>2 DEF Acknowledges, AckFrame, ToBridgeFrames
<1>4. Spells(f.id, reqId)
    BY <1>1, <1>3 DEF Acknowledges, Names
<1>5. f.id <= reqId /\ reqId \in Nat \ {0}
  <2>1. reqId \in Nat \ {0}
      BY <1>1 DEF TypeInv, TypeOK, HttpType, Counters, TurnPcs
  <2>2. ~Lifecycle(f)
      BY <1>3 DEF AckFrame, Lifecycle, LifecycleTypes
  <2> QED BY <1>2, <2>1, <2>2 DEF AckedInv, OrderInv
<1>6. f.id = reqId
    BY <1>3, <1>4, <1>5, SpellsUp
<1>7. OwnFrom(1)
    BY <1>2, <1>3, <1>5, <1>6 DEF AckedInv, AckInv, OwnAck
<1>8. BridgeMove
    BY TurnMove DEF RunTurn
<1> QED BY <1>1, <1>7, <1>8, MoveFrom

LEMMA MovePoll ==
    ASSUME TypeInv, AckedInv, BridgeMove, pc \in {"poll", "read"}
    PROVE  OwnFrom(1)'
<1>1. OwnFrom(1)
    BY DEF AckedInv, PollInv
<1> QED BY <1>1, MoveFrom DEF BridgeMove

\* who goes on polling was polling, or has just been acknowledged
LEMMA PollsOn ==
    ASSUME Server, pc' \in {"poll", "read"}
    PROVE  pc \in {"poll", "read"} \/ (AckRead /\ pc' = "poll")
<1>1. CASE Serve
    BY <1>1 DEF Serve, PostTurn, CompactTurn, BeginTurn, TurnUnavailable, IdleDelete,
       IdleModels, HealthSend, HealthRead, HealthTimeout, HealthAnswer, Arrived
<1>2. CASE SessionSend \/ SessionAck \/ SessionTimeout \/ SessionError \/ SessionNotice
           \/ SendRequest \/ AckSkip \/ AckTimeout
    BY <1>2 DEF SessionSend, SessionAck, SessionTimeout, SessionError, SessionNotice,
       SendRequest, AckSkip, AckTimeout, Report
<1>3. CASE AckRead
    BY <1>3 DEF AckRead, Report, EndTurn
<1>4. CASE PollControl \/ EventLimit \/ ReadFrame \/ ReadTimeout
    BY <1>4 DEF PollControl, EventLimit, ReadFrame, ReadTimeout
<1>5. CASE SaveSend \/ SaveAck \/ SaveTimeout \/ TurnError \/ FinishTurn
    BY <1>5 DEF SaveSend, SaveAck, SaveTimeout, TurnError, FinishTurn
<1> QED BY <1>1, <1>2, <1>3, <1>4, <1>5 DEF Server, RunTurn

LEMMA BridgeAcked ==
    ASSUME TypeInv, TypeInv', AckedInv, [Next]_vars, Server \/ Heartbeat,
           ~PostTurn, ~CompactTurn
    PROVE  AckedInv'
<1>1. BridgeMove
    BY ServeMove, TurnMove, HeartbeatMove DEF Server
<1>2. served' >= served /\ served' \in Nat
    BY ServedStep DEF TypeInv, TypeOK, HttpType
<1>3. ASSUME pc' \in {"poll", "read"} PROVE OwnFrom(1)'
  <2>1. CASE Heartbeat
      BY <1>1, <1>3, <2>1, HeartbeatFrame, MovePoll
  <2>2. CASE Server
      BY <1>1, <1>3, <2>2, PollsOn, MovePoll, AcceptedOwn
  <2> QED BY <2>1, <2>2
<1>4. OrderInv' /\ LastInv' /\ AckInv'
    BY <1>1, <1>2, MoveOrder, MoveLast, MoveAck DEF AckedInv
<1> QED BY <1>3, <1>4 DEF AckedInv, PollInv

-----------------------------------------------------------------------------
(* The agent's steps keep the order.                                       *)

\* the router takes the first frame of its pipe, and queues or answers it
LEMMA RouterShape ==
    ASSUME TypeInv, Router
    PROVE  /\ Len(mainq) \in Nat /\ Len(mainq') \in Nat /\ Len(toBridge) \in Nat
           /\ Len(toAgent) \in Nat \ {0} /\ 1 \in 1..Len(toAgent)
           /\ \A k \in 1..Len(toAgent') :
                 k + 1 \in 1..Len(toAgent) /\ toAgent'[k] = toAgent[k + 1]
           /\ \A k \in 1..Len(mainq') :
                 \/ k \in 1..Len(mainq) /\ mainq'[k] = mainq[k]
                 \/ k = Len(mainq) + 1 /\ mainq'[k] = toAgent[1]
           /\ \A k \in 1..Len(toBridge') :
                 \/ k \in 1..Len(toBridge) /\ toBridge'[k] = toBridge[k]
                 \/ Lifecycle(toBridge'[k])
<1>1. /\ Len(toAgent) \in Nat \ {0} /\ Head(toAgent) = toAgent[1]
      /\ Len(toAgent') = Len(toAgent) - 1
      /\ \A i \in 1..Len(toAgent') : toAgent'[i] = toAgent[i + 1]
    BY RouterOne
<1>2. /\ mainq \in Seq(ToAgentFrames) /\ Head(toAgent) \in ToAgentFrames
      /\ Len(mainq) \in Nat
  <2>1. mainq \in Seq(ToAgentFrames) /\ toAgent \in Seq(ToAgentFrames) /\ toAgent # <<>>
      BY RouterOne DEF TypeInv, TypeOK, AgentType, PipeType
  <2> QED BY <2>1, HeadTailProperties, LenProperties
<1>3. Len(toBridge) \in Nat
    BY LenProperties DEF TypeInv, TypeOK, PipeType
<1>4. \/ UNCHANGED mainq
      \/ mainq' = Append(mainq, Head(toAgent))
    BY DEF Router
<1>5. /\ Len(mainq') \in Nat
      /\ \A k \in 1..Len(mainq') :
            \/ k \in 1..Len(mainq) /\ mainq'[k] = mainq[k]
            \/ k = Len(mainq) + 1 /\ mainq'[k] = toAgent[1]
    BY <1>1, <1>2, <1>4, AppendProperties
<1>6. \/ UNCHANGED toBridge
      \/ \E t \in {"pong", "health"} : Answer(<<Frame(t, Head(toAgent).id)>>)
    BY DEF Router
<1>7. ASSUME NEW k \in 1..Len(toBridge')
      PROVE  \/ k \in 1..Len(toBridge) /\ toBridge'[k] = toBridge[k]
             \/ Lifecycle(toBridge'[k])
  <2>1. CASE UNCHANGED toBridge
      BY <1>7, <2>1
  <2>2. CASE \E t \in {"pong", "health"} : Answer(<<Frame(t, Head(toAgent).id)>>)
    <3>1. PICK t \in {"pong", "health"} : Answer(<<Frame(t, Head(toAgent).id)>>)
        BY <2>2
    <3>2. PICK f : f = Frame(t, Head(toAgent).id)
        OBVIOUS
    <3>3. f \in ToBridgeFrames /\ Lifecycle(f)
      <4>1. Head(toAgent).id \in Nat
          BY <1>2 DEF ToAgentFrames
      <4> QED BY <3>2, <4>1 DEF Frame, ToBridgeFrames, Lifecycle, LifecycleTypes
    <3>4. /\ Len(toBridge') = Len(toBridge) + 1 /\ toBridge'[Len(toBridge')] = f
          /\ \A i \in 1..Len(toBridge) : toBridge'[i] = toBridge[i]
        BY <3>1, <3>2, <3>3, AnswerOne
    <3>5. k \in 1..Len(toBridge) \/ k = Len(toBridge')
        BY <1>3, <1>7, <3>4
    <3> QED BY <3>3, <3>4, <3>5
  <2> QED BY <1>6, <2>1, <2>2
<1> QED BY <1>1, <1>2, <1>3, <1>5, <1>7

LEMMA RouterAcked ==
    ASSUME TypeInv, AckedInv, Router
    PROVE  AckedInv'
<1>1. UNCHANGED <<pc, reqId, served, job, stage>>
    BY AgentFrame DEF flagVars, httpVars, Router
<1>2. OrderInv /\ LastInv /\ AckInv /\ PollInv
    BY DEF AckedInv
<1>3. OrderInv'
    BY <1>1, <1>2, RouterShape DEF OrderInv
<1>4. ASSUME NEW j \in 1..Len(mainq'), IsOwn(mainq'[j])
      PROVE  /\ \A k \in 1..Len(mainq') : k > j => ~Other(mainq'[k])
             /\ \A k \in 1..Len(toAgent') : ~Other(toAgent'[k])
  <2>1. CASE j \in 1..Len(mainq) /\ mainq'[j] = mainq[j]
    <3>1. IsOwn(mainq[j])
        BY <1>4, <2>1
    <3>2. /\ \A k \in 1..Len(mainq) : k > j => ~Other(mainq[k])
          /\ \A k \in 1..Len(toAgent) : ~Other(toAgent[k])
        BY <1>2, <2>1, <3>1 DEF LastInv
    <3> QED BY <3>2, RouterShape
  <2>2. CASE j = Len(mainq) + 1 /\ mainq'[j] = toAgent[1]
    <3>1. IsOwn(toAgent[1]) /\ 1 \in 1..Len(toAgent)
        BY <1>4, <2>2, RouterShape
    <3>2. \A k \in 1..Len(toAgent) : k > 1 => ~Other(toAgent[k])
        BY <1>2, <3>1 DEF LastInv
    <3>3. \A k \in 1..Len(toAgent') : ~Other(toAgent'[k])
        BY <3>2, RouterShape
    <3>4. \A k \in 1..Len(mainq') : ~(k > j)
        BY <2>2, RouterShape
    <3> QED BY <3>3, <3>4
  <2> QED BY <2>1, <2>2, RouterShape
<1>5. ASSUME NEW j \in 1..Len(toAgent'), IsOwn(toAgent'[j]),
             NEW k \in 1..Len(toAgent'), k > j
      PROVE  ~Other(toAgent'[k])
  <2>1. /\ j + 1 \in 1..Len(toAgent) /\ toAgent'[j] = toAgent[j + 1]
        /\ k + 1 \in 1..Len(toAgent) /\ toAgent'[k] = toAgent[k + 1]
        /\ k + 1 > j + 1
      BY <1>5, RouterShape
  <2> QED BY <1>2, <1>5, <2>1 DEF LastInv
<1>6. LastInv'
    BY <1>1, <1>4, <1>5 DEF LastInv, IsOwn, Other
<1>7. ASSUME NEW n \in Nat, OwnFrom(n) PROVE OwnFrom(n)'
  <2>1. /\ job \in {0, reqId} /\ \A k \in 1..Len(mainq) : ~Other(mainq[k])
        /\ \A k \in 1..Len(toAgent) : ~Other(toAgent[k])
        /\ \A k \in 1..Len(toBridge) :
              k >= n /\ ~Lifecycle(toBridge[k]) => toBridge[k].id \in {0, reqId}
      BY <1>7 DEF OwnFrom
  <2>2. \A k \in 1..Len(mainq') : ~Other(mainq'[k])
      BY <2>1, RouterShape
  <2>3. \A k \in 1..Len(toAgent') : ~Other(toAgent'[k])
      BY <2>1, RouterShape
  <2>4. \A k \in 1..Len(toBridge') :
           k >= n /\ ~Lifecycle(toBridge'[k]) => toBridge'[k].id \in {0, reqId}
      BY <2>1, RouterShape
  <2> QED BY <1>1, <2>1, <2>2, <2>3, <2>4 DEF OwnFrom, Other
<1>8. ASSUME NEW n \in 1..Len(toBridge'), OwnAck(toBridge'[n]) PROVE OwnFrom(n)'
  <2>1. n \in 1..Len(toBridge) /\ toBridge'[n] = toBridge[n]
    <3>1. ~Lifecycle(toBridge'[n])
        BY <1>8 DEF OwnAck, AckFrame, Lifecycle, LifecycleTypes
    <3> QED BY <1>8, <3>1, RouterShape
  <2> QED BY <1>2, <1>7, <1>8, <2>1 DEF AckInv
<1>9. AckInv'
    BY <1>1, <1>8 DEF AckInv, OwnAck
<1>10. PollInv'
    BY <1>1, <1>2, <1>7 DEF PollInv
<1> QED BY <1>3, <1>6, <1>9, <1>10 DEF AckedInv

\* the main thread writes one frame, and takes a frame off its queue or not
LEMMA MainShape ==
    ASSUME TypeInv, NEW f \in ToBridgeFrames, Answer(<<f>>),
           mainq' = mainq \/ (mainq # <<>> /\ mainq' = Tail(mainq))
    PROVE  /\ Len(toBridge) \in Nat /\ Len(toBridge') = Len(toBridge) + 1
           /\ \A k \in 1..Len(toBridge') :
                 \/ k \in 1..Len(toBridge) /\ toBridge'[k] = toBridge[k]
                 \/ k = Len(toBridge) + 1 /\ toBridge'[k] = f
           /\ \E d \in {0, 1} : \A k \in 1..Len(mainq') :
                 k + d \in 1..Len(mainq) /\ mainq'[k] = mainq[k + d]
<1>1. /\ Len(toBridge) \in Nat /\ Len(toBridge') = Len(toBridge) + 1
      /\ toBridge'[Len(toBridge')] = f
      /\ \A i \in 1..Len(toBridge) : toBridge'[i] = toBridge[i]
    BY AnswerOne
<1>2. mainq \in Seq(ToAgentFrames) /\ Len(mainq) \in Nat
    BY LenProperties DEF TypeInv, TypeOK, AgentType
<1>3. CASE mainq' = mainq
  <2>1. \A k \in 1..Len(mainq') : k + 0 \in 1..Len(mainq) /\ mainq'[k] = mainq[k + 0]
      BY <1>2, <1>3
  <2> QED BY <1>1, <2>1
<1>4. CASE mainq # <<>> /\ mainq' = Tail(mainq)
  <2>1. \A k \in 1..Len(mainq') : k + 1 \in 1..Len(mainq) /\ mainq'[k] = mainq[k + 1]
      BY <1>2, <1>4, HeadTailProperties
  <2> QED BY <1>1, <2>1
<1> QED BY <1>3, <1>4

\* What the main thread does, seen from the last request: unless it takes that
\* request it writes for none, or for the one it works on.
LEMMA MainAcked ==
    ASSUME TypeInv, AckedInv, UNCHANGED <<pc, reqId, served, toAgent>>,
           NEW f \in ToBridgeFrames, Answer(<<f>>),
           mainq' = mainq \/ (mainq # <<>> /\ mainq' = Tail(mainq)),
           f.id <= reqId, job' \in Nat, job' <= reqId, stage' = "idle" => job' = 0,
           \A n \in Nat : OwnFrom(n) => f.id \in {0, reqId} /\ job' \in {0, reqId},
           OwnAck(f) => /\ job' \in {0, reqId}
                        /\ \A k \in 1..Len(mainq') : ~Other(mainq'[k])
                        /\ \A k \in 1..Len(toAgent) : ~Other(toAgent[k])
    PROVE  AckedInv'
<1>0. OrderInv /\ LastInv /\ AckInv /\ PollInv
    BY DEF AckedInv
<1>1. /\ Len(toBridge) \in Nat /\ Len(toBridge') = Len(toBridge) + 1
      /\ \A k \in 1..Len(toBridge') :
            \/ k \in 1..Len(toBridge) /\ toBridge'[k] = toBridge[k]
            \/ k = Len(toBridge) + 1 /\ toBridge'[k] = f
    BY MainShape
<1>2. PICK d \in {0, 1} : \A k \in 1..Len(mainq') :
            k + d \in 1..Len(mainq) /\ mainq'[k] = mainq[k + d]
    BY MainShape
<1>3. OrderInv'
  <2>1. \A k \in 1..Len(mainq') : mainq'[k].type = "request" => mainq'[k].id <= reqId
      BY <1>0, <1>2 DEF OrderInv
  <2>2. \A k \in 1..Len(toBridge') : ~Lifecycle(toBridge'[k]) => toBridge'[k].id <= reqId
      BY <1>0, <1>1 DEF OrderInv
  <2> QED BY <1>0, <2>1, <2>2 DEF OrderInv
<1>4. LastInv'
  <2>1. ASSUME NEW j \in 1..Len(mainq'), IsOwn(mainq'[j])
        PROVE  /\ \A k \in 1..Len(mainq') : k > j => ~Other(mainq'[k])
               /\ \A k \in 1..Len(toAgent) : ~Other(toAgent[k])
    <3>1. j + d \in 1..Len(mainq) /\ IsOwn(mainq[j + d])
        BY <1>2, <2>1
    <3>2. /\ \A k \in 1..Len(mainq) : k > j + d => ~Other(mainq[k])
          /\ \A k \in 1..Len(toAgent) : ~Other(toAgent[k])
        BY <1>0, <3>1 DEF LastInv
    <3>3. ASSUME NEW k \in 1..Len(mainq'), k > j PROVE ~Other(mainq'[k])
      <4>1. k + d \in 1..Len(mainq) /\ mainq'[k] = mainq[k + d] /\ k + d > j + d
          BY <1>2, <3>3
      <4> QED BY <3>2, <4>1
    <3> QED BY <3>2, <3>3
  <2> QED BY <1>0, <2>1 DEF LastInv, IsOwn, Other
<1>5. ASSUME NEW n \in Nat, OwnFrom(n) PROVE OwnFrom(n)'
  <2>1. f.id \in {0, reqId} /\ job' \in {0, reqId}
      BY <1>5
  <2>2. \A k \in 1..Len(mainq') : ~Other(mainq'[k])
      BY <1>2, <1>5 DEF OwnFrom
  <2>3. \A k \in 1..Len(toBridge') :
           k >= n /\ ~Lifecycle(toBridge'[k]) => toBridge'[k].id \in {0, reqId}
      BY <1>1, <1>5, <2>1 DEF OwnFrom
  <2> QED BY <1>5, <2>1, <2>2, <2>3 DEF OwnFrom, Other
<1>6. ASSUME NEW n \in 1..Len(toBridge'), OwnAck(toBridge'[n]) PROVE OwnFrom(n)'
  <2>1. CASE n \in 1..Len(toBridge) /\ toBridge'[n] = toBridge[n]
      BY <1>0, <1>5, <1>6, <2>1 DEF AckInv
  <2>2. CASE n = Len(toBridge) + 1 /\ toBridge'[n] = f
    <3>1. OwnAck(f)
        BY <1>6, <2>2
    <3>2. \A k \in 1..Len(toBridge') :
             k >= n /\ ~Lifecycle(toBridge'[k]) => toBridge'[k].id \in {0, reqId}
        BY <1>1, <2>2, <3>1 DEF OwnAck
    <3> QED BY <3>1, <3>2 DEF OwnFrom, Other
  <2> QED BY <1>1, <2>1, <2>2
<1>7. AckInv'
    BY <1>6 DEF AckInv, OwnAck
<1>8. PollInv'
    BY <1>0, <1>5 DEF PollInv
<1> QED BY <1>3, <1>4, <1>7, <1>8 DEF AckedInv

LEMMA MainRequestAcked ==
    ASSUME TypeInv, AckedInv, MainRequest
    PROVE  AckedInv'
<1> DEFINE i == Head(mainq).id
<1>1. UNCHANGED <<pc, reqId, served, toAgent>> /\ reqId \in Nat /\ mainq \in Seq(ToAgentFrames)
    BY AgentFrame DEF MainRequest, Main, flagVars, httpVars, TypeInv, TypeOK, EngineType,
       AgentType
<1>2. /\ mainq # <<>> /\ mainq' = Tail(mainq) /\ mainq[1].type = "request" /\ i = mainq[1].id
      /\ stage = "idle" /\ job = 0 /\ 1 \in 1..Len(mainq)
    BY <1>1, HeadTailProperties DEF MainRequest, MainNext, AckedInv, OrderInv
<1>3. i \in Nat /\ i <= reqId
    BY <1>1, <1>2, HeadTailProperties DEF AckedInv, OrderInv, ToAgentFrames
<1>4. PICK t \in {"ack", "busy", "rejected"} :
         /\ Answer(<<Frame(t, i)>>)
         /\ (job' = i /\ stage' # "idle") \/ UNCHANGED <<job, stage>>
    BY ChoicesAssumption DEF MainRequest
<1>5. PICK f : f = Frame(t, i)
    OBVIOUS
<1>6. f \in ToBridgeFrames /\ f.id = i /\ Answer(<<f>>)
    BY <1>3, <1>4, <1>5 DEF Frame, ToBridgeFrames
<1>7. job' \in {0, i}
    BY <1>2, <1>4
<1> HIDE DEF i
<1>8. ASSUME NEW n \in Nat, OwnFrom(n) PROVE i = reqId
    BY <1>2, <1>8 DEF OwnFrom, Other
<1>9. ASSUME OwnAck(f)
      PROVE  /\ job' \in {0, reqId}
             /\ \A k \in 1..Len(mainq') : ~Other(mainq'[k])
             /\ \A k \in 1..Len(toAgent) : ~Other(toAgent[k])
  <2>1. i = reqId
      BY <1>6, <1>9 DEF OwnAck
  <2>2. IsOwn(mainq[1])
      BY <1>2, <2>1 DEF IsOwn
  <2>3. /\ \A k \in 1..Len(mainq) : k > 1 => ~Other(mainq[k])
        /\ \A k \in 1..Len(toAgent) : ~Other(toAgent[k])
      BY <1>2, <2>2 DEF AckedInv, LastInv
  <2>4. \A k \in 1..Len(mainq') : k + 1 \in 1..Len(mainq) /\ mainq'[k] = mainq[k + 1]
      BY <1>1, <1>2, HeadTailProperties
  <2> QED BY <1>7, <2>1, <2>3, <2>4
<1>10. /\ job' \in Nat /\ job' <= reqId /\ (stage' = "idle" => job' = 0)
       /\ \A n \in Nat : OwnFrom(n) => f.id \in {0, reqId} /\ job' \in {0, reqId}
    BY <1>1, <1>2, <1>3, <1>4, <1>6, <1>7, <1>8
<1> QED BY <1>1, <1>2, <1>3, <1>6, <1>9, <1>10, MainAcked

LEMMA MainOthersAcked ==
    ASSUME TypeInv, AckedInv, Main, ~MainRequest
    PROVE  AckedInv'
<1>1. UNCHANGED <<pc, reqId, served, toAgent>> /\ reqId \in Nat /\ job \in Nat /\ job <= reqId
    BY AgentFrame DEF Main, flagVars, httpVars, TypeInv, TypeOK, EngineType, AgentType,
       AckedInv, OrderInv, EffortRestart, EffortFails, StreamStart, StreamChunk, MainRespond,
       MainState, MainUnknown
<1>2. /\ mainq' = mainq \/ (mainq # <<>> /\ mainq' = Tail(mainq))
      /\ job' \in {0, job}
      /\ stage' = "idle" => job' = 0
    BY DEF Main, EffortRestart, EffortFails, StreamStart, StreamChunk, MainRespond,
       MainState, MainUnknown, MainNext, AckedInv, OrderInv
<1>3. PICK f \in ToBridgeFrames : Answer(<<f>>) /\ f.id \in {0, job} /\ ~OwnAck(f)
  <2>1. CASE EffortRestart \/ EffortFails \/ StreamStart \/ MainState \/ MainUnknown
    <3>1. PICK t \in {"event", "error", "ack"} : Answer(<<Frame(t, 0)>>)
        BY <2>1 DEF EffortRestart, EffortFails, StreamStart, MainState, MainUnknown
    <3>2. Frame(t, 0) \in ToBridgeFrames /\ Frame(t, 0).id = 0 /\ ~OwnAck(Frame(t, 0))
        BY DEF Frame, ToBridgeFrames, OwnAck
    <3> QED BY <3>1, <3>2
  <2>2. CASE Answer(<<Frame("event", 0)>>)
    <3>1. /\ Frame("event", 0) \in ToBridgeFrames /\ Frame("event", 0).id = 0
          /\ ~OwnAck(Frame("event", 0))
        BY DEF Frame, ToBridgeFrames, OwnAck
    <3> QED BY <2>2, <3>1
  <2>3. CASE stage = "streaming" /\
             \E t \in {"text_delta", "response"}, q \in Quotes : Answer(<<Text(t, job, q)>>)
    <3>1. PICK t \in {"text_delta", "response"}, q \in Quotes : Answer(<<Text(t, job, q)>>)
        BY <2>3
    <3>2. job \in Nat \ {0}
        BY <1>1, <2>3 DEF TypeInv, Counters
    <3>3. /\ Text(t, job, q) \in ToBridgeFrames
          /\ Text(t, job, q).id = job /\ Text(t, job, q).type = t
        BY <3>2, ToBridgeFrameType DEF Text
    <3> QED BY <3>1, <3>3 DEF OwnAck, AckFrame
  <2> QED BY <2>1, <2>2, <2>3 DEF Main, StreamChunk, MainRespond
<1>4. ASSUME NEW n \in Nat, OwnFrom(n) PROVE f.id \in {0, reqId} /\ job' \in {0, reqId}
    BY <1>2, <1>3, <1>4 DEF OwnFrom
<1>5. f.id <= reqId /\ job' \in Nat /\ job' <= reqId
    BY <1>1, <1>2, <1>3
<1> QED BY <1>1, <1>2, <1>3, <1>4, <1>5, MainAcked

LEMMA AckedStep ==
    ASSUME TypeInv, TypeInv', AckedInv, [Next]_vars
    PROVE  AckedInv'
<1>1. CASE ClientConnect \/ UNCHANGED vars
  <2>1. UNCHANGED <<pc, reqId, served, toAgent, toBridge, mainq, job, stage>>
      BY <1>1, ClientFrame DEF vars, flagVars, httpVars, agentVars
  <2> QED BY <2>1 DEF AckedInv, OrderInv, LastInv, AckInv, PollInv, OwnFrom, OwnAck, IsOwn,
            Other
<1>2. CASE PostTurn \/ CompactTurn  BY <1>2, BeginAcked
<1>3. CASE (Server \/ Heartbeat) /\ ~PostTurn /\ ~CompactTurn
    BY <1>3, BridgeAcked
<1>4. CASE Router  BY <1>4, RouterAcked
<1>5. CASE Main    BY <1>5, MainRequestAcked, MainOthersAcked
<1> QED BY <1>1, <1>2, <1>3, <1>4, <1>5 DEF Next

LEMMA InitAcked == Init => AckedInv
BY DEF Init, AckedInv, OrderInv, LastInv, AckInv, PollInv

-----------------------------------------------------------------------------

\* out_buf never holds another request's text; a response's replaces the rest
OwnInv ==
    /\ out \subseteq {0, reqId}
    /\ OwnOutputOnly

LEMMA OwnReadStep ==
    ASSUME TypeInv, EndInv, AckedInv, OwnInv, ReadFrame
    PROVE  OwnInv'
<1> DEFINE f == Head(toBridge)
<1>0. pc = "read" /\ verdict = "none" /\ out \subseteq {0, reqId} /\ UNCHANGED reqId
    BY DEF ReadFrame, EndInv, OwnInv, flagVars
<1>1. Receive /\ f \in ToBridgeFrames /\ 1 \in 1..Len(toBridge) /\ f = toBridge[1]
    BY ReceiveType, ReceiveOne DEF ReadFrame, TypeInv, TypeOK
<1>2. ~Lifecycle(f) => f.id \in {0, reqId}
    BY <1>0, <1>1 DEF AckedInv, PollInv, OwnFrom
<1>3. f.type = "response" => f.id # 0
    BY <1>1 DEF ToBridgeFrames
<1>4. \/ verdict' = "none" /\ \/ out' = out \/ out' = {0}
                              \/ ~Lifecycle(f) /\ out' = out \cup {f.id}
      \/ verdict' \in {"mismatch", "agent_error"} /\ UNCHANGED out
      \/ verdict' = "ok" /\ out' = {f.id} /\ f.type = "response" /\ ~Lifecycle(f)
    BY <1>0 DEF ReadFrame, Continue, Complete, Report, EndTurn
<1> HIDE DEF f
<1>5. out' \subseteq {0, reqId} /\ (verdict' = "ok" => out' = {reqId})
    BY <1>0, <1>2, <1>3, <1>4
<1> QED BY <1>0, <1>5 DEF OwnInv, OwnOutputOnly

LEMMA OwnInvStep ==
    ASSUME TypeInv, EndInv, AckedInv, OwnInv, [Next]_vars
    PROVE  OwnInv'
<1> USE DEF OwnInv, OwnOutputOnly
<1>1. CASE ClientConnect \/ Router \/ Main \/ Heartbeat
    BY <1>1, ClientFrame, AgentFrame, HeartbeatFrame DEF ctxVars, flagVars
<1>2. CASE PostTurn \/ CompactTurn
    BY <1>2 DEF PostTurn, CompactTurn, BeginTurn, Arrived, EndInv, TurnPcs
<1>3. CASE TurnUnavailable \/ IdleDelete \/ IdleModels \/ HealthSend
    BY <1>3 DEF TurnUnavailable, IdleDelete, IdleModels, HealthSend, ctxVars, flagVars
<1>4. CASE HealthRead \/ HealthTimeout
  <2>1. PICK ok : HealthAnswer(ok)
      BY <1>4 DEF HealthRead, HealthTimeout
  <2> QED BY <2>1 DEF HealthAnswer, flagVars
<1>5. CASE SessionSend \/ SessionAck \/ SessionTimeout \/ SessionError \/ SessionNotice
           \/ SendRequest
    BY <1>5 DEF SessionSend, SessionAck, SessionTimeout, SessionError, SessionNotice, SendRequest,
       SessionUnchanged, ctxVars, flagVars
<1>6. CASE AckSkip \/ AckRead \/ AckTimeout
    BY <1>6 DEF AckSkip, AckRead, AckTimeout, AckUnchanged, Report, EndTurn, flagVars
<1>7. CASE PollControl \/ EventLimit \/ ReadTimeout
    BY <1>7 DEF PollControl, EventLimit, ReadTimeout, DrainControlPlane, Report, EndTurn,
       flagVars, EndInv
<1>8. CASE ReadFrame  BY <1>8, OwnReadStep
<1>9. CASE SaveSend \/ SaveAck \/ SaveTimeout \/ TurnError
    BY <1>9 DEF SaveSend, SaveAck, SaveTimeout, SaveUnchanged, TurnError, ctxVars, flagVars
<1>10. CASE FinishTurn  BY <1>10 DEF FinishTurn, EmptyBuffer
<1>11. CASE UNCHANGED vars  BY <1>11 DEF vars, ctxVars, flagVars
<1> QED BY <1>1, <1>2, <1>3, <1>4, <1>5, <1>6, <1>7, <1>8, <1>9, <1>10, <1>11
        DEF Next, Server, Serve, RunTurn

\* Whatever the agent streamed for earlier, abandoned turns, whatever ids its texts
\* quote, and whoever shares the pipe, turn_process_events ends a turn with text of
\* that turn's request.  The id test of its own (strstr) would let a quotation
\* through; turn_await_ack does not, and nothing of an earlier request comes after
\* the acknowledgement of the last one.
THEOREM OwnOutput == Spec => []OwnOutputOnly
<1>1. Init => TypeInv /\ EndInv /\ AckedInv /\ OwnInv
    BY InitTypeInv, InitEndInv, InitAcked DEF Init, OwnInv, OwnOutputOnly
<1>2. TypeInv /\ EndInv /\ AckedInv /\ OwnInv /\ [Next]_vars
         => (TypeInv /\ EndInv /\ AckedInv /\ OwnInv)'
    BY TypeInvStep, EndInvStep, AckedStep, OwnInvStep
<1>3. OwnInv => OwnOutputOnly
    BY DEF OwnInv
<1> QED BY <1>1, <1>2, <1>3, PTL DEF Spec

-----------------------------------------------------------------------------
(* The steps a turn can still take.                                        *)

\* Within turn_process_events: events to the limit, each with a round of empty
\* polls to the timeout.
InLoop(e, p) == (MaxEvents - e) * (2 * Polls + 1) + 2 * (Polls - p)

Places(p, left, t, e, n) ==
    IF p = "session" THEN InLoop(0, 0) + AckRetries + 5 + 3 * left
    ELSE IF p = "sesserr" THEN InLoop(0, 0) + AckRetries + 6 + 3 * left
    ELSE IF p = "sessack" THEN InLoop(0, 0) + AckRetries + 7 + 3 * left
    ELSE IF p = "ack" THEN InLoop(0, 0) + 4 + t
    ELSE IF p = "poll" THEN InLoop(e, n) + 4
    ELSE IF p = "read" THEN InLoop(e, n) + 3
    ELSE IF p = "save" THEN 3
    ELSE IF p = "saveack" \/ p = "turnerr" THEN 2
    ELSE IF p = "finish" THEN 1 ELSE 0

StepsLeft == Places(pc, Len(plan), tries, events, polls)

\* A pong or a health answer is dropped uncounted, and the response timeout begins
\* again with it.
TakesLifecycle == pc = "read" /\ toBridge # <<>> /\ Lifecycle(Head(toBridge))

\* where the counters stand
BoundInv ==
    /\ pc \notin {"poll", "read", "save", "saveack", "turnerr", "finish"} =>
          events = 0 /\ polls = 0
    /\ pc \in {"poll", "read"} => events \in 0..MaxEvents /\ polls \in 0..(Polls - 1)
    /\ pc = "read" => events # MaxEvents

LEMMA LoopCounts ==
    /\ \A e \in 0..MaxEvents, n \in 0..Polls : InLoop(e, n) \in Nat
    /\ \A e \in 0..MaxEvents, n \in 0..(Polls - 1) :
          /\ InLoop(e, n + 1) + 2 = InLoop(e, n)
          /\ e # MaxEvents => InLoop(e + 1, 0) + 1 < InLoop(e, n)
<1> DEFINE round == 2 * Polls + 1
<1>0. MaxEvents \in Nat /\ Polls \in Nat \ {0} /\ round \in Nat
    BY BoundsAssumption
<1>1. ASSUME NEW e \in 0..MaxEvents PROVE (MaxEvents - e) * round \in Nat
  <2> DEFINE m == MaxEvents - e
  <2>1. m \in Nat
      BY <1>0
  <2> HIDE DEF m, round
  <2>2. m * round \in Nat
      BY <1>0, <2>1
  <2> QED BY <2>2 DEF m
<1>2. ASSUME NEW e \in 0..MaxEvents, e # MaxEvents
      PROVE  (MaxEvents - (e + 1)) * round = (MaxEvents - e) * round - round
  <2> DEFINE m == MaxEvents - e
  <2>1. m \in Nat /\ MaxEvents - (e + 1) = m - 1
      BY <1>0
  <2> HIDE DEF m, round
  <2>2. (m - 1) * round = m * round - round
      BY <1>0, <2>1
  <2> QED BY <2>1, <2>2 DEF m
<1>3. ASSUME NEW e \in 0..MaxEvents, NEW n \in 0..Polls PROVE InLoop(e, n) \in Nat
  <2>1. InLoop(e, n) = (MaxEvents - e) * round + 2 * (Polls - n)
      BY DEF InLoop
  <2> DEFINE a == (MaxEvents - e) * round
  <2>2. a \in Nat /\ InLoop(e, n) = a + 2 * (Polls - n)
      BY <1>1, <2>1
  <2> HIDE DEF a
  <2> QED BY <1>0, <2>2
<1>4. ASSUME NEW e \in 0..MaxEvents, NEW n \in 0..(Polls - 1)
      PROVE  /\ InLoop(e, n + 1) + 2 = InLoop(e, n)
             /\ e # MaxEvents => InLoop(e + 1, 0) + 1 < InLoop(e, n)
  <2> DEFINE a == (MaxEvents - e) * round
             b == (MaxEvents - (e + 1)) * round
  <2>1. /\ InLoop(e, n) = a + 2 * (Polls - n)
        /\ InLoop(e, n + 1) = a + 2 * (Polls - (n + 1))
        /\ InLoop(e + 1, 0) = b + 2 * (Polls - 0)
      BY DEF InLoop
  <2>2. a \in Nat /\ (e # MaxEvents => b = a - round)
      BY <1>1, <1>2
  <2> HIDE DEF a, b
  <2> QED BY <1>0, <2>1, <2>2
<1> QED BY <1>3, <1>4

\* what is outside the turn leaves its counters alone
LEMMA TurnUntouched ==
    ASSUME [Next]_vars, ~Server
    PROVE  UNCHANGED <<pc, plan, tries, events, polls>>
BY ClientFrame, AgentFrame, HeartbeatFrame DEF Next, vars, ctxVars

LEMMA ReadMoves ==
    ASSUME TypeInv, ReadFrame
    PROVE  /\ pc = "read" /\ polls' = 0
           /\ \/ pc' = "poll" /\ events' = events + 1
              \/ pc' = "poll" /\ events' = events /\ TakesLifecycle
              \/ pc' \in {"turnerr", "finish", "save"}
<1> DEFINE f == Head(toBridge)
<1>1. /\ pc = "read" /\ toBridge # <<>> /\ polls' = 0
      /\ \/ Lifecycle(f) /\ Continue(0, out)
         \/ Report("mismatch") \/ EndTurn("agent_error") \/ Complete(f)
         \/ Continue(1, out \cup {f.id}) \/ Continue(1, out) \/ Continue(1, {0})
    BY Zenon DEF ReadFrame, Receive
<1> HIDE DEF f
<1>2. CASE Lifecycle(f) /\ Continue(0, out)
  <2>1. pc' = "poll" /\ events' = events + 0 /\ events \in Nat
      BY <1>2 DEF Continue, TypeInv, TypeOK, ServerType
  <2> QED BY <1>1, <1>2, <2>1 DEF TakesLifecycle, f
<1>3. CASE Report("mismatch") \/ EndTurn("agent_error") \/ Complete(f)
    BY <1>1, <1>3 DEF Report, EndTurn, Complete
<1>4. CASE Continue(1, out \cup {f.id}) \/ Continue(1, out) \/ Continue(1, {0})
    BY <1>1, <1>4 DEF Continue
<1> QED BY <1>1, <1>2, <1>3, <1>4

LEMMA BoundStep ==
    ASSUME TypeInv, BoundInv, [Next]_vars
    PROVE  BoundInv'
<1>0. events \in Nat /\ polls \in Nat /\ MaxEvents \in Nat /\ Polls \in Nat \ {0}
    BY BoundsAssumption DEF TypeInv, TypeOK, ServerType
<1>1. CASE ~Server
    BY <1>1, TurnUntouched DEF BoundInv
<1>2. CASE Serve
  <2>1. UNCHANGED <<events, polls>> /\ pc \in {"idle", "health"}
        /\ pc' \in {"idle", "health", "session"}
      BY <1>2 DEF Serve, Arrived, PostTurn, CompactTurn, BeginTurn, TurnUnavailable, IdleDelete,
         IdleModels, HealthSend, HealthRead, HealthTimeout, HealthAnswer, ctxVars
  <2> QED BY <2>1 DEF BoundInv
<1>3. CASE SessionSend \/ SessionAck \/ SessionTimeout \/ SessionError \/ SessionNotice
           \/ SendRequest
  <2>1. UNCHANGED <<events, polls>> /\ pc \in {"session", "sessack", "sesserr"}
        /\ pc' \in {"session", "sessack", "sesserr", "ack"}
      BY <1>3 DEF SessionSend, SessionAck, SessionTimeout, SessionError, SessionNotice,
         SendRequest, SessionUnchanged, ctxVars
  <2> QED BY <2>1 DEF BoundInv
<1>4. CASE AckSkip \/ AckRead \/ AckTimeout
  <2>1. UNCHANGED <<events, polls>> /\ pc = "ack"
        /\ pc' \in {"ack", "poll", "turnerr", "finish"}
      BY <1>4 DEF AckSkip, AckRead, AckTimeout, AckUnchanged, Report, EndTurn
  <2> QED BY <1>0, <2>1 DEF BoundInv
<1>5. CASE PollControl
  <2>1. UNCHANGED <<events, polls>> /\ pc = "poll" /\ events < MaxEvents
        /\ pc' \in {"read", "finish"}
      BY <1>5 DEF PollControl, EndTurn
  <2> QED BY <1>0, <2>1 DEF BoundInv
<1>6. CASE ReadFrame
  <2>1. /\ pc = "read" /\ polls' = 0
        /\ \/ pc' = "poll" /\ (events' = events \/ events' = events + 1)
           \/ pc' \in {"turnerr", "finish", "save"}
      BY <1>6, ReadMoves
  <2> QED BY <1>0, <2>1 DEF BoundInv
<1>7. CASE ReadTimeout
  <2>1. /\ pc = "read" /\ events' = events
        /\ \/ pc' = "poll" /\ polls' = polls + 1 /\ polls + 1 < Polls
           \/ pc' = "turnerr"
      BY <1>7 DEF ReadTimeout, TimeoutCharged, Report
  <2> QED BY <1>0, <2>1 DEF BoundInv
<1>8. CASE EventLimit \/ SaveSend \/ SaveAck \/ SaveTimeout \/ TurnError
  <2>1. pc' \in {"saveack", "finish"}
      BY <1>8 DEF EventLimit, EndTurn, SaveSend, SaveAck, SaveTimeout, TurnError
  <2> QED BY <2>1 DEF BoundInv
<1>9. CASE FinishTurn
    BY <1>9 DEF FinishTurn, BoundInv
<1> QED BY <1>1, <1>2, <1>3, <1>4, <1>5, <1>6, <1>7, <1>8, <1>9 DEF Server, RunTurn

\* the numbers of the places, as they are compared
LEMMA PlacesValues ==
    ASSUME NEW left, NEW t, NEW e, NEW n
    PROVE  /\ Places("session", left, t, e, n) = InLoop(0, 0) + AckRetries + 5 + 3 * left
           /\ Places("sesserr", left, t, e, n) = InLoop(0, 0) + AckRetries + 6 + 3 * left
           /\ Places("sessack", left, t, e, n) = InLoop(0, 0) + AckRetries + 7 + 3 * left
           /\ Places("ack", left, t, e, n) = InLoop(0, 0) + 4 + t
           /\ Places("poll", left, t, e, n) = InLoop(e, n) + 4
           /\ Places("read", left, t, e, n) = InLoop(e, n) + 3
           /\ Places("save", left, t, e, n) = 3
           /\ Places("saveack", left, t, e, n) = 2 /\ Places("turnerr", left, t, e, n) = 2
           /\ Places("finish", left, t, e, n) = 1
           /\ Places("idle", left, t, e, n) = 0 /\ Places("health", left, t, e, n) = 0
BY DEF Places

LEMMA SessionUsesUp ==
    ASSUME TypeInv, BoundInv,
           SessionSend \/ SessionAck \/ SessionTimeout \/ SessionError \/ SessionNotice
              \/ SendRequest
    PROVE  StepsLeft' < StepsLeft
<1> DEFINE base == InLoop(0, 0) + AckRetries
<1>1. InLoop(0, 0) \in Nat /\ AckRetries \in Nat /\ base \in Nat
    BY LoopCounts, BoundsAssumption
<1>2. plan \in Seq(PlanSteps)
    BY DEF TypeInv, TypeOK, ServerType
<1>6. Len(plan) \in Nat
    BY <1>2, LenProperties
<1>3. CASE SessionSend \/ SessionNotice
  <2>1. /\ pc = "session" /\ plan # <<>> /\ plan' = Tail(plan)
        /\ pc' \in {"sessack", "session"}
      BY <1>3 DEF SessionSend, SessionNotice
  <2>2. Len(plan') = Len(plan) - 1 /\ Len(plan') \in Nat
      BY <1>2, <2>1, HeadTailProperties, LenProperties
  <2>3. StepsLeft = base + 5 + 3 * Len(plan)
      BY <2>1, PlacesValues DEF StepsLeft
  <2>4. \/ StepsLeft' = base + 7 + 3 * Len(plan')
        \/ StepsLeft' = base + 5 + 3 * Len(plan')
      BY <2>1, PlacesValues DEF StepsLeft
  <2> HIDE DEF base
  <2> QED BY <1>1, <1>6, <2>2, <2>3, <2>4
<1>4. CASE SessionAck \/ SessionTimeout \/ SessionError
  <2>1. /\ plan' = plan
        /\ \/ pc = "sessack" /\ pc' \in {"session", "sesserr"}
           \/ pc = "sesserr" /\ pc' = "session"
      BY <1>4 DEF SessionAck, SessionTimeout, SessionError, SessionUnchanged, ctxVars
  <2>2. \/ /\ StepsLeft = base + 7 + 3 * Len(plan)
           /\ \/ StepsLeft' = base + 5 + 3 * Len(plan)
              \/ StepsLeft' = base + 6 + 3 * Len(plan)
        \/ /\ StepsLeft = base + 6 + 3 * Len(plan)
           /\ StepsLeft' = base + 5 + 3 * Len(plan)
      BY <2>1, PlacesValues DEF StepsLeft
  <2> HIDE DEF base
  <2> QED BY <1>1, <1>6, <2>2
<1>5. CASE SendRequest
  <2>1. pc = "session" /\ pc' = "ack" /\ tries' = AckRetries
      BY <1>5 DEF SendRequest
  <2>2. /\ StepsLeft = InLoop(0, 0) + AckRetries + 5 + 3 * Len(plan)
        /\ StepsLeft' = InLoop(0, 0) + 4 + AckRetries
      BY <2>1, PlacesValues DEF StepsLeft
  <2>3. InLoop(0, 0) \in Nat /\ AckRetries \in Nat
      BY <1>1
  <2> HIDE DEF base
  <2> QED BY <1>6, <2>2, <2>3
<1> QED BY <1>3, <1>4, <1>5

LEMMA AckUsesUp ==
    ASSUME TypeInv, BoundInv, AckSkip \/ AckRead \/ AckTimeout
    PROVE  StepsLeft' < StepsLeft
<1>1. InLoop(0, 0) \in Nat /\ tries \in Nat /\ pc = "ack" /\ tries > 0
    BY LoopCounts, BoundsAssumption DEF TypeInv, TypeOK, ServerType, Counters, AckSkip,
       AckRead, AckTimeout
<1>2. StepsLeft = InLoop(0, 0) + 4 + tries
    BY <1>1, PlacesValues DEF StepsLeft
<1>3. events = 0 /\ polls = 0 /\ UNCHANGED <<events, polls>>
    BY <1>1 DEF BoundInv, AckSkip, AckRead, AckTimeout, AckUnchanged
<1>4. \/ pc' = "ack" /\ tries' = tries - 1
      \/ pc' \in {"poll", "turnerr", "finish"}
    BY <1>1 DEF AckSkip, AckRead, AckTimeout, Report, EndTurn
<1>5. \/ StepsLeft' = InLoop(0, 0) + 4 + (tries - 1)
      \/ StepsLeft' = InLoop(0, 0) + 4
      \/ StepsLeft' \in {1, 2}
    BY <1>3, <1>4, PlacesValues DEF StepsLeft
<1> QED BY <1>1, <1>2, <1>5

LEMMA LoopUsesUp ==
    ASSUME TypeInv, BoundInv,
           PollControl \/ EventLimit \/ ReadTimeout \/ (ReadFrame /\ ~TakesLifecycle)
    PROVE  StepsLeft' < StepsLeft
<1>1. /\ pc \in {"poll", "read"} /\ events \in 0..MaxEvents /\ polls \in 0..(Polls - 1)
      /\ MaxEvents \in Nat /\ Polls \in Nat \ {0}
    BY BoundsAssumption DEF BoundInv, PollControl, EventLimit, ReadTimeout, ReadFrame
<1>2. InLoop(events, polls) \in Nat
    BY <1>1, LoopCounts
<1>3. CASE PollControl \/ EventLimit
  <2>1. pc = "poll" /\ UNCHANGED <<events, polls>> /\ pc' \in {"read", "finish"}
      BY <1>3 DEF PollControl, EventLimit, EndTurn
  <2>2. /\ StepsLeft = InLoop(events, polls) + 4
        /\ StepsLeft' = InLoop(events, polls) + 3 \/ StepsLeft' = 1
      BY <2>1, PlacesValues DEF StepsLeft
  <2> QED BY <1>2, <2>2
<1>4. CASE ReadTimeout
  <2>1. /\ pc = "read" /\ events' = events
        /\ \/ pc' = "poll" /\ polls' = polls + 1
           \/ pc' = "turnerr"
      BY <1>4 DEF ReadTimeout, TimeoutCharged, Report
  <2>2. /\ StepsLeft = InLoop(events, polls) + 3
        /\ StepsLeft' = InLoop(events, polls + 1) + 4 \/ StepsLeft' = 2
      BY <2>1, PlacesValues DEF StepsLeft
  <2>3. InLoop(events, polls + 1) + 2 = InLoop(events, polls)
      BY <1>1, LoopCounts
  <2>4. InLoop(events, polls + 1) \in Nat
      BY <1>1, LoopCounts
  <2> QED BY <1>2, <2>2, <2>3, <2>4
<1>5. CASE ReadFrame /\ ~TakesLifecycle
  <2>1. /\ pc = "read" /\ polls' = 0
        /\ \/ pc' = "poll" /\ events' = events + 1
           \/ pc' \in {"turnerr", "finish", "save"}
      BY <1>5, ReadMoves
  <2>2. /\ StepsLeft = InLoop(events, polls) + 3
        /\ \/ StepsLeft' = InLoop(events + 1, 0) + 4
           \/ StepsLeft' \in {1, 2}
           \/ StepsLeft' = 3 /\ pc' = "save"
      BY <2>1, PlacesValues DEF StepsLeft
  <2>3. events # MaxEvents
      BY <2>1 DEF BoundInv
  <2>4. InLoop(events + 1, 0) + 1 < InLoop(events, polls) /\ InLoop(events + 1, 0) \in Nat
      BY <1>1, <2>3, LoopCounts
  <2> QED BY <1>2, <2>2, <2>4
<1> QED BY <1>3, <1>4, <1>5

LEMMA EndUsesUp ==
    ASSUME SaveSend \/ SaveAck \/ SaveTimeout \/ TurnError \/ FinishTurn
    PROVE  StepsLeft' < StepsLeft
<1>1. \/ pc = "save" /\ pc' = "saveack"
      \/ pc \in {"saveack", "turnerr"} /\ pc' = "finish"
      \/ pc = "finish" /\ pc' = "idle"
    BY DEF SaveSend, SaveAck, SaveTimeout, TurnError, FinishTurn
<1>2. \/ StepsLeft = 3 /\ StepsLeft' = 2
      \/ StepsLeft = 2 /\ StepsLeft' = 1
      \/ StepsLeft = 1 /\ StepsLeft' = 0
    BY <1>1, PlacesValues DEF StepsLeft
<1> QED BY <1>2

\* a step of the turn uses up one of the steps left
LEMMA TurnCounts ==
    ASSUME TypeInv, BoundInv, RunTurn, ~TakesLifecycle
    PROVE  StepsLeft' < StepsLeft
BY SessionUsesUp, AckUsesUp, LoopUsesUp, EndUsesUp DEF RunTurn

LEMMA StepsType == TypeInv /\ BoundInv => StepsLeft \in Nat
<1> SUFFICES ASSUME TypeInv, BoundInv PROVE StepsLeft \in Nat
    OBVIOUS
<1>1. /\ pc \in TurnPcs \cup {"idle", "health"}
      /\ Len(plan) \in Nat /\ tries \in Nat
    BY LenProperties DEF TypeInv, TypeOK, ServerType
<1>6. AckRetries \in Nat /\ MaxEvents \in Nat /\ Polls \in Nat \ {0}
    BY BoundsAssumption
<1>2. InLoop(0, 0) \in Nat
    BY <1>6, LoopCounts
<1>3. CASE pc \in {"poll", "read"}
  <2>1. InLoop(events, polls) \in Nat
      BY <1>3, <1>6, LoopCounts DEF BoundInv
  <2>2. StepsLeft = InLoop(events, polls) + 4 \/ StepsLeft = InLoop(events, polls) + 3
      BY <1>3, PlacesValues DEF StepsLeft
  <2> QED BY <2>1, <2>2
<1>4. CASE pc \in {"session", "sesserr", "sessack", "ack"}
  <2>1. \/ StepsLeft = InLoop(0, 0) + AckRetries + 5 + 3 * Len(plan)
        \/ StepsLeft = InLoop(0, 0) + AckRetries + 6 + 3 * Len(plan)
        \/ StepsLeft = InLoop(0, 0) + AckRetries + 7 + 3 * Len(plan)
        \/ StepsLeft = InLoop(0, 0) + 4 + tries
      BY <1>4, PlacesValues DEF StepsLeft
  <2>2. Len(plan) \in Nat /\ tries \in Nat
      BY <1>1
  <2>3. InLoop(0, 0) + 4 + tries \in Nat
      BY <1>2, <2>2
  <2>4. /\ InLoop(0, 0) + AckRetries + 5 + 3 * Len(plan) \in Nat
        /\ InLoop(0, 0) + AckRetries + 6 + 3 * Len(plan) \in Nat
        /\ InLoop(0, 0) + AckRetries + 7 + 3 * Len(plan) \in Nat
      BY <1>2, <1>6, <2>2
  <2> QED BY <2>1, <2>3, <2>4
<1>5. CASE pc \in {"save", "saveack", "turnerr", "finish", "idle", "health"}
  <2>1. StepsLeft \in {0, 1, 2, 3}
      BY <1>5, PlacesValues DEF StepsLeft
  <2> QED BY <2>1
<1> QED BY <1>1, <1>3, <1>4, <1>5 DEF TurnPcs

LEMMA OthersLeave ==
    ASSUME TypeInv, BoundInv, [Next]_vars, ~RunTurn, pc # "idle"
    PROVE  ~(StepsLeft' > StepsLeft)
<1>1. StepsLeft \in Nat
    BY StepsType
<1>2. CASE ~Server
  <2>1. StepsLeft' = StepsLeft
      BY <1>2, TurnUntouched DEF StepsLeft
  <2> QED BY <1>1, <2>1
<1>3. CASE Serve
  <2>1. pc = "health" /\ pc' = "idle"
      BY <1>3 DEF Serve, Arrived, PostTurn, CompactTurn, TurnUnavailable, IdleDelete,
         IdleModels, HealthSend, HealthRead, HealthTimeout, HealthAnswer
  <2>2. StepsLeft = 0 /\ StepsLeft' = 0
      BY <2>1, PlacesValues DEF StepsLeft
  <2> QED BY <2>2
<1> QED BY <1>2, <1>3 DEF Server

\* A turn ends by itself: every step the server thread takes inside one, whether
\* it reads a frame or times out, uses up a bounded number of steps, and nothing
\* the heartbeat, the agent or a client does gives any back.  The one exception is
\* a pong or a health answer read in turn_process_events: it is dropped uncounted
\* and the response timeout starts afresh with it (turn_context.c:528), so a turn
\* lasts as long as something keeps answering pings.
THEOREM TurnRunsOut ==
    Spec => /\ [](StepsLeft \in Nat)
            /\ [][/\ RunTurn /\ ~TakesLifecycle => StepsLeft' < StepsLeft
                  /\ StepsLeft' > StepsLeft =>
                        pc = "idle" \/ (RunTurn /\ TakesLifecycle)]_vars
<1>1. Init => TypeInv /\ BoundInv
    BY InitTypeInv DEF Init, BoundInv
<1>2. TypeInv /\ BoundInv /\ [Next]_vars => TypeInv' /\ BoundInv'
    BY TypeInvStep, BoundStep
<1>3. TypeInv /\ BoundInv => StepsLeft \in Nat
    BY StepsType
<1>4. ASSUME TypeInv, BoundInv, StepsLeft \in Nat, (StepsLeft \in Nat)', [Next]_vars
      PROVE  /\ RunTurn /\ ~TakesLifecycle => StepsLeft' < StepsLeft
             /\ StepsLeft' > StepsLeft => pc = "idle" \/ (RunTurn /\ TakesLifecycle)
  <2>1. StepsLeft \in Nat /\ StepsLeft' \in Nat
      BY <1>4
  <2>2. RunTurn /\ ~TakesLifecycle => StepsLeft' < StepsLeft
      BY <1>4, TurnCounts
  <2>3. ~RunTurn /\ pc # "idle" => ~(StepsLeft' > StepsLeft)
      BY <1>4, OthersLeave
  <2> QED BY <2>1, <2>2, <2>3
<1> QED BY <1>1, <1>2, <1>3, <1>4, PTL DEF Spec

=============================================================================
