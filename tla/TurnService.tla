---------------------------- MODULE TurnService ----------------------------
(***************************************************************************)
(* What the bridge promises its HTTP clients, with no agent, no frame and  *)
(* no heartbeat in sight: connections are taken in the order they came;    *)
(* one of them at a time may hold the server for a turn or a health check; *)
(* those that come in during a turn are answered at once, and a DELETE     *)
(* among them dooms the turn; a turn gets exactly one outcome, which is    *)
(* never a success once the turn is doomed and never "cancelled" unless it *)
(* is.  TurnProtocol implements it.                                        *)
(***************************************************************************)
EXTENDS Integers, Sequences

CONSTANTS Kinds, MaxConns

VARIABLES
    kind,       \* what each connection asked, in order of arrival
    replies,    \* the replies each connection got
    served,     \* connections taken from the queue so far
    active,     \* the connection that holds the server, 0 if none
    doomed      \* turns that were cancelled by a client

svars == <<kind, replies, served, active, doomed>>

TurnKinds == {"stream", "block", "compact"}

SInit == kind = <<>> /\ replies = <<>> /\ served = 0 /\ active = 0 /\ doomed = {}

Connect ==
    /\ Len(kind) < MaxConns
    /\ \E k \in Kinds : kind' = Append(kind, k)
    /\ replies' = Append(replies, <<>>)
    /\ UNCHANGED <<served, active, doomed>>

\* answers a connection may get without holding the server; an unavailable
\* agent is reported twice to a turn that does not stream
ImmediateReplies(k) ==
    CASE k = "block"               -> {<<"unavailable", "unavailable">>}
      [] k \in {"stream", "compact"} -> {<<"unavailable">>}
      [] k \in {"delete", "models"}  -> {<<"ok">>}
      [] OTHER                     -> {}

AnswerAtOnce ==
    /\ active = 0 /\ served < Len(kind)
    /\ served' = served + 1
    /\ \E r \in ImmediateReplies(kind[served + 1]) :
         replies' = [replies EXCEPT ![served + 1] = r]
    /\ UNCHANGED <<kind, active, doomed>>

Start ==
    /\ active = 0 /\ served < Len(kind)
    /\ kind[served + 1] \in TurnKinds \cup {"health"}
    /\ active' = served + 1 /\ served' = served + 1
    /\ UNCHANGED <<kind, replies, doomed>>

DuringTurn(k) ==
    CASE k \in {"models", "delete"} -> <<"ok">>
      [] k \in {"stream", "block"}  -> <<"conflict">>
      [] OTHER                      -> <<"notfound">>

\* everyone who waits is answered, and the turn lives or is doomed
AnswerWaiting ==
    /\ active # 0 /\ kind[active] \in TurnKinds
    /\ served < Len(kind) /\ served' = Len(kind)
    /\ replies' = [c \in DOMAIN replies |->
                     IF c > served THEN DuringTurn(kind[c]) ELSE replies[c]]
    /\ doomed' = IF \E c \in served + 1 .. Len(kind) : kind[c] = "delete"
                 THEN doomed \cup {active} ELSE doomed
    /\ UNCHANGED <<kind, active>>

Outcomes(c) ==
    IF kind[c] = "health"       THEN {"ok", "unavailable"}
    ELSE IF c \in doomed        THEN {IF kind[c] = "stream" THEN "cancelled" ELSE "failed"}
    ELSE IF kind[c] = "compact" THEN {"completed", "failed"}
    ELSE {"completed", "incomplete", "failed"}

Finish ==
    /\ active # 0
    /\ \E r \in Outcomes(active) : replies' = [replies EXCEPT ![active] = <<r>>]
    /\ active' = 0
    /\ UNCHANGED <<kind, served, doomed>>

SNext == Connect \/ AnswerAtOnce \/ Start \/ AnswerWaiting \/ Finish

SSpec == SInit /\ [][SNext]_svars

=============================================================================
