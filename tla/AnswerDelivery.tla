--------------------------- MODULE AnswerDelivery ---------------------------
(***************************************************************************)
(* What happens to the text of an answer on its way from the agent's       *)
(* frames to the client, over the framed protocol: handle_response_native  *)
(* around turn_process_events, the Responses stream state, and             *)
(* handle_response_block.  Requests follow one another; the turn itself    *)
(* (frames, ids, cancellation, timeouts) is TurnProtocol's, and here it    *)
(* may go on, end, or fail at any moment.                                  *)
(*                                                                         *)
(* Text is a sequence of units, and every buffer of the code is the number *)
(* of units it holds.  An answer is the units 1, 2, ... answer.  Not       *)
(* modelled: what a failure event or a 503 says, tool calls, and a failed  *)
(* malloc of the stream state.                                             *)
(***************************************************************************)
EXTENDS Integers, Sequences, SequencesExt

CONSTANTS
    MaxRequests,    \* bound: requests served
    MaxAnswer,      \* bound: units of an answer
    MaxEvents,      \* max_turn_events
    FieldCap,       \* units NativeResponseEvent.text holds
    PrefixCap,      \* units TurnContext.event_prefix holds
    OutCap,         \* units out_buf holds: max_output_buffer less its NUL
    PartCap,        \* units ContentPart.text holds
    CharsCaps       \* the values of max_output_chars; 0 is no limit

ASSUME CapsAssumption ==
    /\ MaxRequests \in Nat /\ MaxAnswer \in Nat /\ MaxEvents \in Nat
    /\ FieldCap \in Nat /\ PrefixCap \in Nat /\ OutCap \in Nat
    /\ PartCap \in Nat /\ CharsCaps \subseteq Nat

VARIABLES
    charsCap,   \* global_config.max_output_chars
    requests,   \* requests served so far
    mode,       \* how the current, or last, request is answered
    busy,       \* its turn, or its reply, is not over
    turn,       \* "running", or how the turn ended
    answer,     \* units of the agent's whole answer
    sent,       \* how many of them went out as text_delta
    events,     \* event_count
    prefix,     \* compaction notices
    out,        \* out_buf
    limited,    \* eng->turn_event_limited
    part,       \* the text of the stream's content part
    wire, seq,  \* the stream's events, and its sequence_number
    gone,       \* the stream's client closed the connection
    reply       \* the reply to a request that does not stream

turnVars   == <<charsCap, requests, mode, answer>>
streamVars == <<part, wire, seq, gone>>
vars == <<turnVars, busy, turn, sent, events, prefix, out, limited,
          streamVars, reply>>

Lesser(a, b) == IF a <= b THEN a ELSE b

\* n units of the answer after the first i
Text(i, n) == [u \in 1..n |-> i + u]

\* json_get_string into a fixed field: the rest is dropped
Field(i, n) == Text(i, Lesser(n, FieldCap))

\* what a client is told when the agent said nothing, over the unframed protocol
Diagnosis == <<-2>>

Texts == { Text(i, n) : i \in 0..MaxAnswer, n \in 0..MaxAnswer } \cup {Diagnosis}

Order == INSTANCE StreamOrder
           WITH open <- busy /\ mode = "stream", next <- seq, shown <- part

Notice   == <<0>>       \* a compaction notice
RawFrame == <<-1>>      \* a frame of an unexpected type, as it came

NoReply    == [type |-> "none", text |-> <<>>, mark |-> ""]
Refused503 == [type |-> "503", text |-> <<>>, mark |-> ""]

-----------------------------------------------------------------------------
(* Buffers.                                                                *)

\* append_text into a buffer of cap units
AppendWhole(buf, x, cap) == buf \o x
AppendText(buf, x, cap) ==
    buf \o SubSeq(x, 1, Lesser(Len(x), cap - Len(buf)))

\* the part takes a delta whole or not at all
Overwrite(x)  == IF Len(x) <= PartCap THEN x ELSE part
Accumulate(x) == IF Len(part) + Len(x) <= PartCap THEN part \o x ELSE part

\* responses_stream_emit_text_delta
EmitDelta(x) ==
    IF mode = "stream" /\ x # <<>>
    THEN /\ Order!Put(<<Order!Event("response.output_text.delta", seq, x, "")>>)
         /\ seq' = seq + 1 /\ part' = Accumulate(x)
         /\ UNCHANGED gone
    ELSE UNCHANGED streamVars

-----------------------------------------------------------------------------
Init ==
    /\ charsCap \in CharsCaps
    /\ requests = 0 /\ mode = "block" /\ busy = FALSE /\ turn = "ok"
    /\ answer = 0 /\ sent = 0 /\ events = 0 /\ prefix = <<>> /\ out = <<>>
    /\ limited = FALSE
    /\ part = <<>> /\ wire = <<>> /\ seq = 0 /\ gone = FALSE
    /\ reply = NoReply

StartTurn ==
    /\ ~busy /\ requests < MaxRequests
    /\ requests' = requests + 1 /\ busy' = TRUE /\ turn' = "running"
    /\ answer' \in 0..MaxAnswer
    /\ sent' = 0 /\ events' = 0 /\ prefix' = <<>> /\ out' = <<>>
    /\ UNCHANGED <<charsCap, limited>>

\* a stream opens before the turn begins
StartStream ==
    /\ StartTurn /\ mode' = "stream"
    /\ wire' = Order!Numbered(Order!Opening, 0, <<>>) /\ seq' = Len(Order!Opening)
    /\ part' = <<>> /\ gone' = FALSE
    /\ UNCHANGED reply

StartBlock ==
    /\ StartTurn /\ mode' = "block"
    /\ reply' = NoReply
    /\ UNCHANGED streamVars

-----------------------------------------------------------------------------
(* turn_process_events: one frame of each kind.                            *)

TakesFrame == busy /\ turn = "running" /\ events < MaxEvents

Counted ==
    /\ events' = events + 1
    /\ UNCHANGED <<turnVars, busy, turn, limited, reply>>

TextDelta ==
    /\ TakesFrame /\ Counted
    /\ \E n \in 0 .. answer - sent :
         /\ sent' = sent + n
         /\ out' = AppendText(out, Field(sent, n), OutCap)
         /\ EmitDelta(Field(sent, n))
    /\ UNCHANGED prefix

Compaction ==
    /\ TakesFrame /\ Counted
    /\ prefix' = AppendText(prefix, Notice, PrefixCap)
    /\ UNCHANGED <<sent, out, streamVars>>

\* thinking pings, and events the bridge has no name for
OtherEvent ==
    /\ TakesFrame /\ Counted
    /\ UNCHANGED <<sent, prefix, out, streamVars>>

\* a late reply to a state operation, for instance, is shown as it came
Unexpected ==
    /\ TakesFrame /\ Counted
    /\ out' = AppendText(AppendText(<<>>, prefix, OutCap), RawFrame, OutCap)
    /\ UNCHANGED <<sent, prefix, streamVars>>

Response ==
    /\ TakesFrame
    /\ out' = AppendText(AppendText(<<>>, prefix, OutCap), Field(0, answer), OutCap)
    /\ EmitDelta(Field(0, answer))
    /\ turn' = "ok"
    /\ UNCHANGED <<turnVars, busy, sent, events, prefix, limited, reply>>

EventLimit ==
    /\ busy /\ turn = "running" /\ events = MaxEvents
    /\ turn' = "limit"
    /\ UNCHANGED <<turnVars, busy, sent, events, prefix, out, limited,
                   streamVars, reply>>

\* every other way a turn ends; "cancelled": eng->cancelled was set by then
Abort ==
    /\ busy /\ turn = "running"
    /\ turn' \in {"cancelled", "failed"}
    /\ UNCHANGED <<turnVars, busy, sent, events, prefix, out, limited,
                   streamVars, reply>>

-----------------------------------------------------------------------------
(* After the turn.                                                         *)

Finish == busy /\ busy' = FALSE
          /\ UNCHANGED <<turnVars, turn, sent, events, prefix, out>>

Answered == turn \in {"ok", "limit"}

\* turn_event_limited is set by each turn, and read by the block writer
StickyLimit == limited \/ turn = "limit"
EventCapped == turn = "limit"

CompleteStream ==
    /\ Finish /\ mode = "stream" /\ Answered
    /\ limited' = EventCapped
    /\ Order!Put(Order!Completion(seq, part,
         IF turn = "limit" THEN "max_turn_events" ELSE ""))
    /\ seq' = seq + Len(Order!Closing) + 1
    /\ UNCHANGED <<part, gone, reply>>

FailStream ==
    /\ Finish /\ mode = "stream" /\ turn \in {"cancelled", "failed"}
    /\ limited' = FALSE
    /\ Order!Put(<<Order!Event(IF turn = "cancelled" THEN "response.failed"
                                                     ELSE "response.error",
                               seq, <<>>, "")>>)
    /\ seq' = seq + 1
    /\ UNCHANGED <<part, gone, reply>>

\* out_len >= content_max - 1: text that fills out_buf may have been cut
OverFull(x)   == Len(x) > OutCap
BufferFull(x) == Len(x) >= OutCap

TooLong(x) == charsCap > 0 /\ Len(x) > charsCap

ReplyBlock ==
    /\ Finish /\ mode = "block" /\ Answered
    /\ limited' = FALSE
    /\ reply' =
         [type |-> "response",
          text |-> IF TooLong(out) THEN SubSeq(out, 1, charsCap) ELSE out,
          mark |-> IF BufferFull(out) THEN "max_output_buffer"
                   ELSE IF TooLong(out) THEN "max_output_chars"
                   ELSE IF EventCapped THEN "max_turn_events" ELSE ""]
    /\ UNCHANGED streamVars

FailBlock ==
    /\ Finish /\ mode = "block" /\ turn \in {"cancelled", "failed"}
    /\ limited' = FALSE
    /\ reply' = Refused503
    /\ UNCHANGED streamVars

\* writes to a closed connection fail and are ignored
ClientLeaves ==
    /\ busy /\ mode = "stream"
    /\ gone' = TRUE
    /\ UNCHANGED <<turnVars, busy, turn, sent, events, prefix, out, limited,
                   part, wire, seq, reply>>

-----------------------------------------------------------------------------
Next == \/ StartStream \/ StartBlock
        \/ TextDelta \/ Compaction \/ OtherEvent \/ Unexpected \/ Response
        \/ EventLimit \/ Abort
        \/ CompleteStream \/ FailStream \/ ReplyBlock \/ FailBlock
        \/ ClientLeaves

Spec == Init /\ [][Next]_vars

-----------------------------------------------------------------------------
(* Properties.                                                             *)

\* The types of all variables; text is a sequence of units, and no buffer holds
\* more than it has room for (append_text, the part's test).
TypeOK ==
    /\ charsCap \in CharsCaps /\ requests \in Nat /\ answer \in 0..MaxAnswer /\ sent \in 0..answer
    /\ events \in 0..MaxEvents /\ seq \in Nat
    /\ mode \in {"stream", "block"}
    /\ turn \in {"running", "ok", "limit", "cancelled", "failed"}
    /\ busy \in BOOLEAN /\ limited \in BOOLEAN /\ gone \in BOOLEAN
    /\ prefix \in Seq(Int) /\ Len(prefix) <= PrefixCap
    /\ out \in Seq(Int) /\ Len(out) <= OutCap
    /\ part \in Seq(Int) /\ Len(part) <= PartCap
    /\ \A i \in DOMAIN wire :
         /\ wire[i].type \in Order!Types /\ wire[i].seq \in 0..seq
         /\ wire[i].text \in Seq(Int) /\ wire[i].mark \in Order!Marks
    /\ reply.type \in {"none", "response", "503"} /\ reply.text \in Seq(Int)

\* As StreamOrder says: events in order and numbered, each stream ended once,
\* and the closing events with exactly the text of the deltas.  It holds if the
\* content part has room for everything: responses_stream_state.c:152 drops a
\* delta that does not fit, after it was sent.
StreamSpec == Order!OSpec

\* what the client was given as a completed answer
Delivered ==
    IF mode = "stream"
    THEN { e \in ToSet(wire) : e.type = "response.completed" }
    ELSE { e \in {reply} : e.type = "response" }

\* An answer delivered as complete and not marked as cut contains the agent's
\* whole answer at its end, if a frame's field can hold it: neither out_buf
\* nor max_output_chars nor the event limit takes from it silently
\* (server.c:1277-1287 and 1467-1517).
UnmarkedIsWhole ==
    \A e \in Delivered :
        e.mark = "" /\ answer <= FieldCap => IsSuffix(Text(0, answer), e.text)

\* The mark is that of this request's turn: a turn cut at the event limit is
\* marked as cut, and one that was not does not carry the limit of an earlier
\* turn, although the flag lives in the engine (server.c:1268, 1510-1511).
MarkIsOwn ==
    \A e \in Delivered : /\ (turn = "limit" => e.mark # "")
                          /\ (e.mark = "max_turn_events" => turn = "limit")

=============================================================================
