---------------------------- MODULE RawDelivery ----------------------------
(***************************************************************************)
(* Answers with and without frames.  Over the legacy raw stdio transport a  *)
(* reader thread puts whatever the agent prints into a ring, and a request  *)
(* is answered with what the ring holds when something is in it, or when    *)
(* the response timeout has passed.  Which of the two a bridge uses is      *)
(* settled when it starts.                                                  *)
(*                                                                         *)
(* What the agent prints is the units 1, 2, ... over all requests.  Writing *)
(* the request to the agent, which answers nothing in particular, is left   *)
(* out, and so are the hints that go before it.                             *)
(***************************************************************************)
EXTENDS AnswerDelivery

CONSTANTS
    MaxPrinted,     \* bound: units the agent prints
    RingCap,        \* eng->capacity
    ContentMax,     \* max_output_buffer, the NUL included
    ChunkSize       \* units of a delta, 4096 in the code

ASSUME RawBounds ==
    /\ MaxPrinted \in Nat /\ RingCap \in Nat \ {0} /\ ContentMax \in Nat \ {0, 1}
    /\ ChunkSize \in Nat \ {0}

VARIABLES
    framed,         \* use_framed_protocol
    printed,        \* units the agent printed so far
    ring,           \* text_buffer, text_head, text_tail
    place,          \* of the server thread: "idle", "wait", "write"
    content, offset, cut,   \* the locals of handle_response_stream
    cancelled,      \* eng->cancelled, which nothing resets here
    given, upto     \* history: the last unit read before content, printed by then

framedVars == <<turn, answer, sent, events, prefix, out, limited>>
readVars   == <<content, cut, given, upto>>
rawVars    == <<framed, printed, ring, place, readVars, offset, cancelled>>

\* what every step of the unframed writer leaves alone
Same == UNCHANGED <<charsCap, framedVars, framed>>

DInit ==
    /\ Init /\ framed \in BOOLEAN /\ printed = 0
    /\ ring = [buf |-> [i \in 0 .. RingCap - 1 |-> 0], head |-> 0, tail |-> 0]
    /\ place = "idle" /\ content = <<>> /\ offset = 0 /\ cut = FALSE /\ cancelled = FALSE
    /\ given = 0 /\ upto = 0

-----------------------------------------------------------------------------
(* The ring.                                                               *)

NeverFull(head, tail)   == FALSE
OneByteFree(head, tail) == head - tail >= RingCap

AppendUnit(r, u) ==
    LET h == r.head + 1 IN
    [buf |-> [r.buf EXCEPT ![r.head % RingCap] = u], head |-> h,
     tail |-> IF OneByteFree(h, r.tail) THEN h - RingCap + 1 ELSE r.tail]

Available == ring.head - ring.tail
ReadSize  == IF Available >= ContentMax THEN ContentMax - 1 ELSE Available
RingText  == [i \in 1..ReadSize |-> ring.buf[(ring.tail + i - 1) % RingCap]]

\* The agent prints and the reader pushes.  The code pushes a line under one lock;
\* a read in the middle of a line is one more than it has.
PushLine ==
    /\ ~framed /\ Same
    /\ printed < MaxPrinted /\ printed' = printed + 1
    /\ ring' = AppendUnit(ring, printed')
    /\ UNCHANGED <<requests, mode, busy, streamVars, reply, place, readVars, offset, cancelled>>

-----------------------------------------------------------------------------
(* A request.                                                              *)

StartRaw ==
    /\ ~framed /\ Same
    /\ place = "idle" /\ requests < MaxRequests
    /\ place' = "wait" /\ requests' = requests + 1
    /\ UNCHANGED <<mode, busy, streamVars, reply, printed, ring, readVars, offset, cancelled>>

\* what engine_read_text finds when the wait is over, early or late
ReadText ==
    /\ ~framed /\ Same /\ place = "wait"
    /\ content' = IF ReadSize = 0 THEN Diagnosis ELSE RingText
    /\ cut' = (ReadSize >= ContentMax - 1)
    /\ ring' = [ring EXCEPT !.tail = @ + ReadSize]
    /\ given' = IF content \in {<<>>, Diagnosis} THEN given ELSE Last(content)
    /\ upto' = printed
    /\ UNCHANGED <<requests, printed, cancelled>>

OpenStream ==
    /\ ReadText /\ place' = "write" /\ offset' = 0
    /\ busy' = TRUE /\ mode' = "stream"
    /\ wire' = Order!Numbered(Order!Opening, 0, <<>>) /\ seq' = Len(Order!Opening)
    /\ part' = <<>> /\ gone' = FALSE
    /\ UNCHANGED reply

RawBlock ==
    /\ ReadText /\ place' = "idle" /\ mode' = "block"
    /\ reply' =
         [type |-> "response",
          text |-> IF TooLong(content') THEN SubSeq(content', 1, charsCap) ELSE content',
          mark |-> IF cut' THEN "max_output_buffer"
                   ELSE IF TooLong(content') THEN "max_output_chars" ELSE ""]
    /\ UNCHANGED <<busy, streamVars, offset>>

Writes ==
    /\ ~framed /\ Same /\ place = "write"
    /\ UNCHANGED <<requests, mode, reply, printed, ring, readVars>>

Chunk ==
    /\ Writes /\ offset < Len(content) /\ ~cancelled
    /\ EmitDelta(SubSeq(content, offset + 1, Lesser(offset + ChunkSize, Len(content))))
    /\ offset' = offset + ChunkSize
    /\ UNCHANGED <<busy, place, cancelled>>

\* cancelled at some time before, or the client takes nothing for a second
CancelRaw ==
    /\ Writes /\ offset < Len(content) /\ cancelled' = TRUE
    /\ Order!Put(<<Order!Event("response.error", seq, <<>>, "")>>)
    /\ seq' = seq + 1 /\ busy' = FALSE /\ place' = "idle"
    /\ UNCHANGED <<part, gone, offset>>

CompleteRaw ==
    /\ Writes /\ offset >= Len(content)
    /\ Order!Put(Order!Completion(seq, part, IF cut THEN "max_output_buffer" ELSE ""))
    /\ seq' = seq + Len(Order!Closing) + 1 /\ busy' = FALSE /\ place' = "idle"
    /\ UNCHANGED <<part, gone, offset, cancelled>>

\* DELETE, which is read between requests
Delete ==
    /\ ~framed /\ Same /\ place = "idle" /\ cancelled' = TRUE
    /\ UNCHANGED <<requests, mode, busy, streamVars, reply, printed, ring, place, readVars, offset>>

Raw == \/ PushLine \/ StartRaw \/ OpenStream \/ RawBlock
       \/ Chunk \/ CancelRaw \/ CompleteRaw \/ Delete

\* a client may close its stream at any moment; both writers ignore it
DNext ==
    \/ framed /\ Next /\ UNCHANGED rawVars
    \/ Raw
    \/ ~framed /\ ClientLeaves /\ UNCHANGED rawVars

DSpec == DInit /\ [][DNext]_<<vars, rawVars>>

-----------------------------------------------------------------------------
(* Properties.                                                             *)

\* What answers a request is what the agent printed next: a stretch of its
\* output without hole or repetition, that begins where the one before ended, or
\* later only because the ring keeps no more than its capacity less one, and that
\* ends where the output ended when it was read, or is marked as cut.  Whether it
\* is the answer to this request, the unframed protocol cannot tell
\* (ring_append and ring_read under engine_read_text).
NextOutput ==
    content # <<>> =>
      LET first == IF upto - given < RingCap THEN given + 1 ELSE upto - RingCap + 2
          next  == Text(first - 1, upto - first + 1)
      IN  IF next = <<>> THEN content = Diagnosis
          ELSE content = IF cut THEN SubSeq(next, 1, ContentMax - 1) ELSE next
=============================================================================
