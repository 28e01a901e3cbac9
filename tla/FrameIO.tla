------------------------------ MODULE FrameIO ------------------------------
(***************************************************************************)
(* One direction of the connection, byte by byte: threads that write       *)
(* frames with frame_write, which takes no lock, and threads that read     *)
(* them with frame_read under conn_read_mutex and a deadline.  The other    *)
(* modules take a frame as one step; this one says when they may.          *)
(*                                                                         *)
(* A byte is a unit that remembers what it is a byte of.  A tick is the    *)
(* 10 ms that the code charges for a read.  The pipe holds PipeCap units;  *)
(* a header is written at once, a payload as there is room.                *)
(***************************************************************************)
EXTENDS Integers, Sequences

CONSTANTS
    Writers,        \* threads that write, e.g. the server and the heartbeat
    HeaderUnits,    \* units of a length prefix
    MaxPayload,     \* FRAME_MAX_PAYLOAD
    Lengths,        \* lengths of the frames offered to frame_write
    Junk,           \* what bytes that are no prefix may be read as, besides too much
    Deadlines,      \* deadline_ms of the reads, in ticks
    PipeCap,
    MaxFrames       \* bound: frames each thread writes

ASSUME FrameBounds ==
    /\ HeaderUnits \in Nat \ {0} /\ MaxPayload \in Nat /\ PipeCap \in Nat
    /\ HeaderUnits <= PipeCap /\ MaxFrames \in Nat
    /\ Lengths \subseteq Nat \ {0} /\ Junk \subseteq 0..MaxPayload
    /\ Deadlines \subseteq Nat \ {0}

VARIABLES
    pipe,
    writing,    \* what each writer has yet to write of its frame, a sequence
    written,    \* frames each writer has begun
    reading,    \* a thread is in frame_read, and holds conn_read_mutex
    part,       \* "header" or "payload"
    have,       \* units read of that part
    size,       \* the payload's length, once known
    deadline,   \* of the part being read
    remaining, waited,  \* read_all_deadline: ticks left, ticks of this poll
    elapsed,    \* history: ticks since frame_read was called
    allowed,    \* the deadline it was called with
    \* history: frames written and not yet read, whether writers overlapped or a
    \* read gave up in the middle of a frame (nothing is due from then on), and
    \* whether, before that, something else was read than the frame due
    due, torn, wrong

writeVars == <<writing, written>>
readVars  == <<reading, part, have, size, deadline, remaining, waited, elapsed, allowed>>
history   == <<due, torn, wrong>>
vars == <<pipe, writeVars, readVars, history>>

Frames == [by : Writers, n : 1..MaxFrames, len : Lengths]
Units  == [frame : Frames, part : {"header", "payload"}, at : Nat]

Parts(f, p, n) == [i \in 1..n |-> [frame |-> f, part |-> p, at |-> i]]
Header(f)  == Parts(f, "header", HeaderUnits)
Payload(f) == Parts(f, "payload", f.len)

-----------------------------------------------------------------------------
Init ==
    /\ pipe = <<>> /\ due = <<>> /\ torn = FALSE /\ wrong = FALSE
    /\ writing = [w \in Writers |-> <<>>] /\ written = [w \in Writers |-> 0]
    /\ reading = FALSE /\ part = "header" /\ have = <<>> /\ size = 0
    /\ deadline = 0 /\ remaining = 0 /\ waited = 0 /\ elapsed = 0 /\ allowed = 0

-----------------------------------------------------------------------------
(* frame_write.                                                            *)

\* from a tear on nothing is due
Tear(now, frames) ==
    /\ torn' = (torn \/ now)
    /\ due' = IF torn' THEN <<>> ELSE frames

Overlaps(w) == \E v \in Writers \ {w} : writing[v] # <<>>

TooLarge(n)  == n > MaxPayload
NeverRefused(n) == FALSE
Refused(n)   == TooLarge(n)

\* a frame over the limit is refused, and nothing of it is written
WriteHeader(w) ==
    \E len \in Lengths :
      LET f == [by |-> w, n |-> written[w] + 1, len |-> len] IN
      /\ writing[w] = <<>> /\ written[w] < MaxFrames
      /\ written' = [written EXCEPT ![w] = @ + 1]
      /\ IF Refused(len)
         THEN UNCHANGED <<pipe, writing, history>>
         ELSE /\ Len(pipe) + HeaderUnits <= PipeCap
              /\ pipe' = pipe \o Header(f)
              /\ writing' = [writing EXCEPT ![w] = Payload(f)]
              /\ Tear(Overlaps(w), Append(due, f)) /\ UNCHANGED wrong
      /\ UNCHANGED readVars

\* write(2) takes as much as there is room for, or less
WritePayload(w) ==
    \E n \in 1 .. Len(writing[w]) :
      /\ Len(pipe) + n <= PipeCap
      /\ pipe' = pipe \o SubSeq(writing[w], 1, n)
      /\ writing' = [writing EXCEPT ![w] = SubSeq(@, n + 1, Len(@))]
      /\ Tear(Overlaps(w), due)
      /\ UNCHANGED <<written, readVars, wrong>>

-----------------------------------------------------------------------------
(* frame_read, under conn_read_mutex.                                      *)

\* read_all_deadline begins
Part(p, d) ==
    /\ part' = p /\ have' = <<>> /\ deadline' = d
    /\ remaining' = d /\ waited' = 0

BeginRead ==
    /\ ~reading /\ reading' = TRUE
    /\ \E d \in Deadlines : Part("header", d) /\ allowed' = d
    /\ size' = 0 /\ elapsed' = 0
    /\ UNCHANGED <<pipe, writeVars, history>>

Wanted == (IF part = "header" THEN HeaderUnits ELSE size) - Len(have)

\* frame_read returns, with its payload or NULL
Return ==
    /\ reading' = FALSE /\ part' = "header" /\ have' = <<>> /\ size' = 0
    /\ deadline' = 0 /\ remaining' = 0 /\ waited' = 0 /\ elapsed' = 0 /\ allowed' = 0

Expected(h, units) == torn \/ (due # <<>> /\ h = units)

InFrame(h) == part = "payload" \/ h # <<>>

\* a prefix, or other bytes taken for one
IsHeader(h)  == \E i \in DOMAIN h : h = Header(h[i].frame)
LengthsOf(h) == IF IsHeader(h) THEN {h[1].frame.len} ELSE Junk \cup {MaxPayload + 1}

\* the payload is given the deadline anew, less a tick
PayloadDeadline == deadline - 1

HeaderRead(h) ==
    /\ \E n \in LengthsOf(h) :
         \/ (TooLarge(n) \/ n = 0) /\ Return
         \/ /\ n > 0 /\ ~TooLarge(n)
            /\ Part("payload", PayloadDeadline) /\ size' = n
            /\ UNCHANGED <<reading, elapsed, allowed>>
    /\ wrong' = (wrong \/ ~Expected(h, Header(Head(due))))
    /\ UNCHANGED <<due, torn>>

PayloadRead(h) ==
    /\ Return
    /\ wrong' = (wrong \/ ~Expected(h, Payload(Head(due))))
    /\ due' = (IF due = <<>> THEN due ELSE Tail(due)) /\ UNCHANGED torn

\* a tick for the read, however long the poll took
NotCharged == remaining
Charged    == IF remaining = 0 THEN 0 ELSE remaining - 1

\* a deadline of 0 stops after one read
OneRead == deadline = 0

\* the whole part is there
AnyRead(n) == TRUE
Done(n)    == n = Wanted

ReadSome ==
    /\ reading /\ pipe # <<>>
    /\ deadline = 0 \/ remaining > 0
    /\ LET n == IF Wanted < Len(pipe) THEN Wanted ELSE Len(pipe)
           h == have \o SubSeq(pipe, 1, n)
       IN   /\ pipe' = SubSeq(pipe, n + 1, Len(pipe))
            /\ \/ Done(n) /\ part = "header" /\ HeaderRead(h)
               \/ /\ Done(n) /\ part = "payload"
                  /\ PayloadRead(h)
               \/ /\ ~Done(n) /\ OneRead
                  /\ Return /\ Tear(TRUE, due) /\ UNCHANGED wrong
               \/ /\ ~Done(n) /\ ~OneRead
                  /\ have' = h /\ remaining' = Charged /\ waited' = 0
                  /\ UNCHANGED <<reading, part, size, deadline, elapsed, allowed, history>>
    /\ UNCHANGED writeVars

\* poll waits, at most for what remains
Tick ==
    /\ reading /\ pipe = <<>> /\ waited < remaining
    /\ waited' = waited + 1 /\ elapsed' = elapsed + 1
    /\ UNCHANGED <<pipe, writeVars, reading, part, have, size, deadline, remaining,
                   allowed, history>>

TimeOut ==
    /\ reading
    /\ \/ pipe = <<>> /\ waited >= remaining
       \/ deadline > 0 /\ remaining = 0
    /\ Return /\ Tear(InFrame(have), due)
    /\ UNCHANGED <<pipe, writeVars, wrong>>

-----------------------------------------------------------------------------
Next == \/ \E w \in Writers : WriteHeader(w) \/ WritePayload(w)
        \/ BeginRead \/ ReadSome \/ Tick \/ TimeOut

Spec == Init /\ [][Next]_vars

-----------------------------------------------------------------------------
(* Properties.                                                             *)

\* The types of all variables; the pipe holds no more than its room, and nothing
\* over FRAME_MAX_PAYLOAD is written or waited for (native_frame.c:136, 206).
TypeOK ==
    /\ pipe \in Seq(Units) /\ Len(pipe) <= PipeCap
    /\ \A w \in Writers : writing[w] \in Seq(Units) /\ Len(writing[w]) <= MaxPayload
    /\ written \in [Writers -> 0..MaxFrames]
    /\ reading \in BOOLEAN /\ part \in {"header", "payload"}
    /\ have \in Seq(Units) /\ Wanted >= 0 /\ size \in 0..MaxPayload
    /\ deadline \in Nat /\ remaining \in 0..deadline /\ waited \in 0..remaining
    /\ elapsed \in Nat /\ allowed \in Nat
    /\ due \in Seq(Frames) /\ torn \in BOOLEAN /\ wrong \in BOOLEAN

\* As long as no two threads wrote at the same time and no read gave up in the
\* middle of a frame, what frame_read takes for a header and returns as a payload
\* is that of the frame due, whole and in order, however the bytes came: what the
\* other modules assume when they take a frame as one step (native_frame.c:102-221).
FramesAreIntact == ~wrong

\* However slowly bytes come, frame_read returns within the square of its deadline,
\* in ticks, and with it conn_read_mutex is released: each read is charged a tick
\* (native_frame.c:77), and the payload's deadline is one shorter.
ReadsEnd == elapsed <= allowed * allowed

=============================================================================
