------------------------- MODULE RawDelivery_proofs -------------------------
(***************************************************************************)
(* What clients are given, framed or raw, proved for every value of the     *)
(* constants: the streams are those of StreamOrder, over raw stdio a        *)
(* request is answered with what the agent printed next, and an answer that *)
(* is not marked as cut is whole.                                           *)
(***************************************************************************)
EXTENDS RawDelivery, SequenceTheorems, TLAPS

-----------------------------------------------------------------------------
(* Framed streams.                                                         *)

PartRoom == 2 * MaxAnswer <= PartCap

\* what the stream has shown is bounded by what the agent has sent
ShownBound ==
    /\ answer \in 0..MaxAnswer /\ sent \in 0..answer
    /\ part \in Seq(Int)
    /\ busy /\ mode = "stream" /\ turn = "running" => Len(part) <= sent

-----------------------------------------------------------------------------
(* Texts.                                                                  *)

\* A frame's field holds at most the text sent, and it is one of Texts.
LEMMA FieldText ==
    ASSUME NEW i \in 0..MaxAnswer, NEW n \in 0..MaxAnswer
    PROVE  /\ Field(i, n) \in Texts
           /\ Field(i, n) \in Seq(Int)
           /\ Len(Field(i, n)) <= n
<1> DEFINE m == Lesser(n, FieldCap)
<1>1. m \in 0..MaxAnswer /\ m <= n
  BY CapsAssumption DEF Lesser
<1>2. Field(i, n) = Text(i, m)
  BY DEF Field
<1>3. Text(i, m) \in Texts
  BY <1>1 DEF Texts
<1>4. Text(i, m) \in Seq(Int) /\ Len(Text(i, m)) = m
  <2>1. Text(i, m) = [u \in 1..m |-> i + u]
    BY DEF Text
  <2>2. \A u \in 1..m : i + u \in Int
    OBVIOUS
  <2>3. m \in Nat
    BY <1>1
  <2> QED BY <2>1, <2>2, <2>3
<1> QED BY <1>1, <1>2, <1>3, <1>4

LEMMA NoText == <<>> \in Seq(Int) /\ Len(<<>>) = 0
OBVIOUS

\* A delta that fits lengthens the part by its own length.
LEMMA Accumulates ==
    ASSUME part \in Seq(Int), NEW x \in Seq(Int), Len(part) + Len(x) <= PartCap
    PROVE  /\ Accumulate(x) = part \o x
           /\ part \o x \in Seq(Int)
           /\ Len(part \o x) = Len(part) + Len(x)
BY ConcatProperties DEF Accumulate

\* What a delta does to the part.
LEMMA DeltaEffect ==
    ASSUME NEW x, EmitDelta(x)
    PROVE  part' = part \/ (mode = "stream" /\ part' = Accumulate(x))
<1>1. CASE mode = "stream" /\ x # <<>>
  <2>1. part' = Accumulate(x)
    BY <1>1 DEF EmitDelta
  <2> QED BY <1>1, <2>1
<1>2. CASE ~(mode = "stream" /\ x # <<>>)
  BY <1>2 DEF EmitDelta, streamVars
<1> QED BY <1>1, <1>2

\* A running stream has room for one more text.
LEMMA Room ==
    ASSUME PartRoom, ShownBound, busy, turn = "running", mode = "stream",
           NEW n \in 0..MaxAnswer, NEW x \in Seq(Int), Len(x) <= n
    PROVE  Len(part) + Len(x) <= PartCap /\ Len(part) \in Nat /\ Len(x) \in Nat
<1>1. Len(part) \in Nat /\ Len(x) \in Nat
  BY LenProperties DEF ShownBound
<1>2. Len(part) <= MaxAnswer
  BY <1>1, CapsAssumption DEF ShownBound
<1> QED BY <1>1, <1>2, CapsAssumption DEF PartRoom

-----------------------------------------------------------------------------
(* The invariant.                                                          *)

LEMMA BoundInit == Init => ShownBound
BY CapsAssumption, NoText DEF Init, ShownBound

LEMMA BoundStep ==
    ASSUME PartRoom, ShownBound, [Next]_vars
    PROVE  ShownBound'
<1> USE CapsAssumption DEF ShownBound, PartRoom
<1>1. CASE StartStream
  BY <1>1, NoText DEF StartStream, StartTurn
<1>2. CASE StartBlock
  BY <1>2 DEF StartBlock, StartTurn, streamVars
<1>3. CASE TextDelta
  <2>1. PICK n \in 0 .. answer - sent :
          sent' = sent + n /\ EmitDelta(Field(sent, n))
    BY <1>3 DEF TextDelta
  <2>2. busy /\ turn = "running" /\ UNCHANGED <<mode, answer, turn, busy>>
    BY <1>3 DEF TextDelta, TakesFrame, Counted, turnVars
  <2>3. sent \in 0..MaxAnswer /\ n \in 0..MaxAnswer
    OBVIOUS
  <2>4. Field(sent, n) \in Seq(Int) /\ Len(Field(sent, n)) <= n
    BY <2>3, FieldText
  <2>5. part' = part \/ (mode = "stream" /\ part' = Accumulate(Field(sent, n)))
    BY <2>1, DeltaEffect
  <2>6. CASE part' = part
    BY <2>1, <2>2, <2>6, LenProperties
  <2>7. CASE mode = "stream" /\ part' = Accumulate(Field(sent, n))
    <3>1. /\ Len(part) + Len(Field(sent, n)) <= PartCap
          /\ Len(part) \in Nat /\ Len(Field(sent, n)) \in Nat
      BY <2>2, <2>3, <2>4, <2>7, Room
    <3>2. /\ part' \in Seq(Int)
          /\ Len(part') = Len(part) + Len(Field(sent, n))
      BY <2>4, <2>7, <3>1, Accumulates
    <3> QED BY <2>1, <2>2, <2>4, <2>7, <3>1, <3>2
  <2> QED BY <2>5, <2>6, <2>7
<1>4. CASE Compaction \/ OtherEvent \/ Unexpected
  BY <1>4 DEF Compaction, OtherEvent, Unexpected, Counted, turnVars, streamVars
<1>5. CASE Response
  <2>1. EmitDelta(Field(0, answer)) /\ turn' = "ok"
        /\ UNCHANGED <<answer, sent>> /\ busy /\ turn = "running"
    BY <1>5 DEF Response, turnVars, TakesFrame
  <2>2. 0 \in 0..MaxAnswer /\ answer \in 0..MaxAnswer
    OBVIOUS
  <2>3. Field(0, answer) \in Seq(Int) /\ Len(Field(0, answer)) <= answer
    BY <2>2, FieldText
  <2>4. part' = part \/ (mode = "stream" /\ part' = Accumulate(Field(0, answer)))
    BY <2>1, DeltaEffect
  <2>5. part' \in Seq(Int)
    BY <2>1, <2>2, <2>3, <2>4, Room, Accumulates
  <2> QED BY <2>1, <2>5
<1>6. CASE EventLimit \/ Abort
  BY <1>6 DEF EventLimit, Abort, turnVars, streamVars
<1>7. CASE CompleteStream \/ FailStream \/ ReplyBlock \/ FailBlock
  BY <1>7 DEF CompleteStream, FailStream, ReplyBlock, FailBlock, Finish,
              turnVars, streamVars
<1>8. CASE ClientLeaves
  BY <1>8 DEF ClientLeaves, turnVars
<1>9. CASE UNCHANGED vars
  BY <1>9 DEF vars, turnVars, streamVars
<1> QED
  BY <1>1, <1>2, <1>3, <1>4, <1>5, <1>6, <1>7, <1>8, <1>9 DEF Next

-----------------------------------------------------------------------------
(* Framed streams: the refinement.                                         *)

LEMMA StreamInit == Init => Order!OInit
BY DEF Init, Order!OInit

\* A delta put on the wire of an open stream is a delta of StreamOrder.
LEMMA DeltaShows ==
    ASSUME part \in Seq(Int), NEW x \in Texts, x \in Seq(Int),
           mode = "stream" => Len(part) + Len(x) <= PartCap,
           busy, busy' = busy, mode' = mode, EmitDelta(x)
    PROVE  [Order!ONext]_(Order!ovars)
<1>1. CASE mode = "stream" /\ x # <<>>
  <2>1. /\ Order!Put(<<Order!Event("response.output_text.delta", seq, x, "")>>)
        /\ seq' = seq + 1 /\ part' = part \o x /\ UNCHANGED gone
    BY <1>1, Accumulates DEF EmitDelta
  <2>2. Order!Show(x)
    BY <1>1, <2>1 DEF Order!Show
  <2> QED BY <2>2 DEF Order!ONext
<1>2. CASE ~(mode = "stream" /\ x # <<>>)
  BY <1>2 DEF EmitDelta, streamVars, Order!ovars
<1> QED BY <1>1, <1>2

LEMMA StreamStep ==
    ASSUME PartRoom, ShownBound, [Next]_vars
    PROVE  [Order!ONext]_(Order!ovars)
<1> USE CapsAssumption
<1>1. CASE StartStream
  <2>1. Order!Open
    BY <1>1 DEF StartStream, StartTurn, Order!Open
  <2> QED BY <2>1 DEF Order!ONext
<1>2. CASE StartBlock
  BY <1>2 DEF StartBlock, StartTurn, streamVars, Order!ovars
<1>3. CASE TextDelta
  <2>1. PICK n \in 0 .. answer - sent : EmitDelta(Field(sent, n))
    BY <1>3 DEF TextDelta
  <2>2. busy /\ turn = "running" /\ UNCHANGED <<mode, busy>>
    BY <1>3 DEF TextDelta, TakesFrame, Counted, turnVars
  <2>3. sent \in 0..MaxAnswer /\ n \in 0..MaxAnswer /\ part \in Seq(Int)
    BY DEF ShownBound
  <2>4. mode = "stream" => Len(part) + Len(Field(sent, n)) <= PartCap
    BY <2>2, <2>3, FieldText, Room
  <2> QED BY <2>1, <2>2, <2>3, <2>4, FieldText, DeltaShows
<1>4. CASE Response
  <2>1. EmitDelta(Field(0, answer)) /\ busy /\ turn = "running"
        /\ UNCHANGED <<mode, busy>>
    BY <1>4 DEF Response, TakesFrame, turnVars
  <2>2. 0 \in 0..MaxAnswer /\ answer \in 0..MaxAnswer /\ part \in Seq(Int)
    BY DEF ShownBound
  <2>3. mode = "stream" => Len(part) + Len(Field(0, answer)) <= PartCap
    BY <2>1, <2>2, FieldText, Room
  <2> QED BY <2>1, <2>2, <2>3, FieldText, DeltaShows
<1>5. CASE Compaction \/ OtherEvent \/ Unexpected
  BY <1>5 DEF Compaction, OtherEvent, Unexpected, Counted, turnVars, streamVars,
              Order!ovars
<1>6. CASE EventLimit \/ Abort
  BY <1>6 DEF EventLimit, Abort, turnVars, streamVars, Order!ovars
<1>7. CASE CompleteStream
  <2>1. \E m \in Order!Marks : Order!Put(Order!Completion(seq, part, m))
    BY <1>7 DEF CompleteStream, Order!Marks
  <2>2. Order!Complete
    BY <1>7, <2>1 DEF CompleteStream, Finish, turnVars, Order!Complete
  <2> QED BY <2>2 DEF Order!ONext
<1>8. CASE FailStream
  <2>1. \E e \in Order!Failures : Order!Put(<<Order!Event(e, seq, <<>>, "")>>)
    BY <1>8 DEF FailStream, Order!Failures
  <2>2. Order!Fail
    BY <1>8, <2>1 DEF FailStream, Finish, turnVars, Order!Fail
  <2> QED BY <2>2 DEF Order!ONext
<1>9. CASE ReplyBlock \/ FailBlock
  BY <1>9 DEF ReplyBlock, FailBlock, Finish, turnVars, streamVars, Order!ovars
<1>10. CASE ClientLeaves
  <2>1. Order!Leave
    BY <1>10 DEF ClientLeaves, turnVars, Order!Leave
  <2> QED BY <2>1 DEF Order!ONext
<1>11. CASE UNCHANGED vars
  BY <1>11 DEF vars, turnVars, streamVars, Order!ovars
<1> QED
  BY <1>1, <1>2, <1>3, <1>4, <1>5, <1>6, <1>7, <1>8, <1>9, <1>10, <1>11 DEF Next

\* Whatever the agent sends, and however turns end, the streams that
\* handle_response_native writes are those of StreamOrder, as long as the content
\* part (responses_stream_state.h) has room for an answer twice.
THEOREM StreamsInOrder ==
    ASSUME PartRoom
    PROVE  Spec => StreamSpec
<1>1. Spec => []ShownBound
  BY BoundInit, BoundStep, PTL DEF Spec
<1> QED
  BY <1>1, StreamInit, StreamStep, PTL DEF Spec, StreamSpec, Order!OSpec


-----------------------------------------------------------------------------
(* Raw answers: the invariant.                                             *)

\* Between tail and head the slots of the ring hold what was printed.
RingInv ==
    /\ printed \in Nat
    /\ ring \in [buf : [0 .. RingCap - 1 -> Nat], head : Nat, tail : Nat]
    /\ ring.head = printed /\ ring.tail <= ring.head /\ Available < RingCap
    /\ \A j \in ring.tail .. ring.head - 1 : ring.buf[j % RingCap] = j + 1

\* The last unit any request was answered with.
LastRead == IF content \in {<<>>, Diagnosis} THEN given ELSE Last(content)

\* The last unit that is out of the ring when p are printed and l were read.
Out(l, p) == IF p - l < RingCap THEN l ELSE p - RingCap + 1

TailInv == LastRead \in 0..printed /\ ring.tail = Out(LastRead, printed)

RawInv == RingInv /\ TailInv /\ NextOutput

\* what RawInv is about
ringVars == <<printed, ring, readVars>>

-----------------------------------------------------------------------------
(* Texts and slots.                                                        *)

LEMMA TextFacts ==
    ASSUME NEW i \in Nat, NEW n \in Nat
    PROVE  /\ Text(i, n) \in Seq(Int) /\ Len(Text(i, n)) = n
           /\ \A u \in 1..n : Text(i, n)[u] = i + u
<1>1. Text(i, n) = [u \in 1..n |-> i + u]
  BY DEF Text
<1>2. \A u \in 1..n : i + u \in Int
  OBVIOUS
<1> QED
  BY <1>1, <1>2

LEMMA ExceptType ==
    ASSUME NEW S, NEW R, NEW f \in [S -> R], NEW x, NEW v \in R
    PROVE  [f EXCEPT ![x] = v] \in [S -> R]
  OBVIOUS

LEMMA DivMod ==
    ASSUME NEW c \in Nat, c > 0, NEW h \in Nat
    PROVE  \E p \in Int : h = p * c + (h % c)
<1>1. h = (h \div c) * c + (h % c)
  OBVIOUS
<1>2. h \div c \in Int
  OBVIOUS
<1> QED
  BY <1>1, <1>2

\* Slots of units closer than the capacity differ.
LEMMA SlotsDiffer ==
    ASSUME NEW c \in Nat, c > 0, NEW h \in Nat, NEW j \in Nat, j < h, h - j < c
    PROVE  h % c # j % c
<1> SUFFICES ASSUME h % c = j % c PROVE FALSE
  OBVIOUS
<1>1. PICK p \in Int : h = p * c + (h % c)
  BY DivMod
<1>2. PICK q \in Int : j = q * c + (j % c)
  BY DivMod
<1>3. h % c \in Int
  OBVIOUS
<1>4. h - j = (p - q) * c
  BY <1>1, <1>2, <1>3
<1>5. CASE p - q >= 1
  <2>1. (p - q) * c >= c
    BY <1>5
  <2> QED
    BY <1>4, <2>1
<1>6. CASE p - q <= 0
  <2>1. (p - q) * c <= 0
    BY <1>6
  <2> QED
    BY <1>4, <2>1
<1> QED
  BY <1>5, <1>6
-----------------------------------------------------------------------------
(* The ring.                                                               *)

\* A unit appended displaces the oldest when the ring would be full, and no other.
LEMMA AppendKeeps ==
    ASSUME RingInv, printed' = printed + 1, ring' = AppendUnit(ring, printed')
    PROVE  /\ RingInv'
           /\ ring.tail' = IF printed + 1 - ring.tail >= RingCap THEN printed + 2 - RingCap
                                                                ELSE ring.tail
<1> DEFINE t == IF ring.head + 1 - ring.tail >= RingCap THEN ring.head + 2 - RingCap
                                                        ELSE ring.tail
<1>1. /\ RingCap \in Nat /\ RingCap > 0 /\ ring.head \in Nat /\ ring.head = printed
      /\ ring.tail \in Nat /\ ring.tail <= ring.head /\ ring.head - ring.tail < RingCap
  BY RawBounds DEF RingInv, Available
<1>2. ring' = [buf |-> [ring.buf EXCEPT ![ring.head % RingCap] = ring.head + 1],
               head |-> ring.head + 1, tail |-> t]
  BY <1>1 DEF AppendUnit, OneByteFree
<1>3. ring.head % RingCap \in 0 .. RingCap - 1
  BY <1>1
<1>4. /\ ring'.buf = [ring.buf EXCEPT ![ring.head % RingCap] = ring.head + 1]
      /\ ring'.head = ring.head + 1 /\ ring'.tail = t
  BY <1>2
<1>5. ring.buf \in [0 .. RingCap - 1 -> Nat]
  BY DEF RingInv
<1>6. t \in Nat /\ t <= ring.head + 1 /\ ring.head + 1 - t < RingCap /\ t >= ring.tail
  BY <1>1
<1>t. t = IF printed + 1 - ring.tail >= RingCap THEN printed + 2 - RingCap ELSE ring.tail
  BY <1>1
<1> HIDE DEF t
<1>7. ASSUME NEW j \in t .. ring.head PROVE ring'.buf[j % RingCap] = j + 1
  <2>1. j \in Nat /\ j % RingCap \in 0 .. RingCap - 1
    BY <1>1, <1>6
  <2>2. CASE j = ring.head
    BY <1>3, <1>4, <1>5, <2>2
  <2>3. CASE j < ring.head
    <3>1. j \in ring.tail .. ring.head - 1 /\ ring.head - j < RingCap
      BY <1>1, <1>6, <2>1, <2>3
    <3>2. ring.head % RingCap # j % RingCap
      BY <1>1, <2>1, <2>3, <3>1, SlotsDiffer
    <3>3. ring.buf[j % RingCap] = j + 1
      BY <3>1 DEF RingInv
    <3> QED
      BY <1>4, <1>5, <2>1, <3>2, <3>3
  <2>4. j <= ring.head
    BY <1>1, <1>6
  <2> QED
    BY <1>1, <2>1, <2>2, <2>3, <2>4
<1>8. ring' \in [buf : [0 .. RingCap - 1 -> Nat], head : Nat, tail : Nat]
  <2>1. ring'.buf \in [0 .. RingCap - 1 -> Nat]
    <3>1. ring.head + 1 \in Nat
      BY <1>1
    <3>2. [ring.buf EXCEPT ![ring.head % RingCap] = ring.head + 1] \in [0 .. RingCap - 1 -> Nat]
      BY <1>3, <1>5, <3>1, ExceptType
    <3> QED
      BY <1>4, <3>2
  <2>2. ring' = [buf |-> ring'.buf, head |-> ring'.head, tail |-> ring'.tail]
    BY <1>2, <1>4
  <2>3. ring'.head \in Nat /\ ring'.tail \in Nat
    BY <1>1, <1>4, <1>6
  <2> QED
    BY <2>1, <2>2, <2>3
<1>9. RingInv'
  <2>1. Available' = ring.head + 1 - t
    <3>1. Available' = ring'.head - ring'.tail
      BY DEF Available
    <3> QED
      BY <1>1, <1>4, <1>6, <3>1
  <2>2. \A j \in ring'.tail .. ring'.head - 1 : ring'.buf[j % RingCap] = j + 1
    <3>1. ring'.tail .. ring'.head - 1 = t .. ring.head
      BY <1>1, <1>4, <1>6
    <3> QED
      BY <1>7, <3>1
  <2>3. printed' \in Nat /\ ring'.head = printed' /\ ring'.tail <= ring'.head
    BY <1>1, <1>4, <1>6
  <2> QED
    BY <1>6, <1>8, <2>1, <2>2, <2>3 DEF RingInv
<1> QED
  BY <1>4, <1>9, <1>t

\* A read gives the units from the tail on, as many as fit.
LEMMA ReadGives ==
    ASSUME RingInv
    PROVE  /\ Available \in Nat /\ ReadSize \in 0..Available
           /\ ReadSize = Available \/ ReadSize = ContentMax - 1
           /\ ReadSize <= ContentMax - 1 /\ (ReadSize = 0 => Available = 0)
           /\ RingText = Text(ring.tail, ReadSize)
<1>1. Available \in Nat /\ ring.tail \in Nat /\ ring.head \in Nat
  BY DEF RingInv, Available
<1>2. /\ ReadSize \in 0..Available /\ (ReadSize = Available \/ ReadSize = ContentMax - 1)
      /\ ReadSize <= ContentMax - 1 /\ (ReadSize = 0 => Available = 0)
  BY <1>1, RawBounds DEF ReadSize
<1>3. ASSUME NEW i \in 1..ReadSize
      PROVE  ring.buf[(ring.tail + i - 1) % RingCap] = ring.tail + i
  <2>1. ring.tail + i - 1 \in ring.tail .. ring.head - 1
    BY <1>1, <1>2 DEF Available
  <2>2. ring.buf[(ring.tail + i - 1) % RingCap] = (ring.tail + i - 1) + 1
    BY <2>1 DEF RingInv
  <2> QED
    BY <1>1, <1>2, <2>2
<1>4. RingText = Text(ring.tail, ReadSize)
  BY <1>3 DEF RingText, Text
<1> QED
  BY <1>1, <1>2, <1>4

\* It leaves the rest of the ring as it was.
LEMMA ReadKeeps ==
    ASSUME RingInv, printed' = printed, ring' = [ring EXCEPT !.tail = @ + ReadSize]
    PROVE  RingInv' /\ ring.tail' = ring.tail + ReadSize
<1>1. /\ Available \in Nat /\ ReadSize \in 0..Available
      /\ ring.tail \in Nat /\ ring.head \in Nat /\ RingCap \in Nat
  BY ReadGives, RawBounds DEF RingInv
<1>2. ring'.buf = ring.buf /\ ring'.head = ring.head /\ ring'.tail = ring.tail + ReadSize
  BY DEF RingInv
<1>3. ring' \in [buf : [0 .. RingCap - 1 -> Nat], head : Nat, tail : Nat]
  BY <1>1, <1>2 DEF RingInv
<1>4. ring'.tail <= ring'.head /\ Available' < RingCap
  BY <1>1, <1>2 DEF RingInv, Available
<1>5. \A j \in ring'.tail .. ring'.head - 1 : ring'.buf[j % RingCap] = j + 1
  BY <1>1, <1>2 DEF RingInv
<1> QED
  BY <1>2, <1>3, <1>4, <1>5 DEF RingInv

-----------------------------------------------------------------------------
(* The steps.                                                              *)

LEMMA SubText ==
    ASSUME NEW i \in Nat, NEW n \in Nat, NEW k \in 0..n
    PROVE  SubSeq(Text(i, n), 1, k) = Text(i, k)
<1>1. Text(i, n) \in Seq(Int) /\ Len(Text(i, n)) = n /\ \A u \in 1..n : Text(i, n)[u] = i + u
  BY TextFacts
<1>2. SubSeq(Text(i, n), 1, k) \in Seq(Int) /\ Len(SubSeq(Text(i, n), 1, k)) = k
  BY <1>1
<1>3. \A u \in 1..k : SubSeq(Text(i, n), 1, k)[u] = i + u
  BY <1>1
<1>4. /\ k \in Nat /\ Text(i, k) \in Seq(Int) /\ Len(Text(i, k)) = k
      /\ \A u \in 1..k : Text(i, k)[u] = i + u
  BY TextFacts
<1> QED
  BY <1>2, <1>3, <1>4, SeqEqual

\* A text of units is not empty, and not the diagnosis, once it has one.
LEMMA TextIsOutput ==
    ASSUME NEW i \in Nat, NEW n \in Nat, n > 0
    PROVE  Text(i, n) \notin {<<>>, Diagnosis} /\ Last(Text(i, n)) = i + n
<1>1. Len(Text(i, n)) = n /\ \A u \in 1..n : Text(i, n)[u] = i + u
  BY TextFacts
<1>2. Text(i, n)[1] = i + 1 /\ Text(i, n)[n] = i + n
  BY <1>1
<1>3. Text(i, n) # <<>>
  BY <1>1
<1>4. Text(i, n) # Diagnosis
  BY <1>2 DEF Diagnosis
<1> QED
  BY <1>1, <1>2, <1>3, <1>4 DEF Last

LEMMA PushStep == ASSUME RawInv, PushLine PROVE RawInv'
<1>1. RingInv /\ printed' = printed + 1 /\ ring' = AppendUnit(ring, printed')
  BY DEF RawInv, PushLine
<1>2. /\ RingInv'
      /\ ring.tail' = IF printed + 1 - ring.tail >= RingCap THEN printed + 2 - RingCap
                                                           ELSE ring.tail
  BY <1>1, AppendKeeps
<1>3. content' = content /\ cut' = cut /\ given' = given /\ upto' = upto
  BY DEF PushLine, readVars
<1>4. LastRead' = LastRead
  BY <1>3 DEF LastRead
<1>5. /\ printed \in Nat /\ RingCap \in Nat
      /\ LastRead \in 0..printed /\ ring.tail = Out(LastRead, printed)
  BY RawBounds DEF RawInv, RingInv, TailInv
<1>6. ring.tail' = Out(LastRead, printed + 1)
  BY <1>2, <1>5 DEF Out
<1>7. TailInv'
  BY <1>1, <1>4, <1>5, <1>6 DEF TailInv, Out
<1>8. NextOutput'
  BY <1>3 DEF RawInv, NextOutput
<1> QED
  BY <1>2, <1>7, <1>8 DEF RawInv

LEMMA ReadStep == ASSUME RawInv, ReadText PROVE RawInv'
<1>1. /\ RingInv /\ printed' = printed /\ ring' = [ring EXCEPT !.tail = @ + ReadSize]
      /\ content' = (IF ReadSize = 0 THEN Diagnosis ELSE RingText)
      /\ cut' = (ReadSize >= ContentMax - 1)
      /\ given' = LastRead /\ upto' = printed
  BY DEF RawInv, ReadText, Same, LastRead
<1>2. RingInv' /\ ring.tail' = ring.tail + ReadSize
  BY <1>1, ReadKeeps
<1>3. /\ Available \in Nat /\ ReadSize \in 0..Available
      /\ ReadSize = Available \/ ReadSize = ContentMax - 1
      /\ ReadSize <= ContentMax - 1 /\ (ReadSize = 0 => Available = 0)
      /\ RingText = Text(ring.tail, ReadSize)
  BY <1>1, ReadGives
<1>4. /\ printed \in Nat /\ RingCap \in Nat /\ ring.tail \in Nat /\ ContentMax \in Nat
      /\ LastRead \in 0..printed /\ ring.tail = Out(LastRead, printed)
      /\ Available = printed - ring.tail /\ Available < RingCap
  BY RawBounds DEF RawInv, RingInv, TailInv, Available
<1> DEFINE first == IF printed - LastRead < RingCap THEN LastRead + 1 ELSE printed - RingCap + 2
           next  == Text(first - 1, printed - first + 1)
<1>5. first - 1 = ring.tail /\ printed - first + 1 = Available
  BY <1>4 DEF Out
<1>6. next = Text(ring.tail, Available)
  BY <1>5
<1> HIDE DEF next
<1>7. NextOutput' <=>
        (content' # <<>> =>
           IF next = <<>> THEN content' = Diagnosis
           ELSE content' = IF cut' THEN SubSeq(next, 1, ContentMax - 1) ELSE next)
  BY <1>1 DEF NextOutput, next
<1>8. CASE ReadSize = 0
  <2>1. content' = Diagnosis /\ Available = 0
    BY <1>1, <1>3, <1>8
  <2>2. next = <<>>
    BY <1>4, <1>6, <2>1, TextFacts
  <2>3. LastRead' = LastRead
    BY <1>1, <2>1 DEF LastRead
  <2>4. TailInv'
    BY <1>1, <1>2, <1>4, <1>8, <2>3 DEF TailInv, Out
  <2> QED
    BY <1>2, <1>7, <2>1, <2>2, <2>4 DEF RawInv
<1>9. CASE ReadSize # 0
  <2>1. ReadSize \in Nat /\ ReadSize > 0 /\ Available > 0
    BY <1>3, <1>9
  <2>2. content' = Text(ring.tail, ReadSize)
    BY <1>1, <1>3, <1>9
  <2>3. LastRead' = ring.tail + ReadSize
    BY <1>4, <2>1, <2>2, TextIsOutput DEF LastRead
  <2>4. TailInv'
    <3>1. LastRead' \in 0..printed /\ printed - LastRead' < RingCap
      BY <1>3, <1>4, <2>3
    <3> QED
      BY <1>1, <1>2, <2>3, <3>1 DEF TailInv, Out
  <2>5. next # <<>>
    BY <1>3, <1>4, <1>6, <2>1, TextIsOutput
  <2>6. CASE cut'
    <3>1. ReadSize = ContentMax - 1
      <4>1. ReadSize >= ContentMax - 1
        BY <1>1, <2>6, Zenon
      <4> QED
        BY <1>3, <1>4, <2>1, <4>1
    <3>2. content' = SubSeq(next, 1, ContentMax - 1)
      BY <1>3, <1>4, <1>6, <2>2, <3>1, SubText
    <3> QED
      BY <1>2, <1>7, <2>4, <2>5, <2>6, <3>2 DEF RawInv
  <2>7. CASE ~cut'
    <3>1. ReadSize = Available
      <4>1. ~(ReadSize >= ContentMax - 1)
        BY <1>1, <2>7, Zenon
      <4> QED
        BY <1>3, <1>4, <2>1, <4>1
    <3>2. content' = next
      BY <1>6, <2>2, <3>1
    <3> QED
      BY <1>2, <1>7, <2>4, <2>5, <2>7, <3>2 DEF RawInv
  <2> QED
    BY <2>6, <2>7
<1> QED
  BY <1>8, <1>9

LEMMA QuietStep == ASSUME RawInv, UNCHANGED ringVars PROVE RawInv'
<1>1. /\ printed' = printed /\ ring' = ring
      /\ content' = content /\ cut' = cut /\ given' = given /\ upto' = upto
  BY DEF ringVars, readVars
<1>2. RingInv'
  BY <1>1 DEF RawInv, RingInv, Available
<1>3. TailInv'
  BY <1>1 DEF RawInv, TailInv, LastRead
<1>4. NextOutput'
  BY <1>1 DEF RawInv, NextOutput
<1> QED
  BY <1>2, <1>3, <1>4 DEF RawInv

LEMMA RawStart == DInit => RawInv
<1> SUFFICES ASSUME DInit PROVE RawInv
  OBVIOUS
<1>1. /\ printed = 0 /\ ring = [buf |-> [i \in 0 .. RingCap - 1 |-> 0], head |-> 0, tail |-> 0]
      /\ content = <<>> /\ given = 0
  BY DEF DInit
<1>2. RingInv
  BY <1>1, RawBounds DEF RingInv, Available
<1>3. TailInv
  BY <1>1, RawBounds DEF TailInv, LastRead, Out
<1>4. NextOutput
  BY <1>1 DEF NextOutput
<1> QED
  BY <1>2, <1>3, <1>4 DEF RawInv

LEMMA RawStep == ASSUME RawInv, [DNext]_<<vars, rawVars>> PROVE RawInv'
<1>1. CASE PushLine
  BY <1>1, PushStep
<1>2. CASE OpenStream \/ RawBlock
  BY <1>2, ReadStep DEF OpenStream, RawBlock
<1>3. CASE StartRaw \/ Delete
  BY <1>3, QuietStep DEF StartRaw, Delete, ringVars
<1>4. CASE Chunk \/ CancelRaw \/ CompleteRaw
  <2>1. Writes
    BY <1>4 DEF Chunk, CancelRaw, CompleteRaw
  <2> QED
    BY <2>1, QuietStep DEF Writes, ringVars
<1>5. CASE UNCHANGED rawVars
  BY <1>5, QuietStep DEF rawVars, ringVars
<1> QED
  BY <1>1, <1>2, <1>3, <1>4, <1>5 DEF DNext, Raw

-----------------------------------------------------------------------------
(* Theorem.                                                                *)

\* Whatever the agent prints and whenever a request is made, over raw stdio it is
\* answered with the next output of the agent, none of it lost but what a full
\* ring displaced or a mark says was cut, and none of it given twice
\* (ring_append and ring_read under engine_read_text).
THEOREM AnswersAreNextOutput == DSpec => []NextOutput
<1>1. DInit => RawInv
  BY RawStart
<1>2. RawInv /\ [DNext]_<<vars, rawVars>> => RawInv'
  BY RawStep
<1>3. RawInv => NextOutput
  BY DEF RawInv
<1> QED
  BY <1>1, <1>2, <1>3, PTL DEF DSpec

-----------------------------------------------------------------------------
(* What is delivered: buffers and events.                                  *)

\* Room for what the other theorems need: an answer twice, and what one read of the
\* ring gives, which is one of Texts.
RawRoom == /\ ContentMax <= PartCap + 1
           /\ MaxPrinted <= MaxAnswer + 1 /\ ContentMax <= MaxAnswer + 1

LEMMA Pieces ==
    ASSUME NEW x \in Seq(Int), NEW m \in 0..Len(x)
    PROVE  /\ SubSeq(x, 1, m) \in Seq(Int) /\ Len(SubSeq(x, 1, m)) = m
           /\ m = Len(x) => SubSeq(x, 1, m) = x
<1>1. Len(x) \in Nat /\ \A i \in 1..m : x[i] \in Int
  BY LenProperties, ElementOfSeq
<1>2. SubSeq(x, 1, m) \in Seq(Int) /\ Len(SubSeq(x, 1, m)) = m
  BY <1>1
<1> QED
  BY <1>1, <1>2, SubSeqFull

\* append_text overflows no buffer, and leaves out nothing if there is room to spare.
LEMMA Appended ==
    ASSUME NEW cap \in Nat, NEW buf \in Seq(Int), Len(buf) <= cap, NEW x \in Seq(Int)
    PROVE  /\ AppendText(buf, x, cap) \in Seq(Int)
           /\ Len(AppendText(buf, x, cap)) <= cap
           /\ Len(AppendText(buf, x, cap)) < cap => AppendText(buf, x, cap) = buf \o x
<1> DEFINE m == Lesser(Len(x), cap - Len(buf))
           s == SubSeq(x, 1, m)
<1>1. Len(x) \in Nat /\ Len(buf) \in Nat
  BY LenProperties
<1>2. m \in 0..Len(x) /\ m <= cap - Len(buf) /\ (m = Len(x) \/ m = cap - Len(buf))
  BY <1>1 DEF Lesser
<1>3. s \in Seq(Int) /\ Len(s) = m /\ (m = Len(x) => s = x)
  BY <1>2, Pieces
<1> HIDE DEF m, s
<1>4. buf \o s \in Seq(Int) /\ Len(buf \o s) = Len(buf) + Len(s)
  BY <1>3, ConcatProperties
<1>5. AppendText(buf, x, cap) = buf \o s
  BY DEF AppendText, s, m
<1>6. Len(buf \o s) <= cap
  BY <1>1, <1>2, <1>3, <1>4
<1>7. Len(buf \o s) < cap => s = x
  BY <1>1, <1>2, <1>3, <1>4
<1> QED
  BY <1>4, <1>5, <1>6, <1>7

\* A text is a suffix of what it was appended to.
LEMMA SuffixOf ==
    ASSUME NEW u \in Seq(Int), NEW x \in Seq(Int)
    PROVE  IsSuffix(x, u \o x)
<1> DEFINE t == u \o x
           r == Reverse(x)
           q == Reverse(t)
<1>1. /\ Len(u) \in Nat /\ Len(x) \in Nat
      /\ \A i \in 1..Len(x) : x[i] \in Int
  BY LenProperties, ElementOfSeq
<1>2. /\ t \in Seq(Int) /\ Len(t) = Len(u) + Len(x)
      /\ \A i \in 1 .. Len(u) + Len(x) : t[i] = IF i <= Len(u) THEN u[i] ELSE x[i - Len(u)]
  BY ConcatProperties
<1>3. \A i \in 1..Len(t) : t[i] \in Int
  BY <1>2, ElementOfSeq
<1> HIDE DEF t
<1>4. /\ r \in Seq(Int) /\ Len(r) = Len(x)
      /\ \A i \in 1..Len(x) : r[i] = x[Len(x) - i + 1]
  BY <1>1 DEF Reverse
<1>5. /\ q \in Seq(Int) /\ Len(q) = Len(t)
      /\ \A i \in 1..Len(t) : q[i] = t[Len(t) - i + 1]
  BY <1>1, <1>2, <1>3 DEF Reverse
<1> HIDE DEF r, q
<1>6. \A i \in 1..Len(x) : r[i] = q[i]
  <2>1. ASSUME NEW i \in 1..Len(x) PROVE r[i] = q[i]
    <3> DEFINE j == Len(t) - i + 1
    <3>1. /\ i \in 1..Len(t) /\ j \in 1 .. Len(u) + Len(x)
          /\ ~(j <= Len(u)) /\ j - Len(u) = Len(x) - i + 1
      BY <1>1, <1>2
    <3>2. q[i] = t[j]
      BY <1>5, <3>1
    <3> HIDE DEF j
    <3>3. t[j] = x[j - Len(u)]
      BY <1>2, <3>1
    <3>4. r[i] = x[Len(x) - i + 1]
      BY <1>4
    <3> QED
      BY <3>1, <3>2, <3>3, <3>4
  <2> QED
    BY <2>1
<1>7. SubSeq(r, 1, Len(r)) = SubSeq(q, 1, Len(r))
  <2>1. Len(r) <= Len(q) /\ Len(r) \in Nat /\ Len(q) \in Nat
    BY <1>1, <1>2, <1>4, <1>5
  <2>2. /\ SubSeq(r, 1, Len(r)) \in Seq(Int) /\ Len(SubSeq(r, 1, Len(r))) = Len(r)
        /\ \A i \in 1..Len(r) : SubSeq(r, 1, Len(r))[i] = r[i]
    BY <1>4, <2>1, SubSeqProperties
  <2>3. /\ SubSeq(q, 1, Len(r)) \in Seq(Int) /\ Len(SubSeq(q, 1, Len(r))) = Len(r)
        /\ \A i \in 1..Len(r) : SubSeq(q, 1, Len(r))[i] = q[i]
    BY <1>5, <2>1, SubSeqProperties
  <2>4. \A i \in 1..Len(r) : SubSeq(r, 1, Len(r))[i] = SubSeq(q, 1, Len(r))[i]
    BY <1>4, <1>6, <2>2, <2>3
  <2> QED
    BY <2>2, <2>3, <2>4, SeqEqual
<1>8. Len(r) <= Len(q)
  BY <1>1, <1>2, <1>4, <1>5
<1>9. IsPrefix(r, q)
  BY <1>7, <1>8 DEF IsPrefix
<1> QED
  BY <1>9 DEF IsSuffix, r, q, t

\* What a client may be sent.
Events == [type : Order!Types, seq : Nat, text : Seq(Int), mark : Order!Marks]

WireInv == wire \in Seq(Events) /\ \A i \in 1..Len(wire) : wire[i].seq <= seq

LEMMA EventFacts ==
    ASSUME NEW t \in Order!Types, NEW n \in Nat, NEW x \in Seq(Int), NEW m \in Order!Marks
    PROVE  /\ Order!Event(t, n, x, m) \in Events
           /\ Order!Event(t, n, x, m).type = t /\ Order!Event(t, n, x, m).seq = n
           /\ Order!Event(t, n, x, m).text = x /\ Order!Event(t, n, x, m).mark = m
BY DEF Order!Event, Events

LEMMA MarkFacts == /\ "" \in Order!Marks /\ "max_turn_events" \in Order!Marks
                   /\ "max_output_buffer" \in Order!Marks
BY DEF Order!Marks

LEMMA Numbers ==
    ASSUME NEW w \in Seq(Events)
    PROVE  \A i \in 1..Len(w) : w[i].seq \in Nat
<1>1. \A i \in 1..Len(w) : w[i] \in Events
  BY ElementOfSeq
<1>2. \A e \in Events : e.seq \in Nat
  BY DEF Events
<1> QED
  BY <1>1, <1>2

\* Events put on a wire lengthen it, or do nothing.
LEMMA PutFacts ==
    ASSUME WireInv, NEW es \in Seq(Events), Order!Put(es), NEW hi \in Nat, seq <= hi,
           seq' = hi, seq \in Nat, \A i \in 1..Len(es) : es[i].seq <= hi
    PROVE  WireInv' /\ \A e \in ToSet(wire') : e \in ToSet(wire) \/ \E i \in 1..Len(es) : e = es[i]
<1>1. CASE gone
  <2>1. wire' = wire
    BY <1>1 DEF Order!Put
  <2>2. \A i \in 1..Len(wire) : wire[i].seq \in Nat
    BY Numbers DEF WireInv
  <2> QED
    BY <2>1, <2>2 DEF WireInv
<1>2. CASE ~gone
  <2>1. wire' = wire \o es
    BY <1>2 DEF Order!Put
  <2>2. wire \in Seq(Events) /\ \A i \in 1..Len(wire) : wire[i].seq <= seq
    BY DEF WireInv
  <2>3. /\ wire \o es \in Seq(Events) /\ Len(wire \o es) = Len(wire) + Len(es)
        /\ \A i \in 1 .. Len(wire) + Len(es) :
             (wire \o es)[i] = IF i <= Len(wire) THEN wire[i] ELSE es[i - Len(wire)]
    BY <2>2, ConcatProperties
  <2>4. Len(wire) \in Nat /\ Len(es) \in Nat
    BY <2>2, LenProperties
  <2>5. \A i \in 1 .. Len(wire) + Len(es) :
          \/ i \in 1..Len(wire) /\ (wire \o es)[i] = wire[i]
          \/ i - Len(wire) \in 1..Len(es) /\ (wire \o es)[i] = es[i - Len(wire)]
    BY <2>3, <2>4
  <2>6. \A i \in 1..Len(wire) : wire[i].seq \in Nat
    BY <2>2, Numbers
  <2>7. \A i \in 1..Len(wire) : wire[i].seq <= hi
    BY <2>2, <2>6
  <2>8. \A i \in 1 .. Len(wire) + Len(es) : (wire \o es)[i].seq <= hi
    BY <2>5, <2>7
  <2>9. WireInv'
    BY <2>1, <2>3, <2>8 DEF WireInv
  <2>10. ASSUME NEW e \in ToSet(wire')
         PROVE  e \in ToSet(wire) \/ \E i \in 1..Len(es) : e = es[i]
    <3>1. PICK i \in DOMAIN (wire \o es) : e = (wire \o es)[i]
      BY <2>1, <2>10 DEF ToSet
    <3>2. i \in 1 .. Len(wire) + Len(es)
      BY <2>3, <3>1, LenProperties
    <3>3. DOMAIN wire = 1..Len(wire)
      BY <2>2, LenProperties
    <3> QED
      BY <2>5, <3>1, <3>2, <3>3 DEF ToSet
  <2> QED
    BY <2>9, <2>10
<1> QED
  BY <1>1, <1>2

LEMMA NumberedFacts ==
    ASSUME NEW ts \in Seq(Order!Types), NEW n \in Nat, NEW x \in Seq(Int)
    PROVE  LET s == Order!Numbered(ts, n, x) IN
           /\ s \in Seq(Events) /\ Len(s) = Len(ts)
           /\ \A i \in 1..Len(ts) : s[i].seq = n + i - 1 /\ s[i].type = ts[i]
<1> DEFINE s == Order!Numbered(ts, n, x)
           none == ""
           e(i) == Order!Event(ts[i], n + i - 1, x, none)
<1>m. none \in Order!Marks
  BY MarkFacts
<1>1. Len(ts) \in Nat /\ \A i \in 1..Len(ts) : ts[i] \in Order!Types
  BY LenProperties, ElementOfSeq
<1>2. s = [i \in 1..Len(ts) |-> e(i)]
  BY DEF Order!Numbered
<1> HIDE DEF none
<1>7. ASSUME NEW t \in Order!Types, NEW k \in Nat
      PROVE  LET v == Order!Event(t, k, x, none) IN v \in Events /\ v.seq = k /\ v.type = t
  BY <1>m, EventFacts
<1>3. ASSUME NEW i \in 1..Len(ts)
      PROVE  e(i) \in Events /\ e(i).seq = n + i - 1 /\ e(i).type = ts[i]
  <2>1. n + i - 1 \in Nat /\ ts[i] \in Order!Types
    BY <1>1
  <2> QED
    BY <2>1, <1>7, Zenon
<1> HIDE DEF e
<1>4. [i \in 1..Len(ts) |-> e(i)] \in Seq(Events)
  BY <1>1, <1>3
<1>5. Len([i \in 1..Len(ts) |-> e(i)]) = Len(ts)
  BY <1>1
<1>6. \A i \in 1..Len(ts) : [j \in 1..Len(ts) |-> e(j)][i] = e(i)
  OBVIOUS
<1> QED
  BY <1>2, <1>3, <1>4, <1>5, <1>6

LEMMA Names == /\ "response.output_text.delta" \in Order!Types
               /\ "response.completed" \in Order!Types /\ "[DONE]" \in Order!Types
               /\ "response.failed" \in Order!Types /\ "response.error" \in Order!Types
BY DEF Order!Types, Order!Failures

LEMMA TypeNames ==
    /\ Order!Opening \in Seq(Order!Types) /\ Len(Order!Opening) = 3
    /\ \A i \in 1..3 : Order!Opening[i] # "response.completed"
    /\ Order!Closing \in Seq(Order!Types) /\ Len(Order!Closing) = 3
    /\ \A i \in 1..3 : Order!Closing[i] # "response.completed"
<1> DEFINE o == Order!Opening
           c == Order!Closing
<1>1. /\ Len(o) = 3 /\ Len(c) = 3
      /\ o \in Seq({o[1], o[2], o[3]}) /\ c \in Seq({c[1], c[2], c[3]})
  BY DEF Order!Opening, Order!Closing
<1>5. {o[1], o[2], o[3]} \subseteq Order!Types /\ {c[1], c[2], c[3]} \subseteq Order!Types
  <2>1. 1 \in 1..Len(o) /\ 2 \in 1..Len(o) /\ 3 \in 1..Len(o)
        /\ 1 \in 1..Len(c) /\ 2 \in 1..Len(c) /\ 3 \in 1..Len(c)
    BY <1>1
  <2> QED
    BY <2>1, Zenon DEF Order!Types
<1>6. o \in Seq(Order!Types) /\ c \in Seq(Order!Types)
  BY <1>1, <1>5, SeqMonotonic
<1>2. /\ Order!Opening[1] # "response.completed" /\ Order!Opening[2] # "response.completed"
      /\ Order!Opening[3] # "response.completed"
  BY DEF Order!Opening
<1>3. /\ Order!Closing[1] # "response.completed" /\ Order!Closing[2] # "response.completed"
      /\ Order!Closing[3] # "response.completed"
  BY DEF Order!Closing
<1>4. \A i \in 1..3 : i = 1 \/ i = 2 \/ i = 3
  OBVIOUS
<1> QED
  BY <1>1, <1>2, <1>3, <1>4, <1>6

LEMMA OpeningFacts ==
    LET s == Order!Numbered(Order!Opening, 0, <<>>) IN
    /\ s \in Seq(Events) /\ Len(s) = 3
    /\ \A i \in 1..3 : s[i].seq = i - 1 /\ s[i].type # "response.completed"
<1>1. <<>> \in Seq(Int)
  BY NoText
<1>2. LET s == Order!Numbered(Order!Opening, 0, <<>>) IN
      /\ s \in Seq(Events) /\ Len(s) = Len(Order!Opening)
      /\ \A i \in 1..Len(Order!Opening) : s[i].seq = 0 + i - 1 /\ s[i].type = Order!Opening[i]
  <2>1. Order!Opening \in Seq(Order!Types) /\ 0 \in Nat
    BY TypeNames
  <2> QED
    BY <1>1, <2>1, NumberedFacts
<1> QED
  BY <1>2, TypeNames

\* Of the closing events, one completes the stream, with its text and its mark.
LEMMA CompletionFacts ==
    ASSUME NEW n \in Nat, NEW x \in Seq(Int), NEW m \in Order!Marks
    PROVE  LET s == Order!Completion(n, x, m) IN
           /\ s \in Seq(Events)
           /\ \A i \in 1..Len(s) :
                /\ s[i].seq <= n + Len(Order!Closing) + 1
                /\ s[i].type = "response.completed" => s[i].text = x /\ s[i].mark = m
<1> DEFINE a == Order!Numbered(Order!Closing, n, x)
           c == Order!Event("response.completed", n + Len(Order!Closing), x, m)
           d == Order!Event("[DONE]", 0, <<>>, "")
           b == <<c, d>>
<1>1. /\ a \in Seq(Events) /\ Len(a) = 3
      /\ \A i \in 1..3 : a[i].seq = n + i - 1 /\ a[i].type # "response.completed"
  <2>1. LET s == Order!Numbered(Order!Closing, n, x) IN
        /\ s \in Seq(Events) /\ Len(s) = Len(Order!Closing)
        /\ \A i \in 1..Len(Order!Closing) : s[i].seq = n + i - 1 /\ s[i].type = Order!Closing[i]
    BY TypeNames, NumberedFacts
  <2> QED
    BY <2>1, TypeNames
<1>2. c \in Events /\ c.seq = n + 3 /\ c.text = x /\ c.mark = m
  <2>1. n + Len(Order!Closing) = n + 3 /\ n + 3 \in Nat
    BY TypeNames
  <2>2. n + Len(Order!Closing) \in Nat /\ "response.completed" \in Order!Types
    BY <2>1, Names
  <2>3. ASSUME NEW t \in Order!Types, NEW k \in Nat
        PROVE  LET v == Order!Event(t, k, x, m)
               IN  v \in Events /\ v.seq = k /\ v.text = x /\ v.mark = m
    BY EventFacts
  <2>4. c \in Events /\ c.seq = n + Len(Order!Closing) /\ c.text = x /\ c.mark = m
    BY <2>2, <2>3, Zenon
  <2> QED
    BY <2>1, <2>4
<1>3. d \in Events /\ d.seq = 0 /\ d.type = "[DONE]"
  <2>1. "[DONE]" \in Order!Types /\ 0 \in Nat
    BY Names
  <2>2. <<>> \in Seq(Int) /\ "" \in Order!Marks
    BY NoText, MarkFacts, Zenon
  <2> QED
    BY <2>1, <2>2 DEF Order!Event, Events
<1>4. Order!Completion(n, x, m) = a \o b
  BY DEF Order!Completion
<1> HIDE DEF a, c, d
<1>5. b \in Seq(Events) /\ Len(b) = 2 /\ b[1] = c /\ b[2] = d
  BY <1>2, <1>3
<1> HIDE DEF b
<1>6. /\ a \o b \in Seq(Events) /\ Len(a \o b) = 5
      /\ \A i \in 1 .. 5 : (a \o b)[i] = IF i <= 3 THEN a[i] ELSE b[i - 3]
  <2>1. /\ a \o b \in Seq(Events) /\ Len(a \o b) = Len(a) + Len(b)
        /\ \A i \in 1 .. Len(a) + Len(b) : (a \o b)[i] = IF i <= Len(a) THEN a[i] ELSE b[i - Len(a)]
    BY <1>1, <1>5, ConcatProperties
  <2>2. Len(a) = 3 /\ Len(b) = 2
    BY <1>1, <1>5
  <2> QED
    BY <2>1, <2>2
<1>7. ASSUME NEW i \in 1..5
      PROVE  /\ (a \o b)[i].seq <= n + 4
             /\ (a \o b)[i].type = "response.completed" => (a \o b)[i].text = x /\ (a \o b)[i].mark = m
  <2>1. CASE i \in 1..3
    <3>1. (a \o b)[i] = a[i]
      BY <1>6, <2>1
    <3>2. a[i].seq <= n + 4
      BY <1>1, <2>1
    <3>3. a[i].type # "response.completed"
      BY <1>1, <2>1
    <3> QED
      BY <3>1, <3>2, <3>3
  <2>2. CASE i = 4
    <3>1. (a \o b)[i] = c
      BY <1>5, <1>6, <2>2
    <3>2. c.seq <= n + 4
      BY <1>2
    <3> QED
      BY <1>2, <3>1, <3>2
  <2>3. CASE i = 5
    <3>1. (a \o b)[i] = d
      BY <1>5, <1>6, <2>3
    <3>2. d.seq <= n + 4
      BY <1>3
    <3> QED
      BY <1>3, <3>1, <3>2
  <2>4. i \in 1..3 \/ i = 4 \/ i = 5
    OBVIOUS
  <2> QED
    BY <2>1, <2>2, <2>3, <2>4
<1>8. n + Len(Order!Closing) + 1 = n + 4
  BY TypeNames
<1> QED
  BY <1>4, <1>6, <1>7, <1>8

-----------------------------------------------------------------------------
(* What is delivered: types.                                               *)

Scalars ==
    /\ charsCap \in CharsCaps /\ requests \in Nat /\ answer \in 0..MaxAnswer
    /\ sent \in 0..answer /\ events \in 0..MaxEvents /\ seq \in Nat /\ offset \in Nat
    /\ mode \in {"stream", "block"}
    /\ turn \in {"running", "ok", "limit", "cancelled", "failed"}
    /\ busy \in BOOLEAN /\ limited \in BOOLEAN /\ gone \in BOOLEAN /\ framed \in BOOLEAN

\* What a delta does to the number of the next event and to nothing else here.
LEMMA DeltaCounts ==
    ASSUME seq \in Nat, NEW x, EmitDelta(x)
    PROVE  seq' \in Nat /\ gone' = gone
<1>1. (seq' = seq + 1 \/ seq' = seq) /\ gone' = gone
  BY Zenon DEF EmitDelta, streamVars
<1> QED
  BY <1>1

LEMMA ScalarInit == DInit => Scalars
<1> SUFFICES ASSUME DInit PROVE Scalars
  OBVIOUS
<1>1. /\ charsCap \in CharsCaps /\ requests = 0 /\ mode = "block" /\ busy = FALSE
      /\ turn = "ok" /\ answer = 0 /\ sent = 0 /\ events = 0 /\ limited = FALSE /\ seq = 0
      /\ gone = FALSE /\ framed \in BOOLEAN /\ offset = 0
  BY Zenon DEF DInit, Init
<1>2. /\ requests \in Nat /\ answer \in 0..MaxAnswer /\ sent \in 0..answer
      /\ events \in 0..MaxEvents /\ seq \in Nat /\ offset \in Nat
  BY <1>1, CapsAssumption
<1> QED
  BY <1>1, <1>2, Zenon DEF Scalars

LEMMA ScalarNext ==
    ASSUME Scalars, Next, UNCHANGED rawVars
    PROVE  Scalars'
<1> USE CapsAssumption DEF Scalars
<1>0. framed' = framed /\ offset' = offset
  BY DEF rawVars
<1>1. CASE StartStream
  <2>1. StartTurn /\ mode' = "stream"
    BY <1>1, Zenon DEF StartStream
  <2>2. seq' = Len(Order!Opening) /\ gone' = FALSE
    BY <1>1, Zenon DEF StartStream
  <2>3. seq' \in Nat
    BY <2>2, TypeNames
  <2>4. gone' \in BOOLEAN
    BY <2>2, Zenon
  <2> QED
    BY <1>0, <2>1, <2>3, <2>4 DEF StartTurn
<1>2. CASE StartBlock
  BY <1>0, <1>2 DEF StartBlock, StartTurn, streamVars
<1>3. CASE TextDelta
  <2>1. PICK n \in 0 .. answer - sent : sent' = sent + n /\ EmitDelta(Field(sent, n))
    BY <1>3 DEF TextDelta
  <2>2. seq' \in Nat /\ gone' = gone
    BY <2>1, DeltaCounts
  <2> QED
    BY <1>0, <1>3, <2>1, <2>2 DEF TextDelta, TakesFrame, Counted, turnVars
<1>4. CASE Compaction \/ OtherEvent \/ Unexpected
  BY <1>0, <1>4 DEF Compaction, OtherEvent, Unexpected, TakesFrame, Counted, turnVars, streamVars
<1>5. CASE Response
  <2>1. seq' \in Nat /\ gone' = gone
    BY <1>5, DeltaCounts DEF Response
  <2> QED
    BY <1>0, <1>5, <2>1 DEF Response, turnVars
<1>6. CASE EventLimit \/ Abort
  BY <1>0, <1>6 DEF EventLimit, Abort, turnVars, streamVars
<1>7. CASE CompleteStream
  <2>1. /\ Finish /\ limited' = EventCapped
        /\ seq' = seq + Len(Order!Closing) + 1 /\ gone' = gone
    BY <1>7, Zenon DEF CompleteStream
  <2>2. seq' \in Nat
    BY <2>1, TypeNames
  <2> QED
    BY <1>0, <2>1, <2>2 DEF Finish, turnVars, EventCapped
<1>8. CASE FailStream
  <2>1. Finish /\ limited' = FALSE /\ seq' = seq + 1 /\ gone' = gone
    BY <1>8, Zenon DEF FailStream
  <2>2. seq' \in Nat
    BY <2>1, TypeNames
  <2> QED
    BY <1>0, <2>1, <2>2 DEF Finish, turnVars
<1>9. CASE ReplyBlock \/ FailBlock
  BY <1>0, <1>9 DEF ReplyBlock, FailBlock, Finish, turnVars, streamVars
<1>10. CASE ClientLeaves
  BY <1>0, <1>10 DEF ClientLeaves, turnVars
<1> QED
  BY <1>1, <1>2, <1>3, <1>4, <1>5, <1>6, <1>7, <1>8, <1>9, <1>10 DEF Next

LEMMA ScalarRaw == ASSUME Scalars, Raw PROVE Scalars'
<1> USE CapsAssumption, RawBounds DEF Scalars, Same, framedVars
<1>1. CASE PushLine \/ StartRaw \/ Delete
  BY <1>1 DEF PushLine, StartRaw, Delete, streamVars
<1>2. CASE OpenStream
  <2>1. /\ Same /\ requests' = requests /\ offset' = 0 /\ busy' = TRUE /\ mode' = "stream"
        /\ seq' = Len(Order!Opening) /\ gone' = FALSE
    BY <1>2, Zenon DEF OpenStream, ReadText
  <2>2. seq' \in Nat
    BY <2>1, TypeNames
  <2> QED
    BY <2>1, <2>2
<1>3. CASE RawBlock
  BY <1>3 DEF RawBlock, ReadText, streamVars
<1>4. CASE Chunk
  <2>1. seq' \in Nat /\ gone' = gone
    BY <1>4, DeltaCounts DEF Chunk
  <2> QED
    BY <1>4, <2>1 DEF Chunk, Writes
<1>5. CASE CancelRaw
  <2>1. Writes /\ seq' = seq + 1 /\ busy' = FALSE /\ gone' = gone /\ offset' = offset
    BY <1>5, Zenon DEF CancelRaw
  <2>2. seq' \in Nat
    BY <2>1, TypeNames
  <2> QED
    BY <2>1, <2>2 DEF Writes
<1>6. CASE CompleteRaw
  <2>1. /\ Writes /\ seq' = seq + Len(Order!Closing) + 1 /\ busy' = FALSE
        /\ gone' = gone /\ offset' = offset
    BY <1>6, Zenon DEF CompleteRaw
  <2>2. seq' \in Nat
    BY <2>1, TypeNames
  <2> QED
    BY <2>1, <2>2 DEF Writes
<1> QED
  BY <1>1, <1>2, <1>3, <1>4, <1>5, <1>6 DEF Raw

LEMMA ScalarStep == ASSUME Scalars, [DNext]_<<vars, rawVars>> PROVE Scalars'
<1>1. CASE ~framed /\ ClientLeaves /\ UNCHANGED rawVars
  BY <1>1, ScalarNext DEF Next
<1>2. CASE UNCHANGED <<vars, rawVars>>
  BY <1>2 DEF Scalars, vars, turnVars, streamVars, rawVars
<1> QED
  BY <1>1, <1>2, ScalarNext, ScalarRaw DEF DNext

Buffers ==
    /\ prefix \in Seq(Int) /\ Len(prefix) <= PrefixCap
    /\ out \in Seq(Int) /\ Len(out) <= OutCap
    /\ part \in Seq(Int) /\ Len(part) <= PartCap
    /\ content \in Seq(Int)
    /\ reply.type \in {"none", "response", "503"} /\ reply.text \in Seq(Int)

LEMMA DeltaFits ==
    ASSUME part \in Seq(Int), Len(part) <= PartCap, NEW x \in Seq(Int), EmitDelta(x)
    PROVE  part' \in Seq(Int) /\ Len(part') <= PartCap
<1>1. part' = part \/ part' = Accumulate(x)
  BY DeltaEffect
<1>2. CASE Len(part) + Len(x) <= PartCap
  <2>1. Len(part \o x) <= PartCap /\ part \o x \in Seq(Int) /\ Accumulate(x) = part \o x
    BY <1>2, Accumulates
  <2> QED
    BY <1>1, <2>1
<1>3. CASE ~(Len(part) + Len(x) <= PartCap)
  BY <1>1, <1>3 DEF Accumulate
<1> QED
  BY <1>2, <1>3

LEMMA CutText ==
    ASSUME charsCap \in CharsCaps, NEW x \in Seq(Int)
    PROVE  (IF TooLong(x) THEN SubSeq(x, 1, charsCap) ELSE x) \in Seq(Int)
<1>1. CASE TooLong(x)
  <2>1. Len(x) \in Nat
    BY LenProperties
  <2>2. charsCap \in 0..Len(x)
    BY <1>1, <2>1, CapsAssumption DEF TooLong
  <2> QED
    BY <1>1, <2>2, Pieces
<1> QED
  BY <1>1

LEMMA SmallTexts == /\ <<>> \in Seq(Int) /\ Len(<<>>) = 0
                    /\ Notice \in Seq(Int) /\ RawFrame \in Seq(Int) /\ Diagnosis \in Seq(Int)
                    /\ Len(Diagnosis) = 1
BY DEF Notice, RawFrame, Diagnosis

\* What out_buf holds when a turn ends with x.
LEMMA OutFacts ==
    ASSUME prefix \in Seq(Int), NEW x \in Seq(Int)
    PROVE  LET o == AppendText(AppendText(<<>>, prefix, OutCap), x, OutCap) IN
           /\ o \in Seq(Int) /\ Len(o) <= OutCap
           /\ Len(o) < OutCap => IsSuffix(x, o)
<1> DEFINE p == AppendText(<<>>, prefix, OutCap)
           o == AppendText(p, x, OutCap)
<1>1. OutCap \in Nat /\ Len(<<>>) <= OutCap /\ <<>> \in Seq(Int)
  BY CapsAssumption, SmallTexts
<1>2. p \in Seq(Int) /\ Len(p) <= OutCap
  BY <1>1, Appended
<1> HIDE DEF p
<1>3. /\ o \in Seq(Int) /\ Len(o) <= OutCap
      /\ Len(o) < OutCap => o = p \o x
  BY <1>1, <1>2, Appended
<1>4. IsSuffix(x, p \o x)
  BY <1>2, SuffixOf
<1> HIDE DEF o
<1>5. Len(o) < OutCap => IsSuffix(x, o)
  BY <1>3, <1>4
<1> QED
  BY <1>3, <1>5 DEF o, p

LEMMA BufferInit == DInit => Buffers
<1> SUFFICES ASSUME DInit PROVE Buffers
  OBVIOUS
<1>1. /\ prefix = <<>> /\ out = <<>> /\ part = <<>> /\ content = <<>>
      /\ reply.type = "none" /\ reply.text = <<>>
  BY DEF DInit, Init, NoReply
<1>2. <<>> \in Seq(Int) /\ Len(<<>>) <= PrefixCap /\ Len(<<>>) <= OutCap /\ Len(<<>>) <= PartCap
  BY SmallTexts, CapsAssumption
<1> QED
  BY <1>1, <1>2 DEF Buffers

LEMMA BufferNext ==
    ASSUME Scalars, Buffers, Next, UNCHANGED rawVars
    PROVE  Buffers'
<1> USE DEF Buffers
<1>0. /\ content' = content
      /\ <<>> \in Seq(Int) /\ Len(<<>>) <= PrefixCap /\ Len(<<>>) <= OutCap /\ Len(<<>>) <= PartCap
  BY SmallTexts, CapsAssumption DEF rawVars, readVars
<1>1. CASE StartStream
  <2>1. prefix' = <<>> /\ out' = <<>> /\ part' = <<>> /\ reply' = reply
    BY <1>1, Zenon DEF StartStream, StartTurn
  <2> QED
    BY <1>0, <2>1
<1>2. CASE StartBlock
  <2>1. /\ prefix' = <<>> /\ out' = <<>> /\ part' = part
        /\ reply'.type = "none" /\ reply'.text = <<>>
    BY <1>2 DEF StartBlock, StartTurn, streamVars, NoReply
  <2> QED
    BY <1>0, <2>1
<1>3. CASE TextDelta
  <2>1. PICK n \in 0 .. answer - sent :
          out' = AppendText(out, Field(sent, n), OutCap) /\ EmitDelta(Field(sent, n))
    BY <1>3 DEF TextDelta
  <2>2. prefix' = prefix /\ reply' = reply
    BY <1>3 DEF TextDelta, Counted
  <2>3. sent \in 0..MaxAnswer /\ n \in 0..MaxAnswer
    BY CapsAssumption DEF Scalars
  <2>4. Field(sent, n) \in Seq(Int) /\ OutCap \in Nat
    BY <2>3, FieldText, CapsAssumption
  <2>5. part' \in Seq(Int) /\ Len(part') <= PartCap
    BY <2>1, <2>4, DeltaFits
  <2>6. out' \in Seq(Int) /\ Len(out') <= OutCap
    BY <2>1, <2>4, Appended
  <2> QED
    BY <1>0, <2>2, <2>5, <2>6
<1>4. CASE Compaction
  <2>1. /\ prefix' = AppendText(prefix, Notice, PrefixCap)
        /\ out' = out /\ part' = part /\ reply' = reply
    BY <1>4 DEF Compaction, Counted, streamVars
  <2>2. prefix' \in Seq(Int) /\ Len(prefix') <= PrefixCap
    BY <2>1, SmallTexts, CapsAssumption, Appended
  <2> QED
    BY <1>0, <2>1, <2>2
<1>5. CASE OtherEvent
  BY <1>0, <1>5 DEF OtherEvent, Counted, streamVars
<1>6. CASE Unexpected
  <2>1. /\ out' = AppendText(AppendText(<<>>, prefix, OutCap), RawFrame, OutCap)
        /\ prefix' = prefix /\ part' = part /\ reply' = reply
    BY <1>6 DEF Unexpected, Counted, streamVars
  <2>2. out' \in Seq(Int) /\ Len(out') <= OutCap
    BY <2>1, SmallTexts, OutFacts
  <2> QED
    BY <1>0, <2>1, <2>2
<1>7. CASE Response
  <2>1. /\ out' = AppendText(AppendText(<<>>, prefix, OutCap), Field(0, answer), OutCap)
        /\ EmitDelta(Field(0, answer)) /\ prefix' = prefix /\ reply' = reply
    BY <1>7 DEF Response
  <2>2. 0 \in 0..MaxAnswer /\ answer \in 0..MaxAnswer
    BY CapsAssumption DEF Scalars
  <2>3. Field(0, answer) \in Seq(Int)
    BY <2>2, FieldText
  <2>4. part' \in Seq(Int) /\ Len(part') <= PartCap
    BY <2>1, <2>3, DeltaFits
  <2>5. out' \in Seq(Int) /\ Len(out') <= OutCap
    BY <2>1, <2>3, OutFacts
  <2> QED
    BY <1>0, <2>1, <2>4, <2>5
<1>8. CASE EventLimit \/ Abort
  BY <1>0, <1>8 DEF EventLimit, Abort, streamVars
<1>9. CASE CompleteStream \/ FailStream
  <2>1. prefix' = prefix /\ out' = out /\ part' = part /\ reply' = reply
    BY <1>9, Zenon DEF CompleteStream, FailStream, Finish
  <2> QED
    BY <1>0, <2>1
<1>10. CASE ReplyBlock
  <2>1. prefix' = prefix /\ out' = out /\ part' = part
    BY <1>10, Zenon DEF ReplyBlock, Finish, streamVars
  <2>2. reply'.type = "response" /\ reply'.text = IF TooLong(out) THEN SubSeq(out, 1, charsCap) ELSE out
    BY <1>10, Zenon DEF ReplyBlock
  <2>3. reply'.text \in Seq(Int)
    BY <2>2, CutText DEF Scalars
  <2> QED
    BY <1>0, <2>1, <2>2, <2>3
<1>11. CASE FailBlock
  <2>1. /\ prefix' = prefix /\ out' = out /\ part' = part
        /\ reply'.type = "503" /\ reply'.text = <<>>
    BY <1>11 DEF FailBlock, Finish, streamVars, Refused503
  <2> QED
    BY <1>0, <2>1
<1>12. CASE ClientLeaves
  BY <1>0, <1>12 DEF ClientLeaves
<1> QED
  BY <1>1, <1>2, <1>3, <1>4, <1>5, <1>6, <1>7, <1>8, <1>9, <1>10, <1>11, <1>12 DEF Next

LEMMA ChunkFacts ==
    ASSUME content \in Seq(Int), offset \in Nat, offset < Len(content)
    PROVE  LET n == Lesser(offset + ChunkSize, Len(content)) - offset
               x == SubSeq(content, offset + 1, Lesser(offset + ChunkSize, Len(content)))
           IN  /\ n \in 1..ChunkSize /\ offset + n <= Len(content)
               /\ x \in Seq(Int) /\ Len(x) = n
               /\ \A i \in 1..n : x[i] = content[offset + i]
<1> DEFINE m == Lesser(offset + ChunkSize, Len(content))
<1>1. Len(content) \in Nat
  BY LenProperties
<1>2. m \in offset + 1 .. Len(content) /\ m - offset \in 1..ChunkSize
  BY <1>1, RawBounds DEF Lesser
<1>3. \A i \in 1..Len(content) : content[i] \in Int
  BY ElementOfSeq
<1> HIDE DEF m
<1>4. /\ SubSeq(content, offset + 1, m) \in Seq(Int)
      /\ Len(SubSeq(content, offset + 1, m)) = m - offset
      /\ \A i \in 1 .. m - offset : SubSeq(content, offset + 1, m)[i] = content[offset + i]
  BY <1>1, <1>2, <1>3
<1>5. offset + (m - offset) <= Len(content)
  BY <1>1, <1>2
<1> QED
  BY <1>2, <1>4, <1>5 DEF m

LEMMA BufferRaw == ASSUME Scalars, Buffers, RingInv, Raw PROVE Buffers'
<1> USE DEF Buffers
<1>0. <<>> \in Seq(Int) /\ Len(<<>>) <= PartCap
  BY SmallTexts, CapsAssumption
<1>r. ReadText => content' \in Seq(Int) /\ prefix' = prefix /\ out' = out
  <2> SUFFICES ASSUME ReadText PROVE content' \in Seq(Int) /\ prefix' = prefix /\ out' = out
    OBVIOUS
  <2>1. /\ content' = (IF ReadSize = 0 THEN Diagnosis ELSE RingText)
        /\ prefix' = prefix /\ out' = out
    BY DEF ReadText, Same, framedVars
  <2>2. ReadSize \in Nat /\ RingText = Text(ring.tail, ReadSize) /\ ring.tail \in Nat
    BY ReadGives DEF RingInv
  <2>3. RingText \in Seq(Int)
    BY <2>2, TextFacts
  <2> QED
    BY <2>1, <2>3, SmallTexts
<1>1. CASE PushLine \/ StartRaw \/ Delete
  BY <1>1 DEF PushLine, StartRaw, Delete, Same, framedVars, streamVars, readVars
<1>2. CASE OpenStream
  <2>1. ReadText /\ part' = <<>> /\ reply' = reply
    BY <1>2, Zenon DEF OpenStream
  <2> QED
    BY <1>0, <1>r, <2>1
<1>3. CASE RawBlock
  <2>1. ReadText /\ part' = part
    BY <1>3, Zenon DEF RawBlock, streamVars
  <2>2. /\ reply'.type = "response"
        /\ reply'.text = IF TooLong(content') THEN SubSeq(content', 1, charsCap) ELSE content'
    BY <1>3, Zenon DEF RawBlock
  <2>3. reply'.text \in Seq(Int)
    BY <1>r, <2>1, <2>2, CutText DEF Scalars
  <2> QED
    BY <1>r, <2>1, <2>2, <2>3
<1>4. CASE Chunk
  <2> DEFINE x == SubSeq(content, offset + 1, Lesser(offset + ChunkSize, Len(content)))
  <2>1. Writes /\ offset < Len(content) /\ EmitDelta(x)
    BY <1>4 DEF Chunk
  <2>2. x \in Seq(Int)
    BY <2>1, ChunkFacts DEF Scalars
  <2> HIDE DEF x
  <2>3. part' \in Seq(Int) /\ Len(part') <= PartCap
    BY <2>1, <2>2, DeltaFits
  <2> QED
    BY <2>1, <2>3 DEF Writes, Same, framedVars, readVars
<1>5. CASE CancelRaw \/ CompleteRaw
  <2>1. Writes /\ part' = part
    BY <1>5, Zenon DEF CancelRaw, CompleteRaw
  <2> QED
    BY <2>1 DEF Writes, Same, framedVars, readVars
<1> QED
  BY <1>1, <1>2, <1>3, <1>4, <1>5 DEF Raw

LEMMA BufferStep ==
    ASSUME Scalars, Buffers, RingInv, [DNext]_<<vars, rawVars>>
    PROVE  Buffers'
<1>1. CASE ~framed /\ ClientLeaves /\ UNCHANGED rawVars
  BY <1>1, BufferNext DEF Next
<1>2. CASE UNCHANGED <<vars, rawVars>>
  BY <1>2 DEF Buffers, vars, streamVars, rawVars, readVars
<1> QED
  BY <1>1, <1>2, BufferNext, BufferRaw DEF DNext

-----------------------------------------------------------------------------
(* What is delivered: the wire.                                            *)

\* One event put on a wire.
LEMMA PutOne ==
    ASSUME WireInv, seq \in Nat, NEW t \in Order!Types, NEW x \in Seq(Int),
           NEW m \in Order!Marks,
           Order!Put(<<Order!Event(t, seq, x, m)>>), seq' = seq + 1
    PROVE  WireInv' /\ \A e \in ToSet(wire') : e \in ToSet(wire) \/ e.type = t
<1> DEFINE c == Order!Event(t, seq, x, m)
           hi == seq + 1
<1>1. c \in Events /\ c.seq = seq /\ c.type = t
  BY EventFacts
<1>2. Order!Put(<<c>>) /\ seq' = hi /\ hi \in Nat /\ seq <= hi
  OBVIOUS
<1> HIDE DEF c
<1>3. <<c>> \in Seq(Events) /\ \A i \in 1..Len(<<c>>) : <<c>>[i] = c
  BY <1>1
<1>4. c.seq <= hi
  BY <1>1
<1>5. \A i \in 1..Len(<<c>>) : <<c>>[i].seq <= hi
  BY <1>3, <1>4
<1> HIDE DEF hi
<1>6. WireInv' /\ \A e \in ToSet(wire') : e \in ToSet(wire) \/ \E i \in 1..Len(<<c>>) : e = <<c>>[i]
  BY <1>2, <1>3, <1>5, PutFacts
<1> QED
  BY <1>1, <1>3, <1>6

\* The closing events put on a wire.
LEMMA PutCompletion ==
    ASSUME WireInv, seq \in Nat, NEW x \in Seq(Int), NEW m \in Order!Marks,
           Order!Put(Order!Completion(seq, x, m)), seq' = seq + Len(Order!Closing) + 1
    PROVE  /\ WireInv'
           /\ \A e \in ToSet(wire') :
                e \in ToSet(wire)
                  \/ (e.type = "response.completed" => e.text = x /\ e.mark = m)
<1> DEFINE hi == seq + Len(Order!Closing) + 1
           s == Order!Completion(seq, x, m)
<1>1. hi \in Nat /\ seq <= hi /\ seq' = hi /\ Order!Put(s)
  BY TypeNames
<1>2. /\ s \in Seq(Events)
      /\ \A i \in 1..Len(s) :
           /\ s[i].seq <= hi
           /\ s[i].type = "response.completed" => s[i].text = x /\ s[i].mark = m
  BY CompletionFacts
<1> HIDE DEF hi, s
<1>3. WireInv' /\ \A e \in ToSet(wire') : e \in ToSet(wire) \/ \E i \in 1..Len(s) : e = s[i]
  BY <1>1, <1>2, PutFacts
<1> QED
  BY <1>2, <1>3

\* The first events of a stream.
LEMMA PutOpening ==
    ASSUME wire' = Order!Numbered(Order!Opening, 0, <<>>), seq' = Len(Order!Opening)
    PROVE  WireInv' /\ \A e \in ToSet(wire') : e.type # "response.completed"
<1> DEFINE s == Order!Numbered(Order!Opening, 0, <<>>)
<1>1. /\ s \in Seq(Events) /\ Len(s) = 3
      /\ \A i \in 1..3 : s[i].seq = i - 1 /\ s[i].type # "response.completed"
  BY OpeningFacts
<1>2. wire' = s /\ seq' = 3
  BY TypeNames
<1> HIDE DEF s
<1>3. DOMAIN s = 1..3
  BY <1>1, LenProperties
<1>4. WireInv'
  <2>1. \A i \in 1..3 : s[i].seq <= 3
    BY <1>1
  <2> QED
    BY <1>1, <1>2, <2>1 DEF WireInv
<1>5. \A e \in ToSet(wire') : e.type # "response.completed"
  BY <1>1, <1>2, <1>3 DEF ToSet
<1> QED
  BY <1>4, <1>5

\* A delta put on a wire, or none.
LEMMA PutDelta ==
    ASSUME WireInv, seq \in Nat, NEW x \in Seq(Int), EmitDelta(x)
    PROVE  /\ WireInv'
           /\ \A e \in ToSet(wire') :
                e \in ToSet(wire) \/ e.type = "response.output_text.delta"
<1>1. CASE mode = "stream" /\ x # <<>>
  <2> DEFINE t == "response.output_text.delta"
             none == ""
  <2>1. Order!Put(<<Order!Event(t, seq, x, none)>>) /\ seq' = seq + 1
    BY <1>1, Zenon DEF EmitDelta
  <2>2. t \in Order!Types /\ none \in Order!Marks
    BY Names, MarkFacts, Zenon
  <2> HIDE DEF t, none
  <2>3. WireInv' /\ \A e \in ToSet(wire') : e \in ToSet(wire) \/ e.type = t
    BY <2>1, <2>2, PutOne
  <2> QED
    BY <2>3 DEF t
<1>2. CASE ~(mode = "stream" /\ x # <<>>)
  <2>1. wire' = wire /\ seq' = seq
    BY <1>2, Zenon DEF EmitDelta, streamVars
  <2> QED
    BY <2>1 DEF WireInv
<1> QED
  BY <1>1, <1>2

\* A failure put on a wire.
LEMMA PutFailure ==
    ASSUME WireInv, seq \in Nat, NEW t \in Order!Failures,
           Order!Put(<<Order!Event(t, seq, <<>>, "")>>), seq' = seq + 1
    PROVE  WireInv' /\ \A e \in ToSet(wire') : e \in ToSet(wire) \/ e.type = t
<1> DEFINE none == ""
           empty == <<>>
<1>1. Order!Put(<<Order!Event(t, seq, empty, none)>>)
  OBVIOUS
<1>2. t \in Order!Types /\ none \in Order!Marks
  BY MarkFacts, Zenon DEF Order!Types
<1>3. empty \in Seq(Int)
  BY EmptySeq
<1> HIDE DEF none, empty
<1> QED
  BY <1>1, <1>2, <1>3, PutOne

\* A wire that is left alone.
LEMMA PutNothing ==
    ASSUME WireInv, wire' = wire, seq' = seq
    PROVE  WireInv'
BY DEF WireInv

LEMMA FramedMark ==
    (IF turn = "limit" THEN "max_turn_events" ELSE "") \in Order!Marks
BY MarkFacts, Zenon

LEMMA RawMark ==
    (IF cut THEN "max_output_buffer" ELSE "") \in Order!Marks
BY MarkFacts, Zenon

LEMMA WireInit == DInit => WireInv
<1> SUFFICES ASSUME DInit PROVE WireInv
  OBVIOUS
<1>1. wire = <<>>
  BY Zenon DEF DInit, Init
<1>2. <<>> \in Seq(Events) /\ Len(<<>>) = 0
  BY EmptySeq
<1> QED
  BY <1>1, <1>2 DEF WireInv

LEMMA WireNext ==
    ASSUME Scalars, Buffers, WireInv, Next
    PROVE  WireInv'
<1>0. seq \in Nat
  BY DEF Scalars
<1>1. CASE StartStream
  <2>1. wire' = Order!Numbered(Order!Opening, 0, <<>>) /\ seq' = Len(Order!Opening)
    BY <1>1, Zenon DEF StartStream
  <2> QED
    BY <2>1, PutOpening
<1>2. CASE StartBlock \/ Compaction \/ OtherEvent \/ Unexpected \/ EventLimit \/ Abort
             \/ ReplyBlock \/ FailBlock \/ ClientLeaves
  <2>1. wire' = wire /\ seq' = seq
    BY <1>2, Zenon DEF StartBlock, Compaction, OtherEvent, Unexpected, EventLimit, Abort,
                ReplyBlock, FailBlock, ClientLeaves, streamVars
  <2> QED
    BY <2>1, PutNothing
<1>3. CASE TextDelta
  <2>1. PICK n \in 0 .. answer - sent : EmitDelta(Field(sent, n))
    BY <1>3 DEF TextDelta
  <2>2. sent \in 0..MaxAnswer /\ n \in 0..MaxAnswer
    BY CapsAssumption DEF Scalars
  <2>3. Field(sent, n) \in Seq(Int)
    BY <2>2, FieldText
  <2> QED
    BY <1>0, <2>1, <2>3, PutDelta
<1>4. CASE Response
  <2>1. EmitDelta(Field(0, answer))
    BY <1>4 DEF Response
  <2>2. 0 \in 0..MaxAnswer /\ answer \in 0..MaxAnswer
    BY CapsAssumption DEF Scalars
  <2>3. Field(0, answer) \in Seq(Int)
    BY <2>2, FieldText
  <2> QED
    BY <1>0, <2>1, <2>3, PutDelta
<1>5. CASE CompleteStream
  <2>1. /\ Order!Put(Order!Completion(seq, part, IF turn = "limit" THEN "max_turn_events" ELSE ""))
        /\ seq' = seq + Len(Order!Closing) + 1
    BY <1>5, Zenon DEF CompleteStream
  <2>2. part \in Seq(Int)
    BY DEF Buffers
  <2> QED
    BY <1>0, <2>1, <2>2, FramedMark, PutCompletion
<1>6. CASE FailStream
  <2>1. /\ Order!Put(<<Order!Event(IF turn = "cancelled" THEN "response.failed" ELSE "response.error",
                                   seq, <<>>, "")>>)
        /\ seq' = seq + 1
    BY <1>6, Zenon DEF FailStream
  <2>2. (IF turn = "cancelled" THEN "response.failed" ELSE "response.error") \in Order!Failures
    BY DEF Order!Failures
  <2> QED
    BY <1>0, <2>1, <2>2, PutFailure
<1> QED
  BY <1>1, <1>2, <1>3, <1>4, <1>5, <1>6 DEF Next

LEMMA WireRaw ==
    ASSUME Scalars, Buffers, WireInv, Raw
    PROVE  WireInv'
<1>0. seq \in Nat /\ part \in Seq(Int)
  BY DEF Scalars, Buffers
<1>1. CASE PushLine \/ StartRaw \/ Delete \/ RawBlock
  <2>1. wire' = wire /\ seq' = seq
    BY <1>1, Zenon DEF PushLine, StartRaw, Delete, RawBlock, streamVars
  <2> QED
    BY <2>1, PutNothing
<1>2. CASE OpenStream
  <2>1. wire' = Order!Numbered(Order!Opening, 0, <<>>) /\ seq' = Len(Order!Opening)
    BY <1>2, Zenon DEF OpenStream
  <2> QED
    BY <2>1, PutOpening
<1>3. CASE Chunk
  <2> DEFINE x == SubSeq(content, offset + 1, Lesser(offset + ChunkSize, Len(content)))
  <2>1. offset < Len(content) /\ EmitDelta(x)
    BY <1>3 DEF Chunk
  <2>2. x \in Seq(Int)
    BY <2>1, ChunkFacts DEF Scalars, Buffers
  <2> HIDE DEF x
  <2> QED
    BY <1>0, <2>1, <2>2, PutDelta
<1>4. CASE CancelRaw
  <2>1. Order!Put(<<Order!Event("response.error", seq, <<>>, "")>>) /\ seq' = seq + 1
    BY <1>4, Zenon DEF CancelRaw
  <2>2. "response.error" \in Order!Failures
    BY DEF Order!Failures
  <2> QED
    BY <1>0, <2>1, <2>2, PutFailure
<1>5. CASE CompleteRaw
  <2>1. /\ Order!Put(Order!Completion(seq, part, IF cut THEN "max_output_buffer" ELSE ""))
        /\ seq' = seq + Len(Order!Closing) + 1
    BY <1>5, Zenon DEF CompleteRaw
  <2> QED
    BY <1>0, <2>1, RawMark, PutCompletion
<1> QED
  BY <1>1, <1>2, <1>3, <1>4, <1>5 DEF Raw

LEMMA WireStep ==
    ASSUME Scalars, Buffers, WireInv, [DNext]_<<vars, rawVars>>
    PROVE  WireInv'
<1>1. CASE ~framed /\ ClientLeaves
  BY <1>1, WireNext DEF Next
<1>2. CASE UNCHANGED <<vars, rawVars>>
  BY <1>2, PutNothing DEF vars, streamVars
<1> QED
  BY <1>1, <1>2, WireNext, WireRaw DEF DNext

\* Which of the two paths a bridge is on, and where its server thread is.
PlaceInv ==
    /\ place \in {"idle", "wait", "write"} /\ printed <= MaxPrinted
    /\ framed => place = "idle"
    /\ ~framed => /\ answer = 0 /\ turn = "ok"
                  /\ busy = (place = "write")
                  /\ busy => mode = "stream"

LEMMA PlaceInit == DInit => PlaceInv
<1> SUFFICES ASSUME DInit PROVE PlaceInv
  OBVIOUS
<1>1. place = "idle" /\ printed = 0 /\ answer = 0 /\ turn = "ok" /\ busy = FALSE
  BY Zenon DEF DInit, Init
<1>2. printed <= MaxPrinted
  BY <1>1, RawBounds
<1> QED
  BY <1>1, <1>2, Zenon DEF PlaceInv

LEMMA PlaceStep ==
    ASSUME Scalars, RingInv, PlaceInv, [DNext]_<<vars, rawVars>>
    PROVE  PlaceInv'
<1> USE DEF PlaceInv
<1>1. CASE framed /\ UNCHANGED rawVars
  BY <1>1 DEF rawVars
<1>2. CASE ~framed /\ ClientLeaves /\ UNCHANGED rawVars
  BY <1>2 DEF rawVars, ClientLeaves, turnVars
<1>3. CASE UNCHANGED <<vars, rawVars>>
  BY <1>3 DEF vars, rawVars, turnVars
<1>4. CASE PushLine
  <2>1. printed' = printed + 1 /\ printed < MaxPrinted /\ printed \in Nat
    BY <1>4 DEF PushLine, RingInv
  <2>2. printed' <= MaxPrinted
    BY <2>1, RawBounds
  <2> QED
    BY <1>4, <2>2 DEF PushLine, Same, framedVars
<1>5. CASE StartRaw \/ Delete
  BY <1>5 DEF StartRaw, Delete, Same, framedVars
<1>6. CASE OpenStream
  <2>1. /\ ~framed /\ Same /\ printed' = printed /\ place' = "write" /\ busy' = TRUE /\ mode' = "stream"
    BY <1>6, Zenon DEF OpenStream, ReadText
  <2> QED
    BY <2>1 DEF Same, framedVars
<1>7. CASE RawBlock
  <2>1. /\ ~framed /\ Same /\ printed' = printed /\ place = "wait" /\ place' = "idle" /\ busy' = busy
    BY <1>7, Zenon DEF RawBlock, ReadText
  <2> QED
    BY <2>1 DEF Same, framedVars
<1>8. CASE Chunk
  <2>1. Writes /\ busy' = busy /\ place' = place
    BY <1>8 DEF Chunk
  <2> QED
    BY <2>1 DEF Writes, Same, framedVars
<1>9. CASE CancelRaw \/ CompleteRaw
  <2>1. Writes /\ busy' = FALSE /\ place' = "idle"
    BY <1>9, Zenon DEF CancelRaw, CompleteRaw
  <2> QED
    BY <2>1 DEF Writes, Same, framedVars
<1> QED
  BY <1>1, <1>2, <1>3, <1>4, <1>5, <1>6, <1>7, <1>8, <1>9 DEF DNext, Raw

BaseInv == RawInv /\ Scalars /\ Buffers /\ WireInv /\ PlaceInv

LEMMA BaseAlways == DSpec => []BaseInv
<1>1. DInit => BaseInv
  BY RawStart, ScalarInit, BufferInit, WireInit, PlaceInit DEF BaseInv
<1>2. BaseInv /\ [DNext]_<<vars, rawVars>> => BaseInv'
  <2>1. RawInv => RingInv
    BY DEF RawInv
  <2> QED
    BY <2>1, RawStep, ScalarStep, BufferStep, WireStep, PlaceStep DEF BaseInv
<1> QED
  BY <1>1, <1>2, PTL DEF DSpec

-----------------------------------------------------------------------------
(* What is delivered: text and marks.                                      *)

\* what UnmarkedIsWhole and MarkIsOwn ask of an answer
GoodText(e) == e.mark = "" /\ answer <= FieldCap => IsSuffix(Text(0, answer), e.text)
GoodMark(e) == /\ (turn = "limit" => e.mark # "")
               /\ (e.mark = "max_turn_events" => turn = "limit")

\* The agent's answer is in the buffer its completion is made from.
AnswerInv ==
    framed /\ busy /\ turn = "ok" /\ answer <= FieldCap =>
      IF mode = "stream" THEN IsSuffix(Text(0, answer), part)
      ELSE Len(out) < OutCap => IsSuffix(Text(0, answer), out)

\* Nothing is delivered as complete before the request is over.
DeliveredInv ==
    /\ busy => Delivered = {}
    /\ \A e \in Delivered : GoodText(e) /\ GoodMark(e)

LEMMA NothingLost == ASSUME NEW x \in Seq(Int) PROVE IsSuffix(<<>>, x)
<1>1. <<>> \in Seq(Int) /\ x \o <<>> = x
  BY EmptySeq, ConcatEmptySeq
<1>2. IsSuffix(<<>>, x \o <<>>)
  BY <1>1, SuffixOf
<1> QED
  BY <1>1, <1>2

LEMMA RoomStep ==
    ASSUME PartRoom, ShownBound, BaseInv, BaseInv', [DNext]_<<vars, rawVars>>
    PROVE  ShownBound'
<1>1. CASE framed /\ Next
  BY <1>1, BoundStep
<1>2. CASE ~framed' \/ ~busy'
  <2>1. answer' \in 0..MaxAnswer /\ sent' \in 0..answer' /\ part' \in Seq(Int)
    BY DEF BaseInv, Scalars, Buffers
  <2>2. ~(busy' /\ turn' = "running")
    BY <1>2 DEF BaseInv, PlaceInv
  <2> QED
    BY <2>1, <2>2 DEF ShownBound
<1>3. CASE UNCHANGED vars
  BY <1>3, BoundStep
<1>4. Raw \/ (~framed /\ UNCHANGED rawVars) => ~framed'
  BY Zenon DEF Raw, PushLine, StartRaw, OpenStream, RawBlock, ReadText, Chunk, CancelRaw,
               CompleteRaw, Writes, Delete, Same, rawVars
<1> QED
  BY <1>1, <1>2, <1>3, <1>4 DEF DNext

LEMMA AnswerStep ==
    ASSUME PartRoom, ShownBound, BaseInv, AnswerInv, [DNext]_<<vars, rawVars>>
    PROVE  AnswerInv'
<1> USE CapsAssumption
<1>1. CASE framed /\ Next /\ UNCHANGED rawVars
  <2>1. CASE Response
    <3> DEFINE x == Field(0, answer)
    <3>1. /\ out' = AppendText(AppendText(<<>>, prefix, OutCap), x, OutCap)
          /\ EmitDelta(x) /\ answer' = answer /\ mode' = mode
          /\ busy /\ turn = "running"
      BY <2>1 DEF Response, turnVars, TakesFrame
    <3>2. 0 \in 0..MaxAnswer /\ answer \in 0..MaxAnswer /\ answer \in Nat
      BY DEF BaseInv, Scalars
    <3>3. x \in Seq(Int) /\ Len(x) <= answer
      BY <3>2, FieldText
    <3>4. answer <= FieldCap => x = Text(0, answer)
      BY <3>2 DEF Field, Lesser
    <3> HIDE DEF x
    <3>5. part \in Seq(Int) /\ prefix \in Seq(Int)
      BY DEF BaseInv, Buffers
    <3>6. mode = "stream" => IsSuffix(x, part')
      <4> SUFFICES ASSUME mode = "stream" PROVE IsSuffix(x, part')
        OBVIOUS
      <4>1. CASE x = <<>>
        <5>1. part' = part
          BY <3>1, <4>1, Zenon DEF EmitDelta, streamVars
        <5> QED
          BY <3>5, <4>1, <5>1, NothingLost
      <4>2. CASE x # <<>>
        <5>1. part' = Accumulate(x)
          BY <3>1, <4>2, Zenon DEF EmitDelta
        <5>2. Len(part) + Len(x) <= PartCap
          BY <3>1, <3>2, <3>3, Room
        <5>3. part' = part \o x
          BY <3>3, <3>5, <5>1, <5>2, Accumulates
        <5> QED
          BY <3>3, <3>5, <5>3, SuffixOf
      <4> QED
        BY <4>1, <4>2
    <3>7. Len(out') < OutCap => IsSuffix(x, out')
      BY <3>1, <3>3, <3>5, OutFacts
    <3> QED
      BY <3>1, <3>4, <3>6, <3>7 DEF AnswerInv
  <2>2. CASE ClientLeaves
    BY <1>1, <2>2 DEF ClientLeaves, turnVars, AnswerInv, rawVars
  <2>3. CASE StartStream \/ StartBlock
    <3>1. turn' = "running"
      BY <2>3, Zenon DEF StartStream, StartBlock, StartTurn
    <3> QED
      BY <3>1 DEF AnswerInv
  <2>4. CASE TextDelta \/ Compaction \/ OtherEvent \/ Unexpected
    <3>1. turn' = "running"
      BY <2>4 DEF TextDelta, Compaction, OtherEvent, Unexpected, TakesFrame, Counted
    <3> QED
      BY <3>1 DEF AnswerInv
  <2>5. CASE EventLimit \/ Abort
    <3>1. turn' # "ok"
      BY <2>5 DEF EventLimit, Abort
    <3> QED
      BY <3>1 DEF AnswerInv
  <2>6. CASE CompleteStream \/ FailStream \/ ReplyBlock \/ FailBlock
    <3>1. ~busy'
      BY <2>6, Zenon DEF CompleteStream, FailStream, ReplyBlock, FailBlock, Finish
    <3> QED
      BY <3>1 DEF AnswerInv
  <2> QED
    BY <1>1, <2>1, <2>2, <2>3, <2>4, <2>5, <2>6 DEF Next
<1>2. CASE Raw \/ (~framed /\ UNCHANGED rawVars)
  <2>1. ~framed'
    BY <1>2, Zenon DEF Raw, PushLine, StartRaw, OpenStream, RawBlock, ReadText, Chunk, CancelRaw,
                 CompleteRaw, Writes, Delete, Same, rawVars
  <2> QED
    BY <2>1 DEF AnswerInv
<1>3. CASE UNCHANGED <<vars, rawVars>>
  BY <1>3 DEF AnswerInv, vars, turnVars, streamVars, rawVars
<1> QED
  BY <1>1, <1>2, <1>3 DEF DNext

\* A step that leaves answers, marks and what they are judged by as they were.
LEMMA DeliveredSame ==
    ASSUME DeliveredInv, busy' => busy, answer' = answer, turn' = turn,
           Delivered' \subseteq Delivered
    PROVE  DeliveredInv'
<1>1. busy' => Delivered' = {}
  BY DEF DeliveredInv
<1>2. ASSUME NEW e \in Delivered' PROVE GoodText(e)' /\ GoodMark(e)'
  BY <1>2, Zenon DEF DeliveredInv, GoodText, GoodMark
<1> QED
  BY <1>1, <1>2 DEF DeliveredInv

\* A step after which nothing is delivered.
LEMMA DeliveredNothing == ASSUME Delivered' = {} PROVE DeliveredInv'
BY DEF DeliveredInv

\* Streams and blocks: what is delivered.
LEMMA DeliveredIs ==
    /\ mode = "stream" => Delivered = { e \in ToSet(wire) : e.type = "response.completed" }
    /\ mode = "block" => Delivered = { e \in {reply} : e.type = "response" }
BY DEF Delivered

LEMMA DeliveredIsThen ==
    /\ mode' = "stream" => Delivered' = { e \in ToSet(wire') : e.type = "response.completed" }
    /\ mode' = "block" => Delivered' = { e \in {reply'} : e.type = "response" }
BY DEF Delivered

\* While a request is being answered, what its stream gains is no completion.
LEMMA DeliveredGrows ==
    ASSUME DeliveredInv, busy, mode' = mode, mode \in {"stream", "block"}, reply' = reply,
           \A e \in ToSet(wire') : e \in ToSet(wire) \/ e.type # "response.completed"
    PROVE  Delivered' = {}
<1>1. Delivered = {}
  BY DEF DeliveredInv
<1>2. CASE mode = "stream"
  BY <1>1, <1>2, DeliveredIs, DeliveredIsThen
<1>3. CASE mode = "block"
  BY <1>1, <1>3, DeliveredIs, DeliveredIsThen
<1> QED
  BY <1>2, <1>3

LEMMA NotFull == ASSUME out \in Seq(Int), ~BufferFull(out) PROVE Len(out) < OutCap
<1>1. Len(out) \in Nat /\ OutCap \in Nat
  BY LenProperties, CapsAssumption
<1> QED
  BY <1>1 DEF BufferFull

LEMMA DeliveredNext ==
    ASSUME BaseInv, AnswerInv, DeliveredInv, framed, Next
    PROVE  DeliveredInv'
<1>0. /\ seq \in Nat /\ part \in Seq(Int) /\ mode \in {"stream", "block"}
      /\ answer \in 0..MaxAnswer /\ sent \in 0..answer /\ WireInv
  BY DEF BaseInv, Scalars, Buffers
<1>1. CASE StartStream
  <2>1. /\ wire' = Order!Numbered(Order!Opening, 0, <<>>) /\ seq' = Len(Order!Opening)
        /\ mode' = "stream"
    BY <1>1, Zenon DEF StartStream
  <2>2. \A e \in ToSet(wire') : e.type # "response.completed"
    BY <2>1, PutOpening
  <2> QED
    BY <2>1, <2>2, DeliveredIsThen, DeliveredNothing
<1>2. CASE StartBlock
  <2>1. mode' = "block" /\ reply'.type = "none"
    BY <1>2, Zenon DEF StartBlock, NoReply
  <2> QED
    BY <2>1, DeliveredIsThen, DeliveredNothing
<1>3. CASE TextDelta
  <2>1. PICK n \in 0 .. answer - sent : EmitDelta(Field(sent, n))
    BY <1>3 DEF TextDelta
  <2>2. busy /\ mode' = mode /\ reply' = reply
    BY <1>3 DEF TextDelta, TakesFrame, Counted, turnVars
  <2>3. sent \in 0..MaxAnswer /\ n \in 0..MaxAnswer
    BY <1>0, CapsAssumption
  <2>4. Field(sent, n) \in Seq(Int)
    BY <2>3, FieldText
  <2>5. \A e \in ToSet(wire') : e \in ToSet(wire) \/ e.type = "response.output_text.delta"
    BY <1>0, <2>1, <2>4, PutDelta
  <2>6. \A e \in ToSet(wire') : e \in ToSet(wire) \/ e.type # "response.completed"
    BY <2>5
  <2> QED
    BY <1>0, <2>2, <2>6, DeliveredGrows, DeliveredNothing
<1>4. CASE Response
  <2>1. EmitDelta(Field(0, answer)) /\ busy /\ mode' = mode /\ reply' = reply
    BY <1>4 DEF Response, TakesFrame, turnVars
  <2>2. 0 \in 0..MaxAnswer
    BY CapsAssumption
  <2>3. Field(0, answer) \in Seq(Int)
    BY <1>0, <2>2, FieldText
  <2>4. \A e \in ToSet(wire') : e \in ToSet(wire) \/ e.type = "response.output_text.delta"
    BY <1>0, <2>1, <2>3, PutDelta
  <2>5. \A e \in ToSet(wire') : e \in ToSet(wire) \/ e.type # "response.completed"
    BY <2>4
  <2> QED
    BY <1>0, <2>1, <2>5, DeliveredGrows, DeliveredNothing
<1>5. CASE Compaction \/ OtherEvent \/ Unexpected \/ EventLimit \/ Abort
  <2>1. busy /\ mode' = mode /\ reply' = reply /\ wire' = wire
    BY <1>5 DEF Compaction, OtherEvent, Unexpected, EventLimit, Abort, TakesFrame, Counted,
       turnVars, streamVars
  <2> QED
    BY <1>0, <2>1, DeliveredGrows, DeliveredNothing
<1>6. CASE CompleteStream
  <2> DEFINE m == IF turn = "limit" THEN "max_turn_events" ELSE ""
  <2>1. /\ Order!Put(Order!Completion(seq, part, m)) /\ seq' = seq + Len(Order!Closing) + 1
        /\ busy /\ busy' = FALSE /\ mode = "stream" /\ mode' = mode /\ turn \in {"ok", "limit"}
        /\ turn' = turn /\ answer' = answer
    BY <1>6, Zenon DEF CompleteStream, Finish, turnVars, Answered
  <2>2. m \in Order!Marks
    BY FramedMark
  <2>3. \A e \in ToSet(wire') :
          e \in ToSet(wire) \/ (e.type = "response.completed" => e.text = part /\ e.mark = m)
    <3> HIDE DEF m
    <3> QED
      BY <1>0, <2>1, <2>2, PutCompletion
  <2>4. \A e \in ToSet(wire) : e.type # "response.completed"
    <3>1. Delivered = {}
      BY <2>1 DEF DeliveredInv
    <3> QED
      BY <2>1, <3>1, DeliveredIs
  <2>5. \A e \in Delivered' : e.text = part /\ e.mark = m
    BY <2>1, <2>3, <2>4, DeliveredIsThen
  <2>6. turn = "limit" => m = "max_turn_events"
    OBVIOUS
  <2>7. turn # "limit" => m = ""
    OBVIOUS
  <2> HIDE DEF m
  <2>8. turn = "ok" /\ answer <= FieldCap => IsSuffix(Text(0, answer), part)
    BY <2>1 DEF AnswerInv
  <2>9. ASSUME NEW e \in Delivered' PROVE GoodText(e)' /\ GoodMark(e)'
    <3>1. GoodText(e)'
      <4>1. CASE turn = "limit"
        <5>1. e.mark # ""
          BY <2>5, <2>6, <4>1
        <5> QED
          BY <5>1 DEF GoodText
      <4>2. CASE turn = "ok"
        <5>1. answer <= FieldCap => IsSuffix(Text(0, answer), e.text)
          BY <2>5, <2>8, <4>2, Zenon
        <5> QED
          BY <2>1, <5>1, Zenon DEF GoodText
      <4> QED
        BY <2>1, <4>1, <4>2
    <3>2. GoodMark(e)'
      <4>1. e.mark = m /\ turn' = turn
        BY <2>1, <2>5
      <4> QED
        BY <2>6, <2>7, <4>1 DEF GoodMark
    <3> QED
      BY <3>1, <3>2
  <2> QED
    BY <2>1, <2>9 DEF DeliveredInv
<1>7. CASE FailStream
  <2>1. /\ Order!Put(<<Order!Event(IF turn = "cancelled" THEN "response.failed" ELSE "response.error",
                                   seq, <<>>, "")>>)
        /\ seq' = seq + 1 /\ busy /\ mode' = mode /\ reply' = reply
    BY <1>7, Zenon DEF FailStream, Finish, turnVars
  <2>2. (IF turn = "cancelled" THEN "response.failed" ELSE "response.error") \in Order!Failures
    BY DEF Order!Failures
  <2>3. \A e \in ToSet(wire') : e \in ToSet(wire) \/ e.type \in Order!Failures
    BY <1>0, <2>1, <2>2, PutFailure
  <2>4. \A e \in ToSet(wire') : e \in ToSet(wire) \/ e.type # "response.completed"
    BY <2>3 DEF Order!Failures
  <2> QED
    BY <1>0, <2>1, <2>4, DeliveredGrows, DeliveredNothing
<1>8. CASE ReplyBlock
  <2> DEFINE x == IF TooLong(out) THEN SubSeq(out, 1, charsCap) ELSE out
             m == IF BufferFull(out) THEN "max_output_buffer"
                  ELSE IF TooLong(out) THEN "max_output_chars"
                  ELSE IF EventCapped THEN "max_turn_events" ELSE ""
  <2>1. /\ reply' = [type |-> "response", text |-> x, mark |-> m]
        /\ busy /\ busy' = FALSE /\ mode = "block" /\ mode' = mode /\ turn \in {"ok", "limit"}
        /\ turn' = turn /\ answer' = answer
    BY <1>8, Zenon DEF ReplyBlock, Finish, turnVars, Answered
  <2>2. turn = "limit" => m # ""
    BY Zenon DEF EventCapped
  <2>3. m = "max_turn_events" => turn = "limit"
    BY DEF EventCapped
  <2>4. m = "" => ~BufferFull(out) /\ ~TooLong(out) /\ turn # "limit"
    BY Zenon DEF EventCapped
  <2> HIDE DEF m
  <2>5. ~TooLong(out) => x = out
    OBVIOUS
  <2> HIDE DEF x
  <2>6. m = "" /\ answer <= FieldCap => IsSuffix(Text(0, answer), x)
    <3> SUFFICES ASSUME m = "", answer <= FieldCap PROVE IsSuffix(Text(0, answer), x)
      OBVIOUS
    <3>1. ~BufferFull(out) /\ x = out /\ turn = "ok"
      BY <2>1, <2>4, <2>5, Zenon
    <3>2. Len(out) < OutCap
      BY <3>1, NotFull DEF BaseInv, Buffers
    <3> QED
      BY <2>1, <3>1, <3>2 DEF AnswerInv
  <2>7. \A e \in Delivered' : e.text = x /\ e.mark = m
    BY <2>1, DeliveredIsThen
  <2>8. ASSUME NEW e \in Delivered' PROVE GoodText(e)' /\ GoodMark(e)'
    <3>1. e.text = x /\ e.mark = m /\ turn' = turn /\ answer' = answer
      BY <2>1, <2>7
    <3>2. GoodText(e)'
      BY <2>6, <3>1, Zenon DEF GoodText
    <3>3. GoodMark(e)'
      BY <2>2, <2>3, <3>1, Zenon DEF GoodMark
    <3> QED
      BY <3>2, <3>3
  <2> QED
    BY <2>1, <2>8 DEF DeliveredInv
<1>9. CASE FailBlock
  <2>1. mode' = "block" /\ reply'.type = "503"
    BY <1>9, Zenon DEF FailBlock, Finish, turnVars, Refused503
  <2> QED
    BY <2>1, DeliveredIsThen, DeliveredNothing
<1>10. CASE ClientLeaves
  <2>1. busy /\ mode' = mode /\ reply' = reply /\ wire' = wire
    BY <1>10 DEF ClientLeaves, turnVars
  <2> QED
    BY <1>0, <2>1, DeliveredGrows, DeliveredNothing
<1> QED
  BY <1>1, <1>2, <1>3, <1>4, <1>5, <1>6, <1>7, <1>8, <1>9, <1>10 DEF Next

\* Over raw stdio no turn is cut at the event limit, and there is no answer to miss.
LEMMA RawGood ==
    ASSUME NEW e, answer' = 0, turn' = "ok", e.text \in Seq(Int), e.mark # "max_turn_events"
    PROVE  GoodText(e)' /\ GoodMark(e)'
<1>1. Text(0, 0) = <<>>
  <2>1. 0 \in Nat
    OBVIOUS
  <2>2. Text(0, 0) \in Seq(Int) /\ Len(Text(0, 0)) = 0
    BY <2>1, TextFacts
  <2> QED
    BY <2>2, EmptySeq
<1>2. IsSuffix(Text(0, 0), e.text)
  BY <1>1, NothingLost
<1>3. IsSuffix(Text(0, answer'), e.text)
  BY <1>2
<1>4. GoodText(e)'
  BY <1>3 DEF GoodText
<1>5. GoodMark(e)'
  BY DEF GoodMark
<1> QED
  BY <1>4, <1>5

LEMMA DeliveredRaw ==
    ASSUME BaseInv, BaseInv', DeliveredInv, Raw
    PROVE  DeliveredInv'
<1>0. /\ seq \in Nat /\ part \in Seq(Int) /\ mode \in {"stream", "block"} /\ WireInv
      /\ ~framed => answer = 0 /\ turn = "ok" /\ busy = (place = "write") /\ (busy => mode = "stream")
  BY DEF BaseInv, Scalars, Buffers, PlaceInv
<1>1. CASE PushLine \/ StartRaw \/ Delete
  <2>1. /\ ~framed /\ busy' = busy /\ answer' = answer /\ turn' = turn /\ mode' = mode
        /\ wire' = wire /\ reply' = reply
    BY <1>1 DEF PushLine, StartRaw, Delete, Same, framedVars, streamVars
  <2>2. Delivered' = Delivered
    BY <2>1 DEF Delivered
  <2> QED
    BY <2>1, <2>2, DeliveredSame
<1>2. CASE OpenStream
  <2>1. /\ wire' = Order!Numbered(Order!Opening, 0, <<>>) /\ seq' = Len(Order!Opening)
        /\ mode' = "stream"
    BY <1>2, Zenon DEF OpenStream
  <2>2. \A e \in ToSet(wire') : e.type # "response.completed"
    BY <2>1, PutOpening
  <2> QED
    BY <2>1, <2>2, DeliveredIsThen, DeliveredNothing
<1>3. CASE RawBlock
  <2> DEFINE m == IF cut' THEN "max_output_buffer"
                  ELSE IF TooLong(content') THEN "max_output_chars" ELSE ""
             x == IF TooLong(content') THEN SubSeq(content', 1, charsCap) ELSE content'
  <2>1. /\ ~framed /\ place = "wait" /\ busy' = busy /\ mode' = "block"
        /\ reply' = [type |-> "response", text |-> x, mark |-> m]
    BY <1>3, Zenon DEF RawBlock, ReadText
  <2>2. m # "max_turn_events"
    OBVIOUS
  <2> HIDE DEF m, x
  <2>3. answer' = 0 /\ turn' = "ok"
    BY <1>0, <1>3, <2>1 DEF RawBlock, ReadText, Same, framedVars
  <2>4. reply'.text \in Seq(Int) /\ reply'.mark = m
    BY <2>1 DEF BaseInv, Buffers
  <2>5. \A e \in Delivered' : e = reply'
    BY <2>1, DeliveredIsThen
  <2>6. ~busy'
    BY <1>0, <2>1
  <2>7. \A e \in Delivered' : GoodText(e)' /\ GoodMark(e)'
    <3> SUFFICES ASSUME NEW e \in Delivered' PROVE GoodText(e)' /\ GoodMark(e)'
      OBVIOUS
    <3>1. e.text \in Seq(Int) /\ e.mark # "max_turn_events"
      BY <2>2, <2>4, <2>5
    <3> QED
      BY <2>3, <3>1, RawGood
  <2> QED
    BY <2>6, <2>7 DEF DeliveredInv
<1>4. CASE Chunk
  <2> DEFINE x == SubSeq(content, offset + 1, Lesser(offset + ChunkSize, Len(content)))
  <2>1. Writes /\ offset < Len(content) /\ EmitDelta(x)
    BY <1>4 DEF Chunk
  <2>2. x \in Seq(Int)
    BY <2>1, ChunkFacts DEF BaseInv, Scalars, Buffers
  <2> HIDE DEF x
  <2>3. \A e \in ToSet(wire') : e \in ToSet(wire) \/ e.type = "response.output_text.delta"
    BY <1>0, <2>1, <2>2, PutDelta
  <2>4. \A e \in ToSet(wire') : e \in ToSet(wire) \/ e.type # "response.completed"
    BY <2>3
  <2>5. busy /\ mode' = mode /\ reply' = reply
    BY <1>0, <2>1 DEF Writes
  <2> QED
    BY <1>0, <2>4, <2>5, DeliveredGrows, DeliveredNothing
<1>5. CASE CancelRaw
  <2>1. /\ Order!Put(<<Order!Event("response.error", seq, <<>>, "")>>) /\ seq' = seq + 1
        /\ Writes
    BY <1>5, Zenon DEF CancelRaw
  <2>2. "response.error" \in Order!Failures
    BY DEF Order!Failures
  <2>3. \A e \in ToSet(wire') : e \in ToSet(wire) \/ e.type = "response.error"
    BY <1>0, <2>1, <2>2, PutFailure
  <2>4. \A e \in ToSet(wire') : e \in ToSet(wire) \/ e.type # "response.completed"
    BY <2>3
  <2>5. busy /\ mode' = mode /\ reply' = reply
    BY <1>0, <2>1 DEF Writes
  <2> QED
    BY <1>0, <2>4, <2>5, DeliveredGrows, DeliveredNothing
<1>6. CASE CompleteRaw
  <2> DEFINE m == IF cut THEN "max_output_buffer" ELSE ""
  <2>1. /\ Order!Put(Order!Completion(seq, part, m)) /\ seq' = seq + Len(Order!Closing) + 1
        /\ Writes /\ busy' = FALSE
    BY <1>6, Zenon DEF CompleteRaw
  <2>2. m \in Order!Marks
    BY RawMark
  <2>3. m # "max_turn_events"
    OBVIOUS
  <2> HIDE DEF m
  <2>4. \A e \in ToSet(wire') :
          e \in ToSet(wire) \/ (e.type = "response.completed" => e.text = part /\ e.mark = m)
    BY <1>0, <2>1, <2>2, PutCompletion
  <2>5. busy /\ mode = "stream" /\ mode' = mode /\ answer' = 0 /\ turn' = "ok"
    BY <1>0, <2>1 DEF Writes, Same, framedVars
  <2>6. \A e \in ToSet(wire) : e.type # "response.completed"
    <3>1. Delivered = {}
      BY <2>5 DEF DeliveredInv
    <3> QED
      BY <2>5, <3>1, DeliveredIs
  <2>7. \A e \in Delivered' : e.text = part /\ e.mark = m
    BY <2>4, <2>5, <2>6, DeliveredIsThen
  <2>8. \A e \in Delivered' : GoodText(e)' /\ GoodMark(e)'
    <3> SUFFICES ASSUME NEW e \in Delivered' PROVE GoodText(e)' /\ GoodMark(e)'
      OBVIOUS
    <3>1. e.text \in Seq(Int) /\ e.mark # "max_turn_events"
      BY <1>0, <2>3, <2>7
    <3> QED
      BY <2>5, <3>1, RawGood
  <2> QED
    BY <2>1, <2>8 DEF DeliveredInv
<1> QED
  BY <1>1, <1>2, <1>3, <1>4, <1>5, <1>6 DEF Raw

LEMMA DeliveredStep ==
    ASSUME BaseInv, BaseInv', AnswerInv, DeliveredInv, [DNext]_<<vars, rawVars>>
    PROVE  DeliveredInv'
<1>1. CASE UNCHANGED vars \/ (~framed /\ ClientLeaves)
  <2>1. /\ busy' = busy /\ answer' = answer /\ turn' = turn /\ mode' = mode
        /\ wire' = wire /\ reply' = reply
    BY <1>1 DEF vars, turnVars, streamVars, ClientLeaves
  <2>2. Delivered' = Delivered
    BY <2>1 DEF Delivered
  <2> QED
    BY <2>1, <2>2, DeliveredSame
<1> QED
  BY <1>1, DeliveredNext, DeliveredRaw DEF DNext

\* What clients are given, and what it is made from.
DeliveryInv == BaseInv /\ ShownBound /\ AnswerInv /\ DeliveredInv

LEMMA DeliveryAlways == ASSUME PartRoom PROVE DSpec => []DeliveryInv
<1>1. DInit => DeliveryInv
  <2> SUFFICES ASSUME DInit PROVE DeliveryInv
    OBVIOUS
  <2>1. BaseInv
    BY RawStart, ScalarInit, BufferInit, WireInit, PlaceInit DEF BaseInv
  <2>2. ShownBound
    BY BoundInit DEF DInit
  <2>3. busy = FALSE /\ mode = "block" /\ reply.type = "none"
    BY Zenon DEF DInit, Init, NoReply
  <2>4. Delivered = {}
    BY <2>3, DeliveredIs
  <2> QED
    BY <2>1, <2>2, <2>3, <2>4 DEF DeliveryInv, AnswerInv, DeliveredInv
<1>2. DSpec => []BaseInv
  BY BaseAlways
<1>3. DeliveryInv /\ BaseInv' /\ [DNext]_<<vars, rawVars>> => DeliveryInv'
  BY RoomStep, AnswerStep, DeliveredStep DEF DeliveryInv
<1> QED
  BY <1>1, <1>2, <1>3, PTL DEF DSpec

-----------------------------------------------------------------------------
(* Theorems.                                                               *)

\* Every variable of the delivery keeps its type, and no buffer of the code holds more
\* than it has room for: out_buf, the compaction notices and the stream's content part
\* (append_text, responses_stream_emit_text_delta).
THEOREM DeliveryTypes == DSpec => []TypeOK
<1>1. BaseInv => TypeOK
  <2> SUFFICES ASSUME BaseInv PROVE TypeOK
    OBVIOUS
  <2>1. ASSUME NEW i \in DOMAIN wire
        PROVE  /\ wire[i].type \in Order!Types /\ wire[i].seq \in 0..seq
               /\ wire[i].text \in Seq(Int) /\ wire[i].mark \in Order!Marks
    <3>1. wire \in Seq(Events) /\ \A j \in 1..Len(wire) : wire[j].seq <= seq
      BY DEF BaseInv, WireInv
    <3>2. i \in 1..Len(wire) /\ wire[i] \in Events
      BY <3>1, LenProperties, ElementOfSeq
    <3>3. /\ wire[i].type \in Order!Types /\ wire[i].seq \in Nat
          /\ wire[i].text \in Seq(Int) /\ wire[i].mark \in Order!Marks
      BY <3>2 DEF Events
    <3>4. wire[i].seq \in 0..seq
      BY <3>1, <3>2, <3>3 DEF BaseInv, Scalars
    <3> QED
      BY <3>3, <3>4
  <2> QED
    BY <2>1, Zenon DEF BaseInv, Scalars, Buffers, TypeOK
<1> QED
  BY <1>1, BaseAlways, PTL

\* An answer delivered as complete and not marked as cut ends with the agent's whole
\* answer: handle_response_native and handle_response_block cut nothing silently, if the
\* content part has room for an answer twice.
THEOREM AnswersAreWhole == ASSUME PartRoom PROVE DSpec => []UnmarkedIsWhole
<1>1. DeliveryInv => UnmarkedIsWhole
  BY DEF DeliveryInv, DeliveredInv, GoodText, UnmarkedIsWhole
<1> QED
  BY <1>1, DeliveryAlways, PTL

\* A turn cut at the event limit is marked as cut, in a stream as in a block, and no
\* answer carries the limit of an earlier turn (turn_event_limited, which each turn sets
\* and only the writers read).
THEOREM MarksAreOwn == ASSUME PartRoom PROVE DSpec => []MarkIsOwn
<1>1. DeliveryInv => MarkIsOwn
  BY DEF DeliveryInv, DeliveredInv, GoodMark, MarkIsOwn
<1> QED
  BY <1>1, DeliveryAlways, PTL

-----------------------------------------------------------------------------
(* Both streams: the refinement.                                           *)

\* What one read of the ring gives.
Readable(x) == x = Diagnosis \/ \E i, n \in Nat :
                 x = Text(i, n) /\ i + n <= MaxPrinted /\ n <= ContentMax - 1

\* A raw stream has shown no more than it took from what was read.
ChunkInv == place = "write" => Readable(content) /\ Len(part) <= offset

LEMMA ReadableFacts ==
    ASSUME NEW x, Readable(x)
    PROVE  x \in Seq(Int) /\ Len(x) \in 0 .. ContentMax - 1
<1>1. CASE x = Diagnosis
  BY <1>1, SmallTexts, RawBounds
<1>2. CASE x # Diagnosis
  <2>1. PICK i, n \in Nat : x = Text(i, n) /\ n <= ContentMax - 1
    BY <1>2 DEF Readable
  <2>2. x \in Seq(Int) /\ Len(x) = n
    BY <2>1, TextFacts
  <2> QED
    BY <2>1, <2>2, RawBounds
<1> QED
  BY <1>1, <1>2

LEMMA ReadIsReadable == ASSUME BaseInv, ReadText PROVE Readable(content')
<1>1. content' = (IF ReadSize = 0 THEN Diagnosis ELSE RingText)
  BY DEF ReadText
<1>2. /\ Available \in Nat /\ ReadSize \in 0..Available /\ ReadSize <= ContentMax - 1
      /\ RingText = Text(ring.tail, ReadSize)
  BY ReadGives DEF BaseInv, RawInv
<1>3. /\ ring.tail \in Nat /\ ring.head \in Nat /\ ring.head = printed /\ printed <= MaxPrinted
      /\ Available = ring.head - ring.tail
  BY DEF BaseInv, RawInv, RingInv, PlaceInv, Available
<1>4. ring.tail + ReadSize <= MaxPrinted /\ ReadSize \in Nat
  BY <1>2, <1>3, RawBounds
<1> QED
  BY <1>1, <1>2, <1>3, <1>4 DEF Readable

\* A chunk is a text again, and fits behind what was shown.
LEMMA ChunkIsText ==
    ASSUME RawRoom, Scalars, Buffers, ChunkInv, place = "write", offset < Len(content)
    PROVE  LET x == SubSeq(content, offset + 1, Lesser(offset + ChunkSize, Len(content)))
           IN  x \in Texts /\ x \in Seq(Int) /\ Len(part) + Len(x) <= PartCap
<1> DEFINE n == Lesser(offset + ChunkSize, Len(content)) - offset
           x == SubSeq(content, offset + 1, Lesser(offset + ChunkSize, Len(content)))
<1>1. content \in Seq(Int) /\ offset \in Nat
  BY DEF Scalars, Buffers
<1>2. /\ n \in 1..ChunkSize /\ offset + n <= Len(content)
      /\ x \in Seq(Int) /\ Len(x) = n
      /\ \A i \in 1..n : x[i] = content[offset + i]
  BY <1>1, ChunkFacts
<1> HIDE DEF n, x
<1>3. Len(content) \in 0 .. ContentMax - 1 /\ Len(part) <= offset /\ Len(part) \in Nat
  BY ReadableFacts, LenProperties DEF ChunkInv, Buffers
<1>4. n \in Nat /\ n >= 1
  BY <1>2, RawBounds
<1>5. Len(part) + Len(x) <= PartCap
  BY <1>1, <1>2, <1>3, <1>4, CapsAssumption, RawBounds DEF RawRoom
<1>6. x \in Texts
  <2>1. CASE content = Diagnosis
    <3>1. Len(content) = 1 /\ content[1] = -2
      BY <2>1 DEF Diagnosis
    <3>2. offset = 0 /\ n = 1
      BY <1>1, <1>2, <1>4, <3>1
    <3>3. x[1] = content[1]
      BY <1>2, <3>2
    <3>4. x = <<x[1]>>
      BY <1>2, <3>2
    <3>5. x = Diagnosis
      BY <3>1, <3>3, <3>4 DEF Diagnosis
    <3> QED
      BY <3>5 DEF Texts
  <2>2. CASE content # Diagnosis
    <3>1. PICK i, k \in Nat : content = Text(i, k) /\ i + k <= MaxPrinted /\ k <= ContentMax - 1
      BY <2>2 DEF ChunkInv, Readable
    <3>2. Len(content) = k /\ \A u \in 1..k : content[u] = i + u
      BY <3>1, TextFacts
    <3>3. offset + n <= k /\ i + offset \in 0..MaxAnswer /\ n \in 0..MaxAnswer
      BY <1>1, <1>2, <1>4, <3>1, <3>2, CapsAssumption, RawBounds DEF RawRoom
    <3>4. ASSUME NEW u \in 1..n PROVE x[u] = (i + offset) + u
      <4>1. x[u] = content[offset + u] /\ offset + u \in 1..k
        BY <1>1, <1>2, <1>4, <3>1, <3>3
      <4> QED
        BY <1>1, <3>1, <3>2, <4>1
    <3>5. /\ Text(i + offset, n) \in Seq(Int) /\ Len(Text(i + offset, n)) = n
          /\ \A u \in 1..n : Text(i + offset, n)[u] = (i + offset) + u
      <4>1. i + offset \in Nat
        BY <1>1
      <4> QED
        BY <1>4, <4>1, TextFacts
    <3>6. x = Text(i + offset, n)
      BY <1>2, <3>4, <3>5, SeqEqual
    <3> QED
      BY <3>3, <3>6 DEF Texts
  <2> QED
    BY <2>1, <2>2
<1> QED
  BY <1>2, <1>5, <1>6 DEF x

LEMMA ChunkStep ==
    ASSUME RawRoom, BaseInv, BaseInv', ChunkInv, [DNext]_<<vars, rawVars>>
    PROVE  ChunkInv'
<1>1. CASE place' # "write"
  BY <1>1 DEF ChunkInv
<1>2. CASE PushLine \/ StartRaw \/ Delete
  BY <1>2 DEF PushLine, StartRaw, Delete, streamVars, readVars, ChunkInv, Readable
<1>3. CASE OpenStream
  <2>1. ReadText /\ part' = <<>> /\ offset' = 0
    BY <1>3, Zenon DEF OpenStream
  <2>2. Len(<<>>) <= 0
    BY SmallTexts
  <2>3. Readable(content')
    BY <2>1, ReadIsReadable
  <2> QED
    BY <2>1, <2>2, <2>3 DEF ChunkInv, Readable
<1>4. CASE RawBlock \/ CancelRaw \/ CompleteRaw
  <2>1. place' = "idle"
    BY <1>4, Zenon DEF RawBlock, CancelRaw, CompleteRaw
  <2> QED
    BY <2>1 DEF ChunkInv
<1>5. CASE Chunk
  <2> DEFINE n == Lesser(offset + ChunkSize, Len(content)) - offset
             x == SubSeq(content, offset + 1, Lesser(offset + ChunkSize, Len(content)))
  <2>1. Writes /\ offset < Len(content) /\ EmitDelta(x) /\ offset' = offset + ChunkSize
    BY <1>5 DEF Chunk
  <2>2. place = "write" /\ content' = content
    BY <2>1 DEF Writes, readVars
  <2>3. x \in Seq(Int) /\ Len(part) + Len(x) <= PartCap
    BY <2>1, <2>2, ChunkIsText DEF BaseInv
  <2>4. content \in Seq(Int) /\ offset \in Nat /\ part \in Seq(Int)
    BY DEF BaseInv, Scalars, Buffers
  <2>5. n \in 1..ChunkSize /\ Len(x) = n
    BY <2>1, <2>4, ChunkFacts
  <2> HIDE DEF n, x
  <2>6. Readable(content) /\ Len(part) <= offset
    BY <2>2 DEF ChunkInv
  <2>7. part' = part \/ part' = Accumulate(x)
    BY <2>1, DeltaEffect
  <2>8. Len(part') <= offset'
    <3>1. Len(part) \in Nat /\ Len(part \o x) = Len(part) + Len(x) /\ Accumulate(x) = part \o x
      BY <2>3, <2>4, Accumulates, LenProperties
    <3> QED
      BY <2>1, <2>4, <2>5, <2>6, <2>7, <3>1, RawBounds
  <2> QED
    BY <2>2, <2>6, <2>8 DEF ChunkInv, Readable
<1>6. CASE framed /\ UNCHANGED rawVars
  <2>1. place' = place
    BY <1>6 DEF rawVars
  <2> QED
    BY <1>6, <2>1 DEF BaseInv, PlaceInv, ChunkInv
<1>7. CASE UNCHANGED rawVars /\ (ClientLeaves \/ UNCHANGED vars)
  BY <1>7 DEF rawVars, readVars, ClientLeaves, vars, streamVars, ChunkInv, Readable
<1> QED
  BY <1>1, <1>2, <1>3, <1>4, <1>5, <1>6, <1>7 DEF DNext, Raw

LEMMA RawStreamStep ==
    ASSUME RawRoom, BaseInv, ChunkInv, Raw
    PROVE  [Order!ONext]_(Order!ovars)
<1>0. ~framed => busy = (place = "write") /\ (busy => mode = "stream")
  BY DEF BaseInv, PlaceInv
<1>1. CASE PushLine \/ StartRaw \/ Delete
  BY <1>1 DEF PushLine, StartRaw, Delete, streamVars, Order!ovars
<1>2. CASE RawBlock
  <2>1. ~framed /\ place = "wait" /\ busy' = busy /\ UNCHANGED streamVars
    BY <1>2, Zenon DEF RawBlock, ReadText
  <2>2. ~busy /\ ~busy'
    BY <1>0, <2>1
  <2> QED
    BY <2>1, <2>2 DEF streamVars, Order!ovars
<1>3. CASE OpenStream
  <2>1. /\ ~framed /\ place = "wait" /\ busy' = TRUE /\ mode' = "stream"
        /\ wire' = Order!Numbered(Order!Opening, 0, <<>>) /\ seq' = Len(Order!Opening)
        /\ part' = <<>> /\ gone' = FALSE
    BY <1>3, Zenon DEF OpenStream, ReadText
  <2>2. ~busy
    BY <1>0, <2>1
  <2>3. Order!Open
    BY <2>1, <2>2, Zenon DEF Order!Open
  <2> QED
    BY <2>3 DEF Order!ONext
<1>4. CASE Chunk
  <2> DEFINE x == SubSeq(content, offset + 1, Lesser(offset + ChunkSize, Len(content)))
  <2>1. Writes /\ offset < Len(content) /\ EmitDelta(x) /\ busy' = busy
    BY <1>4 DEF Chunk
  <2>2. place = "write" /\ busy /\ mode' = mode
    BY <1>0, <2>1 DEF Writes
  <2>3. x \in Texts /\ x \in Seq(Int) /\ Len(part) + Len(x) <= PartCap
    BY <2>1, <2>2, ChunkIsText DEF BaseInv
  <2> HIDE DEF x
  <2>4. part \in Seq(Int)
    BY DEF BaseInv, Buffers
  <2> QED
    BY <2>1, <2>2, <2>3, <2>4, DeltaShows
<1>5. CASE CancelRaw
  <2>1. /\ Writes /\ Order!Put(<<Order!Event("response.error", seq, <<>>, "")>>)
        /\ seq' = seq + 1 /\ busy' = FALSE /\ UNCHANGED <<part, gone>>
    BY <1>5, Zenon DEF CancelRaw
  <2>2. busy /\ mode = "stream"
    BY <1>0, <2>1 DEF Writes
  <2>3. \E e \in Order!Failures : Order!Put(<<Order!Event(e, seq, <<>>, "")>>)
    BY <2>1, Zenon DEF Order!Failures
  <2>4. Order!Fail
    BY <2>1, <2>2, <2>3, Zenon DEF Order!Fail
  <2> QED
    BY <2>4 DEF Order!ONext
<1>6. CASE CompleteRaw
  <2>1. /\ Writes
        /\ Order!Put(Order!Completion(seq, part, IF cut THEN "max_output_buffer" ELSE ""))
        /\ seq' = seq + Len(Order!Closing) + 1 /\ busy' = FALSE /\ UNCHANGED <<part, gone>>
    BY <1>6, Zenon DEF CompleteRaw
  <2>2. busy /\ mode = "stream"
    BY <1>0, <2>1 DEF Writes
  <2>3. \E m \in Order!Marks : Order!Put(Order!Completion(seq, part, m))
    BY <2>1, RawMark, Zenon
  <2>4. Order!Complete
    BY <2>1, <2>2, <2>3, Zenon DEF Order!Complete
  <2> QED
    BY <2>4 DEF Order!ONext
<1> QED
  BY <1>1, <1>2, <1>3, <1>4, <1>5, <1>6 DEF Raw

\* Whichever writer answers, handle_response_native for frames or handle_response_stream
\* over raw stdio, what its clients read is StreamOrder: numbered events, each stream ended
\* once, and the closing events with the text of the deltas, if the content part has room.
THEOREM BothStreamsInOrder == ASSUME PartRoom, RawRoom PROVE DSpec => StreamSpec
<1>1. DSpec => []DeliveryInv
  BY DeliveryAlways
<1>2. DInit => ChunkInv /\ Order!OInit
  BY StreamInit, PlaceInit DEF DInit, ChunkInv
<1>3. DeliveryInv /\ DeliveryInv' /\ ChunkInv /\ [DNext]_<<vars, rawVars>> => ChunkInv'
  BY ChunkStep DEF DeliveryInv
<1>4. DeliveryInv /\ ChunkInv /\ [DNext]_<<vars, rawVars>> => [Order!ONext]_(Order!ovars)
  <2> SUFFICES ASSUME DeliveryInv, ChunkInv, [DNext]_<<vars, rawVars>>
               PROVE  [Order!ONext]_(Order!ovars)
    OBVIOUS
  <2>1. CASE Next \/ ClientLeaves \/ UNCHANGED vars
    BY <2>1, StreamStep DEF DeliveryInv, Next
  <2>2. CASE Raw
    BY <2>2, RawStreamStep DEF DeliveryInv
  <2> QED
    BY <2>1, <2>2 DEF DNext
<1> QED
  BY <1>1, <1>2, <1>3, <1>4, PTL DEF DSpec, StreamSpec, Order!OSpec


=============================================================================
