--------------------------- MODULE FrameIO_proofs ---------------------------
(***************************************************************************)
(* FrameIO, proved for every value of the constants: until writers overlap *)
(* or a read gives up in a frame, frames arrive whole and in order, and    *)
(* every read ends within the square of its deadline.                      *)
(***************************************************************************)
EXTENDS FrameIO, SequenceTheorems, TLAPS

-----------------------------------------------------------------------------
(* The invariant.                                                          *)

\* Types, and what read_all_deadline's variables are in each part of a read.
WriteTypes ==
    /\ pipe \in Seq(Units) /\ Len(pipe) <= PipeCap
    /\ writing \in [Writers -> Seq(Units)] /\ \A w \in Writers : Len(writing[w]) <= MaxPayload
    /\ written \in [Writers -> 0..MaxFrames]

ReadTypes ==
    /\ reading \in BOOLEAN /\ part \in {"header", "payload"} /\ have \in Seq(Units)
    /\ ~reading => /\ part = "header" /\ have = <<>> /\ size = 0 /\ deadline = 0
                   /\ remaining = 0 /\ waited = 0 /\ elapsed = 0 /\ allowed = 0
    /\ reading => allowed \in Deadlines
    /\ reading /\ part = "header" => deadline = allowed /\ size = 0 /\ Len(have) < HeaderUnits
    /\ part = "payload" =>
         deadline = allowed - 1 /\ size \in 1..MaxPayload /\ Len(have) < size
    /\ remaining \in 0..deadline /\ waited \in 0..remaining /\ elapsed \in Nat

DueTypes ==
    /\ due \in Seq(Frames) /\ torn \in BOOLEAN /\ wrong \in BOOLEAN
    /\ torn => due = <<>>

PartInv == WriteTypes /\ ReadTypes /\ DueTypes

\* The most twice the time of a read can come to by the end of its part: a poll waits
\* for what remains, and what was read after it is charged a tick.
Budget == IF part = "header" THEN allowed * (allowed + 1)
          ELSE allowed * (allowed + 1) + (allowed - 1) * allowed

TimeInv == reading => 2 * elapsed <= Budget - remaining * (remaining + 1) + 2 * waited

Front(p) == IF p = "header" THEN 1 ELSE 1 - HeaderUnits

\* The units of the frames d, each behind the one before: start[k] is the place of the
\* first unit of the k-th, and in the payload part the first header is read already.
Laid(s, start, d, p) ==
    /\ start \in [1 .. Len(d) + 1 -> Int]
    /\ start[1] = Front(p)
    /\ start[Len(d) + 1] = Len(s) + 1
    /\ \A k \in 1..Len(d) :
         /\ d[k].len \in 1..MaxPayload
         /\ start[k + 1] = start[k] + HeaderUnits + d[k].len
         /\ \A j \in k .. Len(d) : start[k + 1] <= start[j + 1]
         /\ \A i \in 1..HeaderUnits : start[k] + i >= 2 =>
              s[start[k] + i - 1] = [frame |-> d[k], part |-> "header", at |-> i]
         /\ \A i \in 1..d[k].len :
              s[start[k] + HeaderUnits + i - 1] = [frame |-> d[k], part |-> "payload", at |-> i]

\* what the one writer that is in a frame has yet to write
Rest(todo) ==
    \/ todo = <<>> /\ \A w \in Writers : writing[w] = <<>>
    \/ \E w \in Writers : todo = writing[w] /\ \A v \in Writers \ {w} : writing[v] = <<>>

\* Before a tear, what was read of a frame, what is in the pipe and what is yet to be
\* written are together the frames due.
LaidInv ==
    /\ ~wrong
    /\ ~torn =>
      /\ part = "payload" => due # <<>> /\ size = due[1].len
      /\ \E todo : Rest(todo) /\ \E start : Laid((have \o pipe) \o todo, start, due, part)

FrameInv == PartInv /\ TimeInv /\ LaidInv

-----------------------------------------------------------------------------
(* Units.                                                                  *)

LEMMA PartsFacts ==
    ASSUME NEW f \in Frames, NEW p \in {"header", "payload"}, NEW n \in Nat
    PROVE  /\ Parts(f, p, n) \in Seq(Units) /\ Len(Parts(f, p, n)) = n
           /\ \A i \in 1..n : Parts(f, p, n)[i] = [frame |-> f, part |-> p, at |-> i]
<1> DEFINE u(i) == [frame |-> f, part |-> p, at |-> i]
<1>1. \A i \in 1..n : u(i) \in Units
  BY DEF Units
<1>2. Parts(f, p, n) = [i \in 1..n |-> u(i)]
  BY DEF Parts
<1> HIDE DEF u
<1>3. [i \in 1..n |-> u(i)] \in Seq(Units) /\ Len([i \in 1..n |-> u(i)]) = n
  BY <1>1
<1>4. \A i \in 1..n : Parts(f, p, n)[i] = u(i)
  BY <1>2
<1> QED
  BY <1>2, <1>3, <1>4 DEF u

LEMMA HeaderFacts ==
    ASSUME NEW f \in Frames
    PROVE  /\ Header(f) \in Seq(Units) /\ Len(Header(f)) = HeaderUnits
           /\ \A i \in 1..HeaderUnits : Header(f)[i] = [frame |-> f, part |-> "header", at |-> i]
<1>1. HeaderUnits \in Nat
  BY FrameBounds
<1> QED
  BY <1>1, PartsFacts DEF Header

LEMMA PayloadFacts ==
    ASSUME NEW f \in Frames
    PROVE  /\ f.len \in Nat /\ f.len >= 1
           /\ Payload(f) \in Seq(Units) /\ Len(Payload(f)) = f.len
           /\ \A i \in 1..f.len : Payload(f)[i] = [frame |-> f, part |-> "payload", at |-> i]
<1>1. f.len \in Nat /\ f.len >= 1
  <2>1. f.len \in Lengths
    BY DEF Frames
  <2>2. f.len \in Nat \ {0}
    BY <2>1, FrameBounds
  <2> QED
    BY <2>2
<1> QED
  BY <1>1, PartsFacts DEF Payload

\* A cut of a sequence.
LEMMA CutFacts ==
    ASSUME NEW S, NEW s \in Seq(S), NEW n \in 0..Len(s)
    PROVE  /\ SubSeq(s, 1, n) \in Seq(S) /\ Len(SubSeq(s, 1, n)) = n
           /\ SubSeq(s, n + 1, Len(s)) \in Seq(S) /\ Len(SubSeq(s, n + 1, Len(s))) = Len(s) - n
           /\ \A i \in 1..n : SubSeq(s, 1, n)[i] = s[i]
           /\ \A i \in 1 .. Len(s) - n : SubSeq(s, n + 1, Len(s))[i] = s[n + i]
           /\ SubSeq(s, 1, n) \o SubSeq(s, n + 1, Len(s)) = s
<1>1. Len(s) \in Nat /\ \A i \in 1..Len(s) : s[i] \in S
  BY LenProperties, ElementOfSeq
<1>2. /\ SubSeq(s, 1, n) \in Seq(S) /\ Len(SubSeq(s, 1, n)) = n
      /\ \A i \in 1..n : SubSeq(s, 1, n)[i] = s[i]
  BY <1>1
<1>3. /\ SubSeq(s, n + 1, Len(s)) \in Seq(S) /\ Len(SubSeq(s, n + 1, Len(s))) = Len(s) - n
      /\ \A i \in 1 .. Len(s) - n : SubSeq(s, n + 1, Len(s))[i] = s[n + i]
  BY <1>1
<1>4. SubSeq(s, 1, n) \o SubSeq(s, n + 1, Len(s)) = s
  <2>1. SubSeq(s, 1, Len(s)) = s
    BY SubSeqFull
  <2>2. 1 \in 1 .. Len(s) + 1 /\ n \in 1 - 1 .. Len(s) /\ Len(s) \in n .. Len(s)
    BY <1>1
  <2>3. SubSeq(s, 1, n) \o SubSeq(s, n + 1, Len(s)) = SubSeq(s, 1, Len(s))
    BY <2>2, ConcatAdjacentSubSeq
  <2> QED
    BY <2>1, <2>3
<1> QED
  BY <1>2, <1>3, <1>4

-----------------------------------------------------------------------------
(* Frames in a row.                                                        *)

LEMMA Between ==
    ASSUME NEW a \in Int, NEW n \in Nat, NEW len \in Nat, NEW i \in 1..len,
           a + i >= 2, a + len <= n + 1
    PROVE  a + i - 1 \in 1..n
OBVIOUS

LEMMA LaidBounds ==
    ASSUME NEW s \in Seq(Units), NEW d \in Seq(Frames), NEW start,
           NEW p, Laid(s, start, d, p), NEW k \in 1..Len(d)
    PROVE  /\ start[k] \in Int /\ start[k + 1] \in Int /\ d[k].len \in 1..MaxPayload
           /\ start[1] \in Int /\ start[k] >= start[1] /\ start[1] >= 1 - HeaderUnits
           /\ start[k + 1] = start[k] + HeaderUnits + d[k].len
           /\ start[k + 1] <= Len(s) + 1
<1>1. Len(d) \in Nat /\ HeaderUnits \in Nat /\ HeaderUnits > 0
  BY LenProperties, FrameBounds
<1>2. start[k] \in Int /\ start[k + 1] \in Int /\ start[1] \in Int
  <2>1. k \in 1 .. Len(d) + 1 /\ k + 1 \in 1 .. Len(d) + 1 /\ 1 \in 1 .. Len(d) + 1
    BY <1>1
  <2>2. start \in [1 .. Len(d) + 1 -> Int]
    BY DEF Laid
  <2> QED
    BY <2>1, <2>2
<1>3. d[k].len \in 1..MaxPayload /\ start[k + 1] = start[k] + HeaderUnits + d[k].len
  BY DEF Laid
<1>4. start[k + 1] <= Len(s) + 1
  <2>1. start[k + 1] <= start[Len(d) + 1]
    BY <1>1 DEF Laid
  <2> QED
    BY <2>1 DEF Laid
<1>5. start[1] >= 1 - HeaderUnits
  BY <1>1 DEF Laid, Front
<1>6. start[k] >= start[1]
  <2>1. CASE k = 1
    BY <1>2, <2>1
  <2>2. CASE k # 1
    <3>1. 1 \in 1..Len(d) /\ k - 1 \in 1..Len(d) /\ 1 + 1 = 2 /\ (k - 1) + 1 = k
      BY <1>1, <2>2
    <3>2. start[2] <= start[k]
      BY <3>1 DEF Laid
    <3>3. start[2] = start[1] + HeaderUnits + d[1].len /\ d[1].len \in 1..MaxPayload
      BY <3>1 DEF Laid
    <3>4. start[2] \in Int
      <4>1. start \in [1 .. Len(d) + 1 -> Int] /\ 2 \in 1 .. Len(d) + 1
        BY <1>1, <3>1 DEF Laid
      <4> QED
        BY <4>1
    <3>5. HeaderUnits \in Nat /\ d[1].len \in Nat /\ start[1] \in Int /\ start[k] \in Int
      BY <1>1, <1>2, <3>3
    <3>6. start[1] <= start[2]
      <4>1. start[2] = start[1] + HeaderUnits + d[1].len
        BY <3>3
      <4> QED
        BY <3>5, <4>1
    <3> QED
      BY <3>2, <3>4, <3>5, <3>6
  <2> QED
    BY <2>1, <2>2
<1> QED
  BY <1>2, <1>3, <1>4, <1>5, <1>6

\* A frame written behind the others.
LEMMA LaidAppend ==
    ASSUME NEW s \in Seq(Units), NEW d \in Seq(Frames), NEW start,
           NEW p, Laid(s, start, d, p),
           NEW f \in Frames, f.len \in 1..MaxPayload
    PROVE  \E st : Laid((s \o Header(f)) \o Payload(f), st, Append(d, f), p)
<1> DEFINE m == Len(d)
           h == Header(f)
           y == Payload(f)
           t == (s \o h) \o y
           e == Append(d, f)
           st == [k \in 1 .. m + 2 |-> IF k <= m + 1 THEN start[k]
                                       ELSE start[m + 1] + HeaderUnits + f.len]
<1>1. m \in Nat /\ HeaderUnits \in Nat /\ HeaderUnits > 0 /\ Len(s) \in Nat /\ f.len \in Nat
  BY LenProperties, FrameBounds, PayloadFacts
<1>2. /\ h \in Seq(Units) /\ Len(h) = HeaderUnits
      /\ \A i \in 1..HeaderUnits : h[i] = [frame |-> f, part |-> "header", at |-> i]
      /\ y \in Seq(Units) /\ Len(y) = f.len
      /\ \A i \in 1..f.len : y[i] = [frame |-> f, part |-> "payload", at |-> i]
  BY HeaderFacts, PayloadFacts
<1> HIDE DEF h, y
<1>3. /\ s \o h \in Seq(Units) /\ Len(s \o h) = Len(s) + HeaderUnits
      /\ \A i \in 1 .. Len(s) + HeaderUnits :
           (s \o h)[i] = IF i <= Len(s) THEN s[i] ELSE h[i - Len(s)]
  BY <1>2, ConcatProperties
<1>4. /\ t \in Seq(Units) /\ Len(t) = Len(s) + HeaderUnits + f.len
      /\ \A i \in 1 .. Len(s) + HeaderUnits + f.len :
           t[i] = IF i <= Len(s) + HeaderUnits THEN (s \o h)[i]
                  ELSE y[i - (Len(s) + HeaderUnits)]
  <2>1. /\ t \in Seq(Units) /\ Len(t) = Len(s \o h) + Len(y)
        /\ \A i \in 1 .. Len(s \o h) + Len(y) :
             t[i] = IF i <= Len(s \o h) THEN (s \o h)[i] ELSE y[i - Len(s \o h)]
    <3> DEFINE a == s \o h
    <3>1. a \in Seq(Units)
      BY <1>3
    <3> HIDE DEF a
    <3>2. /\ a \o y \in Seq(Units) /\ Len(a \o y) = Len(a) + Len(y)
          /\ \A i \in 1 .. Len(a) + Len(y) :
               (a \o y)[i] = IF i <= Len(a) THEN a[i] ELSE y[i - Len(a)]
      BY <1>2, <3>1, ConcatProperties
    <3> QED
      BY <3>2 DEF a
  <2> HIDE DEF t
  <2> QED
    BY <1>2, <1>3, <2>1
<1> HIDE DEF t
<1>5. ASSUME NEW i \in 1..Len(s) PROVE t[i] = s[i]
  <2>1. t[i] = (s \o h)[i]
    BY <1>1, <1>4
  <2>2. (s \o h)[i] = s[i]
    BY <1>1, <1>3
  <2> QED
    BY <2>1, <2>2
<1>6. ASSUME NEW i \in 1..HeaderUnits PROVE t[Len(s) + i] = h[i]
  <2> DEFINE j == Len(s) + i
  <2>1. /\ j \in 1 .. Len(s) + HeaderUnits + f.len /\ j \in 1 .. Len(s) + HeaderUnits
        /\ j <= Len(s) + HeaderUnits /\ ~(j <= Len(s)) /\ j - Len(s) = i
    BY <1>1
  <2> HIDE DEF j
  <2>2. t[j] = (s \o h)[j]
    BY <1>4, <2>1
  <2>3. (s \o h)[j] = h[i]
    BY <1>3, <2>1
  <2> QED
    BY <2>2, <2>3 DEF j
<1>7. ASSUME NEW i \in 1..f.len PROVE t[Len(s) + HeaderUnits + i] = y[i]
  <2> DEFINE j == Len(s) + HeaderUnits + i
  <2>1. /\ j \in 1 .. Len(s) + HeaderUnits + f.len
        /\ ~(j <= Len(s) + HeaderUnits) /\ j - (Len(s) + HeaderUnits) = i
    BY <1>1
  <2> HIDE DEF j
  <2>2. t[j] = y[i]
    BY <1>4, <2>1
  <2> QED
    BY <2>2 DEF j
<1>8. /\ e \in Seq(Frames) /\ Len(e) = m + 1 /\ e[m + 1] = f
      /\ \A k \in 1..m : e[k] = d[k]
  BY <1>1, AppendProperties
<1> HIDE DEF e
<1>9. /\ start \in [1 .. m + 1 -> Int] /\ start[m + 1] = Len(s) + 1
      /\ start[1] = Front(p)
  BY DEF Laid
<1>10. /\ st \in [1 .. m + 2 -> Int] /\ st[m + 2] = Len(s) + 1 + HeaderUnits + f.len
       /\ \A k \in 1 .. m + 1 : st[k] = start[k]
  BY <1>1, <1>9
<1> HIDE DEF st
<1>11. ASSUME NEW k \in 1 .. m + 1
       PROVE  /\ e[k].len \in 1..MaxPayload
              /\ st[k + 1] = st[k] + HeaderUnits + e[k].len
              /\ \A j \in k .. m + 1 : st[k + 1] <= st[j + 1]
              /\ \A i \in 1..HeaderUnits : st[k] + i >= 2 =>
                   t[st[k] + i - 1] = [frame |-> e[k], part |-> "header", at |-> i]
              /\ \A i \in 1..e[k].len :
                   t[st[k] + HeaderUnits + i - 1] = [frame |-> e[k], part |-> "payload", at |-> i]
  <2>1. CASE k = m + 1
    <3>0. k \in 1 .. m + 1 /\ k + 1 = m + 2
      BY <1>1, <2>1
    <3>1. e[k] = f /\ st[k] = Len(s) + 1 /\ st[k + 1] = Len(s) + 1 + HeaderUnits + f.len
      BY <1>8, <1>9, <1>10, <2>1, <3>0
    <3>2. \A i \in 1..HeaderUnits : st[k] + i - 1 = Len(s) + i
      BY <1>1, <3>1
    <3>3. \A i \in 1..f.len : st[k] + HeaderUnits + i - 1 = Len(s) + HeaderUnits + i
      BY <1>1, <3>1
    <3>4. ASSUME NEW i \in 1..HeaderUnits
          PROVE  t[st[k] + i - 1] = [frame |-> f, part |-> "header", at |-> i]
      <4>1. st[k] + i - 1 = Len(s) + i
        BY <3>2
      <4>2. t[Len(s) + i] = h[i] /\ h[i] = [frame |-> f, part |-> "header", at |-> i]
        BY <1>2, <1>6
      <4> QED
        BY <4>1, <4>2
    <3>5. ASSUME NEW i \in 1..f.len
          PROVE  t[st[k] + HeaderUnits + i - 1] = [frame |-> f, part |-> "payload", at |-> i]
      <4>1. st[k] + HeaderUnits + i - 1 = Len(s) + HeaderUnits + i
        BY <3>3
      <4>2. t[Len(s) + HeaderUnits + i] = y[i] /\ y[i] = [frame |-> f, part |-> "payload", at |-> i]
        BY <1>2, <1>7
      <4> QED
        BY <4>1, <4>2
    <3>6. \A j \in k .. m + 1 : st[k + 1] <= st[j + 1]
      BY <1>1, <2>1, <3>1
    <3>7. st[k + 1] = st[k] + HeaderUnits + f.len
      BY <1>1, <3>1
    <3> QED
      BY <3>1, <3>4, <3>5, <3>6, <3>7
  <2>2. CASE k # m + 1
    <3>1. k \in 1..m /\ k \in 1 .. m + 1 /\ k + 1 \in 1 .. m + 1
      BY <1>1, <2>2
    <3>2. e[k] = d[k] /\ st[k] = start[k] /\ st[k + 1] = start[k + 1]
      BY <1>8, <1>10, <3>1
    <3>3. /\ start[k] \in Int /\ start[k + 1] \in Int /\ d[k].len \in 1..MaxPayload
          /\ start[1] \in Int /\ start[k] >= start[1] /\ start[1] >= 1 - HeaderUnits
          /\ start[k + 1] = start[k] + HeaderUnits + d[k].len
          /\ start[k + 1] <= Len(s) + 1
      BY <3>1, LaidBounds
    <3>4. \A j \in k .. m + 1 : st[k + 1] <= st[j + 1]
      <4> SUFFICES ASSUME NEW j \in k .. m + 1 PROVE st[k + 1] <= st[j + 1]
        OBVIOUS
      <4>1. CASE j = m + 1
        <5>1. st[j + 1] = Len(s) + 1 + HeaderUnits + f.len
          BY <1>1, <1>10, <4>1
        <5>2. start[k + 1] \in Int /\ start[k + 1] <= Len(s) + 1 /\ st[k + 1] = start[k + 1]
          BY <3>2, <3>3
        <5> QED
          BY <1>1, <5>1, <5>2
      <4>2. CASE j # m + 1
        <5>1. j \in k..m /\ j + 1 \in 1 .. m + 1
          BY <1>1, <3>1, <4>2
        <5>2. start[k + 1] <= start[j + 1]
          BY <3>1, <5>1 DEF Laid
        <5> QED
          BY <1>10, <3>2, <5>1, <5>2
      <4> QED
        BY <4>1, <4>2
    <3>5. ASSUME NEW i \in 1..HeaderUnits, st[k] + i >= 2
          PROVE  t[st[k] + i - 1] = [frame |-> e[k], part |-> "header", at |-> i]
      <4> DEFINE q == start[k] + i - 1
      <4>1. q \in 1..Len(s)
        <5>1. start[k] + i >= 2
          BY <3>2, <3>5
        <5>2. start[k] + HeaderUnits <= Len(s) + 1
          <6>1. /\ start[k] \in Int /\ d[k].len \in Nat
                /\ start[k] + HeaderUnits + d[k].len <= Len(s) + 1
            BY <3>3
          <6> QED
            BY <1>1, <6>1
        <5>3. start[k] \in Int /\ i \in 1..HeaderUnits
          BY <3>3
        <5> HIDE DEF q
        <5>4. start[k] + i - 1 \in 1..Len(s)
          BY <1>1, <5>1, <5>2, <5>3, Between
        <5> QED
          BY <5>4 DEF q
      <4>2. s[q] = [frame |-> d[k], part |-> "header", at |-> i]
        BY <3>1, <3>2, <3>5 DEF Laid
      <4> HIDE DEF q
      <4>3. t[q] = s[q]
        BY <1>5, <4>1
      <4> QED
        BY <3>2, <4>2, <4>3 DEF q
    <3>6. ASSUME NEW i \in 1..e[k].len
          PROVE  t[st[k] + HeaderUnits + i - 1] = [frame |-> e[k], part |-> "payload", at |-> i]
      <4> DEFINE q == start[k] + HeaderUnits + i - 1
      <4>0. i \in 1..d[k].len
        BY <3>2
      <4>1. q \in 1..Len(s)
        <5>1. start[k] + HeaderUnits >= 1
          <6>1. start[k] \in Int /\ start[1] \in Int /\ start[k] >= start[1] /\ start[1] >= 1 - HeaderUnits
            BY <3>3
          <6> QED
            BY <1>1, <6>1
        <5>2. start[k] + HeaderUnits + d[k].len <= Len(s) + 1 /\ d[k].len \in Nat
          BY <1>1, <3>3
        <5>3. start[k] + HeaderUnits \in Int
          BY <1>1, <3>3
        <5>4. (start[k] + HeaderUnits) + i >= 2
          BY <4>0, <5>1, <5>2, <5>3
        <5> HIDE DEF q
        <5>5. (start[k] + HeaderUnits) + i - 1 \in 1..Len(s)
          BY <1>1, <4>0, <5>2, <5>3, <5>4, Between
        <5> QED
          BY <5>5 DEF q
      <4>2. s[q] = [frame |-> d[k], part |-> "payload", at |-> i]
        BY <3>1, <4>0 DEF Laid
      <4> HIDE DEF q
      <4>3. t[q] = s[q]
        BY <1>5, <4>1
      <4> QED
        BY <3>2, <4>2, <4>3 DEF q
    <3> QED
      BY <3>2, <3>3, <3>4, <3>5, <3>6
  <2> QED
    BY <2>1, <2>2
<1>12. st[1] = Front(p)
  BY <1>1, <1>9, <1>10
<1>13. st[(m + 1) + 1] = Len(t) + 1 /\ (m + 1) + 1 = m + 2
  BY <1>1, <1>4, <1>10
<1>14. Laid(t, st, e, p)
  BY <1>8, <1>10, <1>11, <1>12, <1>13 DEF Laid
<1> QED
  BY <1>14 DEF t, h, y, e


LEMMA LaidOrder ==
    ASSUME NEW s \in Seq(Units), NEW d \in Seq(Frames), NEW start,
           NEW p, Laid(s, start, d, p),
           NEW j \in 1..Len(d), NEW k \in j..Len(d)
    PROVE  start[j] \in Int /\ start[k] \in Int /\ start[j] <= start[k]
<1>1. Len(d) \in Nat /\ HeaderUnits \in Nat
  BY LenProperties, FrameBounds
<1>2. k \in 1..Len(d)
  BY <1>1
<1>3. /\ start[j] \in Int /\ start[j + 1] \in Int /\ d[j].len \in 1..MaxPayload
      /\ start[j + 1] = start[j] + HeaderUnits + d[j].len
  BY LaidBounds
<1>4. start[k] \in Int
  BY <1>2, LaidBounds
<1>5. CASE j = k
  BY <1>3, <1>4, <1>5
<1>6. CASE j # k
  <2>1. k - 1 \in j..Len(d) /\ (k - 1) + 1 = k
    BY <1>1, <1>6
  <2>2. start[j + 1] <= start[k]
    BY <2>1 DEF Laid
  <2>3. start[j] <= start[j + 1]
    <3>1. d[j].len \in Nat /\ HeaderUnits \in Nat
      BY <1>1, <1>3
    <3> QED
      BY <1>3, <3>1
  <2> QED
    BY <1>3, <1>4, <2>2, <2>3
<1> QED
  BY <1>5, <1>6

Suffix(e, d, c) == Len(d) = Len(e) + c /\ \A k \in 1..Len(e) : e[k] = d[k + c]

\* What is left when the units h at the front are gone, and with them c frames.
LEMMA LaidDrop ==
    ASSUME NEW h \in Seq(Units), NEW r \in Seq(Units), NEW d \in Seq(Frames), NEW start,
           NEW p, Laid(h \o r, start, d, p),
           NEW e \in Seq(Frames), NEW c \in Nat, Suffix(e, d, c), NEW q,
           start[1 + c] - Len(h) = Front(q)
    PROVE  \E st : Laid(r, st, e, q)
<1> DEFINE n == Len(h)
           s == h \o r
           st == [k \in 1 .. Len(e) + 1 |-> start[k + c] - n]
<1>1. /\ Len(d) \in Nat /\ Len(e) \in Nat /\ HeaderUnits \in Nat /\ HeaderUnits > 0
      /\ n \in Nat /\ Len(r) \in Nat
  BY LenProperties, FrameBounds
<1>0. Len(d) = Len(e) + c /\ \A k \in 1..Len(e) : e[k] = d[k + c]
  BY DEF Suffix
<1>2. /\ s \in Seq(Units) /\ Len(s) = n + Len(r)
      /\ \A i \in 1 .. n + Len(r) : s[i] = IF i <= n THEN h[i] ELSE r[i - n]
  BY ConcatProperties
<1>3. Laid(s, start, d, p)
  OBVIOUS
<1>13. start[1 + c] - n = Front(q)
  OBVIOUS
<1> HIDE DEF s, n
<1>4. ASSUME NEW x \in 1..Len(r) PROVE r[x] = s[x + n]
  <2> DEFINE y == x + n
  <2>1. y \in 1 .. n + Len(r) /\ ~(y <= n) /\ y - n = x
    BY <1>1
  <2> HIDE DEF y
  <2>2. s[y] = r[x]
    BY <1>2, <2>1
  <2> QED
    BY <2>2 DEF y
<1>5. start \in [1 .. Len(d) + 1 -> Int] /\ start[Len(d) + 1] = Len(s) + 1
  BY <1>3 DEF Laid
<1>6. \A k \in 1 .. Len(e) + 1 : k + c \in 1 .. Len(d) + 1
  BY <1>0, <1>1
<1>7. \A k \in 1 .. Len(e) + 1 : start[k + c] - n \in Int
  <2>1. n \in Int
    BY <1>1
  <2>2. \A k \in 1 .. Len(e) + 1 : start[k + c] \in Int
    BY <1>5, <1>6
  <2> QED
    BY <2>1, <2>2
<1>8. st \in [1 .. Len(e) + 1 -> Int] /\ \A k \in 1 .. Len(e) + 1 : st[k] = start[k + c] - n
  BY <1>7
<1> HIDE DEF st
<1>9. st[1] = Front(q)
  <2>1. 1 \in 1 .. Len(e) + 1
    BY <1>1
  <2>2. st[1] = start[1 + c] - n
    BY <1>8, <2>1
  <2> QED
    BY <1>13, <2>2
<1>10. st[Len(e) + 1] = Len(r) + 1
  <2>1. Len(e) + 1 \in 1 .. Len(e) + 1 /\ (Len(e) + 1) + c = Len(d) + 1
    BY <1>0, <1>1
  <2>2. st[Len(e) + 1] = start[Len(d) + 1] - n
    BY <1>8, <2>1
  <2> QED
    BY <1>1, <1>2, <1>5, <2>2
<1>11. ASSUME NEW k \in 1..Len(e)
       PROVE  /\ e[k].len \in 1..MaxPayload
              /\ st[k + 1] = st[k] + HeaderUnits + e[k].len
              /\ \A j \in k .. Len(e) : st[k + 1] <= st[j + 1]
              /\ \A i \in 1..HeaderUnits : st[k] + i >= 2 =>
                   r[st[k] + i - 1] = [frame |-> e[k], part |-> "header", at |-> i]
              /\ \A i \in 1..e[k].len :
                   r[st[k] + HeaderUnits + i - 1] = [frame |-> e[k], part |-> "payload", at |-> i]
  <2> DEFINE l == k + c
  <2>1. l \in 1..Len(d) /\ l + 1 = (k + 1) + c /\ k \in 1 .. Len(e) + 1 /\ k + 1 \in 1 .. Len(e) + 1
    BY <1>0, <1>1
  <2>2. e[k] = d[l]
    BY <1>0
  <2>3. st[k] = start[l] - n
    BY <1>8, <2>1
  <2> HIDE DEF l
  <2>4. st[k + 1] = start[l + 1] - n
    BY <1>8, <2>1
  <2>5. /\ start[l] \in Int /\ start[l + 1] \in Int /\ d[l].len \in 1..MaxPayload
        /\ start[l + 1] = start[l] + HeaderUnits + d[l].len
        /\ start[l + 1] <= Len(s) + 1
    <3>1. s \in Seq(Units)
      BY <1>2
    <3> QED
      BY <1>3, <2>1, <3>1, LaidBounds, SMTT(30)
  <2>6. d[l].len \in Nat /\ Len(s) \in Nat /\ Len(s) = n + Len(r)
    BY <1>1, <1>2, <2>5
  <2>7. /\ st[k] \in Int /\ st[k] + HeaderUnits \in Int
        /\ st[k + 1] = st[k] + HeaderUnits + d[l].len
        /\ st[k] + HeaderUnits <= Len(r) + 1
        /\ st[k] + HeaderUnits + d[l].len <= Len(r) + 1
        /\ \A i \in Nat : /\ (st[k] + i - 1) + n = start[l] + i - 1
                         /\ ((st[k] + HeaderUnits) + i - 1) + n = start[l] + HeaderUnits + i - 1
    <3>1. n \in Nat /\ Len(r) \in Nat /\ HeaderUnits \in Nat
      BY <1>1
    <3> DEFINE a == start[l]
               b == start[l + 1]
               u == st[k]
               v == st[k + 1]
               f == d[l].len
               x == Len(s)
               y == Len(r)
    <3>2. /\ a \in Int /\ b \in Int /\ f \in Nat /\ x \in Nat /\ y \in Nat
          /\ b = a + HeaderUnits + f /\ b <= x + 1 /\ x = n + y
      BY <2>5, <2>6, <3>1
    <3>3. u = a - n /\ v = b - n
      BY <2>3, <2>4
    <3> HIDE DEF a, b, u, v, f, x, y
    <3>4. /\ a - n \in Int /\ (a - n) + HeaderUnits \in Int
          /\ b - n = (a - n) + HeaderUnits + f
          /\ (a - n) + HeaderUnits <= y + 1
          /\ (a - n) + HeaderUnits + f <= y + 1
          /\ \A i \in Nat : /\ ((a - n) + i - 1) + n = a + i - 1
                           /\ (((a - n) + HeaderUnits) + i - 1) + n = a + HeaderUnits + i - 1
      BY <3>1, <3>2
    <3> QED
      BY <3>3, <3>4 DEF a, b, u, v, f, x, y
  <2>8. \A j \in k .. Len(e) : st[k + 1] <= st[j + 1]
    <3> SUFFICES ASSUME NEW j \in k .. Len(e) PROVE st[k + 1] <= st[j + 1]
      OBVIOUS
    <3> DEFINE m == j + c
    <3>1. m \in l .. Len(d) /\ m + 1 = (j + 1) + c /\ j + 1 \in 1 .. Len(e) + 1
      BY <1>0, <1>1 DEF l
    <3>2. m + 1 \in 1 .. Len(d) + 1
      BY <1>6, <3>1
    <3> HIDE DEF m
    <3>3. start[l + 1] <= start[m + 1] /\ start[m + 1] \in Int
      BY <1>3, <1>5, <2>1, <3>1, <3>2 DEF Laid
    <3>4. st[j + 1] = start[m + 1] - n
      BY <1>8, <3>1
    <3> QED
      BY <1>1, <2>4, <2>5, <3>3, <3>4
  <2>9. ASSUME NEW i \in 1..HeaderUnits, st[k] + i >= 2
        PROVE  r[st[k] + i - 1] = [frame |-> e[k], part |-> "header", at |-> i]
    <3> DEFINE x == st[k] + i - 1
    <3>1. st[k] \in Int /\ st[k] + HeaderUnits <= Len(r) + 1 /\ Len(r) \in Nat /\ HeaderUnits \in Nat
      BY <1>1, <2>7
    <3>2. x \in 1..Len(r)
      BY <2>9, <3>1, Between
    <3>3. x + n = start[l] + i - 1
      <4>1. i \in Nat
        OBVIOUS
      <4> QED
        BY <2>7, <4>1
    <3>6. start[l] + i >= 2
      <4>1. start[l] = st[k] + n /\ n \in Nat /\ start[l] \in Int
        BY <1>1, <2>3, <2>5
      <4>2. i \in Int /\ st[k] \in Int /\ st[k] + i >= 2
        BY <2>9, <3>1
      <4> DEFINE u == st[k]
      <4>3. u \in Int /\ u + i >= 2 /\ start[l] = u + n
        BY <4>1, <4>2
      <4> HIDE DEF x, u
      <4> QED
        BY <4>1, <4>2, <4>3
    <3> HIDE DEF x
    <3>4. r[x] = s[x + n]
      BY <1>4, <3>2
    <3>5. s[start[l] + i - 1] = [frame |-> d[l], part |-> "header", at |-> i]
      BY <1>3, <2>1, <3>6 DEF Laid
    <3> QED
      BY <2>2, <3>3, <3>4, <3>5 DEF x
  <2>10. st[k] + HeaderUnits >= 1
    <3>1. 1 + c \in 1 .. Len(d) /\ l \in 1 + c .. Len(d)
      BY <1>0, <1>1 DEF l
    <3>2. s \in Seq(Units)
      BY <1>2
    <3>3. start[1 + c] \in Int /\ start[1 + c] <= start[l]
      BY <1>3, <3>1, <3>2, LaidOrder
    <3>4. HeaderUnits \in Nat /\ HeaderUnits > 0
      BY <1>1
    <3>5. Front(q) >= 1 - HeaderUnits /\ Front(q) \in Int
      BY <3>4 DEF Front
    <3>6. n \in Nat /\ start[l] \in Int
      BY <1>1, <2>5
    <3>7. st[k] >= Front(q)
      BY <1>13, <2>3, <3>3, <3>6
    <3>8. st[k] \in Int
      BY <2>7
    <3> QED
      BY <3>4, <3>5, <3>7, <3>8
  <2>11. ASSUME NEW i \in 1..e[k].len
         PROVE  r[st[k] + HeaderUnits + i - 1] = [frame |-> e[k], part |-> "payload", at |-> i]
    <3> DEFINE x == st[k] + HeaderUnits + i - 1
    <3>1. i \in 1..d[l].len
      BY <2>2
    <3>0. i \in Nat /\ i >= 1 /\ d[l].len \in Nat
      BY <2>6, <3>1
    <3>2. st[k] + HeaderUnits \in Int /\ (st[k] + HeaderUnits) + i >= 2
      BY <2>7, <2>10, <3>0
    <3>7. (st[k] + HeaderUnits) + d[l].len <= Len(r) + 1 /\ Len(r) \in Nat
      BY <1>1, <2>7
    <3>3. (st[k] + HeaderUnits) + i - 1 \in 1..Len(r)
      BY <3>0, <3>1, <3>2, <3>7, Between
    <3>4. x + n = start[l] + HeaderUnits + i - 1
      BY <2>7, <3>0
    <3> HIDE DEF x
    <3>5. r[x] = s[x + n]
      BY <1>4, <3>3 DEF x
    <3>6. s[start[l] + HeaderUnits + i - 1] = [frame |-> d[l], part |-> "payload", at |-> i]
      BY <1>3, <2>1, <3>1 DEF Laid
    <3> QED
      BY <2>2, <3>4, <3>5, <3>6 DEF x
  <2>12. st[k + 1] = st[k] + HeaderUnits + e[k].len
    BY <2>2, <2>7
  <2> QED
    BY <2>2, <2>5, <2>8, <2>9, <2>11, <2>12
<1>12. Laid(r, st, e, q)
  BY <1>8, <1>9, <1>10, <1>11 DEF Laid
<1> QED
  BY <1>12

\* The first units are the header of the first frame.
LEMMA LaidHeader ==
    ASSUME NEW h \in Seq(Units), NEW r \in Seq(Units), NEW d \in Seq(Frames), NEW start,
           Laid(h \o r, start, d, "header"), Len(h) = HeaderUnits
    PROVE  d # <<>> /\ h = Header(d[1]) /\ \E st : Laid(r, st, d, "payload")
<1> DEFINE s == h \o r
<1>1. /\ Len(d) \in Nat /\ HeaderUnits \in Nat /\ HeaderUnits > 0 /\ Len(r) \in Nat
  BY LenProperties, FrameBounds
<1>2. /\ s \in Seq(Units) /\ Len(s) = HeaderUnits + Len(r)
      /\ \A i \in 1 .. HeaderUnits + Len(r) : s[i] = IF i <= HeaderUnits THEN h[i] ELSE r[i - HeaderUnits]
  BY ConcatProperties
<1>3. Laid(s, start, d, "header")
  OBVIOUS
<1> HIDE DEF s
<1>4. start[1] = 1 /\ start[Len(d) + 1] = Len(s) + 1
  BY <1>3 DEF Laid, Front
<1>5. d # <<>>
  <2> SUFFICES ASSUME d = <<>> PROVE FALSE
    OBVIOUS
  <2>1. Len(d) + 1 = 1
    OBVIOUS
  <2> QED
    BY <1>1, <1>2, <1>4, <2>1
<1>6. 1 \in 1..Len(d) /\ d[1] \in Frames
  BY <1>1, <1>5, EmptySeq, ElementOfSeq
<1>7. /\ Header(d[1]) \in Seq(Units) /\ Len(Header(d[1])) = HeaderUnits
      /\ \A i \in 1..HeaderUnits : Header(d[1])[i] = [frame |-> d[1], part |-> "header", at |-> i]
  BY <1>6, HeaderFacts
<1>8. \A i \in 1..HeaderUnits : h[i] = Header(d[1])[i]
  <2> SUFFICES ASSUME NEW i \in 1..HeaderUnits PROVE h[i] = Header(d[1])[i]
    OBVIOUS
  <2>1. start[1] + i >= 2 /\ start[1] + i - 1 = i
    BY <1>1, <1>4
  <2>2. s[start[1] + i - 1] = [frame |-> d[1], part |-> "header", at |-> i]
    BY <1>3, <1>6, <2>1 DEF Laid
  <2>3. s[i] = h[i]
    BY <1>1, <1>2
  <2> QED
    BY <1>7, <2>1, <2>2, <2>3
<1>9. h = Header(d[1])
  BY <1>7, <1>8, SeqEqual
<1>10. Suffix(d, d, 0)
  BY <1>1 DEF Suffix
<1>11. start[1 + 0] - Len(h) = 1 - HeaderUnits
  BY <1>1, <1>4
<1>12. \E st : Laid(r, st, d, "payload")
  <2>1. 0 \in Nat
    OBVIOUS
  <2>2. start[1 + 0] - Len(h) = Front("payload")
    BY <1>11 DEF Front
  <2>3. Laid(h \o r, start, d, "header")
    OBVIOUS
  <2> QED
    BY <1>10, <2>1, <2>2, <2>3, LaidDrop
<1> QED
  BY <1>5, <1>9, <1>12

\* The first units are the payload of the first frame.
LEMMA LaidPayload ==
    ASSUME NEW h \in Seq(Units), NEW r \in Seq(Units), NEW d \in Seq(Frames), NEW start,
           Laid(h \o r, start, d, "payload"), d # <<>>, Len(h) = d[1].len
    PROVE  h = Payload(d[1]) /\ Tail(d) \in Seq(Frames) /\ \E st : Laid(r, st, Tail(d), "header")
<1> DEFINE s == h \o r
           n == d[1].len
<1>1. /\ Len(d) \in Nat /\ HeaderUnits \in Nat /\ HeaderUnits > 0 /\ Len(r) \in Nat
  BY LenProperties, FrameBounds
<1>2. 1 \in 1..Len(d) /\ d[1] \in Frames
  BY <1>1, EmptySeq, ElementOfSeq
<1>3. /\ n \in Nat /\ Payload(d[1]) \in Seq(Units) /\ Len(Payload(d[1])) = n
      /\ \A i \in 1..n : Payload(d[1])[i] = [frame |-> d[1], part |-> "payload", at |-> i]
  BY <1>2, PayloadFacts
<1>4. /\ s \in Seq(Units) /\ Len(s) = n + Len(r)
      /\ \A i \in 1 .. n + Len(r) : s[i] = IF i <= n THEN h[i] ELSE r[i - n]
  <2>1. /\ s \in Seq(Units) /\ Len(s) = Len(h) + Len(r)
        /\ \A i \in 1 .. Len(h) + Len(r) : s[i] = IF i <= Len(h) THEN h[i] ELSE r[i - Len(h)]
    BY ConcatProperties
  <2> HIDE DEF s, n
  <2>2. Len(h) = n
    BY DEF n
  <2> QED
    BY <2>1, <2>2
<1>5. Laid(s, start, d, "payload")
  OBVIOUS
<1> HIDE DEF s
<1>6. start[1] = 1 - HeaderUnits /\ start[2] = start[1] + HeaderUnits + n
  <2>1. start[1] = 1 - HeaderUnits
    BY <1>5 DEF Laid, Front
  <2>2. start[1 + 1] = start[1] + HeaderUnits + n
    BY <1>2, <1>5 DEF Laid
  <2> QED
    BY <2>1, <2>2
<1>7. \A i \in 1..n : h[i] = Payload(d[1])[i]
  <2> SUFFICES ASSUME NEW i \in 1..n PROVE h[i] = Payload(d[1])[i]
    OBVIOUS
  <2>1. start[1] + HeaderUnits + i - 1 = i
    BY <1>1, <1>3, <1>6
  <2>2. s[start[1] + HeaderUnits + i - 1] = [frame |-> d[1], part |-> "payload", at |-> i]
    BY <1>2, <1>5 DEF Laid
  <2>3. s[i] = h[i]
    <3>1. n \in Nat /\ Len(r) \in Nat
      BY <1>1, <1>3
    <3> HIDE DEF n
    <3>2. i \in 1 .. n + Len(r) /\ i <= n
      BY <3>1
    <3> QED
      BY <1>4, <3>2
  <2> QED
    BY <1>3, <2>1, <2>2, <2>3
<1>8. h = Payload(d[1])
  BY <1>3, <1>7, SeqEqual
<1>9. /\ Tail(d) \in Seq(Frames) /\ Len(Tail(d)) = Len(d) - 1
      /\ \A k \in 1..Len(Tail(d)) : Tail(d)[k] = d[k + 1]
  BY HeadTailProperties, <1>1
<1>10. \E st : Laid(r, st, Tail(d), "header")
  <2>1. Suffix(Tail(d), d, 1) /\ 1 \in Nat
    BY <1>1, <1>9 DEF Suffix
  <2>2. start[1 + 1] - Len(h) = Front("header")
    BY <1>1, <1>3, <1>6 DEF Front
  <2>3. Laid(h \o r, start, d, "payload")
    OBVIOUS
  <2> QED
    BY <1>9, <2>1, <2>2, <2>3, LaidDrop
<1> QED
  BY <1>8, <1>9, <1>10

-----------------------------------------------------------------------------
(* A read in progress.                                                     *)

LEMMA Associative ==
    \A s, t, u \in Seq(Units) : (s \o t) \o u = s \o (t \o u)
BY ConcatAssociative

LEMMA ReadFacts ==
    ASSUME PartInv, reading
    PROVE  /\ Wanted \in Nat /\ Wanted > 0 /\ allowed \in Nat /\ allowed > 0
           /\ deadline \in Nat /\ remaining \in Nat /\ waited \in Nat /\ waited <= remaining
           /\ elapsed \in Nat /\ size \in Nat /\ Len(have) \in Nat /\ have \in Seq(Units)
<1>1. Len(have) \in Nat /\ have \in Seq(Units)
  BY LenProperties DEF PartInv, ReadTypes
<1>2. allowed \in Nat /\ allowed > 0
  <2>1. allowed \in Deadlines
    BY DEF PartInv, ReadTypes
  <2>2. Deadlines \subseteq Nat \ {0}
    BY FrameBounds
  <2>3. allowed \in Nat \ {0}
    BY <2>1, <2>2
  <2> QED
    BY <2>3
<1>3. HeaderUnits \in Nat /\ MaxPayload \in Nat
  BY FrameBounds
<1>4. CASE part = "header"
  <2>1. deadline = allowed /\ size = 0 /\ Len(have) < HeaderUnits
    BY <1>4 DEF PartInv, ReadTypes
  <2>2. Wanted = HeaderUnits - Len(have)
    BY <1>4 DEF Wanted
  <2>3. remaining \in 0..deadline /\ waited \in 0..remaining /\ elapsed \in Nat
    BY DEF PartInv, ReadTypes
  <2> QED
    BY <1>1, <1>2, <1>3, <2>1, <2>2, <2>3
<1>5. CASE part = "payload"
  <2>1. deadline = allowed - 1 /\ size \in 1..MaxPayload /\ Len(have) < size
    BY <1>5 DEF PartInv, ReadTypes
  <2>2. Wanted = size - Len(have)
    BY <1>5 DEF Wanted
  <2>3. remaining \in 0..deadline /\ waited \in 0..remaining /\ elapsed \in Nat
    BY DEF PartInv, ReadTypes
  <2> QED
    BY <1>1, <1>2, <1>3, <2>1, <2>2, <2>3
<1> QED
  BY <1>4, <1>5 DEF PartInv, ReadTypes

\* what read(2) gives ReadSome
Got == IF Wanted < Len(pipe) THEN Wanted ELSE Len(pipe)
Now == have \o SubSeq(pipe, 1, Got)
Left == SubSeq(pipe, Got + 1, Len(pipe))

LEMMA GotFacts ==
    ASSUME PartInv, reading, pipe # <<>>
    PROVE  /\ Got \in 1..Len(pipe) /\ Got <= Wanted /\ pipe \in Seq(Units)
           /\ Now \in Seq(Units) /\ Len(Now) = Len(have) + Got
           /\ Left \in Seq(Units) /\ Len(Left) <= Len(pipe)
           /\ Now \o Left = have \o pipe
<1>1. pipe \in Seq(Units) /\ have \in Seq(Units)
  BY DEF PartInv, WriteTypes, ReadTypes
<1>2. Len(pipe) \in Nat /\ Len(pipe) > 0
  <2>1. Len(pipe) \in Nat \ {0}
    BY <1>1, EmptySeq
  <2> QED
    BY <2>1
<1>3. Got \in 1..Len(pipe) /\ Got <= Wanted /\ Got \in 0..Len(pipe)
  BY <1>2, ReadFacts DEF Got
<1> DEFINE cut == SubSeq(pipe, 1, Got)
<1>4. /\ cut \in Seq(Units) /\ Len(cut) = Got
      /\ Left \in Seq(Units) /\ Len(Left) = Len(pipe) - Got
      /\ cut \o Left = pipe
  BY <1>1, <1>3, CutFacts DEF Left
<1>5. Len(Left) <= Len(pipe)
  BY <1>2, <1>3, <1>4
<1> HIDE DEF cut
<1>6. have \o cut \in Seq(Units) /\ Len(have \o cut) = Len(have) + Len(cut)
  BY <1>1, <1>4, ConcatProperties
<1>7. (have \o cut) \o Left = have \o (cut \o Left)
  <2>1. have \in Seq(Units) /\ cut \in Seq(Units) /\ Left \in Seq(Units)
    BY <1>1, <1>4
  <2> QED
    BY <2>1, Associative, Zenon
<1> QED
  BY <1>1, <1>3, <1>4, <1>5, <1>6, <1>7 DEF Now, cut

LEMMA ReadSomeCases ==
    ASSUME ReadSome
    PROVE  /\ reading /\ pipe # <<>> /\ (deadline = 0 \/ remaining > 0)
           /\ pipe' = Left /\ UNCHANGED writeVars
           /\ \/ Got = Wanted /\ part = "header" /\ HeaderRead(Now)
              \/ Got = Wanted /\ part = "payload" /\ PayloadRead(Now)
              \/ deadline = 0 /\ Return /\ Tear(TRUE, due) /\ UNCHANGED wrong
              \/ /\ Got # Wanted /\ deadline # 0
                 /\ have' = Now /\ remaining' = Charged /\ waited' = 0
                 /\ UNCHANGED <<reading, part, size, deadline, elapsed, allowed, history>>
BY Zenon DEF ReadSome, Got, Now, Left, Done, OneRead

\* What bytes are read as is a length.
LEMMA LengthsFacts ==
    ASSUME NEW h \in Seq(Units), Len(h) = HeaderUnits, NEW n \in LengthsOf(h)
    PROVE  n \in Nat
<1>1. HeaderUnits \in Nat /\ HeaderUnits > 0 /\ MaxPayload \in Nat
  BY FrameBounds
<1>2. 1 \in 1..Len(h)
  BY <1>1
<1>3. h[1] \in Units
  BY <1>2, ElementOfSeq
<1>4. h[1].frame.len \in Lengths
  BY <1>3 DEF Units, Frames
<1>5. h[1].frame.len \in Nat
  BY <1>4, FrameBounds
<1>6. n = h[1].frame.len \/ n \in Junk \/ n = MaxPayload + 1
  BY DEF LengthsOf
<1>7. Junk \subseteq Nat
  <2>1. Junk \subseteq 0..MaxPayload
    BY FrameBounds
  <2> QED
    BY <1>1, <2>1
<1>8. MaxPayload + 1 \in Nat
  BY <1>1
<1> QED
  BY <1>5, <1>6, <1>7, <1>8

-----------------------------------------------------------------------------
(* Every step keeps the types.                                             *)

LEMMA ReturnReads == ASSUME Return PROVE ReadTypes' /\ ~reading' /\ part' = "header" /\ have' = <<>>
<1>1. /\ reading' = FALSE /\ part' = "header" /\ have' = <<>> /\ size' = 0
      /\ deadline' = 0 /\ remaining' = 0 /\ waited' = 0 /\ elapsed' = 0 /\ allowed' = 0
  BY DEF Return
<1>2. have' \in Seq(Units)
  BY <1>1
<1>3. remaining' \in 0..deadline' /\ waited' \in 0..remaining' /\ elapsed' \in Nat
  BY <1>1
<1>4. part' # "payload" /\ reading' \in BOOLEAN /\ part' \in {"header", "payload"}
  BY <1>1
<1> QED
  BY <1>1, <1>2, <1>3, <1>4, Zenon DEF ReadTypes

LEMMA TearDue ==
    ASSUME NEW now \in BOOLEAN, NEW frames \in Seq(Frames), torn \in BOOLEAN, wrong \in BOOLEAN,
           Tear(now, frames), UNCHANGED wrong
    PROVE  DueTypes'
<1>1. torn' \in BOOLEAN /\ wrong' \in BOOLEAN
  BY DEF Tear
<1>2. due' = IF torn' THEN <<>> ELSE frames
  BY DEF Tear
<1>3. due' \in Seq(Frames)
  BY <1>2
<1> QED
  BY <1>1, <1>2, <1>3, Zenon DEF DueTypes

LEMMA NewFrame ==
    ASSUME NEW w \in Writers, NEW len \in Lengths, PartInv, written[w] < MaxFrames
    PROVE  /\ [by |-> w, n |-> written[w] + 1, len |-> len] \in Frames
           /\ [written EXCEPT ![w] = @ + 1] \in [Writers -> 0..MaxFrames]
<1>1. written \in [Writers -> 0..MaxFrames] /\ MaxFrames \in Nat
  BY FrameBounds DEF PartInv, WriteTypes
<1>2. written[w] \in 0..MaxFrames
  BY <1>1
<1>3. written[w] + 1 \in 1..MaxFrames /\ written[w] + 1 \in 0..MaxFrames
  BY <1>1, <1>2
<1>4. [by |-> w, n |-> written[w] + 1, len |-> len] \in Frames
  BY <1>3 DEF Frames
<1>5. [written EXCEPT ![w] = @ + 1] \in [Writers -> 0..MaxFrames]
  BY <1>1, <1>3
<1> QED
  BY <1>4, <1>5

LEMMA PartWriteHeader ==
    ASSUME PartInv, NEW w \in Writers, WriteHeader(w)
    PROVE  PartInv'
<1>1. PICK len \in Lengths :
        LET f == [by |-> w, n |-> written[w] + 1, len |-> len] IN
        /\ writing[w] = <<>> /\ written[w] < MaxFrames
        /\ written' = [written EXCEPT ![w] = @ + 1]
        /\ IF Refused(len)
           THEN UNCHANGED <<pipe, writing, history>>
           ELSE /\ Len(pipe) + HeaderUnits <= PipeCap
                /\ pipe' = pipe \o Header(f)
                /\ writing' = [writing EXCEPT ![w] = Payload(f)]
                /\ Tear(Overlaps(w), Append(due, f)) /\ UNCHANGED wrong
        /\ UNCHANGED readVars
  BY DEF WriteHeader
<1> DEFINE f == [by |-> w, n |-> written[w] + 1, len |-> len]
<1>2. /\ f \in Frames /\ f.len = len
      /\ written' \in [Writers -> 0..MaxFrames]
  BY <1>1, NewFrame
<1>3. ReadTypes'
  BY <1>1 DEF PartInv, ReadTypes, readVars
<1>4. /\ pipe \in Seq(Units) /\ Len(pipe) <= PipeCap /\ writing \in [Writers -> Seq(Units)]
      /\ \A v \in Writers : Len(writing[v]) <= MaxPayload
      /\ due \in Seq(Frames) /\ torn \in BOOLEAN /\ wrong \in BOOLEAN
  BY DEF PartInv, WriteTypes, DueTypes
<1>5. CASE Refused(len)
  <2>1. UNCHANGED <<pipe, writing, due, torn, wrong>>
    BY <1>1, <1>5 DEF history
  <2>2. WriteTypes'
    BY <1>2, <1>4, <2>1 DEF WriteTypes
  <2>3. DueTypes'
    BY <2>1 DEF PartInv, DueTypes
  <2> QED
    BY <1>3, <2>2, <2>3 DEF PartInv
<1>6. CASE ~Refused(len)
  <2> HIDE DEF f
  <2>1. /\ Len(pipe) + HeaderUnits <= PipeCap /\ pipe' = pipe \o Header(f)
        /\ writing' = [writing EXCEPT ![w] = Payload(f)]
        /\ Tear(Overlaps(w), Append(due, f)) /\ UNCHANGED wrong
    BY <1>1, <1>6 DEF f
  <2>2. /\ Header(f) \in Seq(Units) /\ Len(Header(f)) = HeaderUnits
        /\ Payload(f) \in Seq(Units) /\ Len(Payload(f)) = f.len
    BY <1>2, HeaderFacts, PayloadFacts
  <2>3. pipe' \in Seq(Units) /\ Len(pipe') <= PipeCap
    <3>1. pipe \o Header(f) \in Seq(Units) /\ Len(pipe \o Header(f)) = Len(pipe) + Len(Header(f))
      BY <1>4, <2>2, ConcatProperties
    <3> QED
      BY <2>1, <2>2, <3>1
  <2>4. f.len <= MaxPayload
    <3>1. len \in Nat /\ MaxPayload \in Nat
      <4>1. Lengths \subseteq Nat \ {0} /\ MaxPayload \in Nat
        BY FrameBounds
      <4> QED
        BY <4>1
    <3>2. ~(len > MaxPayload)
      BY <1>6 DEF Refused, TooLarge
    <3> QED
      BY <1>2, <3>1, <3>2
  <2>5. writing' \in [Writers -> Seq(Units)] /\ \A v \in Writers : Len(writing'[v]) <= MaxPayload
    BY <1>4, <2>1, <2>2, <2>4
  <2>6. WriteTypes'
    BY <1>2, <2>3, <2>5 DEF WriteTypes
  <2>7. Overlaps(w) \in BOOLEAN
    BY DEF Overlaps
  <2>8. Append(due, f) \in Seq(Frames)
    BY <1>2, <1>4, AppendProperties
  <2>9. DueTypes'
    BY <1>4, <2>1, <2>7, <2>8, TearDue
  <2> QED
    BY <1>3, <2>6, <2>9 DEF PartInv
<1> QED
  BY <1>5, <1>6

LEMMA PartWritePayload ==
    ASSUME PartInv, NEW w \in Writers, WritePayload(w)
    PROVE  PartInv'
<1>1. PICK n \in 1 .. Len(writing[w]) :
        /\ Len(pipe) + n <= PipeCap
        /\ pipe' = pipe \o SubSeq(writing[w], 1, n)
        /\ writing' = [writing EXCEPT ![w] = SubSeq(@, n + 1, Len(@))]
        /\ Tear(Overlaps(w), due)
        /\ UNCHANGED <<written, readVars, wrong>>
  BY DEF WritePayload
<1>2. /\ pipe \in Seq(Units) /\ Len(pipe) <= PipeCap /\ writing \in [Writers -> Seq(Units)]
      /\ \A v \in Writers : Len(writing[v]) <= MaxPayload
      /\ written \in [Writers -> 0..MaxFrames]
      /\ due \in Seq(Frames) /\ torn \in BOOLEAN /\ wrong \in BOOLEAN
  BY DEF PartInv, WriteTypes, DueTypes
<1>3. writing[w] \in Seq(Units) /\ Len(writing[w]) \in Nat
  BY <1>2, LenProperties
<1>4. n \in 0 .. Len(writing[w]) /\ n \in Nat
  BY <1>3
<1> DEFINE cut == SubSeq(writing[w], 1, n)
           rest == SubSeq(writing[w], n + 1, Len(writing[w]))
<1>5. /\ cut \in Seq(Units) /\ Len(cut) = n
      /\ rest \in Seq(Units) /\ Len(rest) = Len(writing[w]) - n
  BY <1>3, <1>4, CutFacts
<1>6. pipe' = pipe \o cut /\ writing' = [writing EXCEPT ![w] = rest]
  BY <1>1
<1> HIDE DEF cut, rest
<1>7. pipe' \in Seq(Units) /\ Len(pipe') <= PipeCap
  <2>1. pipe \o cut \in Seq(Units) /\ Len(pipe \o cut) = Len(pipe) + Len(cut)
    BY <1>2, <1>5, ConcatProperties
  <2> QED
    BY <1>1, <1>5, <1>6, <2>1
<1>8. Len(rest) <= MaxPayload
  <2>1. Len(writing[w]) <= MaxPayload /\ MaxPayload \in Nat
    BY <1>2, FrameBounds
  <2> QED
    BY <1>3, <1>4, <1>5, <2>1
<1>9. writing' \in [Writers -> Seq(Units)] /\ \A v \in Writers : Len(writing'[v]) <= MaxPayload
  BY <1>2, <1>5, <1>6, <1>8
<1>10. WriteTypes'
  BY <1>1, <1>2, <1>7, <1>9 DEF WriteTypes
<1>11. ReadTypes'
  BY <1>1 DEF PartInv, ReadTypes, readVars
<1>12. Overlaps(w) \in BOOLEAN
  BY DEF Overlaps
<1>13. DueTypes'
  BY <1>1, <1>2, <1>12, TearDue
<1> QED
  BY <1>10, <1>11, <1>13 DEF PartInv

LEMMA PartBeginRead ==
    ASSUME PartInv, BeginRead
    PROVE  PartInv'
<1>1. PICK d \in Deadlines : Part("header", d) /\ allowed' = d
  BY DEF BeginRead
<1>2. /\ reading' = TRUE /\ part' = "header" /\ have' = <<>> /\ size' = 0 /\ deadline' = d
      /\ remaining' = d /\ waited' = 0 /\ elapsed' = 0 /\ allowed' = d
  BY <1>1 DEF BeginRead, Part
<1>3. d \in Nat /\ d > 0
  <2>1. Deadlines \subseteq Nat \ {0}
    BY FrameBounds
  <2>2. d \in Nat \ {0}
    BY <2>1
  <2> QED
    BY <2>2
<1>4. HeaderUnits \in Nat /\ HeaderUnits > 0
  BY FrameBounds
<1>5. have' \in Seq(Units) /\ Len(have') < HeaderUnits
  BY <1>2, <1>4
<1>6. remaining' \in 0..deadline' /\ waited' \in 0..remaining' /\ elapsed' \in Nat
  BY <1>2, <1>3
<1>7. ReadTypes'
  BY <1>2, <1>5, <1>6 DEF ReadTypes
<1>8. UNCHANGED <<pipe, writing, written, due, torn, wrong>>
  BY DEF BeginRead, writeVars, history
<1>9. WriteTypes' /\ DueTypes'
  BY <1>8 DEF PartInv, WriteTypes, DueTypes
<1> QED
  BY <1>7, <1>9 DEF PartInv

\* The header's end: the read ends, or the payload's begins.
LEMMA HeaderCases ==
    ASSUME NEW h, HeaderRead(h)
    PROVE  \E n \in LengthsOf(h) :
             \/ Return
             \/ /\ n > 0 /\ ~(n > MaxPayload) /\ size' = n
                /\ part' = "payload" /\ have' = <<>> /\ deadline' = deadline - 1
                /\ remaining' = deadline - 1 /\ waited' = 0
                /\ UNCHANGED <<reading, elapsed, allowed>>
BY Zenon DEF HeaderRead, Part, PayloadDeadline, TooLarge

LEMMA PartReadSome ==
    ASSUME PartInv, ReadSome
    PROVE  PartInv'
<1>1. /\ reading /\ pipe # <<>> /\ (deadline = 0 \/ remaining > 0)
      /\ pipe' = Left /\ UNCHANGED <<writing, written>>
      /\ \/ Got = Wanted /\ part = "header" /\ HeaderRead(Now)
         \/ Got = Wanted /\ part = "payload" /\ PayloadRead(Now)
         \/ deadline = 0 /\ Return /\ Tear(TRUE, due) /\ UNCHANGED wrong
         \/ /\ Got # Wanted /\ deadline # 0
            /\ have' = Now /\ remaining' = Charged /\ waited' = 0
            /\ UNCHANGED <<reading, part, size, deadline, elapsed, allowed, history>>
  BY ReadSomeCases, Zenon DEF writeVars
<1>2. /\ Got \in 1..Len(pipe) /\ Got <= Wanted
      /\ Now \in Seq(Units) /\ Len(Now) = Len(have) + Got
      /\ Left \in Seq(Units) /\ Len(Left) <= Len(pipe)
  BY <1>1, GotFacts
<1>3. /\ pipe \in Seq(Units) /\ Len(pipe) <= PipeCap /\ Len(pipe) \in Nat
      /\ writing \in [Writers -> Seq(Units)] /\ \A v \in Writers : Len(writing[v]) <= MaxPayload
      /\ written \in [Writers -> 0..MaxFrames]
      /\ due \in Seq(Frames) /\ torn \in BOOLEAN /\ wrong \in BOOLEAN /\ (torn => due = <<>>)
  BY LenProperties DEF PartInv, WriteTypes, DueTypes
<1>4. WriteTypes'
  <2>1. Len(Left) \in Nat /\ PipeCap \in Nat
    BY <1>2, LenProperties, FrameBounds
  <2>2. Len(Left) <= PipeCap
    BY <1>2, <1>3, <2>1
  <2> QED
    BY <1>1, <1>2, <1>3, <2>2 DEF WriteTypes
<1>5. /\ Wanted \in Nat /\ Wanted > 0 /\ allowed \in Nat /\ allowed > 0
      /\ deadline \in Nat /\ remaining \in Nat /\ elapsed \in Nat /\ Len(have) \in Nat
  BY <1>1, ReadFacts
<1>6. MaxPayload \in Nat /\ HeaderUnits \in Nat
  BY FrameBounds
<1>7. ASSUME Got = Wanted, part = "header", HeaderRead(Now) PROVE PartInv'
  <2>1. Len(Now) = HeaderUnits
    BY <1>2, <1>5, <1>6, <1>7 DEF Wanted
  <2>2. PICK n \in LengthsOf(Now) :
             \/ Return
             \/ /\ n > 0 /\ ~(n > MaxPayload) /\ size' = n
                /\ part' = "payload" /\ have' = <<>> /\ deadline' = deadline - 1
                /\ remaining' = deadline - 1 /\ waited' = 0
                /\ UNCHANGED <<reading, elapsed, allowed>>
    BY <1>7, HeaderCases
  <2>3. n \in Nat
    BY <1>2, <2>1, LengthsFacts
  <2>4. ReadTypes'
    <3>1. CASE Return
      BY <3>1, ReturnReads
    <3>2. CASE /\ n > 0 /\ ~(n > MaxPayload) /\ size' = n
               /\ part' = "payload" /\ have' = <<>> /\ deadline' = deadline - 1
               /\ remaining' = deadline - 1 /\ waited' = 0
               /\ UNCHANGED <<reading, elapsed, allowed>>
      <4>1. deadline = allowed /\ allowed \in Deadlines
        BY <1>1, <1>7 DEF PartInv, ReadTypes
      <4>2. remaining' \in 0..deadline' /\ waited' \in 0..remaining' /\ elapsed' \in Nat
        BY <1>5, <3>2, <4>1
      <4>3. size' \in 1..MaxPayload /\ have' \in Seq(Units) /\ Len(have') < size'
        BY <1>6, <2>3, <3>2
      <4>4. reading' = TRUE /\ part' = "payload" /\ deadline' = allowed' - 1 /\ allowed' \in Deadlines
        BY <1>1, <3>2, <4>1 DEF PartInv, ReadTypes
      <4> QED
        BY <4>2, <4>3, <4>4 DEF ReadTypes
    <3> QED
      BY <2>2, <3>1, <3>2
  <2>5. UNCHANGED <<due, torn>> /\ wrong' \in BOOLEAN
    <3>1. UNCHANGED <<due, torn>> /\ wrong' = (wrong \/ ~Expected(Now, Header(Head(due))))
      BY <1>7 DEF HeaderRead
    <3> QED
      BY <3>1
  <2>6. DueTypes'
    BY <1>3, <2>5, Zenon DEF DueTypes
  <2> QED
    BY <1>4, <2>4, <2>6 DEF PartInv
<1>8. ASSUME PayloadRead(Now) PROVE PartInv'
  <2>1. /\ Return /\ wrong' = (wrong \/ ~Expected(Now, Payload(Head(due))))
        /\ due' = (IF due = <<>> THEN due ELSE Tail(due)) /\ torn' = torn
    BY <1>8 DEF PayloadRead
  <2>2. due' \in Seq(Frames)
    BY <1>3, <2>1, HeadTailProperties
  <2>3. torn' => due' = <<>>
    BY <1>3, <2>1
  <2>4. wrong' \in BOOLEAN /\ torn' \in BOOLEAN
    BY <1>3, <2>1
  <2> QED
    BY <1>4, <2>1, <2>2, <2>3, <2>4, ReturnReads DEF PartInv, DueTypes
<1>9. ASSUME Return, Tear(TRUE, due), UNCHANGED wrong PROVE PartInv'
  BY <1>3, <1>4, <1>9, ReturnReads, TearDue DEF PartInv
<1>10. ASSUME Got # Wanted, deadline # 0,
              have' = Now, remaining' = Charged, waited' = 0,
              UNCHANGED <<reading, part, size, deadline, elapsed, allowed, history>>
       PROVE  PartInv'
  <2>1. Len(Now) < Len(have) + Wanted
    BY <1>2, <1>3, <1>5, <1>10
  <2>2. part = "header" => Len(Now) < HeaderUnits
    BY <1>5, <1>6, <2>1 DEF Wanted
  <2>3. part = "payload" => Len(Now) < size
    <3> SUFFICES ASSUME part = "payload" PROVE Len(Now) < size
      OBVIOUS
    <3>1. size \in Nat
      BY <1>1, ReadFacts
    <3>2. Wanted = size - Len(have)
      BY DEF Wanted
    <3> QED
      BY <1>5, <2>1, <3>1, <3>2
  <2>4. remaining' \in 0..deadline' /\ waited' \in 0..remaining' /\ elapsed' \in Nat
    <3>1. remaining \in 0..deadline
      BY DEF PartInv, ReadTypes
    <3> QED
      BY <1>5, <1>10, <3>1 DEF Charged
  <2>5. ReadTypes'
    BY <1>1, <1>2, <1>10, <2>2, <2>3, <2>4 DEF PartInv, ReadTypes
  <2>6. DueTypes'
    BY <1>3, <1>10, Zenon DEF DueTypes, history
  <2> QED
    BY <1>4, <2>5, <2>6 DEF PartInv
<1> QED
  BY <1>1, <1>7, <1>8, <1>9, <1>10, Zenon

LEMMA PartTick ==
    ASSUME PartInv, Tick
    PROVE  PartInv'
<1>1. /\ reading /\ waited < remaining /\ waited' = waited + 1 /\ elapsed' = elapsed + 1
      /\ UNCHANGED <<pipe, writing, written, reading, part, have, size, deadline, remaining,
                     allowed, due, torn, wrong>>
  BY DEF Tick, writeVars, history
<1>2. WriteTypes' /\ DueTypes'
  BY <1>1 DEF PartInv, WriteTypes, DueTypes
<1>3. remaining \in Nat /\ waited \in Nat /\ elapsed \in Nat
  BY <1>1, ReadFacts
<1>4. waited' \in 0..remaining' /\ elapsed' \in Nat
  BY <1>1, <1>3
<1>5. ReadTypes'
  BY <1>1, <1>4 DEF PartInv, ReadTypes
<1> QED
  BY <1>2, <1>5 DEF PartInv

LEMMA PartTimeOut ==
    ASSUME PartInv, TimeOut
    PROVE  PartInv'
<1>1. Return /\ Tear(InFrame(have), due) /\ UNCHANGED <<pipe, writing, written, wrong>>
  BY DEF TimeOut, writeVars
<1>2. WriteTypes' /\ due \in Seq(Frames) /\ torn \in BOOLEAN /\ wrong \in BOOLEAN
  BY <1>1 DEF PartInv, WriteTypes, DueTypes
<1>3. InFrame(have) \in BOOLEAN
  BY DEF InFrame
<1> QED
  BY <1>1, <1>2, <1>3, ReturnReads, TearDue DEF PartInv

LEMMA PartNext ==
    ASSUME PartInv, [Next]_vars
    PROVE  PartInv'
<1>1. CASE UNCHANGED vars
  BY <1>1 DEF PartInv, WriteTypes, ReadTypes, DueTypes, vars, writeVars, readVars, history
<1>2. CASE Next
  BY <1>2, PartWriteHeader, PartWritePayload, PartBeginRead, PartReadSome, PartTick, PartTimeOut
     DEF Next
<1> QED
  BY <1>1, <1>2

-----------------------------------------------------------------------------
(* Every step keeps the time.                                              *)

LEMMA Squares ==
    ASSUME NEW r \in Nat, NEW w \in Nat, w <= r
    PROVE  /\ 2 * w <= r * (r + 1)
           /\ r > 0 => (r - 1) * ((r - 1) + 1) <= r * (r + 1) - 2 * w
<1>1. r * (r + 1) = r * r + r
  OBVIOUS
<1>2. r <= r * r
  OBVIOUS
<1>3. (r - 1) * ((r - 1) + 1) = r * r - r
  OBVIOUS
<1> DEFINE q == r * r
<1>4. q \in Nat
  OBVIOUS
<1> HIDE DEF q
<1>5. r * (r + 1) = q + r /\ r <= q /\ (r - 1) * ((r - 1) + 1) = q - r
  BY <1>1, <1>2, <1>3 DEF q
<1> QED
  BY <1>4, <1>5

\* A payload is given a tick less than its header, and no more than is left.
LEMMA SecondPart ==
    ASSUME NEW a \in Nat, a > 0, NEW e \in Nat, 2 * e <= a * (a + 1)
    PROVE  2 * e <= (a * (a + 1) + (a - 1) * a) - (a - 1) * ((a - 1) + 1) + 2 * 0
<1>1. (a - 1) * ((a - 1) + 1) = (a - 1) * a
  OBVIOUS
<1> DEFINE x == (a - 1) * a
           y == a * (a + 1)
<1>2. x \in Int /\ y \in Int
  OBVIOUS
<1>3. 2 * e <= y
  OBVIOUS
<1> HIDE DEF x, y
<1>4. 2 * e <= (y + x) - x + 2 * 0
  BY <1>2, <1>3
<1> QED
  BY <1>1, <1>4 DEF x, y

LEMMA BothParts ==
    ASSUME NEW a \in Nat, a > 0
    PROVE  /\ a * (a + 1) <= 2 * (a * a)
           /\ a * (a + 1) + (a - 1) * a = 2 * (a * a)
<1>1. a * (a + 1) = a * a + a /\ (a - 1) * a = a * a - a /\ a <= a * a
  OBVIOUS
<1> DEFINE q == a * a
           x == a * (a + 1)
           y == (a - 1) * a
<1>2. q \in Nat /\ x = q + a /\ y = q - a /\ a <= q
  BY <1>1
<1> HIDE DEF q, x, y
<1>3. x <= 2 * q /\ x + y = 2 * q
  BY <1>2
<1> QED
  BY <1>3 DEF q, x, y

LEMMA BudgetFacts ==
    ASSUME PartInv, reading
    PROVE  Budget \in Int /\ Budget <= 2 * (allowed * allowed)
<1>1. allowed \in Nat /\ allowed > 0
  BY ReadFacts
<1>2. /\ allowed * (allowed + 1) \in Int /\ (allowed - 1) * allowed \in Int
      /\ allowed * allowed \in Int
  BY <1>1
<1>3. /\ allowed * (allowed + 1) <= 2 * (allowed * allowed)
      /\ allowed * (allowed + 1) + (allowed - 1) * allowed = 2 * (allowed * allowed)
  BY <1>1, BothParts
<1> QED
  BY <1>2, <1>3 DEF Budget

\* What the invariant says by itself.
LEMMA TimeBound ==
    ASSUME PartInv, TimeInv, reading
    PROVE  2 * elapsed <= Budget
<1>1. /\ elapsed \in Nat /\ Budget \in Int /\ remaining \in Nat /\ waited \in Nat
      /\ waited <= remaining
  BY ReadFacts, BudgetFacts
<1> DEFINE x == remaining * (remaining + 1)
<1>2. x \in Int /\ 2 * waited <= x
  BY <1>1, Squares
<1>3. 2 * elapsed <= Budget - x + 2 * waited
  BY DEF TimeInv
<1> HIDE DEF x
<1> QED
  BY <1>1, <1>2, <1>3

LEMMA TimeBeginRead ==
    ASSUME PartInv, BeginRead
    PROVE  TimeInv'
<1>1. PICK d \in Deadlines : Part("header", d) /\ allowed' = d
  BY DEF BeginRead
<1>2. /\ part' = "header" /\ remaining' = d /\ waited' = 0 /\ elapsed' = 0 /\ allowed' = d
  BY <1>1 DEF BeginRead, Part
<1>3. d \in Nat
  <2>1. Deadlines \subseteq Nat \ {0}
    BY FrameBounds
  <2> QED
    BY <2>1
<1>4. Budget' = d * (d + 1)
  BY <1>2 DEF Budget
<1> DEFINE x == d * (d + 1)
<1>5. x \in Int
  BY <1>3
<1>6. Budget' = x /\ remaining' * (remaining' + 1) = x
  BY <1>2, <1>4
<1> HIDE DEF x
<1>7. 2 * elapsed' <= Budget' - remaining' * (remaining' + 1) + 2 * waited'
  BY <1>2, <1>5, <1>6
<1> QED
  BY <1>7 DEF TimeInv

LEMMA TimeReadSome ==
    ASSUME PartInv, TimeInv, ReadSome
    PROVE  TimeInv'
<1>1. /\ reading /\ (deadline = 0 \/ remaining > 0)
      /\ \/ Got = Wanted /\ part = "header" /\ HeaderRead(Now)
         \/ Got = Wanted /\ part = "payload" /\ PayloadRead(Now)
         \/ deadline = 0 /\ Return /\ Tear(TRUE, due) /\ UNCHANGED wrong
         \/ /\ Got # Wanted /\ deadline # 0
            /\ have' = Now /\ remaining' = Charged /\ waited' = 0
            /\ UNCHANGED <<reading, part, size, deadline, elapsed, allowed, history>>
  BY ReadSomeCases, Zenon
<1>2. /\ allowed \in Nat /\ allowed > 0 /\ elapsed \in Nat
      /\ remaining \in Nat /\ waited \in Nat /\ waited <= remaining
  BY <1>1, ReadFacts
<1>3. ASSUME Return PROVE TimeInv'
  BY <1>3, ReturnReads DEF TimeInv
<1>4. ASSUME part = "header", HeaderRead(Now) PROVE TimeInv'
  <2>1. PICK n \in LengthsOf(Now) :
             \/ Return
             \/ /\ n > 0 /\ ~(n > MaxPayload) /\ size' = n
                /\ part' = "payload" /\ have' = <<>> /\ deadline' = deadline - 1
                /\ remaining' = deadline - 1 /\ waited' = 0
                /\ UNCHANGED <<reading, elapsed, allowed>>
    BY <1>4, HeaderCases
  <2>2. CASE ~Return
    <3>1. /\ part' = "payload" /\ remaining' = deadline - 1 /\ waited' = 0
          /\ elapsed' = elapsed /\ allowed' = allowed
      BY <2>1, <2>2
    <3>2. deadline = allowed
      BY <1>1, <1>4 DEF PartInv, ReadTypes
    <3>3. 2 * elapsed <= allowed * (allowed + 1)
      BY <1>1, <1>4, TimeBound DEF Budget
    <3>4. 2 * elapsed <= (allowed * (allowed + 1) + (allowed - 1) * allowed)
                         - (allowed - 1) * ((allowed - 1) + 1) + 2 * 0
      BY <1>2, <3>3, SecondPart
    <3>5. Budget' = allowed * (allowed + 1) + (allowed - 1) * allowed
      BY <3>1 DEF Budget
    <3>6. 2 * elapsed' <= Budget' - remaining' * (remaining' + 1) + 2 * waited'
      BY <3>1, <3>2, <3>4, <3>5
    <3> QED
      BY <3>6 DEF TimeInv
  <2> QED
    BY <1>3, <2>2
<1>5. ASSUME deadline # 0, remaining' = Charged, waited' = 0,
             UNCHANGED <<reading, part, elapsed, allowed>>
      PROVE  TimeInv'
  <2>1. remaining > 0 /\ remaining' = remaining - 1
    BY <1>1, <1>2, <1>5 DEF Charged
  <2>2. Budget' = Budget /\ Budget \in Int
    BY <1>1, <1>5, BudgetFacts DEF Budget
  <2> DEFINE x == remaining * (remaining + 1)
             y == (remaining - 1) * ((remaining - 1) + 1)
  <2>3. x \in Int /\ y \in Int /\ y <= x - 2 * waited
    BY <1>2, <2>1, Squares
  <2>4. 2 * elapsed <= Budget - x + 2 * waited
    BY <1>1 DEF TimeInv
  <2>5. remaining' * (remaining' + 1) = y
    BY <2>1
  <2> HIDE DEF x, y
  <2>6. 2 * elapsed <= Budget - y + 2 * 0
    BY <1>2, <2>2, <2>3, <2>4
  <2>7. 2 * elapsed' <= Budget' - remaining' * (remaining' + 1) + 2 * waited'
    BY <1>5, <2>2, <2>5, <2>6
  <2> QED
    BY <2>7 DEF TimeInv
<1>6. ASSUME PayloadRead(Now) PROVE TimeInv'
  BY <1>3, <1>6 DEF PayloadRead
<1> QED
  BY <1>1, <1>3, <1>4, <1>5, <1>6, Zenon

LEMMA TimeTick ==
    ASSUME PartInv, TimeInv, Tick
    PROVE  TimeInv'
<1>1. /\ reading /\ waited' = waited + 1 /\ elapsed' = elapsed + 1
      /\ UNCHANGED <<part, remaining, allowed>>
  BY DEF Tick
<1>2. elapsed \in Nat /\ remaining \in Nat /\ waited \in Nat
  BY <1>1, ReadFacts
<1>3. Budget' = Budget /\ Budget \in Int
  BY <1>1, BudgetFacts DEF Budget
<1> DEFINE x == remaining * (remaining + 1)
<1>4. x \in Int /\ 2 * elapsed <= Budget - x + 2 * waited
  BY <1>1, <1>2 DEF TimeInv
<1>5. remaining' * (remaining' + 1) = x
  BY <1>1
<1> HIDE DEF x
<1>6. 2 * (elapsed + 1) <= Budget - x + 2 * (waited + 1)
  BY <1>2, <1>3, <1>4
<1>7. 2 * elapsed' <= Budget' - remaining' * (remaining' + 1) + 2 * waited'
  BY <1>1, <1>3, <1>5, <1>6
<1> QED
  BY <1>7 DEF TimeInv

LEMMA TimeNext ==
    ASSUME PartInv, TimeInv, [Next]_vars
    PROVE  TimeInv'
<1>1. ASSUME UNCHANGED readVars PROVE TimeInv'
  BY <1>1 DEF TimeInv, Budget, readVars
<1>2. CASE UNCHANGED vars
  BY <1>1, <1>2 DEF vars
<1>3. ASSUME NEW w \in Writers, WriteHeader(w) \/ WritePayload(w) PROVE TimeInv'
  BY <1>1, <1>3 DEF WriteHeader, WritePayload
<1>4. CASE TimeOut
  BY <1>4, ReturnReads DEF TimeOut, TimeInv
<1>5. CASE BeginRead \/ ReadSome \/ Tick
  BY <1>5, TimeBeginRead, TimeReadSome, TimeTick
<1> QED
  BY <1>2, <1>3, <1>4, <1>5 DEF Next

-----------------------------------------------------------------------------
(* Before a tear, every step keeps the frames due in a row.                *)

LEMMA LaidWriteHeader ==
    ASSUME PartInv, LaidInv, NEW w \in Writers, WriteHeader(w)
    PROVE  LaidInv'
<1>1. PICK len \in Lengths :
        LET f == [by |-> w, n |-> written[w] + 1, len |-> len] IN
        /\ writing[w] = <<>> /\ written[w] < MaxFrames
        /\ IF Refused(len)
           THEN UNCHANGED <<pipe, writing, history>>
           ELSE /\ pipe' = pipe \o Header(f)
                /\ writing' = [writing EXCEPT ![w] = Payload(f)]
                /\ Tear(Overlaps(w), Append(due, f)) /\ UNCHANGED wrong
        /\ UNCHANGED readVars
  BY DEF WriteHeader
<1> DEFINE f == [by |-> w, n |-> written[w] + 1, len |-> len]
<1>2. f \in Frames /\ f.len = len
  BY <1>1, NewFrame
<1>3. UNCHANGED <<part, have, size>>
  BY <1>1 DEF readVars
<1>4. CASE Refused(len)
  <2>1. UNCHANGED <<pipe, writing, due, torn, wrong>>
    BY <1>1, <1>4 DEF history
  <2> QED
    BY <1>3, <2>1 DEF LaidInv, Rest
<1>5. CASE ~Refused(len)
  <2> HIDE DEF f
  <2>1. /\ pipe' = pipe \o Header(f) /\ writing' = [writing EXCEPT ![w] = Payload(f)]
        /\ torn' = (torn \/ Overlaps(w)) /\ wrong' = wrong
        /\ due' = IF torn' THEN <<>> ELSE Append(due, f)
    BY <1>1, <1>5 DEF f, Tear
  <2>2. ~wrong'
    BY <2>1 DEF LaidInv
  <2> SUFFICES ASSUME ~torn'
               PROVE  /\ part' = "payload" => due' # <<>> /\ size' = due'[1].len
                      /\ \E todo : /\ Rest(todo)'
                                   /\ \E start : Laid((have' \o pipe') \o todo, start, due', part')
    BY <2>2 DEF LaidInv
  <2>3. ~torn /\ ~Overlaps(w) /\ due' = Append(due, f)
    BY <2>1
  <2>4. /\ pipe \in Seq(Units) /\ have \in Seq(Units) /\ due \in Seq(Frames)
        /\ writing \in [Writers -> Seq(Units)]
    BY DEF PartInv, WriteTypes, ReadTypes, DueTypes
  <2>5. \A v \in Writers : writing[v] = <<>>
    BY <1>1, <2>3 DEF Overlaps
  <2>6. PICK todo : Rest(todo) /\ \E start : Laid((have \o pipe) \o todo, start, due, part)
    BY <2>3 DEF LaidInv
  <2>7. todo = <<>>
    BY <2>5, <2>6 DEF Rest
  <2> DEFINE s == have \o pipe
  <2>8. s \in Seq(Units)
    BY <2>4, ConcatProperties
  <2>9. s \o todo = s
    BY <2>7, <2>8, ConcatEmptySeq
  <2>10. PICK start : Laid(s, start, due, part)
    BY <2>6, <2>9
  <2>11. f.len \in 1..MaxPayload
    <3>1. len \in Nat /\ len > 0 /\ MaxPayload \in Nat
      <4>1. Lengths \subseteq Nat \ {0} /\ MaxPayload \in Nat
        BY FrameBounds
      <4> QED
        BY <4>1
    <3>2. ~(len > MaxPayload)
      BY <1>5 DEF Refused, TooLarge
    <3> QED
      BY <1>2, <3>1, <3>2
  <2>12. Header(f) \in Seq(Units) /\ Payload(f) \in Seq(Units)
    BY <1>2, HeaderFacts, PayloadFacts
  <2>13. \E st : Laid((s \o Header(f)) \o Payload(f), st, Append(due, f), part)
    <3> HIDE DEF s
    <3> QED
      BY <1>2, <2>4, <2>8, <2>10, <2>11, LaidAppend
  <2>14. s \o Header(f) = have' \o pipe'
    <3>1. (have \o pipe) \o Header(f) = have \o (pipe \o Header(f))
      BY <2>4, <2>12, Associative
    <3> QED
      BY <1>3, <2>1, <3>1
  <2>18. PICK rest : rest = Payload(f)
    OBVIOUS
  <2>15. \E start1 : Laid((have' \o pipe') \o rest, start1, due', part')
    BY <1>3, <2>3, <2>13, <2>14, <2>18
  <2>16. Rest(rest)'
    <3>1. writing'[w] = rest /\ \A v \in Writers \ {w} : writing'[v] = <<>>
      BY <2>1, <2>4, <2>5, <2>18
    <3> QED
      BY <3>1 DEF Rest
  <2>17. part' = "payload" => due' # <<>> /\ size' = due'[1].len
    <3> SUFFICES ASSUME part' = "payload" PROVE due' # <<>> /\ size' = due'[1].len
      OBVIOUS
    <3>1. due # <<>> /\ size = due[1].len
      BY <1>3, <2>3 DEF LaidInv
    <3>2. Len(due) \in Nat \ {0}
      BY <2>4, <3>1, EmptySeq
    <3>3. 1 \in 1..Len(due)
      BY <3>2
    <3>4. Append(due, f) # <<>> /\ Append(due, f)[1] = due[1]
      BY <1>2, <2>4, <3>3, AppendProperties
    <3> QED
      BY <1>3, <2>3, <3>1, <3>4
  <2> QED
    BY <2>15, <2>16, <2>17
<1> QED
  BY <1>4, <1>5

LEMMA LaidWritePayload ==
    ASSUME PartInv, LaidInv, NEW w \in Writers, WritePayload(w)
    PROVE  LaidInv'
<1>1. PICK n \in 1 .. Len(writing[w]) :
        /\ pipe' = pipe \o SubSeq(writing[w], 1, n)
        /\ writing' = [writing EXCEPT ![w] = SubSeq(@, n + 1, Len(@))]
        /\ Tear(Overlaps(w), due)
        /\ UNCHANGED <<readVars, wrong>>
  BY DEF WritePayload
<1>2. /\ torn' = (torn \/ Overlaps(w)) /\ due' = IF torn' THEN <<>> ELSE due
      /\ UNCHANGED <<part, have, size, wrong>>
  BY <1>1 DEF Tear, readVars
<1>3. ~wrong'
  BY <1>2 DEF LaidInv
<1> SUFFICES ASSUME ~torn'
             PROVE  /\ part' = "payload" => due' # <<>> /\ size' = due'[1].len
                    /\ \E todo : /\ Rest(todo)'
                                 /\ \E start : Laid((have' \o pipe') \o todo, start, due', part')
  BY <1>3 DEF LaidInv
<1>4. ~torn /\ ~Overlaps(w) /\ due' = due
  BY <1>2
<1>5. /\ pipe \in Seq(Units) /\ have \in Seq(Units)
      /\ writing \in [Writers -> Seq(Units)] /\ writing[w] \in Seq(Units)
  BY DEF PartInv, WriteTypes, ReadTypes
<1>6. Len(writing[w]) \in Nat
  BY <1>5, LenProperties
<1> DEFINE cut == SubSeq(writing[w], 1, n)
<1>17. PICK rest : rest = SubSeq(writing[w], n + 1, Len(writing[w]))
  OBVIOUS
<1>7. cut \in Seq(Units) /\ rest \in Seq(Units) /\ cut \o rest = writing[w]
  <2>1. n \in 0 .. Len(writing[w])
    BY <1>6
  <2> QED
    BY <1>5, <1>17, <2>1, CutFacts
<1>8. pipe' = pipe \o cut /\ writing' = [writing EXCEPT ![w] = rest]
  BY <1>1, <1>17
<1> HIDE DEF cut
<1>9. writing[w] # <<>>
  <2> SUFFICES ASSUME writing[w] = <<>> PROVE FALSE
    OBVIOUS
  <2>1. Len(writing[w]) = 0
    OBVIOUS
  <2> QED
    BY <2>1
<1>10. \A v \in Writers \ {w} : writing[v] = <<>>
  BY <1>4 DEF Overlaps
<1>11. PICK todo : Rest(todo) /\ \E start : Laid((have \o pipe) \o todo, start, due, part)
  BY <1>4 DEF LaidInv
<1>12. todo = writing[w]
  BY <1>9, <1>11 DEF Rest
<1>13. (have' \o pipe') \o rest = (have \o pipe) \o todo
  <2>1. have \o (pipe \o cut) = (have \o pipe) \o cut
    BY <1>5, <1>7, Associative
  <2>2. have \o pipe \in Seq(Units)
    BY <1>5, ConcatProperties
  <2>3. ((have \o pipe) \o cut) \o rest = (have \o pipe) \o (cut \o rest)
    BY <1>7, <2>2, Associative
  <2> QED
    BY <1>2, <1>7, <1>8, <1>12, <2>1, <2>3
<1>14. Rest(rest)'
  <2>1. writing'[w] = rest /\ \A v \in Writers \ {w} : writing'[v] = <<>>
    BY <1>5, <1>8, <1>10
  <2> QED
    BY <2>1 DEF Rest
<1>15. \E start : Laid((have' \o pipe') \o rest, start, due', part')
  BY <1>2, <1>4, <1>11, <1>13
<1>16. part' = "payload" => due' # <<>> /\ size' = due'[1].len
  BY <1>2, <1>4 DEF LaidInv
<1> QED
  BY <1>14, <1>15, <1>16

\* What is left of the frames due once the units read of a part are its last.
LEMMA RowAt ==
    ASSUME PartInv, LaidInv, ~torn, reading, pipe # <<>>
    PROVE  \E todo \in Seq(Units) :
             /\ Rest(todo) /\ Left \o todo \in Seq(Units)
             /\ (Now \o Left) \o todo = Now \o (Left \o todo)
             /\ \E start : Laid(Now \o (Left \o todo), start, due, part)
<1>1. PICK todo : Rest(todo) /\ \E start : Laid((have \o pipe) \o todo, start, due, part)
  BY DEF LaidInv
<1>2. todo \in Seq(Units)
  <2>1. \A w \in Writers : writing[w] \in Seq(Units)
    BY DEF PartInv, WriteTypes
  <2>2. <<>> \in Seq(Units)
    BY EmptySeq
  <2> QED
    BY <1>1, <2>1, <2>2, Zenon DEF Rest
<1>3. Now \in Seq(Units) /\ Left \in Seq(Units) /\ Now \o Left = have \o pipe
  BY GotFacts
<1>4. (Now \o Left) \o todo = Now \o (Left \o todo)
  BY <1>2, <1>3, Associative
<1>5. Left \o todo \in Seq(Units)
  BY <1>2, <1>3, ConcatProperties
<1>6. \E start : Laid(Now \o (Left \o todo), start, due, part)
  BY <1>1, <1>3, <1>4
<1> QED
  BY <1>1, <1>2, <1>4, <1>5, <1>6

LEMMA LaidReadSome ==
    ASSUME PartInv, LaidInv, ReadSome
    PROVE  LaidInv'
<1>1. /\ reading /\ pipe # <<>> /\ pipe' = Left /\ writing' = writing
      /\ \/ Got = Wanted /\ part = "header" /\ HeaderRead(Now)
         \/ Got = Wanted /\ part = "payload" /\ PayloadRead(Now)
         \/ deadline = 0 /\ Return /\ Tear(TRUE, due) /\ UNCHANGED wrong
         \/ /\ Got # Wanted /\ deadline # 0
            /\ have' = Now /\ remaining' = Charged /\ waited' = 0
            /\ UNCHANGED <<reading, part, size, deadline, elapsed, allowed, history>>
  BY ReadSomeCases, Zenon DEF writeVars
<1>2. /\ Now \in Seq(Units) /\ Len(Now) = Len(have) + Got /\ Left \in Seq(Units)
  BY <1>1, GotFacts
<1>3. Wanted \in Nat /\ Len(have) \in Nat /\ size \in Nat
  BY <1>1, ReadFacts
<1>4. ~wrong /\ due \in Seq(Frames)
  BY DEF LaidInv, PartInv, DueTypes
<1>5. \A todo \in Seq(Units) : (<<>> \o Left) \o todo = Left \o todo
  <2>1. <<>> \o Left = Left
    BY <1>2, ConcatEmptySeq
  <2> QED
    BY <2>1
<1>6. ASSUME Got = Wanted, part = "header", HeaderRead(Now) PROVE LaidInv'
  <2>1. Len(Now) = HeaderUnits
    <3>1. HeaderUnits \in Nat
      BY FrameBounds
    <3> QED
      BY <1>2, <1>3, <1>6, <3>1 DEF Wanted
  <2>2. /\ due' = due /\ torn' = torn
        /\ wrong' = (wrong \/ ~Expected(Now, Header(Head(due))))
    BY <1>6 DEF HeaderRead
  <2>3. CASE torn
    BY <1>4, <2>2, <2>3 DEF LaidInv, Expected
  <2>4. CASE ~torn
    <3>1. PICK todo \in Seq(Units) :
             /\ Rest(todo) /\ Left \o todo \in Seq(Units)
             /\ \E start : Laid(Now \o (Left \o todo), start, due, "header")
      BY <1>1, <1>6, <2>4, RowAt
    <3>2. PICK start : Laid(Now \o (Left \o todo), start, due, "header")
      BY <3>1
    <3>3. /\ due # <<>> /\ Now = Header(due[1])
          /\ \E st : Laid(Left \o todo, st, due, "payload")
      BY <1>2, <1>4, <2>1, <3>1, <3>2, LaidHeader
    <3>4. due[1] \in Frames /\ due[1].len \in 1..MaxPayload
      <4>1. Len(due) \in Nat \ {0}
        BY <1>4, <3>3, EmptySeq
      <4>2. 1 \in 1..Len(due)
        BY <4>1
      <4>3. due[1].len \in 1..MaxPayload
        BY <3>2, <4>2 DEF Laid
      <4> QED
        BY <1>4, <4>2, <4>3, ElementOfSeq
    <3>5. ~wrong'
      <4>1. Head(due) = due[1]
        BY <1>4, <3>3
      <4> QED
        BY <1>4, <2>2, <3>3, <4>1 DEF Expected
    <3>6. LengthsOf(Now) = {due[1].len}
      <4>1. 1 \in DOMAIN Now /\ Now[1].frame = due[1]
        <5>1. HeaderUnits \in Nat /\ HeaderUnits > 0
          BY FrameBounds
        <5>2. 1 \in 1..HeaderUnits
          BY <5>1
        <5>3. Now[1] = [frame |-> due[1], part |-> "header", at |-> 1]
          BY <3>3, <3>4, <5>2, HeaderFacts
        <5>4. DOMAIN Now = 1..HeaderUnits
          BY <1>2, <2>1, LenProperties
        <5> QED
          BY <5>2, <5>3, <5>4
      <4>2. IsHeader(Now)
        BY <3>3, <4>1, Zenon DEF IsHeader
      <4> QED
        BY <4>1, <4>2 DEF LengthsOf
    <3>7. \E n \in LengthsOf(Now) :
               \/ (TooLarge(n) \/ n = 0) /\ Return
               \/ /\ n > 0 /\ ~TooLarge(n)
                  /\ Part("payload", PayloadDeadline) /\ size' = n
      BY <1>6 DEF HeaderRead
    <3>8. MaxPayload \in Nat
      BY FrameBounds
    <3>9. ~TooLarge(due[1].len) /\ due[1].len # 0
      BY <3>4, <3>8 DEF TooLarge
    <3>10. part' = "payload" /\ have' = <<>> /\ size' = due[1].len
      BY <3>6, <3>7, <3>9, Zenon DEF Part
    <3>11. \E start1 : Laid((have' \o pipe') \o todo, start1, due', part')
      <4>1. (have' \o pipe') \o todo = Left \o todo
        BY <1>1, <1>5, <3>10
      <4> QED
        BY <2>2, <3>3, <3>10, <4>1
    <3>12. Rest(todo)'
      BY <1>1, <3>1 DEF Rest
    <3> QED
      BY <2>2, <3>3, <3>5, <3>10, <3>11, <3>12, Zenon DEF LaidInv
  <2> QED
    BY <2>3, <2>4
<1>7. ASSUME Got = Wanted, part = "payload", PayloadRead(Now) PROVE LaidInv'
  <2>1. Len(Now) = size
    BY <1>2, <1>3, <1>7 DEF Wanted
  <2>2. /\ Return /\ torn' = torn
        /\ wrong' = (wrong \/ ~Expected(Now, Payload(Head(due))))
        /\ due' = (IF due = <<>> THEN due ELSE Tail(due))
    BY <1>7 DEF PayloadRead
  <2>3. part' = "header" /\ have' = <<>>
    BY <2>2, ReturnReads
  <2>4. CASE torn
    BY <1>4, <2>2, <2>4 DEF LaidInv, Expected
  <2>5. CASE ~torn
    <3>1. due # <<>> /\ size = due[1].len
      BY <1>7, <2>5 DEF LaidInv
    <3>2. PICK todo \in Seq(Units) :
             /\ Rest(todo) /\ Left \o todo \in Seq(Units)
             /\ \E start : Laid(Now \o (Left \o todo), start, due, "payload")
      BY <1>1, <1>7, <2>5, RowAt
    <3>3. PICK start : Laid(Now \o (Left \o todo), start, due, "payload")
      BY <3>2
    <3>4. /\ Now = Payload(due[1]) /\ \E st : Laid(Left \o todo, st, Tail(due), "header")
      BY <1>2, <1>4, <2>1, <3>1, <3>2, <3>3, LaidPayload
    <3>5. ~wrong'
      <4>1. Head(due) = due[1]
        BY <1>4, <3>1
      <4> QED
        BY <1>4, <2>2, <3>1, <3>4, <4>1 DEF Expected
    <3>6. \E start1 : Laid((have' \o pipe') \o todo, start1, due', part')
      <4>1. (have' \o pipe') \o todo = Left \o todo
        BY <1>1, <1>5, <2>3
      <4> QED
        BY <2>2, <2>3, <3>1, <3>4, <4>1
    <3>7. Rest(todo)'
      BY <1>1, <3>2 DEF Rest
    <3>8. part' # "payload"
      BY <2>3
    <3> QED
      BY <3>5, <3>6, <3>7, <3>8, Zenon DEF LaidInv
  <2> QED
    BY <2>4, <2>5
<1>8. ASSUME Tear(TRUE, due), UNCHANGED wrong PROVE LaidInv'
  BY <1>4, <1>8 DEF LaidInv, Tear
<1>9. ASSUME have' = Now, UNCHANGED <<part, size, history>> PROVE LaidInv'
  <2>1. UNCHANGED <<due, torn, wrong>>
    BY <1>9 DEF history
  <2>2. CASE torn
    BY <1>4, <2>1, <2>2 DEF LaidInv
  <2>3. CASE ~torn
    <3>1. PICK todo \in Seq(Units) :
             /\ Rest(todo)
             /\ (Now \o Left) \o todo = Now \o (Left \o todo)
             /\ \E start : Laid(Now \o (Left \o todo), start, due, part)
      BY <1>1, <2>3, RowAt
    <3>2. \E start : Laid((have' \o pipe') \o todo, start, due', part')
      BY <1>1, <1>9, <2>1, <3>1
    <3>3. Rest(todo)'
      BY <1>1, <3>1 DEF Rest
    <3>4. part' = "payload" => due' # <<>> /\ size' = due'[1].len
      BY <1>9, <2>1, <2>3 DEF LaidInv
    <3> QED
      BY <1>4, <2>1, <3>2, <3>3, <3>4, Zenon DEF LaidInv
  <2> QED
    BY <2>2, <2>3
<1> QED
  BY <1>1, <1>6, <1>7, <1>8, <1>9, Zenon

\* a read begins, or ends before a byte of a frame is read
LEMMA LaidOutside ==
    ASSUME LaidInv, part = "header", have = <<>>, part' = "header", have' = <<>>,
           UNCHANGED <<pipe, writing, due, torn, wrong>>
    PROVE  LaidInv'
<1>1. part' # "payload"
  OBVIOUS
<1>2. ~torn => \E todo : Rest(todo)' /\ \E start : Laid((have' \o pipe') \o todo, start, due', part')
  BY DEF LaidInv, Rest
<1> QED
  BY <1>1, <1>2, Zenon DEF LaidInv

LEMMA LaidTimeOut ==
    ASSUME PartInv, LaidInv, TimeOut
    PROVE  LaidInv'
<1>1. /\ Return /\ torn' = (torn \/ InFrame(have)) /\ due' = IF torn' THEN <<>> ELSE due
      /\ UNCHANGED <<pipe, writing, wrong>>
  BY DEF TimeOut, Tear, writeVars
<1>2. ~wrong'
  BY <1>1 DEF LaidInv
<1>3. CASE torn'
  BY <1>2, <1>3 DEF LaidInv
<1>4. CASE ~torn'
  <2>1. ~torn /\ ~InFrame(have) /\ due' = due /\ torn' = torn
    BY <1>1, <1>4 DEF PartInv, DueTypes
  <2>2. part = "header" /\ have = <<>>
    BY <2>1 DEF InFrame, PartInv, ReadTypes
  <2>3. part' = "header" /\ have' = <<>>
    BY <1>1, ReturnReads
  <2> QED
    BY <1>1, <2>1, <2>2, <2>3, LaidOutside
<1> QED
  BY <1>3, <1>4

LEMMA LaidNext ==
    ASSUME PartInv, LaidInv, [Next]_vars
    PROVE  LaidInv'
<1>1. ASSUME UNCHANGED <<pipe, writing, part, have, size, due, torn, wrong>> PROVE LaidInv'
  BY <1>1 DEF LaidInv, Rest
<1>2. CASE UNCHANGED vars
  BY <1>1, <1>2 DEF vars, writeVars, readVars, history
<1>3. CASE Tick
  BY <1>1, <1>3 DEF Tick, writeVars, history
<1>4. CASE BeginRead
  <2>1. ~reading /\ UNCHANGED <<pipe, writing, due, torn, wrong>>
    BY <1>4 DEF BeginRead, writeVars, history
  <2>2. part = "header" /\ have = <<>>
    BY <2>1 DEF PartInv, ReadTypes
  <2>3. part' = "header" /\ have' = <<>>
    BY <1>4 DEF BeginRead, Part
  <2> QED
    BY <2>1, <2>2, <2>3, LaidOutside
<1> QED
  BY <1>2, <1>3, <1>4, LaidWriteHeader, LaidWritePayload, LaidReadSome, LaidTimeOut DEF Next

-----------------------------------------------------------------------------
(* Theorems.                                                               *)

LEMMA FrameInit == Init => FrameInv
<1> SUFFICES ASSUME Init PROVE FrameInv
  OBVIOUS
<1>1. HeaderUnits \in Nat /\ HeaderUnits > 0 /\ PipeCap \in Nat /\ MaxPayload \in Nat /\ MaxFrames \in Nat
  BY FrameBounds
<1>2. WriteTypes
  <2>1. pipe = <<>> /\ pipe \in Seq(Units) /\ Len(pipe) <= PipeCap
    BY <1>1 DEF Init
  <2>2. writing \in [Writers -> Seq(Units)] /\ \A w \in Writers : Len(writing[w]) <= MaxPayload
    BY <1>1 DEF Init
  <2>3. written \in [Writers -> 0..MaxFrames]
    BY <1>1 DEF Init
  <2> QED
    BY <2>1, <2>2, <2>3 DEF WriteTypes
<1>3. /\ reading = FALSE /\ part = "header" /\ have = <<>> /\ size = 0 /\ deadline = 0
      /\ remaining = 0 /\ waited = 0 /\ elapsed = 0 /\ allowed = 0
      /\ due = <<>> /\ torn = FALSE /\ wrong = FALSE /\ pipe = <<>>
  BY DEF Init
<1>4. ReadTypes
  <2>1. have \in Seq(Units)
    BY <1>3
  <2>2. remaining \in 0..deadline /\ waited \in 0..remaining /\ elapsed \in Nat
    BY <1>3
  <2>3. part # "payload" /\ reading \in BOOLEAN /\ part \in {"header", "payload"}
    BY <1>3
  <2> QED
    BY <1>3, <2>1, <2>2, <2>3, Zenon DEF ReadTypes
<1>5. DueTypes
  <2>1. due \in Seq(Frames)
    BY <1>3
  <2> QED
    BY <1>3, <2>1, Zenon DEF DueTypes
<1>6. TimeInv
  BY <1>3 DEF TimeInv
<1>7. LaidInv
  <2>1. Rest(<<>>)
    BY DEF Rest, Init
  <2>2. (have \o pipe) \o <<>> = <<>>
    BY <1>3
  <2> DEFINE e == <<>>
  <2>3. Laid(e, [k \in 1..1 |-> 1], <<>>, "header")
    <3> DEFINE start == [k \in 1..1 |-> 1]
    <3>1. Len(e) = 0 /\ start \in [1 .. 0 + 1 -> Int] /\ start[1] = 1 /\ start[0 + 1] = 0 + 1
      OBVIOUS
    <3>2. Front("header") = 1
      BY DEF Front
    <3>3. \A k \in 1..0 : FALSE
      OBVIOUS
    <3> HIDE DEF start
    <3>4. Laid(e, start, <<>>, "header")
      BY <3>1, <3>2, <3>3 DEF Laid
    <3> QED
      BY <3>4 DEF start
  <2>4. \E start : Laid((have \o pipe) \o <<>>, start, due, part)
    BY <1>3, <2>2, <2>3
  <2>5. part # "payload"
    BY <1>3
  <2> QED
    BY <1>3, <2>1, <2>4, <2>5, Zenon DEF LaidInv
<1> QED
  BY <1>2, <1>4, <1>5, <1>6, <1>7 DEF FrameInv, PartInv

\* The invariant holds in every reachable state.
THEOREM FrameInvariant == Spec => []FrameInv
<1>1. FrameInv /\ [Next]_vars => FrameInv'
  BY PartNext, TimeNext, LaidNext DEF FrameInv
<1> QED
  BY <1>1, FrameInit, PTL DEF Spec

\* Types: nothing over FRAME_MAX_PAYLOAD is written by frame_write or waited for by
\* frame_read, and read_all_deadline always wants at least what it says (native_frame.c:136, 206).
THEOREM FrameTypes == Spec => []TypeOK
<1>1. PartInv => TypeOK
  <2> SUFFICES ASSUME PartInv PROVE TypeOK
    OBVIOUS
  <2>1. /\ pipe \in Seq(Units) /\ Len(pipe) <= PipeCap
        /\ \A w \in Writers : writing[w] \in Seq(Units) /\ Len(writing[w]) <= MaxPayload
        /\ written \in [Writers -> 0..MaxFrames]
    BY DEF PartInv, WriteTypes
  <2>2. /\ reading \in BOOLEAN /\ part \in {"header", "payload"} /\ have \in Seq(Units)
        /\ remaining \in 0..deadline /\ waited \in 0..remaining /\ elapsed \in Nat
    BY DEF PartInv, ReadTypes
  <2>3. due \in Seq(Frames) /\ torn \in BOOLEAN /\ wrong \in BOOLEAN
    BY DEF PartInv, DueTypes
  <2>4. Wanted >= 0 /\ size \in 0..MaxPayload /\ deadline \in Nat /\ allowed \in Nat
    <3>1. HeaderUnits \in Nat /\ MaxPayload \in Nat
      BY FrameBounds
    <3>2. CASE reading
      <4>1. Wanted \in Nat /\ deadline \in Nat /\ allowed \in Nat
        BY <3>2, ReadFacts
      <4>2. size \in 0..MaxPayload
        <5>1. size = 0 \/ size \in 1..MaxPayload
          BY <3>2 DEF PartInv, ReadTypes
        <5> QED
          BY <3>1, <5>1
      <4> QED
        BY <4>1, <4>2
    <3>3. CASE ~reading
      <4>1. part = "header" /\ have = <<>> /\ size = 0 /\ deadline = 0 /\ allowed = 0
        BY <3>3 DEF PartInv, ReadTypes
      <4>2. Wanted = HeaderUnits
        BY <3>1, <4>1 DEF Wanted
      <4> QED
        BY <3>1, <4>1, <4>2
    <3> QED
      BY <3>2, <3>3
  <2> QED
    BY <2>1, <2>2, <2>3, <2>4 DEF TypeOK
<1> QED
  BY <1>1, FrameInvariant, PTL DEF FrameInv

\* Until two threads are in frame_write at once or a read gives up in a frame, every header
\* and payload that frame_read returns is that of the frame due, whole and in order, for
\* every number of writers, any lengths and any cut of the stream by write(2) and read(2).
THEOREM FramesWhole == Spec => []FramesAreIntact
<1>1. FrameInv => FramesAreIntact
  BY DEF FrameInv, LaidInv, FramesAreIntact
<1> QED
  BY <1>1, FrameInvariant, PTL

\* However slowly the bytes come, frame_read returns within the square of its deadline:
\* read_all_deadline charges a tick for each read, and the polls between them wait at
\* most for what remains.
THEOREM ReadsAreBounded == Spec => []ReadsEnd
<1>1. PartInv /\ TimeInv => ReadsEnd
  <2> SUFFICES ASSUME PartInv, TimeInv PROVE ReadsEnd
    OBVIOUS
  <2>1. CASE reading
    <3>1. 2 * elapsed <= Budget /\ Budget \in Int /\ Budget <= 2 * (allowed * allowed)
      BY <2>1, TimeBound, BudgetFacts
    <3>2. elapsed \in Nat /\ allowed \in Nat
      BY <2>1, ReadFacts
    <3> DEFINE q == allowed * allowed
    <3>3. q \in Nat
      BY <3>2
    <3>4. Budget <= 2 * q
      BY <3>1
    <3> HIDE DEF q
    <3>5. elapsed <= q
      BY <3>1, <3>2, <3>3, <3>4
    <3> QED
      BY <3>5 DEF ReadsEnd, q
  <2>2. CASE ~reading
    <3>1. elapsed = 0 /\ allowed = 0
      BY <2>2 DEF PartInv, ReadTypes
    <3> QED
      BY <3>1 DEF ReadsEnd
  <2> QED
    BY <2>1, <2>2
<1> QED
  BY <1>1, FrameInvariant, PTL DEF FrameInv


=============================================================================
