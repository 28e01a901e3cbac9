------------------------ MODULE ManagedConfig_proofs ------------------------
(***************************************************************************)
(* --install and --disable, proved for every file, every edit and every     *)
(* number of operations: one block or none, what is the user's is kept, and *)
(* a fault at one point of an operation leaves it in the file or its backup. *)
(***************************************************************************)
EXTENDS ManagedConfig, SequenceTheorems, FiniteSetTheorems, WellFoundedInduction, TLAPS

-----------------------------------------------------------------------------
(* Induction over the items of a file.                                      *)

\* A nonempty set of natural numbers has a least element.
LEMMA Least ==
    ASSUME NEW S, S \subseteq Nat, S # {}
    PROVE  \E x \in S : \A y \in S : x <= y
<1>1. PICK x \in S : \A y \in S : ~(<<y, x>> \in OpToRel(<, Nat))
  BY NatLessThanWellFounded, WFMin
<1>2. \A y \in S : ~(y < x)
  BY <1>1 DEF OpToRel
<1> QED BY <1>2

\* What holds of i as soon as it holds of all positions behind i holds of all.
LEMMA Backwards ==
    ASSUME NEW n \in Nat, NEW S, \A i \in 1..n : (\A j \in i + 1..n : j \in S) => i \in S
    PROVE  1..n \subseteq S
<1> SUFFICES ASSUME (1..n) \ S # {} PROVE FALSE
  OBVIOUS
<1> DEFINE D == {n - i : i \in (1..n) \ S}
<1>1. D \subseteq Nat /\ D # {}
  OBVIOUS
<1>2. PICK d \in D : \A e \in D : d <= e
  <2> HIDE DEF D
  <2> QED BY <1>1, Least
<1>3. PICK i \in (1..n) \ S : d = n - i
  BY <1>2
<1>4. \A j \in i + 1..n : j \in S
  <2> TAKE j \in i + 1..n
  <2>1. j \in 1..n /\ ~(d <= n - j)
    BY <1>3
  <2>2. n - j \notin D
    BY <1>2, <2>1
  <2> QED BY <2>1, <2>2
<1> QED BY <1>3, <1>4

\* From is the first position, from i on, of an item of S.
LEMMA FirstFrom ==
    ASSUME NEW t, Len(t) \in Nat, NEW i \in Nat \ {0}, NEW S
    PROVE  \/ From(t, i, S) = 0 /\ \A j \in i..Len(t) : t[j] \notin S
           \/ /\ From(t, i, S) \in i..Len(t) /\ t[From(t, i, S)] \in S
              /\ \A j \in i..(From(t, i, S) - 1) : t[j] \notin S
<1> DEFINE I == {j \in i..Len(t) : t[j] \in S}
<1>1. From(t, i, S) = IF I # {} THEN Min(I) ELSE 0
  BY DEF From, SelectInSubSeq
<1>2. CASE I = {}
  BY <1>1, <1>2
<1>3. CASE I # {}
  <2>1. I \subseteq Nat
    OBVIOUS
  <2>2. \E x \in I : \A y \in I : x <= y
    <3> HIDE DEF I
    <3> QED BY <1>3, <2>1, Least
  <2>3. Min(I) \in I /\ \A y \in I : Min(I) <= y
    BY <2>2 DEF Min
  <2>4. \A j \in i..(Min(I) - 1) : t[j] \notin S
    BY <2>3
  <2>5. Min(I) \in i..Len(t) /\ t[Min(I)] \in S
    BY <2>3
  <2>6. From(t, i, S) = Min(I)
    BY <1>1, <1>3
  <2> QED BY <2>4, <2>5, <2>6
<1> QED BY <1>2, <1>3

-----------------------------------------------------------------------------
(* remove_all_managed_sections, as a loop over the items.                   *)

\* What is kept from item i on, if r is what is kept from each later item on.
Rest(t, r, i) ==
    LET begin == From(t, i, Begins)
        end   == IF begin = 0 THEN 0 ELSE From(t, begin, Ends)
    IN  IF end = 0 THEN SubSeq(t, i, Len(t))
                   ELSE SubSeq(t, i, begin - 1) \o r[end + 1]

\* The loop only looks ahead.
LEMMA RestLooksAhead ==
    ASSUME NEW t, Len(t) \in Nat, NEW i \in 1..Len(t) + 1, NEW r, NEW s,
           \A j \in i + 1..Len(t) + 1 : r[j] = s[j]
    PROVE  Rest(t, r, i) = Rest(t, s, i)
<1> DEFINE begin == From(t, i, Begins)
           end   == IF begin = 0 THEN 0 ELSE From(t, begin, Ends)
<1>1. begin = 0 \/ begin \in i..Len(t)
  BY FirstFrom
<1>2. end = 0 \/ end \in i..Len(t)
  <2>1. begin # 0 => From(t, begin, Ends) = 0 \/ From(t, begin, Ends) \in begin..Len(t)
    <3> HIDE DEF begin
    <3> QED BY <1>1, FirstFrom
  <2> HIDE DEF begin
  <2> QED BY <1>1, <2>1
<1>3. end # 0 => r[end + 1] = s[end + 1]
  <2> HIDE DEF end
  <2> QED BY <1>2
<1> QED BY <1>3 DEF Rest

\* From any item on there is a function that the loop computes.
LEMMA RestExists ==
    ASSUME NEW t, Len(t) \in Nat
    PROVE  \E r : r = [i \in 1..Len(t) + 1 |-> Rest(t, r, i)]
<1> DEFINE n == Len(t) + 1
           S == {m \in 1..n : \E r : r = [i \in m..n |-> Rest(t, r, i)]}
<1>0. n \in Nat /\ 1 \in 1..n
  OBVIOUS
<1>1. ASSUME NEW m \in 1..n, \A j \in m + 1..n : j \in S
      PROVE  m \in S
  <2>1. PICK r : \A i \in m + 1..n : r[i] = Rest(t, r, i)
    <3>1. CASE m = n
      BY <3>1
    <3>2. CASE m # n
      <4>1. m + 1 \in S
        BY <1>1, <3>2
      <4> QED BY <4>1
    <3> QED BY <3>1, <3>2
  <2> DEFINE s == [i \in m..n |-> IF i = m THEN Rest(t, r, m) ELSE r[i]]
  <2>2. \A i \in m + 1..n : s[i] = r[i]
    OBVIOUS
  <2>3. \A i \in m..n : Rest(t, s, i) = Rest(t, r, i)
    <3> TAKE i \in m..n
    <3>1. \A j \in i + 1..n : s[j] = r[j] /\ i \in 1..n
      BY <2>2
    <3> HIDE DEF s
    <3> QED BY <3>1, RestLooksAhead
  <2>4. \A i \in m..n : s[i] = Rest(t, s, i)
    BY <2>1, <2>3
  <2>5. s = [i \in m..n |-> s[i]]
    OBVIOUS
  <2>6. s = [i \in m..n |-> Rest(t, s, i)]
    <3> HIDE DEF s
    <3> QED BY <2>4, <2>5
  <2> QED BY <2>6
<1>2. 1..n \subseteq S
  <2> HIDE DEF S, n
  <2> QED BY <1>0, <1>1, Backwards
<1> QED BY <1>0, <1>2

\* StrippedFrom is that function.
LEMMA StrippedLoop ==
    ASSUME NEW t, Len(t) \in Nat, NEW i \in 1..Len(t) + 1
    PROVE  StrippedFrom(t)[i] = Rest(t, StrippedFrom(t), i)
<1> DEFINE Fits(r) == r = [j \in 1..Len(t) + 1 |-> Rest(t, r, j)]
<1>1. StrippedFrom(t) = CHOOSE r : Fits(r)
  BY DEF StrippedFrom, Rest
<1>2. \E r : Fits(r)
  BY RestExists
<1>3. Fits(StrippedFrom(t))
  <2> HIDE DEF Fits
  <2> QED BY <1>1, <1>2
<1> QED BY <1>3

\* From item i on no block begins, or one begins that does not end.
NoBlock(t, i) ==
    \/ \A j \in i..Len(t) : t[j] \notin Begins
    \/ \E b \in i..Len(t) : /\ t[b] \in Begins /\ \A j \in i..b - 1 : t[j] \notin Begins
                            /\ \A j \in b..Len(t) : t[j] \notin Ends

\* The first block from item i on is from b to e.
FirstBlock(t, i, b, e) ==
    /\ t[b] \in Begins /\ \A j \in i..b - 1 : t[j] \notin Begins
    /\ t[e] \in Ends /\ \A j \in b..e - 1 : t[j] \notin Ends

\* All is kept, or what is before the first block and what is kept behind it.
LEMMA StrippedCases ==
    ASSUME NEW t, Len(t) \in Nat, NEW i \in 1..Len(t) + 1
    PROVE  \/ NoBlock(t, i) /\ StrippedFrom(t)[i] = SubSeq(t, i, Len(t))
           \/ \E b \in i..Len(t) : \E e \in b..Len(t) :
                 /\ FirstBlock(t, i, b, e)
                 /\ StrippedFrom(t)[i] = SubSeq(t, i, b - 1) \o StrippedFrom(t)[e + 1]
<1> DEFINE R     == StrippedFrom(t)
           begin == From(t, i, Begins)
           end   == From(t, begin, Ends)
<1>1. R[i] = IF begin = 0 \/ end = 0 THEN SubSeq(t, i, Len(t))
                                     ELSE SubSeq(t, i, begin - 1) \o R[end + 1]
  BY StrippedLoop DEF Rest
<1>2. \/ begin = 0 /\ \A j \in i..Len(t) : t[j] \notin Begins
      \/ /\ begin \in i..Len(t) /\ t[begin] \in Begins
         /\ \A j \in i..begin - 1 : t[j] \notin Begins
  BY FirstFrom
<1> HIDE DEF R, begin
<1>3. CASE begin = 0
  <2>1. R[i] = SubSeq(t, i, Len(t))
    BY <1>1, <1>3
  <2>2. NoBlock(t, i)
    BY <1>2, <1>3 DEF NoBlock
  <2> QED BY <2>1, <2>2 DEF R
<1>4. CASE begin # 0
  <2>1. \/ end = 0 /\ \A j \in begin..Len(t) : t[j] \notin Ends
        \/ /\ end \in begin..Len(t) /\ t[end] \in Ends
           /\ \A j \in begin..end - 1 : t[j] \notin Ends
    BY <1>2, <1>4, FirstFrom
  <2> HIDE DEF end
  <2>2. CASE end = 0
    <3>1. R[i] = SubSeq(t, i, Len(t))
      BY <1>1, <2>2
    <3>2. \A j \in begin..Len(t) : t[j] \notin Ends
      BY <1>2, <1>4, <2>1, <2>2
    <3>3. NoBlock(t, i)
      BY <1>2, <1>4, <3>2 DEF NoBlock
    <3> QED BY <3>1, <3>3 DEF R
  <2>3. CASE end # 0
    <3>1. begin \in i..Len(t) /\ end \in begin..Len(t) /\ FirstBlock(t, i, begin, end)
      BY <1>2, <1>4, <2>1, <2>3 DEF FirstBlock
    <3>2. R[i] = SubSeq(t, i, begin - 1) \o R[end + 1]
      BY <1>1, <1>4, <2>3
    <3> QED BY <3>1, <3>2 DEF R
  <2> QED BY <2>2, <2>3
<1> QED BY <1>3, <1>4

-----------------------------------------------------------------------------
(* What remove_all_managed_sections keeps.                                  *)

\* A file's parts are files.
LEMMA PartIsFile ==
    ASSUME NEW t \in Seq(Items), NEW i \in 1..Len(t) + 1, NEW j \in (i - 1)..Len(t)
    PROVE  /\ SubSeq(t, i, j) \in Seq(Items)
           /\ Len(SubSeq(t, i, j)) = j - i + 1
           /\ \A k \in 1..(j - i + 1) : SubSeq(t, i, j)[k] = t[i + k - 1]
  BY SubSeqProperties

LEMMA JoinIsFile ==
    ASSUME NEW s \in Seq(Items), NEW t \in Seq(Items)
    PROVE  /\ s \o t \in Seq(Items)
           /\ Len(s \o t) = Len(s) + Len(t)
           /\ \A k \in 1..Len(s) : (s \o t)[k] = s[k]
           /\ \A k \in 1..Len(t) : (s \o t)[Len(s) + k] = t[k]
  BY ConcatProperties

\* Stripping keeps items, in a file.
LEMMA StrippedIsFile ==
    ASSUME NEW t \in Seq(Items)
    PROVE  \A i \in 1..Len(t) + 1 : StrippedFrom(t)[i] \in Seq(Items)
<1> DEFINE n == Len(t) + 1
           S == {i \in 1..n : StrippedFrom(t)[i] \in Seq(Items)}
<1>0. Len(t) \in Nat /\ n \in Nat
  OBVIOUS
<1>1. ASSUME NEW i \in 1..n, \A j \in i + 1..n : j \in S
      PROVE  i \in S
  <2>1. CASE StrippedFrom(t)[i] = SubSeq(t, i, Len(t))
    <3>1. SubSeq(t, i, Len(t)) \in Seq(Items)
      BY PartIsFile
    <3> QED BY <2>1, <3>1
  <2>2. ASSUME NEW b \in i..Len(t), NEW e \in b..Len(t),
               StrippedFrom(t)[i] = SubSeq(t, i, b - 1) \o StrippedFrom(t)[e + 1]
        PROVE  i \in S
    <3>1. SubSeq(t, i, b - 1) \in Seq(Items)
      BY PartIsFile
    <3>2. e + 1 \in S
      BY <1>1
    <3> QED BY <2>2, <3>1, <3>2, JoinIsFile
  <2> QED BY <1>0, <2>1, <2>2, StrippedCases
<1>2. 1..n \subseteq S
  <2> HIDE DEF S, n
  <2> QED BY <1>0, <1>1, Backwards
<1> QED BY <1>2

\* From item i on, whatever begins ends, and whatever ends has begun.
Matched(t, i) ==
    \A k \in i..Len(t) :
        /\ t[k] \in Begins => \E e \in k..Len(t) : t[e] \in Ends
        /\ t[k] \in Ends => \E b \in i..k : t[b] \in Begins /\ \A e \in b..k - 1 : t[e] \notin Ends
Whole(t) == Matched(t, 1)

Unmarked(t) == \A k \in 1..Len(t) : t[k] \notin Markers

\* What stripping keeps of a whole file has no marker.
LEMMA StrippedUnmarked ==
    ASSUME NEW t \in Seq(Items), Whole(t)
    PROVE  Unmarked(Stripped(t))
<1> DEFINE n == Len(t) + 1
           R == StrippedFrom(t)
           S == {i \in 1..n : Matched(t, i) => Unmarked(R[i])}
<1>0. Len(t) \in Nat /\ n \in Nat /\ 1 \in 1..n
  OBVIOUS
<1>1. ASSUME NEW i \in 1..n, \A j \in i + 1..n : j \in S
      PROVE  i \in S
  <2> SUFFICES ASSUME Matched(t, i) PROVE Unmarked(R[i])
    OBVIOUS
  <2>1. ASSUME NoBlock(t, i), R[i] = SubSeq(t, i, Len(t))
        PROVE  Unmarked(R[i])
    <3>1. \A j \in i..Len(t) : t[j] \notin Begins
      BY <2>1 DEF NoBlock, Matched
    <3>2. \A j \in i..Len(t) : t[j] \notin Markers
      BY <3>1 DEF Matched, Markers
    <3>3. \A k \in 1..Len(R[i]) : R[i][k] = t[i + k - 1] /\ i + k - 1 \in i..Len(t)
      BY <2>1, PartIsFile
    <3> QED BY <3>2, <3>3 DEF Unmarked
  <2>2. ASSUME NEW b \in i..Len(t), NEW e \in b..Len(t), FirstBlock(t, i, b, e),
               R[i] = SubSeq(t, i, b - 1) \o R[e + 1]
        PROVE  Unmarked(R[i])
    <3>0. t[e] \in Ends /\ \A j \in i..b - 1 : t[j] \notin Begins
      BY <2>2 DEF FirstBlock
    <3> DEFINE u == SubSeq(t, i, b - 1)
    <3>1. u \in Seq(Items) /\ Len(u) = b - i /\ \A k \in 1..b - i : u[k] = t[i + k - 1]
      BY PartIsFile
    <3>2. \A j \in i..b - 1 : t[j] \notin Markers
      BY <3>0 DEF Matched, Markers
    <3>3. ASSUME NEW k \in 1..Len(u) PROVE u[k] \notin Markers
      <4> HIDE DEF u, S, R, n
      <4>1. k \in 1..b - i /\ i + k - 1 \in i..b - 1
        BY <3>1
      <4> QED BY <3>1, <3>2, <4>1
    <3>4. Matched(t, e + 1)
      <4> SUFFICES ASSUME NEW k \in e + 1..Len(t), t[k] \in Ends
                   PROVE  \E c \in e + 1..k : t[c] \in Begins /\ \A d \in c..k - 1 : t[d] \notin Ends
        BY DEF Matched
      <4>1. PICK c \in i..k : t[c] \in Begins /\ \A d \in c..k - 1 : t[d] \notin Ends
        BY DEF Matched
      <4>2. ~(c <= e)
        BY <3>0, <4>1
      <4> QED BY <4>1, <4>2
    <3>5. Unmarked(R[e + 1]) /\ R[e + 1] \in Seq(Items)
      <4>1. e + 1 \in S
        BY <1>1
      <4> QED BY <3>4, <4>1, StrippedIsFile
    <3> HIDE DEF u, R
    <3>6. \A k \in 1..Len(u \o R[e + 1]) : (u \o R[e + 1])[k] \notin Markers
      <4>1. /\ Len(u \o R[e + 1]) = Len(u) + Len(R[e + 1])
            /\ \A k \in 1..Len(u) : (u \o R[e + 1])[k] = u[k]
            /\ \A k \in 1..Len(R[e + 1]) : (u \o R[e + 1])[Len(u) + k] = R[e + 1][k]
        BY <3>1, <3>5, JoinIsFile
      <4> TAKE k \in 1..Len(u \o R[e + 1])
      <4>2. CASE k <= Len(u)
        BY <3>1, <3>3, <4>1, <4>2
      <4>3. CASE ~(k <= Len(u))
        <5>1. k - Len(u) \in 1..Len(R[e + 1]) /\ k = Len(u) + (k - Len(u))
          BY <3>1, <3>5, <4>1, <4>3
        <5> QED BY <3>5, <4>1, <5>1 DEF Unmarked
      <4> QED BY <4>2, <4>3
    <3> QED BY <2>2, <3>6 DEF u, Unmarked
  <2> QED BY <1>0, <2>1, <2>2, StrippedCases
<1>2. 1..n \subseteq S
  <2> HIDE DEF S, n
  <2> QED BY <1>0, <1>1, Backwards
<1> QED BY <1>0, <1>2 DEF Whole, Stripped

\* From item i to item k, whatever begins ends.
Closed(t, i, k) == \A b \in i..k : t[b] \in Begins => \E e \in b..k : t[e] \in Ends

\* x is in t, and nothing begins up to there.
AtFront(t, x) == \E p \in 1..Len(t) : t[p] = x /\ \A q \in 1..p : t[q] \notin Begins

\* What is the user's and outside every block is kept, before whatever begins.
LEMMA StrippedKeeps ==
    ASSUME NEW t \in Seq(Items), NEW x \in Outside(t)
    PROVE  AtFront(Stripped(t), x)
<1> DEFINE n == Len(t) + 1
           R == StrippedFrom(t)
           S == {i \in 1..n : \A k \in i..Len(t) : t[k] \in Theirs /\ Closed(t, i, k) => AtFront(R[i], t[k])}
<1>0. Len(t) \in Nat /\ n \in Nat /\ 1 \in 1..n
  OBVIOUS
<1>1. ASSUME NEW i \in 1..n, \A j \in i + 1..n : j \in S
      PROVE  i \in S
  <2> SUFFICES ASSUME NEW k \in i..Len(t), t[k] \in Theirs, Closed(t, i, k)
               PROVE  AtFront(R[i], t[k])
    OBVIOUS
  <2> HIDE DEF R
  <2>1. ASSUME NoBlock(t, i), R[i] = SubSeq(t, i, Len(t))
        PROVE  AtFront(R[i], t[k])
    <3>1. \A j \in i..k : t[j] \notin Begins
      BY <2>1 DEF NoBlock, Closed
    <3>2. /\ Len(R[i]) = Len(t) - i + 1
          /\ \A q \in 1..Len(t) - i + 1 : R[i][q] = t[i + q - 1]
      BY <2>1, PartIsFile
    <3>3. k - i + 1 \in 1..Len(R[i]) /\ R[i][k - i + 1] = t[k]
      BY <3>2
    <3>4. \A q \in 1..k - i + 1 : R[i][q] \notin Begins
      <4> TAKE q \in 1..k - i + 1
      <4>1. i + q - 1 \in i..k /\ R[i][q] = t[i + q - 1]
        BY <3>2
      <4> QED BY <3>1, <4>1
    <3> QED BY <3>3, <3>4 DEF AtFront
  <2>2. ASSUME NEW b \in i..Len(t), NEW e \in b..Len(t), FirstBlock(t, i, b, e),
               R[i] = SubSeq(t, i, b - 1) \o R[e + 1]
        PROVE  AtFront(R[i], t[k])
    <3>0. /\ t[b] \in Begins /\ \A j \in i..b - 1 : t[j] \notin Begins
          /\ t[e] \in Ends /\ \A j \in b..e - 1 : t[j] \notin Ends
      BY <2>2 DEF FirstBlock
    <3> DEFINE u == SubSeq(t, i, b - 1)
               v == R[e + 1]
    <3>1. u \in Seq(Items) /\ Len(u) = b - i /\ \A q \in 1..b - i : u[q] = t[i + q - 1]
      BY PartIsFile
    <3>2. v \in Seq(Items)
      BY StrippedIsFile DEF R
    <3>3. e + 1 \in S
      BY <1>1
    <3> HIDE DEF u, v
    <3>4. /\ R[i] = u \o v /\ Len(u \o v) = Len(u) + Len(v)
          /\ \A q \in 1..Len(u) : (u \o v)[q] = u[q]
          /\ \A q \in 1..Len(v) : (u \o v)[Len(u) + q] = v[q]
      BY <2>2, <3>1, <3>2, JoinIsFile DEF u, v
    <3>5. \A q \in 1..Len(u) : (u \o v)[q] \notin Begins
      <4> TAKE q \in 1..Len(u)
      <4>1. i + q - 1 \in i..b - 1 /\ u[q] = t[i + q - 1]
        BY <3>1
      <4> QED BY <3>0, <3>4, <4>1
    <3>6. CASE k < b
      <4>0. /\ k - i + 1 \in 1..b - i /\ i + (k - i + 1) - 1 = k
            /\ Len(u) \in Nat /\ Len(v) \in Nat
        BY <3>1, <3>2, <3>6
      <4>1. k - i + 1 \in 1..Len(u) /\ (u \o v)[k - i + 1] = t[k] /\ k - i + 1 \in 1..Len(u \o v)
        <5>1. u[k - i + 1] = t[k] /\ k - i + 1 \in 1..Len(u)
          BY <3>1, <4>0
        <5>2. k - i + 1 \in 1..Len(u) + Len(v)
          BY <4>0, <5>1
        <5> QED BY <3>4, <5>1, <5>2
      <4>2. \A q \in 1..k - i + 1 : (u \o v)[q] \notin Begins
        BY <3>5, <4>1
      <4> QED BY <3>4, <4>1, <4>2 DEF AtFront
    <3>7. CASE ~(k < b)
      <4>1. \E d \in b..k : t[d] \in Ends
        BY <3>0, <3>7 DEF Closed
      <4>2. e <= k
        BY <3>0, <4>1
      <4>3. k # e
        BY <3>0, ConfigBounds DEF Markers
      <4>4. k \in e + 1..Len(t)
        BY <4>2, <4>3
      <4>5. Closed(t, e + 1, k)
        BY DEF Closed
      <4>6. AtFront(v, t[k])
        BY <3>3, <4>4, <4>5 DEF v
      <4>7. PICK p \in 1..Len(v) : v[p] = t[k] /\ \A q \in 1..p : v[q] \notin Begins
        BY <4>6 DEF AtFront
      <4>0. Len(u) \in Nat /\ Len(v) \in Nat /\ p \in 1..Len(v)
        BY <3>1, <3>2, <4>7
      <4>8. Len(u) + p \in 1..Len(u \o v) /\ (u \o v)[Len(u) + p] = t[k]
        BY <3>4, <4>0, <4>7
      <4>9. \A q \in 1..Len(u) + p : (u \o v)[q] \notin Begins
        <5> TAKE q \in 1..Len(u) + p
        <5>1. CASE q <= Len(u)
          BY <3>1, <3>5, <5>1
        <5>2. CASE ~(q <= Len(u))
          <6>1. q - Len(u) \in 1..p /\ q = Len(u) + (q - Len(u)) /\ q - Len(u) \in 1..Len(v)
            BY <4>0, <5>2
          <6> QED BY <3>4, <4>7, <6>1
        <5> QED BY <5>1, <5>2
      <4> QED BY <3>4, <4>8, <4>9 DEF AtFront
    <3> QED BY <3>6, <3>7
  <2> QED BY <1>0, <2>1, <2>2, StrippedCases DEF R
<1>2. 1..n \subseteq S
  <2> HIDE DEF S, n
  <2> QED BY <1>0, <1>1, Backwards
<1>3. PICK k \in 1..Len(t) : t[k] = x /\ Closed(t, 1, k) /\ x \in Theirs
  BY DEF Outside, Closed
<1> QED BY <1>0, <1>2, <1>3 DEF Stripped

\* ... and so it is outside the blocks of what stripping keeps, whatever is
\* appended to it.
LEMMA KeptOutside ==
    ASSUME NEW t \in Seq(Items), NEW u \in Seq(Items)
    PROVE  /\ Stripped(t) \in Seq(Items)
           /\ Outside(t) \subseteq Outside(Stripped(t) \o u)
<1>1. Stripped(t) \in Seq(Items)
  BY StrippedIsFile DEF Stripped
<1> SUFFICES ASSUME NEW x \in Outside(t) PROVE x \in Outside(Stripped(t) \o u)
  BY <1>1
<1> DEFINE s == Stripped(t)
<1>2. PICK p \in 1..Len(s) : s[p] = x /\ \A q \in 1..p : s[q] \notin Begins
  BY StrippedKeeps DEF AtFront
<1> HIDE DEF s
<1>3. /\ Len(s \o u) = Len(s) + Len(u) /\ s \o u \in Seq(Items)
      /\ \A k \in 1..Len(s) : (s \o u)[k] = s[k]
  BY <1>1, JoinIsFile DEF s
<1>4. p \in DOMAIN (s \o u) /\ (s \o u)[p] = x
  BY <1>1, <1>2, <1>3 DEF s
<1>5. \A q \in 1..p : (s \o u)[q] \notin Begins
  BY <1>1, <1>2, <1>3 DEF s
<1>6. x \in Theirs
  BY DEF Outside
<1> QED BY <1>4, <1>5, <1>6 DEF Outside, s

\* What is outside is in the file, and the user's.
LEMMA OutsideIsIn ==
    ASSUME NEW t
    PROVE  Outside(t) \subseteq ToSet(t) /\ Outside(t) \subseteq Theirs
  BY DEF Outside, ToSet

\* A table with its lines is a part of the file.
LEMMA SectionIsPart ==
    ASSUME NEW t \in Seq(Items), NEW table
    PROVE  Section(t, table) \in Seq(Items) /\ (Unmarked(t) => Unmarked(Section(t, table)))
<1> DEFINE at   == From(t, 1, {table})
           next == From(t, at + 1, Headers)
           upto == IF next = 0 THEN Len(t) ELSE next - 1
           s    == SubSeq(t, at, upto)
<1>0. Len(t) \in Nat /\ Section(t, table) = IF at = 0 THEN <<>> ELSE s
  BY DEF Section
<1>1. at = 0 \/ at \in 1..Len(t)
  BY <1>0, FirstFrom
<1>2. CASE at = 0
  BY <1>0, <1>2 DEF Unmarked
<1>3. CASE at # 0
  <2> HIDE DEF at
  <2>1. next = 0 \/ next \in at + 1..Len(t)
    BY <1>0, <1>1, <1>3, FirstFrom
  <2> HIDE DEF next
  <2>2. at \in 1..Len(t) + 1 /\ upto \in at - 1..Len(t)
    BY <1>0, <1>1, <1>3, <2>1
  <2> HIDE DEF upto
  <2>3. /\ s \in Seq(Items) /\ Len(s) = upto - at + 1
        /\ \A k \in 1..upto - at + 1 : s[k] = t[at + k - 1]
    BY <2>2, PartIsFile
  <2> HIDE DEF s
  <2>4. ASSUME Unmarked(t) PROVE Unmarked(s)
    <3> SUFFICES ASSUME NEW k \in 1..Len(s) PROVE s[k] \notin Markers
      BY DEF Unmarked
    <3>1. s[k] = t[at + k - 1] /\ at + k - 1 \in 1..Len(t)
      BY <1>0, <2>2, <2>3
    <3> QED BY <2>4, <3>1 DEF Unmarked
  <2> QED BY <1>0, <1>3, <2>3, <2>4
<1> QED BY <1>2, <1>3

LEMMA JoinUnmarked ==
    ASSUME NEW s \in Seq(Items), NEW t \in Seq(Items), Unmarked(s), Unmarked(t)
    PROVE  Unmarked(s \o t)
<1>1. /\ Len(s \o t) = Len(s) + Len(t) /\ Len(s) \in Nat /\ Len(t) \in Nat
      /\ \A k \in 1..Len(s) : (s \o t)[k] = s[k]
      /\ \A k \in 1..Len(t) : (s \o t)[Len(s) + k] = t[k]
  BY JoinIsFile
<1> SUFFICES ASSUME NEW k \in 1..Len(s \o t) PROVE (s \o t)[k] \notin Markers
  BY DEF Unmarked
<1>2. CASE k <= Len(s)
  BY <1>1, <1>2 DEF Unmarked
<1>3. CASE ~(k <= Len(s))
  <2>1. k - Len(s) \in 1..Len(t) /\ k = Len(s) + (k - Len(s))
    BY <1>1, <1>3
  <2> QED BY <1>1, <2>1 DEF Unmarked
<1> QED BY <1>2, <1>3

\* No legacy marker is before a BEGIN.
LegacyBehind(t) ==
    \A k, m \in 1..Len(t) : t[m] = "BEGIN" /\ k <= m => t[k] \notin {"LEGACY_BEGIN", "LEGACY_END"}

\* extract_displaced_keys returns a file, an unmarked one if nothing but whole
\* blocks behind a BEGIN has markers.
LEMMA ExtractedIsFile ==
    ASSUME NEW t \in Seq(Items)
    PROVE  /\ Extracted(t) \in Seq(Items)
           /\ Whole(t) /\ LegacyBehind(t) /\ From(t, 1, {"BEGIN"}) # 0 => Unmarked(Extracted(t))
<1> DEFINE begin  == From(t, 1, {"BEGIN"})
           prefix == IF begin = 0 THEN t ELSE SubSeq(t, 1, begin - 1)
<1>0. Len(t) \in Nat
  OBVIOUS
<1>1. \/ begin = 0
      \/ /\ begin \in 1..Len(t) /\ t[begin] = "BEGIN"
         /\ \A j \in 1..begin - 1 : t[j] # "BEGIN"
  BY <1>0, FirstFrom
<1> HIDE DEF begin
<1>2. prefix \in Seq(Items)
  <2>1. CASE begin = 0
    BY <2>1
  <2>2. CASE begin # 0
    <3>1. SubSeq(t, 1, begin - 1) \in Seq(Items)
      BY <1>0, <1>1, <2>2, PartIsFile
    <3> QED BY <2>2, <3>1
  <2> QED BY <2>1, <2>2
<1>3. ASSUME Whole(t), LegacyBehind(t), begin # 0 PROVE Unmarked(prefix)
  <2>1. /\ begin \in 1..Len(t) /\ t[begin] = "BEGIN"
        /\ \A j \in 1..begin - 1 : t[j] # "BEGIN"
    BY <1>1, <1>3
  <2>2. \A j \in 1..begin - 1 : t[j] \notin {"LEGACY_BEGIN", "LEGACY_END"}
    BY <1>0, <1>3, <2>1 DEF LegacyBehind
  <2>3. \A j \in 1..begin - 1 : t[j] \notin Begins
    BY <2>1, <2>2 DEF Begins
  <2>4. \A j \in 1..begin - 1 : t[j] \notin Ends
    BY <1>0, <1>3, <2>1, <2>3 DEF Whole, Matched
  <2>5. \A j \in 1..begin - 1 : t[j] \notin Markers
    BY <2>3, <2>4 DEF Markers
  <2>6. /\ Len(SubSeq(t, 1, begin - 1)) = begin - 1
        /\ \A k \in 1..begin - 1 : SubSeq(t, 1, begin - 1)[k] = t[k]
    BY <1>0, <2>1, PartIsFile
  <2> QED BY <1>3, <2>5, <2>6 DEF Unmarked
<1>4. Extracted(t) = Section(prefix, Model) \o Section(prefix, Provider)
  BY DEF Extracted, begin
<1> HIDE DEF prefix
<1>5. Section(prefix, Model) \in Seq(Items) /\ Section(prefix, Provider) \in Seq(Items)
  BY <1>2, SectionIsPart
<1>6. Unmarked(prefix) => Unmarked(Section(prefix, Model)) /\ Unmarked(Section(prefix, Provider))
  BY <1>2, SectionIsPart
<1>7. Extracted(t) \in Seq(Items)
  BY <1>4, <1>5, JoinIsFile
<1>8. ASSUME Unmarked(prefix) PROVE Unmarked(Extracted(t))
  BY <1>4, <1>5, <1>6, <1>8, JoinUnmarked
<1> QED BY <1>3, <1>7, <1>8 DEF begin

-----------------------------------------------------------------------------
(* What the user's edits leave as it is.                                    *)

\* s is t without some items that are no markers; f says where the others are.
Thinned(s, t, f) ==
    /\ \A k \in 1..Len(s) : f[k] \in 1..Len(t) /\ t[f[k]] = s[k]
    /\ \A j, k \in 1..Len(s) : j <= k <=> f[j] <= f[k]
    /\ \A m \in 1..Len(t) : t[m] \in Markers => \E k \in 1..Len(s) : f[k] = m

\* What is outside the blocks stays so, and what is inside them too.
LEMMA ThinnedClosed ==
    ASSUME NEW s \in Seq(Items), NEW t \in Seq(Items), NEW f, Thinned(s, t, f), NEW k \in 1..Len(s)
    PROVE  Closed(s, 1, k) <=> Closed(t, 1, f[k])
<1>0. /\ \A j \in 1..Len(s) : f[j] \in 1..Len(t) /\ t[f[j]] = s[j]
      /\ \A i, j \in 1..Len(s) : i <= j <=> f[i] <= f[j]
      /\ \A m \in 1..Len(t) : t[m] \in Begins \cup Ends => \E j \in 1..Len(s) : f[j] = m
  BY DEF Thinned, Markers
<1>1. ASSUME Closed(s, 1, k), NEW b \in 1..f[k], t[b] \in Begins
      PROVE  \E e \in b..f[k] : t[e] \in Ends
  <2>1. PICK j \in 1..Len(s) : f[j] = b
    BY <1>0, <1>1
  <2>2. j \in 1..k /\ s[j] \in Begins
    BY <1>0, <1>1, <2>1
  <2>3. PICK e \in j..k : s[e] \in Ends
    BY <1>1, <2>2 DEF Closed
  <2>4. f[e] \in b..f[k] /\ t[f[e]] \in Ends
    BY <1>0, <2>1, <2>2, <2>3
  <2> QED BY <2>4
<1>2. ASSUME Closed(t, 1, f[k]), NEW b \in 1..k, s[b] \in Begins
      PROVE  \E e \in b..k : s[e] \in Ends
  <2>1. f[b] \in 1..f[k] /\ t[f[b]] \in Begins
    BY <1>0, <1>2
  <2>2. PICK m \in f[b]..f[k] : t[m] \in Ends
    BY <1>2, <2>1 DEF Closed
  <2>3. m \in 1..Len(t)
    BY <1>0, <2>1, <2>2
  <2>4. PICK e \in 1..Len(s) : f[e] = m
    BY <1>0, <2>2, <2>3
  <2>5. e \in b..k /\ s[e] \in Ends
    <3>1. f[b] <= f[e] /\ f[e] <= f[k] /\ b \in 1..Len(s) /\ t[f[e]] \in Ends
      BY <2>1, <2>2, <2>4
    <3>2. b <= e /\ e <= k
      BY <1>0, <3>1
    <3>3. s[e] \in Ends
      BY <1>0, <3>1
    <3> QED BY <3>1, <3>2, <3>3
  <2> QED BY <2>5
<1> QED BY <1>1, <1>2 DEF Closed

\* Blocks stay whole, ...
LEMMA ThinnedWhole ==
    ASSUME NEW s \in Seq(Items), NEW t \in Seq(Items), NEW f, Thinned(s, t, f)
    PROVE  Whole(s) <=> Whole(t)
<1>0. /\ \A j \in 1..Len(s) : f[j] \in 1..Len(t) /\ t[f[j]] = s[j]
      /\ \A i, j \in 1..Len(s) : i <= j <=> f[i] <= f[j]
      /\ \A m \in 1..Len(t) : t[m] \in Begins \cup Ends => \E j \in 1..Len(s) : f[j] = m
  BY DEF Thinned, Markers
<1>1. ASSUME Whole(s), NEW m \in 1..Len(t)
      PROVE  /\ t[m] \in Begins => \E e \in m..Len(t) : t[e] \in Ends
             /\ t[m] \in Ends => \E b \in 1..m : t[b] \in Begins /\ \A e \in b..m - 1 : t[e] \notin Ends
  <2>1. ASSUME t[m] \in Begins PROVE \E e \in m..Len(t) : t[e] \in Ends
    <3>1. PICK k \in 1..Len(s) : f[k] = m /\ s[k] \in Begins
      BY <1>0, <2>1
    <3>2. PICK e \in k..Len(s) : s[e] \in Ends
      BY <1>1, <3>1 DEF Whole, Matched
    <3>3. f[e] \in m..Len(t) /\ t[f[e]] \in Ends
      BY <1>0, <3>1, <3>2
    <3> QED BY <3>3
  <2>2. ASSUME t[m] \in Ends
        PROVE  \E b \in 1..m : t[b] \in Begins /\ \A e \in b..m - 1 : t[e] \notin Ends
    <3>1. PICK k \in 1..Len(s) : f[k] = m /\ s[k] \in Ends
      BY <1>0, <2>2
    <3>2. PICK b \in 1..k : s[b] \in Begins /\ \A e \in b..k - 1 : s[e] \notin Ends
      BY <1>1, <3>1 DEF Whole, Matched
    <3>3. f[b] \in 1..m /\ t[f[b]] \in Begins
      BY <1>0, <3>1, <3>2
    <3>4. ASSUME NEW d \in f[b]..m - 1, t[d] \in Ends PROVE FALSE
      <4>1. d \in 1..Len(t)
        BY <3>3
      <4>2. PICK e \in 1..Len(s) : f[e] = d
        BY <1>0, <3>4, <4>1
      <4>3. b <= e /\ ~(k <= e) /\ s[e] \in Ends
        BY <1>0, <3>1, <3>2, <3>4, <4>2
      <4> QED BY <3>2, <4>3
    <3> QED BY <3>3, <3>4
  <2> QED BY <2>1, <2>2
<1>2. ASSUME Whole(t), NEW k \in 1..Len(s)
      PROVE  /\ s[k] \in Begins => \E e \in k..Len(s) : s[e] \in Ends
             /\ s[k] \in Ends => \E b \in 1..k : s[b] \in Begins /\ \A e \in b..k - 1 : s[e] \notin Ends
  <2>1. ASSUME s[k] \in Begins PROVE \E e \in k..Len(s) : s[e] \in Ends
    <3>1. PICK m \in f[k]..Len(t) : t[m] \in Ends
      BY <1>0, <1>2, <2>1 DEF Whole, Matched
    <3>2. m \in 1..Len(t)
      BY <1>0, <3>1
    <3>3. PICK e \in 1..Len(s) : f[e] = m
      BY <1>0, <3>1, <3>2
    <3>4. e \in k..Len(s) /\ s[e] \in Ends
      BY <1>0, <3>1, <3>3
    <3> QED BY <3>4
  <2>2. ASSUME s[k] \in Ends
        PROVE  \E b \in 1..k : s[b] \in Begins /\ \A e \in b..k - 1 : s[e] \notin Ends
    <3>1. PICK a \in 1..f[k] : t[a] \in Begins /\ \A e \in a..f[k] - 1 : t[e] \notin Ends
      BY <1>0, <1>2, <2>2 DEF Whole, Matched
    <3>2. a \in 1..Len(t)
      BY <1>0, <3>1
    <3>3. PICK b \in 1..Len(s) : f[b] = a
      BY <1>0, <3>1, <3>2
    <3>4. b \in 1..k /\ s[b] \in Begins
      BY <1>0, <3>1, <3>3
    <3>5. ASSUME NEW e \in b..k - 1 PROVE s[e] \notin Ends
      <4>1. e \in 1..Len(s) /\ ~(k <= e) /\ b <= e
        BY <3>4
      <4>2. f[e] \in a..f[k] - 1
        BY <1>0, <3>3, <4>1
      <4> QED BY <1>0, <3>1, <4>1, <4>2
    <3> QED BY <3>4, <3>5
  <2> QED BY <2>1, <2>2
<1> QED BY <1>1, <1>2 DEF Whole, Matched

\* ... and legacy markers behind.
LEMMA ThinnedLegacy ==
    ASSUME NEW s \in Seq(Items), NEW t \in Seq(Items), NEW f, Thinned(s, t, f)
    PROVE  LegacyBehind(s) <=> LegacyBehind(t)
<1>0. /\ \A j \in 1..Len(s) : f[j] \in 1..Len(t) /\ t[f[j]] = s[j]
      /\ \A i, j \in 1..Len(s) : i <= j <=> f[i] <= f[j]
      /\ \A m \in 1..Len(t) : t[m] \in {"BEGIN", "LEGACY_BEGIN", "LEGACY_END"}
                              => \E j \in 1..Len(s) : f[j] = m
  BY DEF Thinned, Markers, Begins, Ends
<1>1. ASSUME LegacyBehind(s), NEW k \in 1..Len(t), NEW m \in 1..Len(t), t[m] = "BEGIN", k <= m,
             t[k] \in {"LEGACY_BEGIN", "LEGACY_END"}
      PROVE  FALSE
  <2>1. PICK i \in 1..Len(s) : f[i] = k
    BY <1>0, <1>1
  <2>2. PICK j \in 1..Len(s) : f[j] = m
    BY <1>0, <1>1
  <2>3. i <= j /\ s[i] \in {"LEGACY_BEGIN", "LEGACY_END"} /\ s[j] = "BEGIN"
    BY <1>0, <1>1, <2>1, <2>2
  <2> QED BY <1>1, <2>3 DEF LegacyBehind
<1>2. ASSUME LegacyBehind(t), NEW k \in 1..Len(s), NEW m \in 1..Len(s), s[m] = "BEGIN", k <= m,
             s[k] \in {"LEGACY_BEGIN", "LEGACY_END"}
      PROVE  FALSE
  <2>1. f[k] <= f[m] /\ t[f[k]] = s[k] /\ t[f[m]] = "BEGIN" /\ f[k] \in 1..Len(t) /\ f[m] \in 1..Len(t)
    BY <1>0, <1>2
  <2> QED BY <1>2, <2>1 DEF LegacyBehind
<1> QED BY <1>1, <1>2 DEF LegacyBehind

\* What was outside is outside still, unless it is what was taken.
LEMMA ThinnedOutside ==
    ASSUME NEW s \in Seq(Items), NEW t \in Seq(Items), NEW f, Thinned(s, t, f)
    PROVE  /\ Outside(s) \subseteq Outside(t)
           /\ \A m \in 1..Len(t) : (\A n \in 1..Len(t) : n # m => \E k \in 1..Len(s) : f[k] = n)
                  => Outside(t) \subseteq Outside(s) \cup {t[m]}
<1>0. \A k \in 1..Len(s) : f[k] \in 1..Len(t) /\ t[f[k]] = s[k]
  BY DEF Thinned
<1>1. ASSUME NEW x \in Outside(s) PROVE x \in Outside(t)
  <2>1. PICK k \in 1..Len(s) : s[k] = x /\ Closed(s, 1, k) /\ x \in Theirs
    BY DEF Outside, Closed
  <2>2. Closed(t, 1, f[k]) /\ f[k] \in 1..Len(t) /\ t[f[k]] = x
    BY <1>0, <2>1, ThinnedClosed
  <2> QED BY <2>1, <2>2 DEF Outside, Closed
<1>2. ASSUME NEW m \in 1..Len(t), \A n \in 1..Len(t) : n # m => \E k \in 1..Len(s) : f[k] = n,
             NEW x \in Outside(t), x # t[m]
      PROVE  x \in Outside(s)
  <2>1. PICK n \in 1..Len(t) : t[n] = x /\ Closed(t, 1, n) /\ x \in Theirs
    BY DEF Outside, Closed
  <2>2. PICK k \in 1..Len(s) : f[k] = n
    BY <1>2, <2>1
  <2>3. Closed(s, 1, k) /\ s[k] = x
    BY <1>0, <2>1, <2>2, ThinnedClosed
  <2> QED BY <2>1, <2>3 DEF Outside, Closed
<1> QED BY <1>1, <1>2

\* Adding an item that is no marker.
LEMMA Inserted ==
    ASSUME NEW t \in Seq(Items), NEW i \in 1..Len(t) + 1, NEW x \in Theirs
    PROVE  /\ InsertAt(t, i, x) \in Seq(Items)
           /\ Outside(t) \subseteq Outside(InsertAt(t, i, x))
           /\ Whole(t) => Whole(InsertAt(t, i, x))
           /\ LegacyBehind(t) => LegacyBehind(InsertAt(t, i, x))
           /\ ToSet(t) \subseteq ToSet(InsertAt(t, i, x))
<1> DEFINE s == SubSeq(t, 1, i - 1)
           u == SubSeq(t, i, Len(t))
           v == InsertAt(t, i, x)
           f == [k \in 1..Len(t) |-> IF k < i THEN k ELSE k + 1]
<1>0. x \in Items /\ x \notin Markers /\ Len(t) \in Nat /\ <<x>> \in Seq(Items)
  BY ConfigBounds DEF Items
<1>1. /\ s \in Seq(Items) /\ Len(s) = i - 1 /\ \A k \in 1..i - 1 : s[k] = t[k]
      /\ u \in Seq(Items) /\ Len(u) = Len(t) - i + 1 /\ \A k \in 1..Len(t) - i + 1 : u[k] = t[i + k - 1]
  BY <1>0, PartIsFile
<1> HIDE DEF s, u
<1>2. /\ s \o <<x>> \in Seq(Items) /\ Len(s \o <<x>>) = i
      /\ \A k \in 1..i - 1 : (s \o <<x>>)[k] = t[k]
      /\ (s \o <<x>>)[i] = x
  <2> DEFINE w == <<x>>
  <2>1. w \in Seq(Items) /\ Len(w) = 1 /\ w[1] = x
    BY <1>0
  <2> HIDE DEF w
  <2>2. /\ s \o w \in Seq(Items) /\ Len(s \o w) = Len(s) + Len(w)
        /\ \A k \in 1..Len(s) : (s \o w)[k] = s[k]
        /\ \A k \in 1..Len(w) : (s \o w)[Len(s) + k] = w[k]
    BY <1>1, <2>1, JoinIsFile
  <2>3. Len(s) = i - 1 /\ Len(s) + 1 = i /\ 1 \in 1..Len(w)
    BY <1>1, <2>1
  <2>4. (s \o w)[i] = x /\ Len(s \o w) = i
    BY <2>1, <2>2, <2>3
  <2>5. \A k \in 1..i - 1 : (s \o w)[k] = t[k]
    BY <1>1, <2>2, <2>3
  <2> QED BY <2>2, <2>4, <2>5 DEF w
<1>3. /\ v \in Seq(Items) /\ Len(v) = Len(t) + 1
      /\ \A k \in 1..i : v[k] = (s \o <<x>>)[k]
      /\ \A k \in 1..Len(t) - i + 1 : v[i + k] = u[k]
  <2> DEFINE w == s \o <<x>>
  <2>1. v = w \o u
    BY DEF InsertAt, s, u
  <2>2. w \in Seq(Items) /\ Len(w) = i
    BY <1>2
  <2> HIDE DEF v, w
  <2>3. /\ v \in Seq(Items) /\ Len(v) = Len(w) + Len(u)
        /\ \A k \in 1..Len(w) : v[k] = w[k]
        /\ \A k \in 1..Len(u) : v[Len(w) + k] = u[k]
    BY <1>1, <2>1, <2>2, JoinIsFile
  <2>4. Len(v) = Len(t) + 1
    BY <1>0, <1>1, <2>2, <2>3
  <2> QED BY <1>1, <2>2, <2>3, <2>4 DEF w
<1> HIDE DEF v
<1>4. /\ \A k \in 1..Len(t) : k < i => v[k] = t[k]
      /\ \A k \in 1..Len(t) : ~(k < i) => v[k + 1] = t[k]
      /\ v[i] = x
  <2>1. ASSUME NEW k \in 1..Len(t), ~(k < i) PROVE v[k + 1] = t[k]
    <3>1. PICK q \in 1..Len(t) - i + 1 : k + 1 = i + q /\ k = i + q - 1
      <4>1. k - i + 1 \in 1..Len(t) - i + 1 /\ k + 1 = i + (k - i + 1) /\ k = i + (k - i + 1) - 1
        BY <2>1
      <4> QED BY <4>1
    <3>2. v[i + q] = u[q] /\ u[q] = t[i + q - 1]
      BY <1>1, <1>3
    <3> QED BY <3>1, <3>2
  <2> QED BY <1>2, <1>3, <2>1
<1>5. Thinned(t, v, f)
  <2>1. \A k \in 1..Len(t) : f[k] \in 1..Len(v) /\ v[f[k]] = t[k]
    BY <1>3, <1>4
  <2>2. \A j, k \in 1..Len(t) : j <= k <=> f[j] <= f[k]
    OBVIOUS
  <2>3. ASSUME NEW m \in 1..Len(v), v[m] \in Markers PROVE \E k \in 1..Len(t) : f[k] = m
    <3>1. m # i
      BY <1>0, <1>4, <2>3
    <3>2. CASE m < i
      <4>1. m \in 1..Len(t) /\ f[m] = m
        BY <1>0, <3>2
      <4> QED BY <4>1
    <3>3. CASE ~(m < i)
      <4>1. m - 1 \in 1..Len(t) /\ f[m - 1] = m
        BY <1>0, <1>3, <3>1, <3>3
      <4> QED BY <4>1
    <3> QED BY <3>2, <3>3
  <2> QED BY <2>1, <2>2, <2>3 DEF Thinned
<1>6. ToSet(t) \subseteq ToSet(v)
  <2>0. DOMAIN t = 1..Len(t) /\ DOMAIN v = 1..Len(v)
    BY <1>3
  <2> SUFFICES ASSUME NEW k \in 1..Len(t) PROVE \E m \in 1..Len(v) : v[m] = t[k]
    BY <2>0 DEF ToSet
  <2>1. f[k] \in 1..Len(v) /\ v[f[k]] = t[k]
    BY <1>5 DEF Thinned
  <2> QED BY <2>1
<1> HIDE DEF f
<1> QED BY <1>3, <1>5, <1>6, ThinnedOutside, ThinnedWhole, ThinnedLegacy DEF v

\* Deleting an item, a marker or not.
LEMMA Removed ==
    ASSUME NEW t \in Seq(Items), NEW i \in 1..Len(t)
    PROVE  /\ RemoveAt(t, i) \in Seq(Items)
           /\ t[i] \notin Markers =>
                 /\ Outside(t) \subseteq Outside(RemoveAt(t, i)) \cup {t[i]}
                 /\ Whole(t) => Whole(RemoveAt(t, i))
                 /\ LegacyBehind(t) => LegacyBehind(RemoveAt(t, i))
           /\ ToSet(t) \subseteq ToSet(RemoveAt(t, i)) \cup {t[i]}
<1> DEFINE s == SubSeq(t, 1, i - 1)
           u == SubSeq(t, i + 1, Len(t))
           v == RemoveAt(t, i)
           f == [k \in 1..Len(v) |-> IF k < i THEN k ELSE k + 1]
<1>0. Len(t) \in Nat
  OBVIOUS
<1>1. /\ s \in Seq(Items) /\ Len(s) = i - 1 /\ \A k \in 1..i - 1 : s[k] = t[k]
      /\ u \in Seq(Items) /\ Len(u) = Len(t) - i /\ \A k \in 1..Len(t) - i : u[k] = t[i + k]
  <2>1. /\ s \in Seq(Items) /\ Len(s) = i - 1 /\ \A k \in 1..i - 1 : s[k] = t[k]
    BY <1>0, PartIsFile
  <2>2. i + 1 \in 1..Len(t) + 1 /\ Len(t) \in (i + 1) - 1..Len(t)
    BY <1>0
  <2>3. /\ u \in Seq(Items) /\ Len(u) = Len(t) - (i + 1) + 1
        /\ \A k \in 1..Len(t) - (i + 1) + 1 : u[k] = t[(i + 1) + k - 1]
    BY <2>2, PartIsFile
  <2> HIDE DEF s, u
  <2>4. \A k \in 1..Len(t) - i : u[k] = t[i + k]
    <3> TAKE k \in 1..Len(t) - i
    <3>1. k \in 1..Len(t) - (i + 1) + 1 /\ (i + 1) + k - 1 = i + k
      BY <1>0
    <3> QED BY <2>3, <3>1
  <2> QED BY <1>0, <2>1, <2>3, <2>4
<1> HIDE DEF s, u
<1>2. /\ v \in Seq(Items) /\ Len(v) = Len(t) - 1
      /\ \A k \in 1..i - 1 : v[k] = s[k]
      /\ \A k \in 1..Len(t) - i : v[i - 1 + k] = u[k]
  <2>1. v = s \o u
    BY DEF RemoveAt, s, u
  <2> HIDE DEF v
  <2>2. /\ v \in Seq(Items) /\ Len(v) = Len(s) + Len(u)
        /\ \A k \in 1..Len(s) : v[k] = s[k]
        /\ \A k \in 1..Len(u) : v[Len(s) + k] = u[k]
    BY <1>1, <2>1, JoinIsFile
  <2>3. Len(v) = Len(t) - 1
    BY <1>0, <1>1, <2>2
  <2> QED BY <1>1, <2>2, <2>3
<1> HIDE DEF v
<1>3. /\ \A k \in 1..Len(v) : k < i => v[k] = t[k]
      /\ \A k \in 1..Len(v) : ~(k < i) => v[k] = t[k + 1]
  <2>1. ASSUME NEW k \in 1..Len(v), ~(k < i) PROVE v[k] = t[k + 1]
    <3>1. PICK q \in 1..Len(t) - i : k = i - 1 + q /\ k + 1 = i + q
      <4>1. k - i + 1 \in 1..Len(t) - i /\ k = i - 1 + (k - i + 1) /\ k + 1 = i + (k - i + 1)
        BY <1>0, <1>2, <2>1
      <4> QED BY <4>1
    <3>2. v[i - 1 + q] = u[q] /\ u[q] = t[i + q]
      BY <1>1, <1>2
    <3> QED BY <3>1, <3>2
  <2>2. ASSUME NEW k \in 1..Len(v), k < i PROVE v[k] = t[k]
    <3>1. k \in 1..i - 1
      BY <2>2
    <3> QED BY <1>1, <1>2, <3>1
  <2> QED BY <2>1, <2>2
<1>4. \A n \in 1..Len(t) : n # i => \E k \in 1..Len(v) : f[k] = n
  <2> TAKE n \in 1..Len(t)
  <2>1. CASE n < i
    <3>1. n \in 1..Len(v) /\ f[n] = n
      BY <1>0, <1>2, <2>1
    <3> QED BY <3>1
  <2>2. CASE i < n
    <3>1. n - 1 \in 1..Len(v) /\ f[n - 1] = n
      BY <1>0, <1>2, <2>2
    <3> QED BY <3>1
  <2> QED BY <2>1, <2>2
<1>5. \A k \in 1..Len(v) : f[k] \in 1..Len(t) /\ t[f[k]] = v[k]
  BY <1>0, <1>2, <1>3
<1>6. \A j, k \in 1..Len(v) : j <= k <=> f[j] <= f[k]
  BY <1>2
<1>7. ToSet(t) \subseteq ToSet(v) \cup {t[i]}
  <2> HIDE DEF f
  <2>0. DOMAIN t = 1..Len(t) /\ DOMAIN v = 1..Len(v)
    BY <1>2
  <2> SUFFICES ASSUME NEW n \in 1..Len(t), n # i PROVE \E k \in 1..Len(v) : v[k] = t[n]
    BY <2>0 DEF ToSet
  <2> QED BY <1>4, <1>5
<1> HIDE DEF f
<1>8. ASSUME t[i] \notin Markers PROVE Thinned(v, t, f)
  <2>1. \A m \in 1..Len(t) : t[m] \in Markers => \E j \in 1..Len(v) : f[j] = m
    BY <1>4, <1>8
  <2> QED BY <1>5, <1>6, <2>1 DEF Thinned
<1>9. ASSUME t[i] \notin Markers
      PROVE  /\ Outside(t) \subseteq Outside(v) \cup {t[i]}
             /\ Whole(t) => Whole(v)
             /\ LegacyBehind(t) => LegacyBehind(v)
  <2>1. Thinned(v, t, f) /\ v \in Seq(Items)
    BY <1>2, <1>8, <1>9
  <2>2. Outside(t) \subseteq Outside(v) \cup {t[i]}
    BY <1>4, <2>1, ThinnedOutside
  <2>3. Whole(t) => Whole(v)
    BY <2>1, ThinnedWhole
  <2>4. LegacyBehind(t) => LegacyBehind(v)
    BY <2>1, ThinnedLegacy
  <2> QED BY <2>2, <2>3, <2>4
<1> QED BY <1>2, <1>7, <1>9 DEF v

\* A managed block behind a file without markers.
LEMMA BlockBehind ==
    ASSUME NEW u \in Seq(Items), Unmarked(u)
    PROVE  /\ u \o Block \in Seq(Items)
           /\ Whole(u \o Block) /\ LegacyBehind(u \o Block)
           /\ Installed(u \o Block)
           /\ Cardinality({i \in DOMAIN (u \o Block) : (u \o Block)[i] \in Begins}) = 1
<1> DEFINE t == u \o Block
           n == Len(u)
<1>1. Block \in Seq(Items) /\ Len(Block) = 4
  <2>1. {"BEGIN", "keys", "providers", "END"} \subseteq Items
    BY DEF Items, Block, ToSet
  <2> QED BY <2>1 DEF Block
<1>2. /\ t \in Seq(Items) /\ Len(t) = n + 4 /\ n \in Nat
      /\ \A k \in 1..n : t[k] = u[k]
      /\ \A k \in 1..4 : t[n + k] = Block[k]
  <2> HIDE DEF t
  <2>1. /\ t \in Seq(Items) /\ Len(t) = n + Len(Block) /\ n \in Nat
        /\ \A k \in 1..n : t[k] = u[k]
        /\ \A k \in 1..Len(Block) : t[n + k] = Block[k]
    <3> HIDE DEF n
    <3>1. /\ u \o Block \in Seq(Items)
          /\ Len(u \o Block) = Len(u) + Len(Block)
          /\ \A k \in 1..Len(u) : (u \o Block)[k] = u[k]
          /\ \A k \in 1..Len(Block) : (u \o Block)[Len(u) + k] = Block[k]
      BY <1>1, JoinIsFile
    <3>2. Len(u) \in Nat
      OBVIOUS
    <3> QED BY <3>1, <3>2 DEF t, n
  <2> QED BY <1>1, <2>1
<1>3. \A k \in 1..n : t[k] \notin Begins \cup Ends
  BY <1>2 DEF Unmarked, Markers
<1>4. t[n + 1] = "BEGIN" /\ t[n + 2] = "keys" /\ t[n + 3] = "providers" /\ t[n + 4] = "END"
  BY <1>2 DEF Block
<1> HIDE DEF t, n
<1>5. \A k \in 1..Len(t) : k \in 1..n \/ k = n + 1 \/ k = n + 2 \/ k = n + 3 \/ k = n + 4
  BY <1>2
<1>6. /\ \A k \in 1..Len(t) : t[k] \in Begins => k = n + 1
      /\ \A k \in 1..Len(t) : t[k] \in Ends => k = n + 4
  BY <1>3, <1>4, <1>5 DEF Begins, Ends
<1>7. t[n + 1] \in Begins /\ t[n + 4] \in Ends /\ n + 1 \in 1..Len(t) /\ n + 4 \in 1..Len(t)
  BY <1>2, <1>4 DEF Begins, Ends
<1>8. Whole(t)
  <2>1. ASSUME NEW k \in 1..Len(t), t[k] \in Begins PROVE \E e \in k..Len(t) : t[e] \in Ends
    <3>1. k = n + 1 /\ n + 4 \in k..Len(t)
      BY <1>2, <1>6, <2>1
    <3> QED BY <1>7, <3>1
  <2>2. ASSUME NEW k \in 1..Len(t), t[k] \in Ends
        PROVE  \E b \in 1..k : t[b] \in Begins /\ \A e \in b..k - 1 : t[e] \notin Ends
    <3>1. k = n + 4 /\ n + 1 \in 1..k
      BY <1>2, <1>6, <2>2
    <3>2. \A e \in n + 1..k - 1 : t[e] \notin Ends
      BY <1>2, <1>6, <3>1
    <3> QED BY <1>7, <3>1, <3>2
  <2> QED BY <2>1, <2>2 DEF Whole, Matched
<1>9. LegacyBehind(t)
  BY <1>3, <1>4, <1>5 DEF LegacyBehind, Begins, Ends
<1>10. Installed(t)
  <2>1. From(t, 1, {"BEGIN"}) \in 1..Len(t) /\ t[From(t, 1, {"BEGIN"})] \in {"BEGIN"}
    <3>1. Len(t) \in Nat /\ 1 \in Nat \ {0} /\ n + 1 \in 1..Len(t)
      BY <1>2, <1>7
    <3>2. t[n + 1] \in {"BEGIN"}
      BY <1>4
    <3> QED BY <3>1, <3>2, FirstFrom
  <2>2. From(t, 1, {"BEGIN"}) = n + 1
    BY <1>6, <2>1 DEF Begins
  <2>3. From(t, n + 1, Ends) # 0
    <3>1. n + 1 \in Nat \ {0} /\ n + 4 \in n + 1..Len(t) /\ Len(t) \in Nat
      BY <1>2
    <3>2. t[n + 4] \in Ends
      BY <1>7
    <3>3. ~\A j \in n + 1..Len(t) : t[j] \notin Ends
      BY <3>1, <3>2
    <3>4. From(t, n + 1, Ends) \in n + 1..Len(t)
      BY <3>1, <3>3, FirstFrom
    <3> QED BY <3>1, <3>4
  <2> QED BY <1>2, <2>2, <2>3 DEF Installed
<1>11. Cardinality({i \in DOMAIN t : t[i] \in Begins}) = 1
  <2>1. {i \in DOMAIN t : t[i] \in Begins} = {n + 1}
    BY <1>2, <1>6, <1>7
  <2> QED BY <2>1, FS_Singleton
<1> QED BY <1>2, <1>8, <1>9, <1>10, <1>11 DEF t

\* A file without markers has no block.
LEMMA NoneInstalled ==
    ASSUME NEW t \in Seq(Items), Unmarked(t)
    PROVE  ~Installed(t) /\ Whole(t) /\ LegacyBehind(t)
<1>1. Len(t) \in Nat /\ \A k \in 1..Len(t) : t[k] \notin {"BEGIN", "LEGACY_BEGIN"}
  BY DEF Unmarked, Markers, Begins
<1>2. From(t, 1, {"BEGIN"}) = 0 /\ From(t, 1, {"LEGACY_BEGIN"}) = 0
  BY <1>1, FirstFrom
<1> QED BY <1>1, <1>2 DEF Installed, Unmarked, Markers, Whole, Matched, LegacyBehind

-----------------------------------------------------------------------------
(* The invariant.                                                           *)

Places == {"backup", "writing backup", "config", "writing config"}

Types ==
    /\ config \in Seq(Items) /\ backup \in Seq(Items) /\ owned \subseteq Theirs
    /\ last \in {"none", "install", "disable", "failed", "crashed"}
    /\ damage \in {"none", "fault", "beyond"}
Operation ==
    \/ op = Idle
    \/ op \in [do : {"install", "disable"}, at : Places, read : Seq(Items), text : Seq(Items)]

\* Until an operation empties config.toml the user's items are in it, outside
\* the blocks; so they are in what the operation read, and in what it writes.
\* Before it does so, they are in the backup.
KeptInv ==
    /\ op.at \in {"backup", "writing backup"} => op.text = Saved(op.do, op.read)
    /\ op = Idle /\ damage = "none" => owned \subseteq Outside(config)
    /\ op = Idle /\ damage = "fault" => owned \subseteq ToSet(config) \cup ToSet(backup)
    /\ op # Idle /\ damage # "beyond" =>
          /\ owned \subseteq Outside(op.read)
          /\ op.at # "writing config" => owned \subseteq Outside(config)
          /\ op.at \in {"config", "writing config"} =>
                /\ owned \subseteq Outside(op.text)
                /\ damage = "none" => owned \subseteq ToSet(backup)

\* What an operation leaves: files without markers, and a block behind.
Managed(do, t) ==
    IF do = "install" THEN \E u \in Seq(Items) : Unmarked(u) /\ t = u \o Block ELSE Unmarked(t)

\* Blocks are whole, and no legacy marker is before a BEGIN, as long as nothing
\* has gone wrong.
BlocksInv ==
    /\ op # Idle => last = "none"
    /\ damage = "none" =>
          /\ Whole(config) /\ LegacyBehind(config)
          /\ op # Idle => /\ Whole(op.read) /\ LegacyBehind(op.read)
                          /\ op.do = "disable" => From(op.read, 1, {"BEGIN"}) # 0
          /\ op.at \in {"config", "writing config"} => Managed(op.do, op.text)
          /\ last \in {"install", "disable"} => Managed(last, config)

\* The files at the start have whole blocks, legacy ones behind the others only.
CleanStart == \A t \in FirstFiles : Whole(t) /\ LegacyBehind(t)

ConfigInv == Types /\ Operation /\ KeptInv

-----------------------------------------------------------------------------
(* What an operation writes.                                                *)

LEMMA PrefixIsFile ==
    ASSUME NEW t \in Seq(Items), NEW p \in Prefixes(t)
    PROVE  p \in Seq(Items)
<1>1. PICK l \in 0..Len(t) : p = SubSeq(t, 1, l)
  BY DEF Prefixes
<1>2. SubSeq(t, 1, l) \in Seq(Items)
  BY PartIsFile
<1> QED BY <1>1, <1>2

LEMMA BlockIsFile == Block \in Seq(Items) /\ <<>> \in Seq(Items)
<1>1. {"BEGIN", "keys", "providers", "END"} \subseteq Items
  BY DEF Items, Block, ToSet
<1> QED BY <1>1 DEF Block

\* The backup, and what is written to config.toml, hold what is the user's.
LEMMA SavedHolds ==
    ASSUME NEW do, NEW t \in Seq(Items)
    PROVE  Saved(do, t) \in Seq(Items) /\ Outside(t) \subseteq ToSet(Saved(do, t))
<1>1. Stripped(t) \in Seq(Items) /\ Outside(t) \subseteq Outside(Stripped(t) \o <<>>)
  BY BlockIsFile, KeptOutside
<1>2. Stripped(t) \o <<>> = Stripped(t)
  BY <1>1, ConcatEmptySeq
<1>3. Outside(t) \subseteq ToSet(Stripped(t)) /\ Outside(t) \subseteq ToSet(t)
  BY <1>1, <1>2, OutsideIsIn
<1> QED BY <1>1, <1>3 DEF Saved

LEMMA ContentHolds ==
    ASSUME NEW do, NEW t \in Seq(Items), NEW saved \in Seq(Items)
    PROVE  Content(do, t, saved) \in Seq(Items) /\ Outside(t) \subseteq Outside(Content(do, t, saved))
<1>1. CASE do = "install"
  <2>1. Stripped(t) \in Seq(Items) /\ Outside(t) \subseteq Outside(Stripped(t) \o Block)
    BY BlockIsFile, KeptOutside
  <2>2. Stripped(t) \o Block \in Seq(Items)
    BY <2>1, BlockIsFile, JoinIsFile
  <2> QED BY <1>1, <2>1, <2>2 DEF Content
<1>2. CASE do # "install"
  <2>1. Extracted(saved) \in Seq(Items)
    BY ExtractedIsFile
  <2>2. Stripped(t) \in Seq(Items) /\ Outside(t) \subseteq Outside(Stripped(t) \o Extracted(saved))
    BY <2>1, KeptOutside
  <2>3. Stripped(t) \o Extracted(saved) \in Seq(Items)
    BY <2>1, <2>2, JoinIsFile
  <2> QED BY <1>2, <2>2, <2>3 DEF Content
<1> QED BY <1>1, <1>2

\* install writes an unmarked file and a block, disable an unmarked file.
LEMMA ContentManaged ==
    ASSUME NEW do \in {"install", "disable"}, NEW t \in Seq(Items), Whole(t), LegacyBehind(t),
           do = "disable" => From(t, 1, {"BEGIN"}) # 0
    PROVE  Managed(do, Content(do, t, Saved(do, t)))
<1>1. Stripped(t) \in Seq(Items) /\ Unmarked(Stripped(t))
  BY StrippedUnmarked, StrippedIsFile DEF Stripped
<1>2. CASE do = "install"
  BY <1>1, <1>2 DEF Managed, Content
<1>3. CASE do = "disable"
  <2>1. Extracted(t) \in Seq(Items) /\ Unmarked(Extracted(t))
    BY <1>3, ExtractedIsFile
  <2>2. Unmarked(Stripped(t) \o Extracted(t))
    BY <1>1, <2>1, JoinUnmarked
  <2> QED BY <1>3, <2>2 DEF Managed, Content, Saved
<1> QED BY <1>2, <1>3

LEMMA ManagedWhole ==
    ASSUME NEW do, NEW t \in Seq(Items), Managed(do, t)
    PROVE  Whole(t) /\ LegacyBehind(t)
<1>1. CASE do = "install"
  <2>1. PICK u \in Seq(Items) : Unmarked(u) /\ t = u \o Block
    BY <1>1 DEF Managed
  <2> QED BY <2>1, BlockBehind
<1>2. CASE do # "install"
  BY <1>2, NoneInstalled DEF Managed
<1> QED BY <1>1, <1>2

-----------------------------------------------------------------------------
(* The invariant holds at the start and is kept by every step.              *)

LEMMA ConfigInit ==
    ASSUME Init
    PROVE  ConfigInv /\ (CleanStart => BlocksInv)
<1>1. config \in Seq(Items) /\ backup \in Seq(Items) /\ owned \subseteq Theirs
  BY ConfigBounds, BlockIsFile, OutsideIsIn DEF Init
<1>2. Types /\ Operation
  BY <1>1 DEF Init, Types, Operation
<1>3. KeptInv
  BY DEF Init, KeptInv, Idle
<1>4. ASSUME CleanStart PROVE BlocksInv
  BY <1>4 DEF Init, BlocksInv, CleanStart, Idle
<1> QED BY <1>2, <1>3, <1>4 DEF ConfigInv

\* Operations read a file that holds what is the user's.
LEMMA BeginKeeps ==
    ASSUME ConfigInv, op = Idle,
           \/ Install
           \/ Disable
    PROVE  ConfigInv' /\ (BlocksInv => BlocksInv')
<1> USE DEF ConfigInv
<1>0. config \in Seq(Items) /\ config' = config /\ backup' = backup /\ owned' = owned /\ last' = "none"
  BY DEF Install, Disable, Begin, Types
<1>1. damage' \in {"none", "fault", "beyond"} /\ (damage' # "beyond" => damage = "none" /\ damage' = "none")
  BY DEF Install, Disable, Begin, Types
<1>2. \/ \E do \in {"install", "disable"} :
            /\ op' = [do |-> do, at |-> "backup", read |-> config, text |-> Saved(do, config)]
            /\ do = "disable" => From(config, 1, {"BEGIN"}) # 0
      \/ /\ op' = [do |-> "install", at |-> "config", read |-> config, text |-> Block]
         /\ config = <<>>
  BY DEF Install, Disable, Begin
<1>3. Types'
  BY <1>0, <1>1 DEF Types
<1>4. CASE \E do \in {"install", "disable"} :
            /\ op' = [do |-> do, at |-> "backup", read |-> config, text |-> Saved(do, config)]
            /\ do = "disable" => From(config, 1, {"BEGIN"}) # 0
  <2>1. PICK do \in {"install", "disable"} :
            /\ op' = [do |-> do, at |-> "backup", read |-> config, text |-> Saved(do, config)]
            /\ do = "disable" => From(config, 1, {"BEGIN"}) # 0
    BY <1>4
  <2>2. Operation' /\ op' # Idle
    BY <1>0, <2>1, SavedHolds DEF Operation, Places, Idle
  <2>3. KeptInv'
    BY <1>0, <1>1, <2>1, <2>2 DEF KeptInv
  <2>4. ASSUME BlocksInv PROVE BlocksInv'
    BY <1>0, <1>1, <2>1, <2>2, <2>4 DEF BlocksInv
  <2> QED BY <1>3, <2>2, <2>3, <2>4
<1>5. CASE /\ op' = [do |-> "install", at |-> "config", read |-> config, text |-> Block]
           /\ config = <<>>
  <2>1. Operation' /\ op' # Idle
    BY <1>0, <1>5, BlockIsFile DEF Operation, Places, Idle
  <2>2. damage' # "beyond" => owned = {}
    <3>1. Outside(<<>>) = {}
      BY DEF Outside
    <3> QED BY <1>1, <1>5, <3>1 DEF KeptInv
  <2>3. KeptInv'
    BY <1>0, <1>1, <1>5, <2>1, <2>2 DEF KeptInv
  <2>4. Managed("install", Block)
    <3>1. <<>> \in Seq(Items) /\ Unmarked(<<>>) /\ Block = <<>> \o Block
      BY BlockIsFile DEF Unmarked, Block
    <3> QED BY <3>1 DEF Managed
  <2>5. ASSUME BlocksInv PROVE BlocksInv'
    BY <1>0, <1>1, <1>5, <2>1, <2>4, <2>5 DEF BlocksInv
  <2> QED BY <1>3, <2>1, <2>3, <2>5
<1> QED BY <1>2, <1>4, <1>5

\* An operation under way.
LEMMA UnderWay ==
    ASSUME Operation, op.at # "idle"
    PROVE  /\ op # Idle
           /\ op \in [do : {"install", "disable"}, at : Places, read : Seq(Items), text : Seq(Items)]
<1>1. Idle.at = "idle"
  BY DEF Idle
<1>2. op # Idle
  BY <1>1
<1> QED BY <1>2 DEF Operation

\* Opening a file empties it; what is needed is in the other one or not yet.
LEMMA OpensKeeps ==
    ASSUME ConfigInv, Opens
    PROVE  ConfigInv' /\ (BlocksInv => BlocksInv')
<1> USE DEF ConfigInv
<1>1. /\ op # Idle /\ op.at \in {"backup", "config"}
      /\ op \in [do : {"install", "disable"}, at : Places, read : Seq(Items), text : Seq(Items)]
  BY UnderWay DEF Opens
<1>2. /\ op' = [op EXCEPT !.at = IF @ = "backup" THEN "writing backup" ELSE "writing config"]
      /\ owned' = owned /\ last' = last /\ damage' = damage
  BY DEF Opens
<1>3. /\ op.at = "backup" => backup' = <<>> /\ config' = config
      /\ op.at = "config" => config' = <<>> /\ backup' = backup
  BY <1>1 DEF Opens
<1>4. /\ op' \in [do : {"install", "disable"}, at : Places, read : Seq(Items), text : Seq(Items)]
      /\ op'.do = op.do /\ op'.read = op.read /\ op'.text = op.text
      /\ op.at = "backup" => op'.at = "writing backup"
      /\ op.at = "config" => op'.at = "writing config"
  BY <1>1, <1>2 DEF Places
<1>5. op' # Idle
  <2>1. op'.at # "idle" /\ Idle.at = "idle"
    BY <1>1, <1>4 DEF Idle
  <2> QED BY <2>1
<1>6. Types' /\ Operation'
  BY <1>1, <1>2, <1>3, <1>4, BlockIsFile DEF Types, Operation
<1>7. KeptInv'
  BY <1>1, <1>2, <1>3, <1>4, <1>5 DEF KeptInv
<1>8. ASSUME BlocksInv PROVE BlocksInv'
  <2>1. Whole(<<>>) /\ LegacyBehind(<<>>)
    BY DEF Whole, Matched, LegacyBehind
  <2>2. last = "none"
    BY <1>1, <1>8 DEF BlocksInv
  <2> QED BY <1>1, <1>2, <1>3, <1>4, <1>5, <1>8, <2>1, <2>2 DEF BlocksInv
<1> QED BY <1>6, <1>7, <1>8

\* An operation that cannot open a file leaves config.toml as it was.
LEMMA OpenFailsKeeps ==
    ASSUME ConfigInv, OpenFails
    PROVE  ConfigInv' /\ (BlocksInv => BlocksInv')
<1> USE DEF ConfigInv
<1>1. op # Idle /\ op.at \in {"backup", "config"}
  BY DEF OpenFails, Idle
<1>2. /\ op' = Idle /\ last' = "failed" /\ config' = config /\ backup' = backup
      /\ owned' = owned /\ damage' = damage
  BY DEF OpenFails, End
<1>3. Types' /\ Operation'
  BY <1>2 DEF Types, Operation
<1>4. KeptInv'
  <2>1. damage # "beyond" => owned \subseteq Outside(config)
    BY <1>1 DEF KeptInv
  <2>2. damage # "beyond" => owned \subseteq ToSet(config)
    BY <2>1, OutsideIsIn
  <2> QED BY <1>2, <2>1, <2>2 DEF KeptInv, Idle
<1>5. ASSUME BlocksInv PROVE BlocksInv'
  BY <1>2, <1>5 DEF BlocksInv, Idle
<1> QED BY <1>3, <1>4, <1>5

\* The backup is written: saved, the whole text or a part of it.
LEMMA WriteBackupKeeps ==
    ASSUME ConfigInv, NEW saved \in Seq(Items), WriteBackup(saved), owned' = owned,
           \/ saved = op.text /\ damage' = damage
           \/ damage' = IF damage = "none" THEN "fault" ELSE "beyond"
    PROVE  ConfigInv' /\ (BlocksInv => BlocksInv')
<1> USE DEF ConfigInv
<1>1. /\ op # Idle /\ op.at = "writing backup"
      /\ op \in [do : {"install", "disable"}, at : Places, read : Seq(Items), text : Seq(Items)]
  BY UnderWay DEF WriteBackup
<1>2. /\ backup' = saved /\ config' = config /\ last' = last
      /\ op' = [op EXCEPT !.at = "config", !.text = Content(op.do, op.read, saved)]
  BY DEF WriteBackup
<1> DEFINE text == Content(op.do, op.read, saved)
<1>3. text \in Seq(Items) /\ Outside(op.read) \subseteq Outside(text)
  BY <1>1, ContentHolds
<1>4. /\ op'.do = op.do /\ op'.at = "config" /\ op'.read = op.read /\ op'.text = text
      /\ op' \in [do : {"install", "disable"}, at : Places, read : Seq(Items), text : Seq(Items)]
  BY <1>1, <1>2, <1>3 DEF Places
<1>5. op' # Idle
  BY <1>4 DEF Idle
<1>6. /\ damage' # "beyond" => damage # "beyond"
      /\ damage' = "none" => damage = "none" /\ saved = op.text
      /\ damage' \in {"none", "fault", "beyond"}
  BY DEF Types
<1>7. op.text = Saved(op.do, op.read)
  BY <1>1 DEF KeptInv
<1>8. Types' /\ Operation'
  BY <1>2, <1>4, <1>6 DEF Types, Operation
<1> HIDE DEF text
<1>9. KeptInv'
  <2>1. damage' # "beyond" => /\ owned \subseteq Outside(op.read) /\ owned \subseteq Outside(config)
                              /\ owned \subseteq Outside(text)
    BY <1>1, <1>3, <1>6 DEF KeptInv
  <2>2. damage' = "none" => owned \subseteq ToSet(saved)
    <3>1. Outside(op.read) \subseteq ToSet(Saved(op.do, op.read))
      BY <1>1, SavedHolds
    <3> QED BY <1>6, <1>7, <2>1, <3>1
  <2> QED BY <1>2, <1>4, <1>5, <2>1, <2>2 DEF KeptInv
<1>10. ASSUME BlocksInv PROVE BlocksInv'
  <2>1. last = "none"
    BY <1>1, <1>10 DEF BlocksInv
  <2>2. damage' = "none" => Managed(op.do, text)
    <3> SUFFICES ASSUME damage' = "none" PROVE Managed(op.do, text)
      OBVIOUS
    <3>1. /\ Whole(op.read) /\ LegacyBehind(op.read)
          /\ op.do = "disable" => From(op.read, 1, {"BEGIN"}) # 0
      BY <1>1, <1>6, <1>10 DEF BlocksInv
    <3>2. text = Content(op.do, op.read, Saved(op.do, op.read))
      BY <1>6, <1>7 DEF text
    <3> QED BY <1>1, <3>1, <3>2, ContentManaged
  <2> QED BY <1>1, <1>2, <1>4, <1>5, <1>6, <1>10, <2>1, <2>2 DEF BlocksInv
<1> QED BY <1>8, <1>9, <1>10

\* config.toml is written: the whole text, or a part while the backup is good.
LEMMA WriteConfigKeeps ==
    ASSUME ConfigInv, NEW text \in Seq(Items), WriteConfig(text), owned' = owned,
           \/ text = op.text /\ damage' = damage
           \/ damage' = IF damage = "none" THEN "fault" ELSE "beyond"
    PROVE  ConfigInv' /\ (BlocksInv => BlocksInv')
<1> USE DEF ConfigInv
<1>1. /\ op # Idle /\ op.at = "writing config"
      /\ op \in [do : {"install", "disable"}, at : Places, read : Seq(Items), text : Seq(Items)]
  BY UnderWay DEF WriteConfig
<1>2. op' = Idle /\ last' = op.do /\ config' = text /\ backup' = backup
  BY DEF WriteConfig, End
<1>3. Types' /\ Operation'
  BY <1>1, <1>2 DEF Types, Operation
<1>4. KeptInv'
  <2>1. damage # "beyond" => owned \subseteq Outside(op.text)
    BY <1>1 DEF KeptInv
  <2>2. damage = "none" => owned \subseteq ToSet(backup)
    BY <1>1 DEF KeptInv
  <2>3. Outside(op.text) \subseteq ToSet(op.text)
    BY OutsideIsIn
  <2>4. damage' = "none" => owned \subseteq Outside(text)
    BY <2>1
  <2>5. damage' = "fault" => owned \subseteq ToSet(text) \cup ToSet(backup)
    BY <2>1, <2>2, <2>3 DEF Types
  <2> QED BY <1>2, <2>4, <2>5 DEF KeptInv, Idle
<1>5. ASSUME BlocksInv PROVE BlocksInv'
  <2> SUFFICES ASSUME damage' = "none" PROVE Whole(text) /\ LegacyBehind(text) /\ Managed(op.do, text)
    BY <1>2, <1>5 DEF BlocksInv, Idle
  <2>1. damage = "none" /\ text = op.text
    BY DEF Types
  <2>2. Managed(op.do, text)
    BY <1>1, <1>5, <2>1 DEF BlocksInv
  <2> QED BY <2>2, ManagedWhole
<1> QED BY <1>3, <1>4, <1>5

LEMMA WritesKeeps ==
    ASSUME ConfigInv, Writes \/ WritesLess
    PROVE  ConfigInv' /\ (BlocksInv => BlocksInv')
<1>0. op.text \in Seq(Items)
  <2>1. op.at # "idle"
    BY DEF Writes, WritesLess, WriteBackup, WriteConfig
  <2> QED BY <2>1, UnderWay DEF ConfigInv
<1>1. CASE Writes
  BY <1>0, <1>1, WriteBackupKeeps, WriteConfigKeeps DEF Writes, WriteBackup, WriteConfig
<1>2. CASE WritesLess
  <2>1. PICK part \in Prefixes(op.text) : WriteBackup(part) \/ WriteConfig(part)
    BY <1>2 DEF WritesLess
  <2>2. damage' = IF damage = "none" THEN "fault" ELSE "beyond"
    BY <1>2 DEF WritesLess, Fault
  <2>3. part \in Seq(Items) /\ owned' = owned
    BY <1>0, <2>1, PrefixIsFile DEF WriteBackup, WriteConfig
  <2> QED BY <2>1, <2>2, <2>3, WriteBackupKeeps, WriteConfigKeeps
<1> QED BY <1>1, <1>2

\* A file that would be empty is removed.
LEMMA UnlinkKeeps ==
    ASSUME ConfigInv, Unlink
    PROVE  ConfigInv' /\ (BlocksInv => BlocksInv')
<1> USE DEF ConfigInv
<1>1. op # Idle /\ op.at = "config" /\ op.text = <<>>
  BY DEF Unlink, Idle
<1>2. /\ op' = Idle /\ last' = "disable" /\ config' = <<>> /\ backup' = backup
      /\ owned' = owned /\ damage' = damage
  BY DEF Unlink, End
<1>3. Types' /\ Operation'
  BY <1>2, BlockIsFile DEF Types, Operation
<1>4. damage # "beyond" => owned = {}
  <2>1. Outside(<<>>) = {}
    BY DEF Outside
  <2> QED BY <1>1, <2>1 DEF KeptInv
<1>5. KeptInv'
  BY <1>2, <1>4 DEF KeptInv, Idle, Types
<1>6. Managed("disable", <<>>) /\ Whole(<<>>) /\ LegacyBehind(<<>>)
  BY DEF Managed, Unmarked, Whole, Matched, LegacyBehind
<1>7. ASSUME BlocksInv PROVE BlocksInv'
  BY <1>2, <1>6 DEF BlocksInv, Idle
<1> QED BY <1>3, <1>5, <1>7

\* A crash leaves a part of the file that is open, and the other one.
LEMMA CrashKeeps ==
    ASSUME ConfigInv, Crash
    PROVE  ConfigInv' /\ (BlocksInv => BlocksInv')
<1> USE DEF ConfigInv
<1>1. /\ op # Idle
      /\ op \in [do : {"install", "disable"}, at : Places, read : Seq(Items), text : Seq(Items)]
  BY DEF Crash, Operation
<1>2. /\ op' = Idle /\ last' = "crashed" /\ owned' = owned
      /\ damage' = IF damage = "none" THEN "fault" ELSE "beyond"
  BY DEF Crash, Fault, End
<1>3. /\ op.at = "writing backup" => backup' \in Prefixes(op.text) /\ config' = config
      /\ op.at = "writing config" => config' \in Prefixes(op.text) /\ backup' = backup
      /\ op.at \notin {"writing backup", "writing config"} => config' = config /\ backup' = backup
  BY DEF Crash
<1>4. config' \in Seq(Items) /\ backup' \in Seq(Items)
  <2>1. op.text \in Seq(Items)
    BY <1>1
  <2> QED BY <1>3, <2>1, PrefixIsFile DEF Types
<1>5. Types' /\ Operation'
  BY <1>2, <1>4 DEF Types, Operation
<1>6. KeptInv'
  <2> SUFFICES ASSUME damage = "none" PROVE owned \subseteq ToSet(config') \cup ToSet(backup')
    BY <1>2 DEF KeptInv, Idle
  <2>1. CASE op.at = "writing config"
    BY <1>1, <1>3, <2>1 DEF KeptInv
  <2>2. CASE op.at # "writing config"
    <3>1. config' = config /\ owned \subseteq Outside(config)
      BY <1>1, <1>3, <2>2 DEF KeptInv
    <3> QED BY <3>1, OutsideIsIn
  <2> QED BY <2>1, <2>2
<1>7. ASSUME BlocksInv PROVE BlocksInv'
  BY <1>2 DEF BlocksInv, Idle
<1> QED BY <1>5, <1>6, <1>7

\* The user adds an item.
LEMMA AddKeeps ==
    ASSUME ConfigInv, NEW x \in Theirs, NEW i \in 1..Len(config) + 1, Add(x, i)
    PROVE  ConfigInv' /\ (BlocksInv => BlocksInv')
<1> USE DEF ConfigInv
<1>1. /\ config' = InsertAt(config, i, x) /\ last' = "none" /\ backup' = backup /\ op' = op /\ damage' = damage
      /\ owned' = IF op = Idle THEN owned \cup (Outside(config') \cap {x}) ELSE owned
  BY DEF Add
<1>2. config \in Seq(Items)
  BY DEF Types
<1>3. /\ config' \in Seq(Items)
      /\ Outside(config) \subseteq Outside(config')
      /\ ToSet(config) \subseteq ToSet(config')
      /\ Whole(config) => Whole(config')
      /\ LegacyBehind(config) => LegacyBehind(config')
  BY <1>1, <1>2, Inserted
<1>4. Outside(config') \subseteq ToSet(config')
  BY OutsideIsIn
<1>5. Types' /\ Operation'
  BY <1>1, <1>3 DEF Types, Operation
<1>6. KeptInv'
  <2>1. CASE op = Idle
    BY <1>1, <1>3, <1>4, <2>1 DEF KeptInv, Idle
  <2>2. CASE op # Idle
    BY <1>1, <1>3, <2>2 DEF KeptInv
  <2> QED BY <2>1, <2>2
<1>7. ASSUME BlocksInv PROVE BlocksInv'
  BY <1>1, <1>3, <1>7 DEF BlocksInv
<1> QED BY <1>5, <1>6, <1>7

\* The user deletes one.
LEMMA DeleteKeeps ==
    ASSUME ConfigInv, NEW i \in 1..Len(config), Delete(i)
    PROVE  ConfigInv' /\ (BlocksInv => BlocksInv')
<1> USE DEF ConfigInv
<1>1. /\ config' = RemoveAt(config, i) /\ last' = "none" /\ backup' = backup /\ op' = op
      /\ owned' = owned \ ({config[i]} \ Outside(config'))
      /\ damage' = IF config[i] \in Markers THEN "beyond" ELSE damage
  BY DEF Delete
<1>2. config \in Seq(Items)
  BY DEF Types
<1>3. /\ config' \in Seq(Items)
      /\ config[i] \notin Markers =>
            /\ Outside(config) \subseteq Outside(config') \cup {config[i]}
            /\ Whole(config) => Whole(config')
            /\ LegacyBehind(config) => LegacyBehind(config')
      /\ ToSet(config) \subseteq ToSet(config') \cup {config[i]}
  BY <1>1, <1>2, Removed
<1>4. Outside(config') \subseteq ToSet(config') /\ owned' \subseteq owned
  BY <1>1, OutsideIsIn
<1>5. Types' /\ Operation'
  BY <1>1, <1>3, <1>4 DEF Types, Operation
<1>6. damage' # "beyond" => damage' = damage /\ config[i] \notin Markers
  BY <1>1
<1>7. /\ owned \subseteq Outside(config) /\ damage' # "beyond" => owned' \subseteq Outside(config')
      /\ owned \subseteq ToSet(config) \cup ToSet(backup) => owned' \subseteq ToSet(config') \cup ToSet(backup)
  BY <1>1, <1>3, <1>4, <1>6
<1>8. KeptInv'
  <2>1. CASE op = Idle
    BY <1>1, <1>6, <1>7, <2>1 DEF KeptInv, Idle
  <2>2. CASE op # Idle
    BY <1>1, <1>4, <1>6, <1>7, <2>2 DEF KeptInv
  <2> QED BY <2>1, <2>2
<1>9. ASSUME BlocksInv PROVE BlocksInv'
  BY <1>1, <1>3, <1>6, <1>9 DEF BlocksInv
<1> QED BY <1>5, <1>8, <1>9

LEMMA ConfigNext ==
    ASSUME ConfigInv, [Next]_vars
    PROVE  ConfigInv' /\ (BlocksInv => BlocksInv')
<1>1. CASE Install \/ Disable
  BY <1>1, BeginKeeps DEF Install, Disable
<1>2. CASE Opens
  BY <1>2, OpensKeeps
<1>3. CASE OpenFails
  BY <1>3, OpenFailsKeeps
<1>4. CASE Writes \/ WritesLess
  BY <1>4, WritesKeeps
<1>5. CASE Unlink
  BY <1>5, UnlinkKeeps
<1>6. CASE Crash
  BY <1>6, CrashKeeps
<1>7. CASE User
  BY <1>7, AddKeeps, DeleteKeeps DEF User
<1>8. CASE UNCHANGED vars
  BY <1>8 DEF vars, ConfigInv, Types, Operation, KeptInv, BlocksInv
<1> QED BY <1>1, <1>2, <1>3, <1>4, <1>5, <1>6, <1>7, <1>8 DEF Next

LEMMA ConfigHolds == Spec => []ConfigInv
<1>1. Init => ConfigInv
  BY ConfigInit
<1>2. ConfigInv /\ [Next]_vars => ConfigInv'
  BY ConfigNext
<1> QED BY <1>1, <1>2, PTL DEF Spec

-----------------------------------------------------------------------------
\* Whatever the files are, the user does and goes wrong, files hold items, and an
\* operation under way has a file to write (TypeOK).
THEOREM ConfigTypes == Spec => []TypeOK
<1>1. ConfigInv => TypeOK
  <2> SUFFICES ASSUME ConfigInv PROVE TypeOK
    OBVIOUS
  <2>1. CASE op = Idle
    BY <2>1, BlockIsFile DEF ConfigInv, Types, TypeOK, Idle
  <2>2. CASE op # Idle
    BY <2>2 DEF ConfigInv, Types, Operation, TypeOK, Places
  <2> QED BY <2>1, <2>2
<1> QED BY <1>1, ConfigHolds, PTL

\* However many operations end, and with whatever files the user began, none
\* loses what is the user's (UserKept: remove_all_managed_sections, write_file).
THEOREM NothingLost == Spec => []UserKept
<1>1. ConfigInv => UserKept
  <2> SUFFICES ASSUME ConfigInv, damage = "none", op.at # "writing config"
               PROVE  owned \subseteq ToSet(config)
    BY DEF UserKept
  <2>1. owned \subseteq Outside(config)
    BY DEF ConfigInv, KeptInv
  <2> QED BY <2>1, OutsideIsIn
<1> QED BY <1>1, ConfigHolds, PTL

\* At whatever point of an operation the first fault is, what is the user's is in
\* config.toml or in its backup (Recoverable: write_file).
THEOREM FaultsRecoverable == Spec => []Recoverable
<1>1. ConfigInv => Recoverable
  <2> SUFFICES ASSUME ConfigInv, damage = "none" \/ (damage = "fault" /\ op = Idle)
               PROVE  owned \subseteq ToSet(config) \cup ToSet(backup)
    BY DEF Recoverable
  <2>1. CASE op = Idle
    BY <2>1, OutsideIsIn DEF ConfigInv, KeptInv
  <2>2. CASE op # Idle /\ op.at # "writing config"
    <3>1. owned \subseteq Outside(config)
      BY <2>2 DEF ConfigInv, KeptInv
    <3> QED BY <3>1, OutsideIsIn
  <2>3. CASE op # Idle /\ op.at = "writing config"
    BY <2>3 DEF ConfigInv, KeptInv
  <2> QED BY <2>1, <2>2, <2>3
<1> QED BY <1>1, ConfigHolds, PTL

\* If the blocks of the files at the start are whole, then install leaves one
\* block and disable none, after any history without a fault (OneBlock:
\* find_managed_block, remove_all_managed_sections, extract_displaced_keys).
THEOREM OneBlockLeft ==
    ASSUME CleanStart
    PROVE  Spec => []OneBlock
<1>1. Init => BlocksInv
  BY ConfigInit
<1>2. ConfigInv /\ BlocksInv /\ [Next]_vars => BlocksInv'
  BY ConfigNext
<1>3. ConfigInv /\ BlocksInv => OneBlock
  <2> SUFFICES ASSUME ConfigInv, BlocksInv, damage = "none"
               PROVE  /\ last = "install" => /\ Installed(config)
                                             /\ Cardinality({i \in DOMAIN config : config[i] \in Begins}) = 1
                      /\ last = "disable" => ~Installed(config)
    BY DEF OneBlock
  <2>0. config \in Seq(Items)
    BY DEF ConfigInv, Types
  <2>1. CASE last = "install"
    <3>1. PICK u \in Seq(Items) : Unmarked(u) /\ config = u \o Block
      BY <2>1 DEF BlocksInv, Managed
    <3>2. /\ Installed(u \o Block)
          /\ Cardinality({i \in DOMAIN (u \o Block) : (u \o Block)[i] \in Begins}) = 1
      BY <3>1, BlockBehind
    <3> QED BY <2>1, <3>1, <3>2
  <2>2. CASE last = "disable"
    <3>1. Unmarked(config)
      BY <2>2 DEF BlocksInv, Managed
    <3> QED BY <2>0, <2>2, <3>1, NoneInstalled
  <2> QED BY <2>1, <2>2
<1> QED BY <1>1, <1>2, <1>3, ConfigHolds, PTL DEF Spec

=============================================================================
