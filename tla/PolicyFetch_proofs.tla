------------------------ MODULE PolicyFetch_proofs ------------------------
(***************************************************************************)
(* Proofs about PolicyFetch, for any calls, limits and streams: where the  *)
(* requests of a call go, what they carry, and what the timer may end; and *)
(* that a stream, cut into whatever chunks, is validated as the reader of  *)
(* its events sees it.                                                     *)
(*                                                                         *)
(* A frame of a text is told by places in the text. A data line is sound   *)
(* when the data lines no empty line keeps apart from it make one payload  *)
(* with it (SoundAt). Both ways of cutting are shown to give frames that   *)
(* are sound when their data lines are, so what is proved of the stream is *)
(* proved line by line and holds wherever its chunks end.                  *)
(***************************************************************************)
EXTENDS PolicyFetch, SequenceTheorems, Induction

----------------------------------------------------------------------------
(***************************************************************************)
(* Parts of a sequence.                                                    *)
(***************************************************************************)

\* The length and the elements of a part of a sequence.
LEMMA SubSeqFacts ==
  ASSUME NEW S, NEW t \in Seq(S), NEW m \in Nat \ {0}, NEW n \in 0..Len(t), m <= n + 1
  PROVE  /\ SubSeq(t, m, n) \in Seq(S)
         /\ Len(SubSeq(t, m, n)) = n - m + 1
         /\ DOMAIN SubSeq(t, m, n) = 1..(n - m + 1)
         /\ \A i \in 1..(n - m + 1) : SubSeq(t, m, n)[i] = t[m + i - 1]
<1>1. Len(t) \in Nat /\ \A i \in 1..Len(t) : t[i] \in S
  OBVIOUS
<1>2. \A i \in m..n : t[i] \in S
  BY <1>1
<1>3. /\ SubSeq(t, m, n) \in Seq(S)
      /\ Len(SubSeq(t, m, n)) = IF m <= n THEN n - m + 1 ELSE 0
      /\ \A i \in 1..(n - m + 1) : SubSeq(t, m, n)[i] = t[m + i - 1]
  BY <1>2, SubSeqProperties
<1>4. Len(SubSeq(t, m, n)) = n - m + 1
  BY <1>1, <1>3
<1> QED
  BY <1>3, <1>4, LenProperties

\* The part of a text that follows its first k characters, up to the nth.
LEMMA PartFacts ==
  ASSUME NEW t \in Seq(Tokens), NEW n \in 0..Len(t), NEW k \in 0..n
  PROVE  LET r == SubSeq(t, k + 1, n)
         IN  /\ r \in Seq(Tokens) /\ Len(r) = n - k /\ DOMAIN r = 1..(n - k)
             /\ \A x \in 1..(n - k) : r[x] = t[k + x]
<1> DEFINE a == k + 1
           r == SubSeq(t, a, n)
<1>1. Len(t) \in Nat /\ n \in Nat /\ k \in Nat
  OBVIOUS
<1>2. a \in Nat \ {0} /\ a <= n + 1 /\ n - a + 1 = n - k
  BY <1>1
<1>3. \A x \in 1..(n - k) : a + x - 1 = k + x
  BY <1>1
<1> HIDE DEF a
<1>4. /\ r \in Seq(Tokens) /\ Len(r) = n - a + 1 /\ DOMAIN r = 1..(n - a + 1)
      /\ \A x \in 1..(n - a + 1) : r[x] = t[a + x - 1]
  BY <1>2, SubSeqFacts
<1> HIDE DEF r
<1>5. /\ r \in Seq(Tokens) /\ Len(r) = n - k /\ DOMAIN r = 1..(n - k)
      /\ \A x \in 1..(n - k) : r[x] = t[k + x]
  BY <1>2, <1>3, <1>4
<1> QED
  BY <1>5 DEF r, a

\* The first d characters of a text.
LEMMA PrefixFacts ==
  ASSUME NEW t \in Seq(Tokens), NEW d \in 0..Len(t)
  PROVE  LET u == SubSeq(t, 1, d)
         IN  /\ u \in Seq(Tokens) /\ Len(u) = d /\ DOMAIN u = 1..d
             /\ \A n \in 1..d : u[n] = t[n]
<1>1. d \in Nat /\ 0 \in 0..d /\ 0 + 1 = 1 /\ d - 0 = d /\ \A n \in 1..d : 0 + n = n
  OBVIOUS
<1>2. LET u == SubSeq(t, 0 + 1, d)
      IN  /\ u \in Seq(Tokens) /\ Len(u) = d - 0 /\ DOMAIN u = 1..(d - 0)
          /\ \A n \in 1..(d - 0) : u[n] = t[0 + n]
  BY <1>1, PartFacts
<1> QED
  BY <1>1, <1>2

\* A part of a part of a sequence is a part of the sequence.
LEMMA SubSeqOfRest ==
  ASSUME NEW S, NEW t \in Seq(S), NEW k \in 0..Len(t), NEW l \in k..Len(t),
         NEW a \in Nat \ {0}, NEW b \in 0..(l - k), a <= b + 1
  PROVE  SubSeq(SubSeq(t, k + 1, l), a, b) = SubSeq(t, k + a, k + b)
<1> DEFINE r == SubSeq(t, k + 1, l)
           u == SubSeq(r, a, b)
           v == SubSeq(t, k + a, k + b)
<1>1. r \in Seq(S) /\ Len(r) = l - k /\ \A i \in 1..(l - k) : r[i] = t[k + i]
  <2>1. /\ k + 1 \in Nat \ {0} /\ l \in 0..Len(t) /\ k + 1 <= l + 1 /\ l - (k + 1) + 1 = l - k
        /\ \A i \in 1..(l - k) : (k + 1) + i - 1 = k + i
    OBVIOUS
  <2> QED
    BY <2>1, SubSeqFacts
<1> HIDE DEF r
<1>2. u \in Seq(S) /\ Len(u) = b - a + 1 /\ \A i \in 1..(b - a + 1) : u[i] = r[a + i - 1]
  <2>1. b \in 0..Len(r)
    BY <1>1
  <2> QED
    BY <1>1, <2>1, SubSeqFacts
<1>3. v \in Seq(S) /\ Len(v) = b - a + 1 /\ \A i \in 1..(b - a + 1) : v[i] = t[k + a + i - 1]
  <2>1. /\ k + a \in Nat \ {0} /\ k + b \in 0..Len(t) /\ k + a <= k + b + 1
        /\ (k + b) - (k + a) + 1 = b - a + 1
    OBVIOUS
  <2> QED
    BY <2>1, SubSeqFacts
<1>4. \A i \in 1..(b - a + 1) : a + i - 1 \in 1..(l - k) /\ k + (a + i - 1) = k + a + i - 1
  OBVIOUS
<1>5. \A i \in 1..Len(u) : u[i] = v[i]
  BY <1>1, <1>2, <1>3, <1>4
<1> HIDE DEF u, v
<1>6. u = v
  BY <1>2, <1>3, <1>5, SeqEqual
<1> QED
  BY <1>6 DEF u, v, r
----------------------------------------------------------------------------
(***************************************************************************)
(* Frames told by places in the text: pieces that no empty line divides.   *)
(***************************************************************************)

\* Two line ends in a row end a frame.
EmptyLineAt(text, i) == text[i] \in LineEnds /\ text[i + 1] \in LineEnds

\* A frame ends between two data lines.
Apart(text, p, q) == \E i \in (p + 1)..(q - 2) : EmptyLineAt(text, i)

\* The data lines of the frame of a data line.
Joined(text, p) == {q \in DataAt(text) : ~Apart(text, p, q) /\ ~Apart(text, q, p)}

\* The data lines of its frame make one payload.
SoundAt(text, p) ==
  \/ text[p] = "whole" /\ Joined(text, p) = {p}
  \/ \E q \in DataAt(text) :
       /\ Joined(text, p) = {p, q}
       /\ \/ p < q /\ text[p] = "head" /\ text[q] = "rest"
          \/ q < p /\ text[q] = "head" /\ text[p] = "rest"

\* Where a frame may start, and where one may end; a piece is a frame, or what follows the last.
StartsPiece(text, a) == a = 1 \/ (a >= 3 /\ EmptyLineAt(text, a - 2))

EndsPiece(text, b) == b = Len(text) \/ (b + 2 <= Len(text) /\ EmptyLineAt(text, b + 1))

Piece(text, a, b) ==
  /\ b \in 0..Len(text) /\ a \in 1..(b + 1)
  /\ \A i \in a..(b - 1) : ~EmptyLineAt(text, i)
  /\ StartsPiece(text, a)
  /\ EndsPiece(text, b)

\* A data line is not a line end.
LEMMA DataAreNoEnds ==
  ASSUME NEW t \in Seq(Tokens), NEW p \in DataAt(t)
  PROVE  p \in 1..Len(t) /\ t[p] \in DataLines /\ t[p] \notin LineEnds
  BY DEF DataAt, DataLines, LineEnds

\* The data lines a piece has one of are those in it.
LEMMA PieceJoins ==
  ASSUME NEW t \in Seq(Tokens), NEW a, NEW b, Piece(t, a, b), NEW p \in DataAt(t), p \in a..b
  PROVE  Joined(t, p) = {q \in DataAt(t) : q \in a..b}
<1>0. Len(t) \in Nat
  OBVIOUS
<1>1. b \in 0..Len(t) /\ a \in 1..(b + 1) /\ a \in Nat /\ b \in Nat /\ p \in Nat
  BY <1>0 DEF Piece
<1>2. ASSUME NEW q \in DataAt(t), q \in a..b PROVE ~Apart(t, p, q) /\ ~Apart(t, q, p)
  BY <1>1, <1>2 DEF Apart, Piece
<1>3. ASSUME NEW q \in DataAt(t), q \notin a..b PROVE Apart(t, p, q) \/ Apart(t, q, p)
  <2>1. q \in 1..Len(t) /\ q \in Nat /\ t[q] \notin LineEnds
    BY <1>0, DataAreNoEnds
  <2>2. CASE q < a
    <3>1. a >= 3 /\ EmptyLineAt(t, a - 2)
      BY <1>1, <2>1, <2>2 DEF Piece, StartsPiece
    <3>2. q # a - 2 /\ q # a - 1
      BY <1>1, <2>1, <3>1 DEF EmptyLineAt
    <3>3. a - 2 \in (q + 1)..(p - 2)
      BY <1>1, <2>1, <2>2, <3>2
    <3> QED
      BY <3>1, <3>3 DEF Apart
  <2>3. CASE q > b
    <3>1. b + 2 <= Len(t) /\ EmptyLineAt(t, b + 1)
      BY <1>0, <1>1, <2>1, <2>3 DEF Piece, EndsPiece
    <3>2. q # b + 1 /\ q # b + 2
      BY <1>1, <2>1, <3>1 DEF EmptyLineAt
    <3>3. b + 1 \in (p + 1)..(q - 2)
      BY <1>1, <2>1, <2>3, <3>2
    <3> QED
      BY <3>1, <3>3 DEF Apart
  <2> QED
    BY <1>1, <1>3, <2>1, <2>2, <2>3
<1> QED
  BY <1>2, <1>3 DEF Joined

\* A frame that is a piece of a text is sound when all its data are.
LEMMA PieceSound ==
  ASSUME NEW t \in Seq(Tokens), NEW a, NEW b, Piece(t, a, b)
  PROVE  Sound(SubSeq(t, a, b)) <=> \A p \in DataAt(t) : p \in a..b => SoundAt(t, p)
<1> DEFINE f == SubSeq(t, a, b)
           D == {q \in DataAt(t) : q \in a..b}
<1>0. Len(t) \in Nat
  OBVIOUS
<1>1. b \in 0..Len(t) /\ a \in 1..(b + 1) /\ a \in Nat \ {0} /\ b \in Nat
  BY <1>0 DEF Piece
<1>2. f \in Seq(Tokens) /\ DOMAIN f = 1..(b - a + 1) /\ \A i \in 1..(b - a + 1) : f[i] = t[a + i - 1]
  BY <1>1, SubSeqFacts
<1> HIDE DEF f
<1>3. \A i \in DataAt(f) : i \in Nat /\ a + i - 1 \in D /\ f[i] = t[a + i - 1]
  <2>1. \A i \in DataAt(f) : i \in 1..(b - a + 1) /\ f[i] \in DataLines
    BY <1>2 DEF DataAt
  <2>2. \A i \in 1..(b - a + 1) : i \in Nat /\ a + i - 1 \in 1..Len(t) /\ a + i - 1 \in a..b
    BY <1>0, <1>1
  <2>3. ASSUME NEW i \in DataAt(f)
        PROVE  i \in Nat /\ a + i - 1 \in DataAt(t) /\ a + i - 1 \in a..b /\ f[i] = t[a + i - 1]
    <3>1. i \in 1..(b - a + 1) /\ f[i] \in DataLines /\ f[i] = t[a + i - 1]
      BY <1>2, <2>1
    <3>2. i \in Nat /\ a + i - 1 \in 1..Len(t) /\ a + i - 1 \in a..b
      BY <2>2, <3>1
    <3> DEFINE x == a + i - 1
    <3> HIDE DEF x
    <3>3. x \in 1..Len(t) /\ t[x] \in DataLines
      BY <3>1, <3>2 DEF x
    <3>4. x \in DataAt(t)
      BY <3>3 DEF DataAt
    <3> QED
      BY <3>1, <3>2, <3>4 DEF x
  <2> QED
    BY <2>3
<1>4. \A p \in D : p \in Nat /\ p - a + 1 \in DataAt(f) /\ f[p - a + 1] = t[p]
  <2>1. \A p \in D : p \in a..b /\ p \in Nat /\ p - a + 1 \in 1..(b - a + 1) /\ a + (p - a + 1) - 1 = p
    BY <1>1
  <2>2. \A p \in D : t[p] \in DataLines
    BY DEF DataAt
  <2> QED
    BY <1>2, <2>1, <2>2 DEF DataAt
<1>5. \A p \in D : Joined(t, p) = D
  BY PieceJoins
<1> HIDE DEF D
<1>6. ASSUME Sound(f), NEW p \in D PROVE SoundAt(t, p)
  <2>1. CASE DataAt(f) = {}
    BY <1>4, <2>1
  <2>2. ASSUME NEW i \in DataAt(f), DataAt(f) = {i}, f[i] = "whole" PROVE SoundAt(t, p)
    <3>1. \A q \in D : q - a + 1 = i
      BY <1>4, <2>2
    <3>2. D = {p}
      BY <1>1, <1>4, <3>1
    <3> QED
      BY <1>4, <1>5, <2>2, <3>1, <3>2 DEF SoundAt
  <2>3. ASSUME NEW i \in DataAt(f), NEW j \in DataAt(f), DataAt(f) = {i, j}, i < j,
               f[i] = "head", f[j] = "rest"
        PROVE SoundAt(t, p)
    <3> DEFINE x == a + i - 1
               y == a + j - 1
    <3>1. x \in D /\ y \in D /\ t[x] = "head" /\ t[y] = "rest"
      BY <1>3, <2>3
    <3>2. x < y
      BY <1>1, <1>3, <2>3
    <3>3. \A q \in D : q = x \/ q = y
      <4>1. \A q \in D : q - a + 1 = i \/ q - a + 1 = j
        BY <1>4, <2>3
      <4>2. i \in Nat /\ j \in Nat /\ a \in Nat /\ \A q \in D : q \in Nat
        BY <1>1, <1>3, <1>4
      <4>3. \A q \in Nat : (q - a + 1 = i => q = x) /\ (q - a + 1 = j => q = y)
        BY <4>2
      <4> QED
        BY <4>1, <4>2, <4>3
    <3> HIDE DEF x, y
    <3>4. Joined(t, p) = {x, y} /\ x \in DataAt(t) /\ y \in DataAt(t)
      BY <1>5, <3>1, <3>3 DEF D
    <3> QED
      BY <3>1, <3>2, <3>3, <3>4 DEF SoundAt
  <2> QED
    BY <1>6, <2>1, <2>2, <2>3 DEF Sound
<1>7. ASSUME \A p \in D : SoundAt(t, p) PROVE Sound(f)
  <2>1. CASE D = {}
    BY <1>3, <2>1 DEF Sound
  <2>2. ASSUME NEW p \in D PROVE Sound(f)
    <3>0. p \in Nat /\ p - a + 1 \in DataAt(f) /\ f[p - a + 1] = t[p]
      BY <1>4
    <3>1. CASE t[p] = "whole" /\ D = {p}
      <4>1. \A i \in DataAt(f) : a + i - 1 = p
        BY <1>3, <3>1
      <4>2. \A i \in DataAt(f) : i = p - a + 1
        <5> SUFFICES ASSUME NEW i \in DataAt(f) PROVE i = p - a + 1
          OBVIOUS
        <5>1. i \in Nat /\ a \in Nat /\ p \in Nat /\ a + i - 1 = p
          BY <1>1, <1>3, <3>0, <4>1
        <5> QED
          BY <5>1
      <4> QED
        BY <3>0, <3>1, <4>2 DEF Sound
    <3>2. ASSUME NEW x \in D, NEW y \in D, D = {x, y}, x < y, t[x] = "head", t[y] = "rest"
          PROVE Sound(f)
      <4> DEFINE i == x - a + 1
                 j == y - a + 1
      <4>1. i \in DataAt(f) /\ j \in DataAt(f) /\ f[i] = "head" /\ f[j] = "rest"
        BY <1>4, <3>2
      <4>2. i < j
        BY <1>1, <1>4, <3>2
      <4>3. \A n \in DataAt(f) : n = i \/ n = j
        <5>1. \A n \in DataAt(f) : a + n - 1 = x \/ a + n - 1 = y
          BY <1>3, <3>2
        <5>2. x \in Nat /\ y \in Nat /\ a \in Nat /\ \A n \in DataAt(f) : n \in Nat
          BY <1>1, <1>3, <1>4
        <5>3. \A n \in Nat : (a + n - 1 = x => n = i) /\ (a + n - 1 = y => n = j)
          BY <5>2
        <5> QED
          BY <5>1, <5>2, <5>3
      <4> HIDE DEF i, j
      <4>4. DataAt(f) = {i, j}
        BY <4>1, <4>3
      <4> QED
        BY <4>1, <4>2, <4>4 DEF Sound
    <3> QED
      BY <1>5, <1>7, <3>1, <3>2 DEF SoundAt
  <2> QED
    BY <2>1, <2>2
<1> QED
  BY <1>6, <1>7 DEF D, f
----------------------------------------------------------------------------
(***************************************************************************)
(* What Cut cuts off a text.                                               *)
(***************************************************************************)

\* The community modules' minimum is the least element.
LEMMA LeastIsMin ==
  ASSUME NEW S \in SUBSET Nat, S # {}
  PROVE  Min(S) \in S /\ \A n \in S : Min(S) <= n
  BY Least DEF Min

\* A separator has two characters at least, all of them line ends.
LEMMA SeparatorFacts ==
  ASSUME NEW r \in Seq(Tokens), NEW i \in Separators(r)
  PROVE  /\ SeparatorLength(r, i) \in Nat /\ SeparatorLength(r, i) >= 2
         /\ i + SeparatorLength(r, i) - 1 <= Len(r)
         /\ \A x \in i..(i + SeparatorLength(r, i) - 1) : r[x] \in LineEnds
<1>1. /\ Len(r) \in Nat /\ i \in Nat /\ i + 1 <= Len(r)
      /\ r[i] \in LineEnds /\ r[i + 1] \in LineEnds
  BY DEF Separators
<1>2. \A n \in Nat : \/ EndLength(r, n) = 1
                     \/ EndLength(r, n) = 2 /\ n < Len(r) /\ r[n + 1] \in LineEnds
  BY DEF EndLength, LineEnds
<1> DEFINE e == EndLength(r, i)
           next == i + e
           d == EndLength(r, next)
<1>3. e \in {1, 2} /\ (e = 2 => i < Len(r) /\ r[i + 1] \in LineEnds)
  BY <1>1, <1>2
<1>4. next \in Nat /\ d \in {1, 2} /\ (d = 2 => next < Len(r) /\ r[next + 1] \in LineEnds)
  BY <1>1, <1>2, <1>3
<1>5. SeparatorLength(r, i) = IF next <= Len(r) /\ r[next] \in LineEnds THEN e + d ELSE 2
  BY DEF SeparatorLength
<1> HIDE DEF d
<1>6. CASE next <= Len(r) /\ r[next] \in LineEnds
  <2>1. SeparatorLength(r, i) = e + d
    BY <1>5, <1>6
  <2> HIDE DEF next, e
  <2>2. i + (e + d) - 1 <= Len(r) /\ e + d >= 2
    BY <1>1, <1>3, <1>4, <1>6 DEF next
  <2>3. \A x \in i..(i + (e + d) - 1) : x = i \/ (e = 2 /\ x = i + 1) \/ x = next \/ (d = 2 /\ x = next + 1)
    BY <1>1, <1>3, <1>4 DEF next
  <2>4. \A x \in i..(i + (e + d) - 1) : r[x] \in LineEnds
    BY <1>1, <1>3, <1>4, <1>6, <2>3
  <2> QED
    BY <1>3, <1>4, <2>1, <2>2, <2>4
<1>7. CASE ~(next <= Len(r) /\ r[next] \in LineEnds)
  <2>1. SeparatorLength(r, i) = 2
    BY <1>5, <1>7
  <2>2. \A x \in i..(i + 2 - 1) : x = i \/ x = i + 1
    BY <1>1
  <2> QED
    BY <1>1, <2>1, <2>2
<1> QED
  BY <1>6, <1>7

\* What is made of a text while frames are cut off it.
Cuts == [frames: Seq(Seq(Tokens)), rest: Seq(Tokens)]

\* What one cut leaves of a text with a separator.
LEMMA CutOnceFacts ==
  ASSUME NEW c \in Cuts, Separators(c.rest) # {}
  PROVE  \E i \in Nat, j \in Nat :
           /\ 1 <= i /\ i + 1 <= j /\ j <= Len(c.rest)
           /\ CutOnce(c) = [frames |-> Append(c.frames, SubSeq(c.rest, 1, i - 1)),
                           rest |-> SubSeq(c.rest, j + 1, Len(c.rest))]
           /\ \A x \in i..j : c.rest[x] \in LineEnds
           /\ \A x \in 1..(i - 1) : ~EmptyLineAt(c.rest, x)
           /\ CutOnce(c) \in Cuts
<1> DEFINE r == c.rest
           i == Min(Separators(r))
           j == i + SeparatorLength(r, i) - 1
<1>1. r \in Seq(Tokens) /\ c.frames \in Seq(Seq(Tokens)) /\ Len(r) \in Nat
  BY DEF Cuts
<1>2. Separators(r) \subseteq Nat
  BY <1>1 DEF Separators
<1>3. i \in Separators(r) /\ \A n \in Separators(r) : i <= n
  BY <1>2, LeastIsMin
<1>4. CutOnce(c) = [frames |-> Append(c.frames, SubSeq(r, 1, i - 1)),
                    rest |-> SubSeq(r, i + SeparatorLength(r, i), Len(r))]
  BY DEF CutOnce
<1> HIDE DEF i
<1>5. i \in Nat /\ 1 <= i /\ i + 1 <= Len(r)
  BY <1>1, <1>3 DEF Separators
<1>6. /\ j \in Nat /\ i + 1 <= j /\ j <= Len(r) /\ i + SeparatorLength(r, i) = j + 1
      /\ \A x \in i..j : r[x] \in LineEnds
  <2>1. /\ SeparatorLength(r, i) \in Nat /\ SeparatorLength(r, i) >= 2
        /\ i + SeparatorLength(r, i) - 1 <= Len(r)
        /\ \A x \in i..(i + SeparatorLength(r, i) - 1) : r[x] \in LineEnds
    BY <1>1, <1>3, SeparatorFacts
  <2>2. \A x \in i..j : r[x] \in LineEnds
    BY <2>1
  <2>3. i + 1 <= j /\ j <= Len(r) /\ i + SeparatorLength(r, i) = j + 1 /\ j \in Nat
    BY <1>1, <1>5, <2>1
  <2> QED
    BY <2>2, <2>3
<1> HIDE DEF j
<1>7. \A x \in 1..(i - 1) : ~EmptyLineAt(r, x)
  <2> SUFFICES ASSUME NEW x \in 1..(i - 1), EmptyLineAt(r, x) PROVE FALSE
    OBVIOUS
  <2>1. x \in Separators(r)
    BY <1>1, <1>5 DEF EmptyLineAt, Separators
  <2> QED
    BY <1>3, <1>5, <2>1
<1>8. CutOnce(c) \in Cuts
  <2>1. SubSeq(r, 1, i - 1) \in Seq(Tokens)
    BY <1>1, <1>5, SubSeqFacts
  <2>2. SubSeq(r, j + 1, Len(r)) \in Seq(Tokens)
    <3>1. j + 1 \in Nat \ {0} /\ Len(r) \in 0..Len(r) /\ j + 1 <= Len(r) + 1
      BY <1>1, <1>6
    <3> QED
      BY <1>1, <3>1, SubSeqFacts
  <2>3. Append(c.frames, SubSeq(r, 1, i - 1)) \in Seq(Seq(Tokens))
    BY <1>1, <2>1
  <2> QED
    <3> DEFINE frames == Append(c.frames, SubSeq(r, 1, i - 1))
               rest == SubSeq(r, j + 1, Len(r))
    <3> HIDE DEF frames, rest
    <3>1. CutOnce(c) = [frames |-> frames, rest |-> rest]
      BY <1>4, <1>6 DEF frames, rest
    <3>2. frames \in Seq(Seq(Tokens)) /\ rest \in Seq(Tokens)
      BY <2>2, <2>3 DEF frames, rest
    <3> QED
      BY <3>1, <3>2 DEF Cuts
<1> QED
  BY <1>4, <1>5, <1>6, <1>7, <1>8

\* One cut leaves frames and a rest.
LEMMA CutOnceType ==
  ASSUME NEW c \in Cuts
  PROVE  CutOnce(c) \in Cuts
<1>1. CASE Separators(c.rest) = {}
  BY <1>1 DEF CutOnce
<1>2. CASE Separators(c.rest) # {}
  BY <1>2, CutOnceFacts
<1> QED
  BY <1>1, <1>2

\* The first k characters of a text are cut off, in frames that are pieces of it.
Cutting(text, c, k) ==
  /\ k \in 0..Len(text)
  /\ k = 0 \/ (k >= 2 /\ EmptyLineAt(text, k - 1))
  /\ c \in Cuts
  /\ c.rest = SubSeq(text, k + 1, Len(text))
  /\ \A i \in DOMAIN c.frames : \E a, b \in Nat :
       Piece(text, a, b) /\ b <= k /\ c.frames[i] = SubSeq(text, a, b)
  /\ \A p \in DataAt(text) : p <= k => \E i \in DOMAIN c.frames : \E a, b \in Nat :
       Piece(text, a, b) /\ p \in a..b /\ c.frames[i] = SubSeq(text, a, b)

\* One more cut takes two characters at least, and a frame that is a piece of the text.
LEMMA CutStep ==
  ASSUME NEW t \in Seq(Tokens), NEW c, NEW k, Cutting(t, c, k), Separators(c.rest) # {}
  PROVE  \E l \in Nat : l >= k + 2 /\ Cutting(t, CutOnce(c), l)
<1> DEFINE r == c.rest
<1>1. /\ Len(t) \in Nat /\ k \in 0..Len(t) /\ k \in Nat /\ c \in Cuts
      /\ r = SubSeq(t, k + 1, Len(t))
  BY DEF Cutting
<1>2. r \in Seq(Tokens) /\ Len(r) = Len(t) - k /\ \A x \in 1..(Len(t) - k) : r[x] = t[k + x]
  <2>1. Len(t) \in 0..Len(t)
    BY <1>1
  <2> QED
    BY <1>1, <2>1, PartFacts
<1>3. PICK i \in Nat, j \in Nat :
           /\ 1 <= i /\ i + 1 <= j /\ j <= Len(r)
           /\ CutOnce(c) = [frames |-> Append(c.frames, SubSeq(r, 1, i - 1)),
                           rest |-> SubSeq(r, j + 1, Len(r))]
           /\ \A x \in i..j : r[x] \in LineEnds
           /\ \A x \in 1..(i - 1) : ~EmptyLineAt(r, x)
           /\ CutOnce(c) \in Cuts
  BY <1>1, CutOnceFacts
<1> DEFINE l == k + j
           a == k + 1
           b == k + i - 1
           d == CutOnce(c)
<1> HIDE DEF r
<1>0. /\ Len(t) \in Nat /\ k \in Nat /\ k <= Len(t)
      /\ 1 <= i /\ i + 1 <= j /\ j <= Len(t) - k /\ Len(r) = Len(t) - k
  BY <1>1, <1>2, <1>3
<1>4. l \in 0..Len(t) /\ l \in Nat /\ l >= k + 2 /\ a \in Nat /\ b \in Nat /\ b + 2 <= l
  BY <1>1, <1>2, <1>3
<1>5. \A x \in (k + i)..l : t[x] \in LineEnds
  <2>1. \A x \in (k + i)..l : x - k \in i..j /\ x - k \in 1..(Len(t) - k) /\ k + (x - k) = x
    BY <1>1, <1>2, <1>3
  <2> QED
    BY <1>2, <1>3, <2>1
<1>6. EmptyLineAt(t, l - 1) /\ EmptyLineAt(t, b + 1)
  <2>1. /\ l - 1 \in (k + i)..l /\ l \in (k + i)..l /\ (l - 1) + 1 = l
        /\ b + 1 \in (k + i)..l /\ (b + 1) + 1 \in (k + i)..l
    BY <1>1, <1>3
  <2> QED
    BY <1>5, <2>1 DEF EmptyLineAt
<1>7. Piece(t, a, b)
  <2>1. b \in 0..Len(t) /\ a \in 1..(b + 1)
    BY <1>1, <1>3, <1>4
  <2>2. \A x \in a..(b - 1) : ~EmptyLineAt(t, x)
    <3>1. \A x \in a..(b - 1) : /\ x - k \in 1..(i - 1)
                                /\ x - k \in 1..(Len(t) - k) /\ (x - k) + 1 \in 1..(Len(t) - k)
                                /\ k + (x - k) = x /\ k + ((x - k) + 1) = x + 1
      BY <1>0
    <3> SUFFICES ASSUME NEW x \in a..(b - 1) PROVE ~EmptyLineAt(t, x)
      OBVIOUS
    <3> DEFINE y == x - k
    <3> HIDE DEF y
    <3>2. /\ y \in 1..(i - 1) /\ y \in 1..(Len(t) - k) /\ y + 1 \in 1..(Len(t) - k)
          /\ k + y = x /\ k + (y + 1) = x + 1
      BY <3>1 DEF y
    <3>3. ~EmptyLineAt(r, y)
      BY <1>3, <3>2
    <3>4. r[y] = t[x] /\ r[y + 1] = t[x + 1]
      BY <1>2, <3>2
    <3> QED
      BY <3>3, <3>4 DEF EmptyLineAt
  <2>3. StartsPiece(t, a)
    <3>1. CASE k = 0
      BY <3>1 DEF StartsPiece
    <3>2. CASE k >= 2 /\ EmptyLineAt(t, k - 1)
      <4>1. a >= 3 /\ a - 2 = k - 1
        BY <1>1, <3>2
      <4> QED
        BY <3>2, <4>1 DEF StartsPiece
    <3> QED
      BY <3>1, <3>2 DEF Cutting
  <2>4. EndsPiece(t, b)
    BY <1>1, <1>4, <1>6 DEF EndsPiece
  <2> QED
    BY <2>1, <2>2, <2>3, <2>4 DEF Piece
<1>8. SubSeq(r, 1, i - 1) = SubSeq(t, a, b)
  <2>1. /\ k \in 0..Len(t) /\ Len(t) \in k..Len(t) /\ 1 \in Nat \ {0}
        /\ i - 1 \in 0..(Len(t) - k) /\ 1 <= (i - 1) + 1 /\ k + (i - 1) = b
    BY <1>0
  <2>2. SubSeq(SubSeq(t, k + 1, Len(t)), 1, i - 1) = SubSeq(t, k + 1, k + (i - 1))
    BY <2>1, SubSeqOfRest
  <2>3. r = SubSeq(t, k + 1, Len(t))
    BY <1>1
  <2> QED
    BY <2>1, <2>2, <2>3
<1>9. SubSeq(r, j + 1, Len(r)) = SubSeq(t, l + 1, Len(t))
  <2>1. /\ Len(t) \in k..Len(t) /\ j + 1 \in Nat \ {0} /\ Len(r) \in 0..(Len(t) - k) /\ j + 1 <= Len(r) + 1
        /\ k + (j + 1) = l + 1 /\ k + Len(r) = Len(t)
    BY <1>0
  <2>2. k \in 0..Len(t)
    BY <1>0
  <2>3. SubSeq(SubSeq(t, k + 1, Len(t)), j + 1, Len(r)) = SubSeq(t, k + (j + 1), k + Len(r))
    BY <2>1, <2>2, SubSeqOfRest
  <2>4. r = SubSeq(t, k + 1, Len(t))
    BY <1>1
  <2> QED
    BY <2>1, <2>3, <2>4
<1>10. /\ d.frames = Append(c.frames, SubSeq(t, a, b)) /\ d.rest = SubSeq(t, l + 1, Len(t)) /\ d \in Cuts
  <2> HIDE DEF l, a, b
  <2>1. d = [frames |-> Append(c.frames, SubSeq(t, a, b)), rest |-> SubSeq(t, l + 1, Len(t))]
    BY <1>3, <1>8, <1>9
  <2>2. d \in Cuts
    BY <1>3
  <2> HIDE DEF d
  <2> QED
    BY <2>1, <2>2
<1> HIDE DEF l, a, b, d
<1>11. /\ DOMAIN c.frames \subseteq DOMAIN d.frames
       /\ \A n \in DOMAIN c.frames : d.frames[n] = c.frames[n]
       /\ Len(c.frames) + 1 \in DOMAIN d.frames /\ d.frames[Len(c.frames) + 1] = SubSeq(t, a, b)
       /\ \A n \in DOMAIN d.frames : n \in DOMAIN c.frames \/ n = Len(c.frames) + 1
  <2>1. c.frames \in Seq(Seq(Tokens))
    BY <1>1 DEF Cuts
  <2> DEFINE f == SubSeq(t, a, b)
             u == c.frames
  <2>2. f \in Seq(Tokens)
    <3>1. a \in Nat \ {0} /\ b \in 0..Len(t) /\ a <= b + 1
      BY <1>4, <1>7 DEF Piece
    <3> QED
      BY <3>1, SubSeqFacts
  <2> HIDE DEF f
  <2>3. d.frames = Append(u, f) /\ u \in Seq(Seq(Tokens))
    BY <1>10, <2>1 DEF f
  <2> HIDE DEF u
  <2>4. /\ Len(u) \in Nat /\ DOMAIN u = 1..Len(u) /\ DOMAIN d.frames = 1..(Len(u) + 1)
        /\ d.frames[Len(u) + 1] = f /\ \A n \in 1..Len(u) : d.frames[n] = u[n]
    BY <2>2, <2>3
  <2> QED
    BY <2>4 DEF u, f
<1>12. \A n \in DOMAIN d.frames : \E x, y \in Nat :
         Piece(t, x, y) /\ y <= l /\ d.frames[n] = SubSeq(t, x, y)
  <2> SUFFICES ASSUME NEW n \in DOMAIN d.frames
               PROVE  \E x, y \in Nat : Piece(t, x, y) /\ y <= l /\ d.frames[n] = SubSeq(t, x, y)
    OBVIOUS
  <2>1. CASE n \in DOMAIN c.frames
    <3>1. PICK x \in Nat, y \in Nat : Piece(t, x, y) /\ y <= k /\ c.frames[n] = SubSeq(t, x, y)
      BY <2>1 DEF Cutting
    <3>2. y <= l
      BY <1>1, <1>4, <3>1
    <3> QED
      BY <1>11, <2>1, <3>1, <3>2
  <2>2. CASE n = Len(c.frames) + 1
    <3>1. b <= l
      BY <1>4
    <3> QED
      BY <1>4, <1>7, <1>11, <2>2, <3>1
  <2> QED
    BY <1>11, <2>1, <2>2
<1>13. ASSUME NEW p \in DataAt(t), p <= l
       PROVE  \E n \in DOMAIN d.frames : \E x, y \in Nat :
                Piece(t, x, y) /\ p \in x..y /\ d.frames[n] = SubSeq(t, x, y)
  <2>1. p \in 1..Len(t) /\ t[p] \notin LineEnds
    BY DataAreNoEnds
  <2>2. CASE p <= k
    <3>1. PICK n \in DOMAIN c.frames, x \in Nat, y \in Nat :
            Piece(t, x, y) /\ p \in x..y /\ c.frames[n] = SubSeq(t, x, y)
      BY <2>2 DEF Cutting
    <3> QED
      BY <1>11, <3>1
  <2>3. CASE ~(p <= k)
    <3>1. p \notin (k + i)..l
      BY <1>5, <2>1
    <3>2. p \in a..b
      BY <1>1, <1>3, <1>4, <1>13, <2>1, <2>3, <3>1 DEF a, b
    <3> QED
      BY <1>4, <1>7, <1>11, <3>2
  <2> QED
    BY <2>2, <2>3
<1>14. l >= 2
  BY <1>1, <1>4
<1>15. Cutting(t, d, l)
  BY <1>4, <1>6, <1>10, <1>12, <1>13, <1>14 DEF Cutting
<1> QED
  BY <1>4, <1>15 DEF d

\* The frames cut off a text are pieces of it with all data up to some place; what is left has
\* no separator.
LEMMA CutPieces ==
  ASSUME NEW t \in Seq(Tokens)
  PROVE  \E k \in Nat : Cutting(t, Cut(t), k) /\ Separators(Cut(t).rest) = {}
<1> DEFINE N == Len(t) \div 2
           base == [frames |-> << >>, rest |-> t]
           Solves(g) == g = [n \in 0..N |-> IF n = 0 THEN base ELSE CutOnce(g[n - 1])]
           f == CHOOSE g : Solves(g)
           grow == [n \in 1..N |-> [c \in Cuts |-> CutOnce(c)]]
<1>1. Len(t) \in Nat /\ N \in Nat /\ Len(t) <= 2 * N + 1
  OBVIOUS
<1>2. base \in Cuts
  BY DEF Cuts
<1>3. \A c \in Cuts : CutOnce(c) \in Cuts
  BY CutOnceType
<1>4. \A n \in 1..N : \A c \in Cuts : grow[n][c] = CutOnce(c)
  OBVIOUS
<1>5. \A n \in 1..N : \A c \in Cuts : grow[n][c] \in Cuts
  BY <1>3, <1>4
<1> HIDE DEF N, base, grow
<1>6. PICK g : IsIteration(g, Cuts, base, N, grow)
  <2>1. IsStep(Cuts, base, N, grow)
    BY <1>1, <1>2, <1>5 DEF IsStep
  <2> QED
    BY <2>1, Iteration
<1>7. Solves(g)
  <2>1. \A n \in 0..N : n # 0 => n \in 1..N /\ n - 1 \in 0..N
    BY <1>1
  <2>2. g \in [0..N -> Cuts] /\ g[0] = base /\ \A n \in 1..N : g[n] = grow[n][g[n - 1]]
    BY <1>6 DEF IsIteration
  <2>3. ASSUME NEW n \in 0..N PROVE g[n] = IF n = 0 THEN base ELSE CutOnce(g[n - 1])
    <3>1. CASE n = 0
      BY <2>2, <3>1
    <3>2. CASE n # 0
      <4>1. n \in 1..N /\ g[n - 1] \in Cuts
        BY <2>1, <2>2, <3>2
      <4>2. g[n] = grow[n][g[n - 1]]
        BY <2>2, <4>1
      <4>3. grow[n][g[n - 1]] = CutOnce(g[n - 1])
        BY <1>4, <4>1
      <4> QED
        BY <3>2, <4>2, <4>3
    <3> QED
      BY <3>1, <3>2
  <2>4. g = [n \in 0..N |-> g[n]]
    BY <2>2
  <2> QED
    BY <2>3, <2>4
<1>8. Solves(f)
  BY <1>7
<1>9. Cut(t) = f[N]
  BY DEF Cut, N, base
<1> HIDE DEF f
<1>10. f[0] = base /\ \A n \in 1..N : f[n] = CutOnce(f[n - 1])
  <2>1. 0 \in 0..N /\ \A n \in 1..N : n \in 0..N /\ n # 0
    BY <1>1
  <2> QED
    BY <1>8, <2>1
<1> HIDE DEF Solves
<1> DEFINE Holds(n) == \E k \in Nat : /\ Cutting(t, f[n], k)
                                     /\ (Separators(f[n].rest) = {} \/ k >= 2 * n)
           S == {n \in 0..N : Holds(n)}
<1>11. 0 \in S
  <2>1. base.frames = << >> /\ base.rest = t
    BY DEF base
  <2>2. t = SubSeq(t, 0 + 1, Len(t))
    BY <1>1, SubSeqFull
  <2>3. \A p \in DataAt(t) : ~(p <= 0)
    BY <1>1, DataAreNoEnds
  <2>4. Cutting(t, base, 0)
    BY <1>1, <1>2, <2>1, <2>2, <2>3 DEF Cutting
  <2>5. Holds(0)
    BY <1>10, <2>4
  <2> HIDE DEF Holds
  <2> QED
    BY <1>1, <2>5
<1>12. ASSUME NEW n \in 1..N, n - 1 \in S PROVE n \in S
  <2>1. PICK k \in Nat : /\ Cutting(t, f[n - 1], k)
                        /\ (Separators(f[n - 1].rest) = {} \/ k >= 2 * (n - 1))
    BY <1>12
  <2>2. f[n] = CutOnce(f[n - 1]) /\ n \in 0..N /\ n \in Nat
    BY <1>1, <1>10
  <2>3. CASE Separators(f[n - 1].rest) = {}
    <3>1. f[n] = f[n - 1]
      BY <2>2, <2>3 DEF CutOnce
    <3>2. Holds(n)
      BY <2>1, <2>3, <3>1
    <3> HIDE DEF Holds
    <3> QED
      BY <2>2, <3>2
  <2>4. CASE Separators(f[n - 1].rest) # {}
    <3>1. PICK l \in Nat : l >= k + 2 /\ Cutting(t, f[n], l)
      BY <2>1, <2>2, <2>4, CutStep
    <3>2. l >= 2 * n
      BY <2>1, <2>2, <2>4, <3>1
    <3>3. Holds(n)
      BY <3>1, <3>2
    <3> HIDE DEF Holds
    <3> QED
      BY <2>2, <3>3
  <2> QED
    BY <2>3, <2>4
<1> HIDE DEF S
<1>13. N \in S
  <2>1. 0..N \subseteq S
    BY <1>1, <1>11, <1>12, InductUpTo
  <2> QED
    BY <1>1, <2>1
<1>14. PICK k \in Nat : Cutting(t, f[N], k) /\ (Separators(f[N].rest) = {} \/ k >= 2 * N)
  BY <1>13 DEF S
<1>15. Separators(f[N].rest) = {}
  <2> SUFFICES ASSUME k >= 2 * N PROVE Separators(f[N].rest) = {}
    BY <1>14
  <2>1. k \in 0..Len(t) /\ f[N].rest = SubSeq(t, k + 1, Len(t))
    BY <1>14 DEF Cutting
  <2>2. Len(f[N].rest) = Len(t) - k
    <3>1. Len(t) \in 0..Len(t)
      BY <1>1
    <3> QED
      BY <2>1, <3>1, PartFacts
  <2>3. 1..(Len(f[N].rest) - 1) = {}
    BY <1>1, <2>1, <2>2
  <2> QED
    BY <2>3 DEF Separators
<1> QED
  BY <1>9, <1>14, <1>15

\* A piece with one data line at most keeps it apart from all others.
LEMMA PieceAlone ==
  ASSUME NEW t \in Seq(Tokens), NEW a, NEW b, Piece(t, a, b),
         \A x, y \in DataAt(SubSeq(t, a, b)) : x = y,
         NEW p \in DataAt(t), p \in a..b
  PROVE  Joined(t, p) = {p}
<1> DEFINE f == SubSeq(t, a, b)
<1>0. Len(t) \in Nat
  OBVIOUS
<1>1. b \in 0..Len(t) /\ a \in 1..(b + 1) /\ a \in Nat \ {0} /\ b \in Nat /\ p \in Nat
  BY <1>0 DEF Piece
<1>2. DOMAIN f = 1..(b - a + 1) /\ \A i \in 1..(b - a + 1) : f[i] = t[a + i - 1]
  <2>1. a <= b + 1
    BY <1>1
  <2> QED
    BY <1>1, <2>1, SubSeqFacts
<1> HIDE DEF f
<1>3. \A q \in DataAt(t) : q \in a..b => q - a + 1 \in DataAt(f)
  <2> SUFFICES ASSUME NEW q \in DataAt(t), q \in a..b PROVE q - a + 1 \in DataAt(f)
    OBVIOUS
  <2>1. q \in Nat /\ q - a + 1 \in 1..(b - a + 1) /\ a + (q - a + 1) - 1 = q /\ t[q] \in DataLines
    BY <1>1 DEF DataAt
  <2> QED
    BY <1>2, <2>1 DEF DataAt
<1>4. \A q \in DataAt(t) : q \in a..b => q - a + 1 = p - a + 1
  BY <1>3 DEF f
<1>5. \A q \in DataAt(t) : q \in a..b => q = p
  <2>1. \A q \in a..b : q \in Nat /\ (q - a + 1 = p - a + 1 => q = p)
    BY <1>1
  <2> QED
    BY <1>4, <2>1
<1>6. Joined(t, p) = {q \in DataAt(t) : q \in a..b}
  BY PieceJoins
<1> QED
  BY <1>5, <1>6

\* Cut in terms of the data of the text.
LEMMA CutFacts ==
  ASSUME NEW t \in Seq(Tokens)
  PROVE  \E k \in 0..Len(t) :
           /\ Cut(t) \in Cuts
           /\ Cut(t).rest = SubSeq(t, k + 1, Len(t))
           /\ Piece(t, k + 1, Len(t))
           /\ (\A i \in DOMAIN Cut(t).frames : Sound(Cut(t).frames[i]))
                <=> \A p \in DataAt(t) : p <= k => SoundAt(t, p)
           /\ (\A i \in DOMAIN Cut(t).frames : \A x, y \in DataAt(Cut(t).frames[i]) : x = y)
                => \A p \in DataAt(t) : p <= k => Joined(t, p) = {p}
<1>0. Len(t) \in Nat
  OBVIOUS
<1> DEFINE c == Cut(t)
           r == c.rest
<1>1. PICK k \in Nat : Cutting(t, c, k) /\ Separators(r) = {}
  BY CutPieces
<1> HIDE DEF c
<1>2. k \in 0..Len(t) /\ c \in Cuts /\ r = SubSeq(t, k + 1, Len(t))
  BY <1>1 DEF Cutting
<1> HIDE DEF r
<1>3. Piece(t, k + 1, Len(t))
  <2>1. Len(r) = Len(t) - k /\ \A x \in 1..(Len(t) - k) : r[x] = t[k + x]
    <3>1. Len(t) \in 0..Len(t)
      BY <1>0
    <3> QED
      BY <1>2, <3>1, PartFacts
  <2>2. ASSUME NEW i \in (k + 1)..(Len(t) - 1), EmptyLineAt(t, i) PROVE FALSE
    <3>1. /\ i - k \in 1..(Len(t) - k) /\ (i - k) + 1 \in 1..(Len(t) - k) /\ i - k \in 1..(Len(r) - 1)
          /\ k + (i - k) = i /\ k + ((i - k) + 1) = i + 1
      BY <1>0, <1>2, <2>1
    <3>2. r[i - k] = t[i] /\ r[(i - k) + 1] = t[i + 1]
      BY <2>1, <3>1
    <3>3. i - k \in Separators(r)
      BY <2>2, <3>1, <3>2 DEF Separators, EmptyLineAt
    <3> QED
      BY <1>1, <3>3
  <2>3. StartsPiece(t, k + 1)
    <3>1. CASE k = 0
      BY <3>1 DEF StartsPiece
    <3>2. CASE k >= 2 /\ EmptyLineAt(t, k - 1)
      <4>1. k + 1 >= 3 /\ (k + 1) - 2 = k - 1
        BY <3>2
      <4> QED
        BY <3>2, <4>1 DEF StartsPiece
    <3> QED
      BY <1>1, <3>1, <3>2 DEF Cutting
  <2>4. Len(t) \in 0..Len(t) /\ k + 1 \in 1..(Len(t) + 1)
    BY <1>0, <1>2
  <2> QED
    BY <2>2, <2>3, <2>4 DEF Piece, EndsPiece
<1>4. \A p \in DataAt(t) : p <= k => \E i \in DOMAIN c.frames : \E a, b \in Nat :
        Piece(t, a, b) /\ p \in a..b /\ c.frames[i] = SubSeq(t, a, b)
  BY <1>1 DEF Cutting
<1>5. \A i \in DOMAIN c.frames : \E a, b \in Nat :
        Piece(t, a, b) /\ b <= k /\ c.frames[i] = SubSeq(t, a, b)
  BY <1>1 DEF Cutting
<1>6. ASSUME \A i \in DOMAIN c.frames : Sound(c.frames[i]), NEW p \in DataAt(t), p <= k
      PROVE  SoundAt(t, p)
  <2>1. PICK i \in DOMAIN c.frames, a \in Nat, b \in Nat :
          Piece(t, a, b) /\ p \in a..b /\ c.frames[i] = SubSeq(t, a, b)
    BY <1>4, <1>6
  <2>2. Sound(SubSeq(t, a, b))
    BY <1>6, <2>1
  <2> QED
    BY <2>1, <2>2, PieceSound
<1>7. ASSUME \A p \in DataAt(t) : p <= k => SoundAt(t, p), NEW i \in DOMAIN c.frames
      PROVE  Sound(c.frames[i])
  <2>1. PICK a \in Nat, b \in Nat : Piece(t, a, b) /\ b <= k /\ c.frames[i] = SubSeq(t, a, b)
    BY <1>5
  <2>2. \A p \in DataAt(t) : p \in a..b => p <= k
    BY <1>2, <2>1
  <2> QED
    BY <1>7, <2>1, <2>2, PieceSound
<1>8. ASSUME \A i \in DOMAIN c.frames : \A x, y \in DataAt(c.frames[i]) : x = y,
             NEW p \in DataAt(t), p <= k
      PROVE  Joined(t, p) = {p}
  <2>1. PICK i \in DOMAIN c.frames, a \in Nat, b \in Nat :
          Piece(t, a, b) /\ p \in a..b /\ c.frames[i] = SubSeq(t, a, b)
    BY <1>4, <1>8
  <2>2. \A x, y \in DataAt(SubSeq(t, a, b)) : x = y
    BY <1>8, <2>1
  <2> QED
    BY <2>1, <2>2, PieceAlone
<1>9. r = c.rest
  BY DEF r
<1> QED
  BY <1>2, <1>3, <1>6, <1>7, <1>8, <1>9 DEF c

\* What holds of all frames and of what follows them, in terms of the data of the text.
LEMMA EventFacts ==
  ASSUME NEW t \in Seq(Tokens)
  PROVE  LET events == Append(Cut(t).frames, Cut(t).rest)
         IN  /\ (\A i \in DOMAIN events : Sound(events[i])) <=> \A p \in DataAt(t) : SoundAt(t, p)
             /\ (\A i \in DOMAIN events : \A x, y \in DataAt(events[i]) : x = y)
                  => \A p \in DataAt(t) : Joined(t, p) = {p}
<1> DEFINE c == Cut(t)
           u == c.frames
           r == c.rest
           events == Append(u, r)
<1>0. Len(t) \in Nat /\ \A p \in DataAt(t) : p \in 1..Len(t)
  BY DataAreNoEnds
<1>1. PICK k \in 0..Len(t) :
           /\ c \in Cuts
           /\ r = SubSeq(t, k + 1, Len(t))
           /\ Piece(t, k + 1, Len(t))
           /\ (\A i \in DOMAIN u : Sound(u[i])) <=> \A p \in DataAt(t) : p <= k => SoundAt(t, p)
           /\ (\A i \in DOMAIN u : \A x, y \in DataAt(u[i]) : x = y)
                => \A p \in DataAt(t) : p <= k => Joined(t, p) = {p}
  BY CutFacts
<1>2. u \in Seq(Seq(Tokens)) /\ r \in Seq(Tokens)
  BY <1>1 DEF Cuts
<1> HIDE DEF c, u, r
<1>3. /\ Len(u) \in Nat /\ DOMAIN u = 1..Len(u) /\ DOMAIN events = 1..(Len(u) + 1)
      /\ events[Len(u) + 1] = r /\ \A i \in 1..Len(u) : events[i] = u[i]
  BY <1>2
<1> HIDE DEF events
<1>4. /\ \A i \in DOMAIN events : i \in DOMAIN u \/ i = Len(u) + 1
      /\ \A i \in DOMAIN u : i \in DOMAIN events /\ events[i] = u[i]
      /\ Len(u) + 1 \in DOMAIN events
  BY <1>3
<1>5. (\A i \in DOMAIN events : Sound(events[i])) <=> (\A i \in DOMAIN u : Sound(u[i])) /\ Sound(r)
  BY <1>3, <1>4
<1>6. \A p \in DataAt(t) : p <= k \/ p \in (k + 1)..Len(t)
  BY <1>0
<1>7. \A p \in DataAt(t) : p \in (k + 1)..Len(t) => ~(p <= k)
  BY <1>0
<1>8. Sound(r) <=> \A p \in DataAt(t) : p \in (k + 1)..Len(t) => SoundAt(t, p)
  BY <1>1, PieceSound
<1>9. (\A i \in DOMAIN events : Sound(events[i])) <=> \A p \in DataAt(t) : SoundAt(t, p)
  BY <1>1, <1>5, <1>6, <1>8
<1>10. ASSUME \A i \in DOMAIN events : \A x, y \in DataAt(events[i]) : x = y, NEW p \in DataAt(t)
       PROVE  Joined(t, p) = {p}
  <2>1. \A i \in DOMAIN u : \A x, y \in DataAt(u[i]) : x = y
    BY <1>4, <1>10
  <2>2. \A x, y \in DataAt(r) : x = y
    BY <1>3, <1>4, <1>10
  <2>3. CASE p <= k
    BY <1>1, <2>1, <2>3
  <2>4. CASE p \in (k + 1)..Len(t)
    <3>1. Piece(t, k + 1, Len(t)) /\ r = SubSeq(t, k + 1, Len(t))
      BY <1>1
    <3>2. \A x, y \in DataAt(SubSeq(t, k + 1, Len(t))) : x = y
      BY <2>2, <3>1
    <3> QED
      BY <2>4, <3>1, <3>2, PieceAlone
  <2> QED
    BY <1>6, <2>3, <2>4
<1> QED
  BY <1>9, <1>10 DEF events, u, r, c
----------------------------------------------------------------------------
(***************************************************************************)
(* A part of a text.                                                       *)
(***************************************************************************)

\* A part of a text that starts where a frame may start tells of its data what the whole text
\* tells, if it goes on to the end of their frame.
LEMMA Window ==
  ASSUME NEW t \in Seq(Tokens), NEW k \in Nat, NEW n \in k..Len(t), StartsPiece(t, k + 1),
         NEW p \in DataAt(SubSeq(t, k + 1, n)),
         n = Len(t) \/ \E i \in (p + 1)..(n - k - 1) : EmptyLineAt(SubSeq(t, k + 1, n), i)
  PROVE  k + p \in DataAt(t) /\ (SoundAt(SubSeq(t, k + 1, n), p) <=> SoundAt(t, k + p))
<1> DEFINE u == SubSeq(t, k + 1, n)
<1>0. Len(t) \in Nat /\ n \in Nat /\ n <= Len(t) /\ k <= n
  OBVIOUS
<1>1. u \in Seq(Tokens) /\ Len(u) = n - k /\ DOMAIN u = 1..(n - k) /\ \A x \in 1..(n - k) : u[x] = t[k + x]
  <2>1. n \in 0..Len(t) /\ k \in 0..n
    BY <1>0
  <2> QED
    BY <2>1, PartFacts
<1>2. p \in DataAt(u) /\ (n = Len(t) \/ \E i \in (p + 1)..(n - k - 1) : EmptyLineAt(u, i))
  OBVIOUS
<1> HIDE DEF u
<1>3. \A q \in DataAt(u) : q \in 1..(n - k) /\ q \in Nat /\ k + q \in DataAt(t) /\ u[q] = t[k + q]
  <2> SUFFICES ASSUME NEW q \in DataAt(u)
               PROVE  q \in 1..(n - k) /\ q \in Nat /\ k + q \in DataAt(t) /\ u[q] = t[k + q]
    OBVIOUS
  <2>1. q \in 1..(n - k) /\ u[q] \in DataLines
    BY <1>1 DEF DataAt
  <2>2. k + q \in 1..Len(t) /\ q \in Nat
    BY <1>0, <2>1
  <2>3. u[q] = t[k + q]
    BY <1>1, <2>1
  <2> QED
    BY <2>1, <2>2, <2>3 DEF DataAt
<1>4. \A x, y \in Nat : y <= n - k => (Apart(u, x, y) <=> Apart(t, k + x, k + y))
  <2> SUFFICES ASSUME NEW x \in Nat, NEW y \in Nat, y <= n - k
               PROVE  Apart(u, x, y) <=> Apart(t, k + x, k + y)
    OBVIOUS
  <2>1. ASSUME NEW i \in (x + 1)..(y - 2)
        PROVE  k + i \in ((k + x) + 1)..((k + y) - 2) /\ (EmptyLineAt(u, i) <=> EmptyLineAt(t, k + i))
    <3>1. /\ i \in 1..(n - k) /\ i + 1 \in 1..(n - k) /\ k + (i + 1) = (k + i) + 1
          /\ k + i \in ((k + x) + 1)..((k + y) - 2)
      BY <1>0
    <3> QED
      BY <1>1, <3>1 DEF EmptyLineAt
  <2>2. ASSUME NEW i \in ((k + x) + 1)..((k + y) - 2)
        PROVE  i - k \in (x + 1)..(y - 2) /\ k + (i - k) = i
    OBVIOUS
  <2>3. ASSUME Apart(u, x, y) PROVE Apart(t, k + x, k + y)
    <3>1. PICK i \in (x + 1)..(y - 2) : EmptyLineAt(u, i)
      BY <2>3 DEF Apart
    <3>2. k + i \in ((k + x) + 1)..((k + y) - 2) /\ EmptyLineAt(t, k + i)
      BY <2>1, <3>1
    <3> QED
      BY <3>2 DEF Apart
  <2>4. ASSUME Apart(t, k + x, k + y) PROVE Apart(u, x, y)
    <3>1. PICK i \in ((k + x) + 1)..((k + y) - 2) : EmptyLineAt(t, i)
      BY <2>4 DEF Apart
    <3>2. i - k \in (x + 1)..(y - 2) /\ k + (i - k) = i
      BY <2>2
    <3>3. EmptyLineAt(u, i - k)
      BY <2>1, <3>1, <3>2
    <3> QED
      BY <3>2, <3>3 DEF Apart
  <2> QED
    BY <2>3, <2>4
<1>5. \A q \in DataAt(t) : q > n => Apart(t, k + p, q)
  <2> SUFFICES ASSUME NEW q \in DataAt(t), q > n PROVE Apart(t, k + p, q)
    OBVIOUS
  <2>1. q \in 1..Len(t)
    BY DataAreNoEnds
  <2>2. n # Len(t)
    BY <1>0, <2>1
  <2>3. PICK i \in (p + 1)..(n - k - 1) : EmptyLineAt(u, i)
    BY <1>2, <2>2
  <2>4. p \in Nat
    BY <1>2, <1>3
  <2>5. /\ i \in 1..(n - k) /\ i + 1 \in 1..(n - k) /\ k + (i + 1) = (k + i) + 1
        /\ k + i \in ((k + p) + 1)..(q - 2)
    <3>1. i \in Nat /\ p + 1 <= i /\ i <= n - k - 1 /\ q \in Nat
      BY <1>0, <2>1, <2>4
    <3> QED
      BY <1>0, <2>4, <3>1
  <2>6. EmptyLineAt(t, k + i)
    <3>1. u[i] = t[k + i] /\ u[i + 1] = t[k + (i + 1)]
      BY <1>1, <2>5
    <3>2. t[k + (i + 1)] = t[(k + i) + 1]
      BY <2>5
    <3> QED
      BY <2>3, <3>1, <3>2 DEF EmptyLineAt
  <2> QED
    BY <2>5, <2>6 DEF Apart
<1>6. \A q \in DataAt(t) : q <= k => Apart(t, q, k + p)
  <2> SUFFICES ASSUME NEW q \in DataAt(t), q <= k PROVE Apart(t, q, k + p)
    OBVIOUS
  <2>1. q \in 1..Len(t) /\ t[q] \notin LineEnds
    BY DataAreNoEnds
  <2>2. k + 1 >= 3 /\ EmptyLineAt(t, (k + 1) - 2)
    BY <1>0, <2>1 DEF StartsPiece
  <2>3. (k + 1) - 2 = k - 1 /\ (k - 1) + 1 = k
    OBVIOUS
  <2>4. q # k - 1 /\ q # k
    BY <2>1, <2>2, <2>3 DEF EmptyLineAt
  <2>5. p \in Nat /\ p >= 1
    BY <1>2, <1>3
  <2>6. k - 1 \in (q + 1)..((k + p) - 2)
    BY <2>1, <2>4, <2>5
  <2> QED
    BY <2>2, <2>3, <2>6 DEF Apart
<1>7. \A q \in DataAt(u) : q \in Joined(u, p) <=> k + q \in Joined(t, k + p)
  <2> SUFFICES ASSUME NEW q \in DataAt(u) PROVE q \in Joined(u, p) <=> k + q \in Joined(t, k + p)
    OBVIOUS
  <2>1. q \in Nat /\ q <= n - k /\ p \in Nat /\ p <= n - k /\ k + q \in DataAt(t)
    BY <1>0, <1>2, <1>3
  <2>2. /\ Apart(u, p, q) <=> Apart(t, k + p, k + q)
        /\ Apart(u, q, p) <=> Apart(t, k + q, k + p)
    BY <1>4, <2>1
  <2> QED
    BY <2>1, <2>2 DEF Joined
<1>8. \A q \in Joined(t, k + p) : q - k \in DataAt(u) /\ k + (q - k) = q /\ q \in Nat
  <2> SUFFICES ASSUME NEW q \in Joined(t, k + p)
               PROVE  q - k \in DataAt(u) /\ k + (q - k) = q /\ q \in Nat
    OBVIOUS
  <2>1. q \in DataAt(t) /\ ~Apart(t, q, k + p) /\ ~Apart(t, k + p, q)
    BY DEF Joined
  <2>2. q \in 1..Len(t) /\ ~(q > n) /\ ~(q <= k) /\ t[q] \in DataLines
    BY <1>5, <1>6, <2>1, DataAreNoEnds
  <2>3. q - k \in 1..(n - k) /\ k + (q - k) = q
    BY <1>0, <2>2
  <2> QED
    BY <1>1, <2>2, <2>3 DEF DataAt
<1>9. ASSUME SoundAt(u, p) PROVE SoundAt(t, k + p)
  <2>1. CASE u[p] = "whole" /\ Joined(u, p) = {p}
    <3>1. Joined(t, k + p) = {k + p}
      BY <1>2, <1>7, <1>8, <2>1
    <3> QED
      BY <1>2, <1>3, <2>1, <3>1 DEF SoundAt
  <2>2. ASSUME NEW q \in DataAt(u), Joined(u, p) = {p, q},
               \/ p < q /\ u[p] = "head" /\ u[q] = "rest"
               \/ q < p /\ u[q] = "head" /\ u[p] = "rest"
        PROVE  SoundAt(t, k + p)
    <3>1. Joined(t, k + p) = {k + p, k + q}
      <4>1. k + p \in Joined(t, k + p) /\ k + q \in Joined(t, k + p)
        BY <1>2, <1>7, <2>2
      <4>2. \A x \in Joined(t, k + p) : x - k \in Joined(u, p) /\ k + (x - k) = x
        BY <1>7, <1>8
      <4>3. \A x \in Joined(t, k + p) : x = k + p \/ x = k + q
        <5> SUFFICES ASSUME NEW x \in Joined(t, k + p) PROVE x = k + p \/ x = k + q
          OBVIOUS
        <5>1. x - k = p \/ x - k = q
          BY <2>2, <4>2
        <5> QED
          BY <4>2, <5>1
      <4> QED
        BY <4>1, <4>3
    <3>2. p \in Nat /\ q \in Nat /\ k + q \in DataAt(t) /\ u[q] = t[k + q] /\ u[p] = t[k + p]
      BY <1>2, <1>3
    <3>3. (p < q => k + p < k + q) /\ (q < p => k + q < k + p)
      BY <3>2
    <3> QED
      BY <2>2, <3>1, <3>2, <3>3 DEF SoundAt
  <2> QED
    BY <1>9, <2>1, <2>2 DEF SoundAt
<1>10. ASSUME SoundAt(t, k + p) PROVE SoundAt(u, p)
  <2>1. \A q \in Joined(u, p) : q \in DataAt(u)
    BY DEF Joined
  <2>2. CASE t[k + p] = "whole" /\ Joined(t, k + p) = {k + p}
    <3>1. \A q \in Joined(u, p) : k + q = k + p /\ q \in Nat
      BY <1>3, <1>7, <2>1, <2>2
    <3>2. p \in Joined(u, p) /\ p \in Nat
      BY <1>2, <1>3, <1>7, <2>2
    <3>3. \A q \in Joined(u, p) : q = p
      BY <3>1, <3>2
    <3>4. Joined(u, p) = {p}
      BY <3>2, <3>3
    <3> QED
      BY <1>2, <1>3, <2>2, <3>4 DEF SoundAt
  <2>3. ASSUME NEW y \in DataAt(t), Joined(t, k + p) = {k + p, y},
               \/ k + p < y /\ t[k + p] = "head" /\ t[y] = "rest"
               \/ y < k + p /\ t[y] = "head" /\ t[k + p] = "rest"
        PROVE  SoundAt(u, p)
    <3> DEFINE q == y - k
    <3>1. q \in DataAt(u) /\ k + q = y /\ y \in Nat
      BY <1>8, <2>3
    <3>2. p \in Nat /\ q \in Nat /\ u[q] = t[y] /\ u[p] = t[k + p]
      BY <1>2, <1>3, <3>1
    <3> HIDE DEF q
    <3>3. q \in Joined(u, p) /\ p \in Joined(u, p)
      BY <1>2, <1>7, <2>3, <3>1
    <3>4. \A x \in Joined(u, p) : x = p \/ x = q
      <4>1. \A x \in Joined(u, p) : x \in Nat /\ (k + x = k + p \/ k + x = k + q)
        BY <1>3, <1>7, <2>1, <2>3, <3>1
      <4>2. \A x \in Nat : (k + x = k + p => x = p) /\ (k + x = k + q => x = q)
        BY <3>2
      <4> QED
        BY <4>1, <4>2
    <3>5. Joined(u, p) = {p, q}
      BY <3>3, <3>4
    <3>6. (k + p < y => p < q) /\ (y < k + p => q < p)
      BY <3>1, <3>2
    <3> QED
      BY <2>3, <3>1, <3>2, <3>5, <3>6 DEF SoundAt
  <2> QED
    BY <1>10, <2>2, <2>3 DEF SoundAt
<1> QED
  BY <1>2, <1>3, <1>9, <1>10 DEF u
----------------------------------------------------------------------------
(***************************************************************************)
(* The text that the parser of the standard reads: one character for each  *)
(* line end.                                                               *)
(***************************************************************************)

\* What is written for a character that is not the end of a pair.
OneEnd(char) == IF char = "CR" THEN "LF" ELSE char

\* normal is text with one character for each line end, and m leads from a place in the text to
\* the place of what is written for it.
Renders(text, normal, m) ==
  /\ m \in [0..Len(text) -> 0..Len(normal)]
  /\ m[0] = 0 /\ m[Len(text)] = Len(normal)
  /\ \A n \in 1..Len(text) :
       IF EndsPair(text, n) THEN m[n] = m[n - 1]
       ELSE m[n] = m[n - 1] + 1 /\ normal[m[n]] = OneEnd(text[n])
  /\ \A i, j \in 0..Len(text) : i <= j => m[i] <= m[j]
  /\ \A r \in 1..Len(normal) : \E n \in 1..Len(text) : ~EndsPair(text, n) /\ m[n] = r

\* Normalized writes one character for each line end.
LEMMA NormalizedRenders ==
  ASSUME NEW t \in Seq(Tokens)
  PROVE  Normalized(t) \in Seq(Tokens) /\ \E m : Renders(t, Normalized(t), m)
<1> DEFINE N == Len(t)
           T == Seq(Tokens)
           Adds(x, n) == IF EndsPair(t, n) THEN x
                         ELSE Append(x, IF t[n] = "CR" THEN "LF" ELSE t[n])
           Solves(g) == g = [n \in 0..N |-> IF n = 0 THEN << >>
                                            ELSE IF EndsPair(t, n) THEN g[n - 1]
                                            ELSE Append(g[n - 1], IF t[n] = "CR" THEN "LF" ELSE t[n])]
           u == CHOOSE g : Solves(g)
           grow == [n \in 1..N |-> [x \in T |-> Adds(x, n)]]
<1>1. N \in Nat /\ << >> \in T
  OBVIOUS
<1>2. \A n \in 1..N : t[n] \in Tokens /\ OneEnd(t[n]) \in Tokens
  BY DEF Tokens, LineEnds, OneEnd
<1>3. \A n \in 1..N : \A x \in T : Adds(x, n) \in T
  BY <1>2 DEF OneEnd
<1>4. \A n \in 1..N : \A x \in T : grow[n][x] = Adds(x, n)
  OBVIOUS
<1>5. Normalized(t) = u[N]
  BY DEF Normalized
<1> HIDE DEF N, T, grow
<1>6. PICK g : IsIteration(g, T, << >>, N, grow)
  <2> HIDE DEF Adds
  <2>1. IsStep(T, << >>, N, grow)
    BY <1>1, <1>3, <1>4 DEF IsStep
  <2> QED
    BY <2>1, Iteration
<1>7. Solves(g)
  <2>1. \A n \in 0..N : n # 0 => n \in 1..N /\ n - 1 \in 0..N
    BY <1>1
  <2>2. \A n \in 0..N : g[n] = IF n = 0 THEN << >> ELSE Adds(g[n - 1], n)
    <3> HIDE DEF Adds
    <3> QED
      BY <1>4, <1>6, <2>1 DEF IsIteration
  <2> QED
    BY <1>6, <2>2 DEF IsIteration
<1>8. Solves(u)
  <2> HIDE DEF Solves
  <2> QED
    BY <1>7
<1> HIDE DEF u
<1>9. u[0] = << >> /\ \A n \in 1..N : u[n] = Adds(u[n - 1], n)
  <2>1. 0 \in 0..N /\ \A n \in 1..N : n \in 0..N /\ n # 0
    BY <1>1
  <2> QED
    BY <1>8, <2>1
<1> HIDE DEF Solves
<1>10. \A n \in 0..N : u[n] \in T
  <2> DEFINE S == {n \in 0..N : u[n] \in T}
  <2>1. 0 \in S
    BY <1>1, <1>9
  <2>2. ASSUME NEW n \in 1..N, n - 1 \in S PROVE n \in S
    <3> HIDE DEF Adds
    <3>1. n \in 0..N /\ u[n - 1] \in T
      BY <1>1, <2>2
    <3> QED
      BY <1>3, <1>9, <3>1
  <2> HIDE DEF S
  <2>3. 0..N \subseteq S
    BY <1>1, <2>1, <2>2, InductUpTo
  <2> QED
    BY <2>3 DEF S
<1>11. \A n \in 1..N : /\ u[n - 1] \in T /\ u[n] \in T /\ Len(u[n]) \in Nat /\ Len(u[n - 1]) \in Nat
                       /\ IF EndsPair(t, n) THEN u[n] = u[n - 1]
                          ELSE /\ Len(u[n]) = Len(u[n - 1]) + 1
                               /\ u[n][Len(u[n])] = OneEnd(t[n])
                               /\ \A r \in 1..Len(u[n - 1]) : u[n][r] = u[n - 1][r]
  <2> SUFFICES ASSUME NEW n \in 1..N
               PROVE  /\ u[n - 1] \in T /\ u[n] \in T /\ Len(u[n]) \in Nat /\ Len(u[n - 1]) \in Nat
                      /\ IF EndsPair(t, n) THEN u[n] = u[n - 1]
                          ELSE /\ Len(u[n]) = Len(u[n - 1]) + 1
                               /\ u[n][Len(u[n])] = OneEnd(t[n])
                               /\ \A r \in 1..Len(u[n - 1]) : u[n][r] = u[n - 1][r]
    OBVIOUS
  <2>1. n \in 0..N /\ n - 1 \in 0..N
    BY <1>1
  <2>2. u[n - 1] \in T /\ u[n] \in T /\ Len(u[n]) \in Nat /\ Len(u[n - 1]) \in Nat
    BY <1>10, <2>1 DEF T
  <2>3. CASE EndsPair(t, n)
    BY <1>9, <2>2, <2>3
  <2>4. CASE ~EndsPair(t, n)
    <3>1. u[n] = Append(u[n - 1], OneEnd(t[n])) /\ OneEnd(t[n]) \in Tokens
      BY <1>2, <1>9, <2>4 DEF OneEnd
    <3> DEFINE x == u[n - 1]
               y == u[n]
               e == OneEnd(t[n])
    <3>2. x \in Seq(Tokens) /\ y = Append(x, e) /\ e \in Tokens
      BY <2>2, <3>1 DEF T
    <3> HIDE DEF x, y, e
    <3>3. Len(y) = Len(x) + 1 /\ y[Len(x) + 1] = e /\ \A r \in 1..Len(x) : y[r] = x[r]
      BY <3>2
    <3> QED
      BY <2>2, <2>4, <3>3 DEF x, y, e
  <2> QED
    BY <2>3, <2>4
<1> HIDE DEF Adds
<1>12. \A n \in 0..N : \A i \in 0..n : Len(u[i]) <= Len(u[n]) /\ \A r \in 1..Len(u[i]) : u[n][r] = u[i][r]
  <2> DEFINE Holds(n) == \A i \in 0..n : Len(u[i]) <= Len(u[n]) /\ \A r \in 1..Len(u[i]) : u[n][r] = u[i][r]
             S == {n \in 0..N : Holds(n)}
  <2>1. 0 \in S
    BY <1>1, <1>9
  <2>2. ASSUME NEW n \in 1..N, n - 1 \in S PROVE n \in S
    <3>0. n \in 0..N /\ n - 1 \in 0..N /\ n \in Nat
      BY <1>1
    <3>1. Holds(n - 1)
      BY <2>2
    <3>2. ASSUME NEW i \in 0..n
          PROVE  Len(u[i]) <= Len(u[n]) /\ \A r \in 1..Len(u[i]) : u[n][r] = u[i][r]
      <4>1. CASE i = n
        BY <1>11, <4>1
      <4>2. CASE i # n
        <5>1. i \in 0..(n - 1) /\ i \in 0..N
          <6>1. i \in Nat /\ i <= n /\ n <= N
            BY <1>1, <3>0
          <6> QED
            BY <1>1, <3>0, <4>2, <6>1
        <5>2. Len(u[i]) <= Len(u[n - 1]) /\ \A r \in 1..Len(u[i]) : u[n - 1][r] = u[i][r]
          BY <3>1, <5>1
        <5>3. Len(u[i]) \in Nat
          BY <1>10, <5>1 DEF T
        <5>4. \A r \in 1..Len(u[i]) : r \in 1..Len(u[n - 1])
          BY <1>11, <5>2, <5>3
        <5>5. /\ Len(u[n]) \in Nat /\ Len(u[n - 1]) \in Nat
              /\ (u[n] = u[n - 1] \/ Len(u[n]) = Len(u[n - 1]) + 1)
          BY <1>11
        <5>6. Len(u[i]) <= Len(u[n])
          <6> DEFINE x == Len(u[i])
                     y == Len(u[n - 1])
                     z == Len(u[n])
          <6>1. y = z \/ z = y + 1
            BY <5>5
          <6>2. x \in Nat /\ y \in Nat /\ z \in Nat /\ x <= y
            BY <5>2, <5>3, <5>5
          <6> HIDE DEF x, y, z
          <6>3. x <= z
            BY <6>1, <6>2
          <6> QED
            BY <6>3 DEF x, z
        <5>7. \A r \in 1..Len(u[n - 1]) : u[n][r] = u[n - 1][r]
          BY <1>11
        <5>8. \A r \in 1..Len(u[i]) : u[n][r] = u[i][r]
          BY <5>2, <5>4, <5>7
        <5> QED
          BY <5>6, <5>8
      <4> QED
        BY <4>1, <4>2
    <3>3. Holds(n)
      BY <3>2
    <3> HIDE DEF Holds
    <3> QED
      BY <3>0, <3>3
  <2> HIDE DEF S
  <2>3. 0..N \subseteq S
    BY <1>1, <2>1, <2>2, InductUpTo
  <2> QED
    BY <2>3 DEF S
<1>13. \A n \in 0..N : \A r \in 1..Len(u[n]) : \E x \in 1..n : ~EndsPair(t, x) /\ Len(u[x]) = r
  <2> DEFINE Holds(n) == \A r \in 1..Len(u[n]) : \E x \in 1..n : ~EndsPair(t, x) /\ Len(u[x]) = r
             S == {n \in 0..N : Holds(n)}
  <2>1. 0 \in S
    BY <1>1, <1>9
  <2>2. ASSUME NEW n \in 1..N, n - 1 \in S PROVE n \in S
    <3>0. n \in 0..N /\ n - 1 \in 0..N /\ n \in Nat
      BY <1>1
    <3>1. Holds(n - 1)
      BY <2>2
    <3>2. ASSUME NEW r \in 1..Len(u[n])
          PROVE  \E x \in 1..n : ~EndsPair(t, x) /\ Len(u[x]) = r
      <4>1. CASE r \in 1..Len(u[n - 1])
        <5>1. PICK x \in 1..(n - 1) : ~EndsPair(t, x) /\ Len(u[x]) = r
          BY <3>1, <4>1
        <5>2. x \in 1..n
          BY <3>0
        <5> QED
          BY <5>1, <5>2
      <4>2. CASE r \notin 1..Len(u[n - 1])
        <5>1. ~EndsPair(t, n) /\ r = Len(u[n])
          BY <1>11, <4>2
        <5>2. n \in 1..n
          BY <3>0
        <5> QED
          BY <5>1, <5>2
      <4> QED
        BY <4>1, <4>2
    <3>3. Holds(n)
      BY <3>2
    <3> HIDE DEF Holds
    <3> QED
      BY <3>0, <3>3
  <2> HIDE DEF S
  <2>3. 0..N \subseteq S
    BY <1>1, <2>1, <2>2, InductUpTo
  <2> QED
    BY <2>3 DEF S
<1> DEFINE m == [n \in 0..N |-> Len(u[n])]
<1>14. 0 \in 0..N /\ N \in 0..N /\ \A n \in 1..N : n \in 0..N /\ n - 1 \in 0..N
  BY <1>1
<1>15. \A n \in 0..N : m[n] = Len(u[n]) /\ m[n] \in Nat /\ n \in 0..N
  BY <1>10 DEF T
<1>16. m \in [0..N -> 0..Len(u[N])]
  <2>1. \A n \in 0..N : n \in 0..N /\ n \in 0..N
    OBVIOUS
  <2>2. \A n \in 0..N : Len(u[n]) <= Len(u[N])
    BY <1>1, <1>12, <1>14
  <2>3. Len(u[N]) \in Nat
    BY <1>14, <1>15
  <2>4. \A n \in 0..N : Len(u[n]) \in 0..Len(u[N])
    BY <1>15, <2>2, <2>3
  <2> QED
    BY <2>4
<1> HIDE DEF m
<1>17. m[0] = 0 /\ m[N] = Len(u[N])
  BY <1>9, <1>14, <1>15
<1>18. \A n \in 1..N :
         IF EndsPair(t, n) THEN m[n] = m[n - 1]
         ELSE m[n] = m[n - 1] + 1 /\ u[N][m[n]] = OneEnd(t[n])
  <2> SUFFICES ASSUME NEW n \in 1..N
               PROVE  IF EndsPair(t, n) THEN m[n] = m[n - 1]
                      ELSE m[n] = m[n - 1] + 1 /\ u[N][m[n]] = OneEnd(t[n])
    OBVIOUS
  <2>1. m[n] = Len(u[n]) /\ m[n - 1] = Len(u[n - 1])
    BY <1>14, <1>15
  <2>2. CASE EndsPair(t, n)
    BY <1>11, <2>1, <2>2
  <2>3. CASE ~EndsPair(t, n)
    <3>1. Len(u[n]) \in 1..Len(u[n])
      BY <1>11, <2>3
    <3>2. n \in 0..N /\ N \in 0..N
      BY <1>14
    <3>3. u[N][Len(u[n])] = u[n][Len(u[n])]
      BY <1>12, <3>1, <3>2
    <3> QED
      BY <1>11, <2>1, <2>3, <3>3
  <2> QED
    BY <2>2, <2>3
<1>19. \A i, j \in 0..N : i <= j => m[i] <= m[j]
  <2> SUFFICES ASSUME NEW i \in 0..N, NEW j \in 0..N, i <= j PROVE m[i] <= m[j]
    OBVIOUS
  <2>1. i \in 0..j
    BY <1>1
  <2> QED
    BY <1>12, <1>15, <2>1
<1>20. \A r \in 1..Len(u[N]) : \E n \in 1..N : ~EndsPair(t, n) /\ m[n] = r
  <2> SUFFICES ASSUME NEW r \in 1..Len(u[N])
               PROVE  \E n \in 1..N : ~EndsPair(t, n) /\ m[n] = r
    OBVIOUS
  <2>1. N \in 0..N
    BY <1>14
  <2>2. PICK n \in 1..N : ~EndsPair(t, n) /\ Len(u[n]) = r
    BY <1>13, <2>1
  <2>3. n \in 0..N
    BY <1>14
  <2>4. m[n] = r
    BY <1>15, <2>2, <2>3
  <2> QED
    BY <2>2, <2>4
<1>21. u[N] \in T
  BY <1>10, <1>14
<1>22. Renders(t, u[N], m)
  BY <1>16, <1>17, <1>18, <1>19, <1>20 DEF Renders, N
<1> QED
  BY <1>5, <1>21, <1>22 DEF N, T

\* The data lines of a text are those of what is written for it, in the same order.
LEMMA DataRendered ==
  ASSUME NEW t \in Seq(Tokens), NEW N \in Seq(Tokens), NEW m, Renders(t, N, m)
  PROVE  /\ \A p \in DataAt(t) : m[p] \in DataAt(N) /\ N[m[p]] = t[p]
         /\ \A r \in DataAt(N) : \E p \in DataAt(t) : m[p] = r
         /\ \A p, q \in DataAt(t) : p < q => m[p] < m[q]
<1>0. Len(t) \in Nat /\ Len(N) \in Nat /\ \A n \in 1..Len(t) : t[n] \in Tokens
  OBVIOUS
<1>1. \A n \in 1..Len(t) : n \in 0..Len(t) /\ n - 1 \in 0..Len(t)
  BY <1>0
<1>2. \A n \in 0..Len(t) : m[n] \in Nat /\ m[n] <= Len(N)
  BY <1>0 DEF Renders
<1>3. \A p \in DataAt(t) : p \in 1..Len(t) /\ ~EndsPair(t, p) /\ OneEnd(t[p]) = t[p] /\ t[p] \in DataLines
  BY DataAreNoEnds DEF EndsPair, OneEnd, LineEnds
<1>4. \A p \in DataAt(t) : m[p] = m[p - 1] + 1 /\ N[m[p]] = t[p]
  BY <1>3 DEF Renders
<1>5. \A p \in DataAt(t) : m[p] \in 1..Len(N)
  <2> SUFFICES ASSUME NEW p \in DataAt(t) PROVE m[p] \in 1..Len(N)
    OBVIOUS
  <2>1. m[p] \in Nat /\ m[p - 1] \in Nat /\ m[p] <= Len(N)
    BY <1>1, <1>2, <1>3
  <2> QED
    BY <1>0, <1>4, <2>1
<1>6. \A p \in DataAt(t) : m[p] \in DataAt(N)
  BY <1>3, <1>4, <1>5 DEF DataAt
<1>7. ASSUME NEW r \in DataAt(N) PROVE \E p \in DataAt(t) : m[p] = r
  <2>1. r \in 1..Len(N) /\ N[r] \in DataLines
    BY DEF DataAt
  <2>2. PICK n \in 1..Len(t) : ~EndsPair(t, n) /\ m[n] = r
    BY <2>1 DEF Renders
  <2>3. OneEnd(t[n]) \in DataLines
    BY <2>1, <2>2 DEF Renders
  <2>4. t[n] \in DataLines
    BY <2>3 DEF OneEnd, DataLines
  <2> QED
    BY <2>2, <2>4 DEF DataAt
<1>8. ASSUME NEW p \in DataAt(t), NEW q \in DataAt(t), p < q PROVE m[p] < m[q]
  <2>1. p \in 0..Len(t) /\ q - 1 \in 0..Len(t) /\ p <= q - 1
    BY <1>0, <1>3, <1>8
  <2>2. m[p] <= m[q - 1]
    BY <2>1 DEF Renders
  <2>3. m[p] \in Nat /\ m[q - 1] \in Nat
    BY <1>2, <2>1
  <2> QED
    BY <1>4, <2>2, <2>3
<1> QED
  BY <1>4, <1>6, <1>7, <1>8

\* An empty line of what is written is an empty line of the text.
LEMMA EmptyLineBack ==
  ASSUME NEW t \in Seq(Tokens), NEW N \in Seq(Tokens), NEW m, Renders(t, N, m),
         NEW p \in 0..Len(t), NEW i \in Nat, i > m[p], i + 1 <= Len(N), EmptyLineAt(N, i)
  PROVE  \E n \in (p + 1)..(Len(t) - 1) : EmptyLineAt(t, n) /\ m[n + 1] = i + 1
<1> DEFINE M == Len(N)
           L == Len(t)
<1>0. L \in Nat /\ M \in Nat /\ p \in Nat /\ m \in [0..L -> 0..M]
  BY DEF Renders
<1>1. m[p] \in Nat /\ i + 1 \in 1..M /\ i >= 1
  <2>1. m[p] \in 0..M
    BY <1>0
  <2> QED
    BY <1>0, <2>1
<1>2. PICK b \in 1..L : ~EndsPair(t, b) /\ m[b] = i + 1
  BY <1>1 DEF Renders
<1>3. b - 1 \in 0..L /\ m[b - 1] \in Nat
  <2>1. b - 1 \in 0..L
    BY <1>0
  <2>2. m[b - 1] \in 0..M
    BY <1>0, <2>1
  <2> QED
    BY <1>0, <2>1, <2>2
<1>4. m[b] = m[b - 1] + 1 /\ N[i + 1] = OneEnd(t[b])
  BY <1>2 DEF Renders
<1>5. m[b - 1] = i
  <2> DEFINE x == m[b - 1]
  <2>1. x + 1 = i + 1 /\ x \in Nat
    BY <1>2, <1>3, <1>4
  <2> HIDE DEF x
  <2>2. x = i
    BY <2>1
  <2> QED
    BY <2>2 DEF x
<1>6. b - 1 # 0 /\ b - 1 \in 1..Len(t)
  <2>1. b - 1 # 0
    BY <1>1, <1>5 DEF Renders
  <2> QED
    BY <1>3, <2>1
<1>7. ~(b - 1 <= p)
  <2>1. b - 1 <= p => m[b - 1] <= m[p]
    BY <1>3 DEF Renders
  <2> QED
    BY <1>1, <1>5, <2>1
<1>8. t[b] \in LineEnds
  BY <1>4 DEF EmptyLineAt, OneEnd, LineEnds
<1>9. t[b - 1] \in LineEnds
  <2>1. CASE EndsPair(t, b - 1)
    BY <2>1 DEF EndsPair, LineEnds
  <2>2. CASE ~EndsPair(t, b - 1)
    <3>1. N[m[b - 1]] = OneEnd(t[b - 1])
      BY <1>6, <2>2 DEF Renders
    <3> QED
      BY <1>5, <3>1 DEF EmptyLineAt, OneEnd, LineEnds
  <2> QED
    BY <2>1, <2>2
<1>10. b - 1 \in (p + 1)..(Len(t) - 1) /\ (b - 1) + 1 = b
  BY <1>0, <1>3, <1>7
<1> QED
  BY <1>2, <1>8, <1>9, <1>10 DEF EmptyLineAt

\* What is written apart is apart in the text.
LEMMA ApartBack ==
  ASSUME NEW t \in Seq(Tokens), NEW N \in Seq(Tokens), NEW m, Renders(t, N, m),
         NEW p \in DataAt(t), NEW q \in DataAt(t), Apart(N, m[p], m[q])
  PROVE  Apart(t, p, q)
<1>0. Len(t) \in Nat /\ Len(N) \in Nat /\ p \in 1..Len(t) /\ q \in 1..Len(t)
  BY DataAreNoEnds
<1>1. p \in 0..Len(t) /\ q \in 0..Len(t)
  BY <1>0
<1>2. m[p] \in Nat /\ m[q] \in Nat /\ m[q] <= Len(N)
  <2>1. m \in [0..Len(t) -> 0..Len(N)]
    BY DEF Renders
  <2>2. m[p] \in 0..Len(N) /\ m[q] \in 0..Len(N)
    BY <1>1, <2>1
  <2> QED
    BY <1>0, <2>2
<1>3. PICK i \in (m[p] + 1)..(m[q] - 2) : EmptyLineAt(N, i)
  BY DEF Apart
<1>4. i \in Nat /\ i > m[p] /\ i + 1 <= Len(N) /\ i + 1 < m[q]
  <2> DEFINE x == m[p]
             y == m[q]
  <2>1. i \in (x + 1)..(y - 2)
    OBVIOUS
  <2>2. x \in Nat /\ y \in Nat /\ y <= Len(N)
    BY <1>2
  <2> HIDE DEF x, y
  <2>3. i \in Nat /\ i > x /\ i + 1 <= Len(N) /\ i + 1 < y
    BY <1>0, <2>1, <2>2
  <2> QED
    BY <2>3 DEF x, y
<1>5. PICK n \in (p + 1)..(Len(t) - 1) : EmptyLineAt(t, n) /\ m[n + 1] = i + 1
  BY <1>1, <1>3, <1>4, EmptyLineBack
<1>6. n + 1 \in 0..Len(t)
  BY <1>0
<1>7. q <= n + 1 => m[q] <= m[n + 1]
  BY <1>1, <1>6 DEF Renders
<1>8. n \in (p + 1)..(q - 2)
  <2>1. n \in Nat /\ p + 1 <= n /\ q \in Nat
    BY <1>0
  <2>2. m[n + 1] = i + 1 /\ ~(m[q] <= i + 1)
    BY <1>2, <1>4, <1>5
  <2>3. ~(q <= n + 1)
    BY <1>7, <2>2
  <2> QED
    BY <1>0, <2>1, <2>3
<1> QED
  BY <1>5, <1>8 DEF Apart

\* What is written keeps apart what is apart in the text.
Faithful(text, normal, m) ==
  \A p, q \in DataAt(text) : Apart(text, p, q) => Apart(normal, m[p], m[q])

\* A data line is sound in a text when it is in what is written for it.
LEMMA FaithfulSound ==
  ASSUME NEW t \in Seq(Tokens), NEW N \in Seq(Tokens), NEW m, Renders(t, N, m), Faithful(t, N, m),
         NEW p \in DataAt(t)
  PROVE  SoundAt(t, p) <=> SoundAt(N, m[p])
<1>1. /\ \A q \in DataAt(t) : m[q] \in DataAt(N) /\ N[m[q]] = t[q]
      /\ \A r \in DataAt(N) : \E q \in DataAt(t) : m[q] = r
      /\ \A x, y \in DataAt(t) : x < y => m[x] < m[y]
  BY DataRendered
<1>2. \A q \in DataAt(t) : q \in Nat /\ m[q] \in Nat
  BY <1>1, DataAreNoEnds
<1>3. \A x, y \in DataAt(t) : (x < y <=> m[x] < m[y]) /\ (m[x] = m[y] => x = y)
  <2> SUFFICES ASSUME NEW x \in DataAt(t), NEW y \in DataAt(t)
               PROVE  (x < y <=> m[x] < m[y]) /\ (m[x] = m[y] => x = y)
    OBVIOUS
  <2>1. (x < y => m[x] < m[y]) /\ (y < x => m[y] < m[x])
    BY <1>1
  <2>2. x \in Nat /\ y \in Nat /\ m[x] \in Nat /\ m[y] \in Nat
    BY <1>2
  <2> QED
    BY <2>1, <2>2
<1>4. \A q \in DataAt(t) : q \in Joined(t, p) <=> m[q] \in Joined(N, m[p])
  <2> SUFFICES ASSUME NEW q \in DataAt(t) PROVE q \in Joined(t, p) <=> m[q] \in Joined(N, m[p])
    OBVIOUS
  <2>1. (Apart(t, p, q) <=> Apart(N, m[p], m[q])) /\ (Apart(t, q, p) <=> Apart(N, m[q], m[p]))
    BY ApartBack DEF Faithful
  <2> QED
    BY <1>1, <2>1 DEF Joined
<1>5. \A r \in Joined(N, m[p]) : \E q \in Joined(t, p) : m[q] = r
  <2> SUFFICES ASSUME NEW r \in Joined(N, m[p]) PROVE \E q \in Joined(t, p) : m[q] = r
    OBVIOUS
  <2>1. r \in DataAt(N)
    BY DEF Joined
  <2>2. PICK q \in DataAt(t) : m[q] = r
    BY <1>1, <2>1
  <2> QED
    BY <1>4, <2>2
<1>6. \A q \in Joined(t, p) : q \in DataAt(t)
  BY DEF Joined
<1>7. ASSUME SoundAt(t, p) PROVE SoundAt(N, m[p])
  <2>1. CASE t[p] = "whole" /\ Joined(t, p) = {p}
    <3>1. Joined(N, m[p]) = {m[p]}
      BY <1>4, <1>5, <2>1
    <3> QED
      BY <1>1, <2>1, <3>1 DEF SoundAt
  <2>2. ASSUME NEW q \in DataAt(t), Joined(t, p) = {p, q},
               \/ p < q /\ t[p] = "head" /\ t[q] = "rest"
               \/ q < p /\ t[q] = "head" /\ t[p] = "rest"
        PROVE  SoundAt(N, m[p])
    <3>1. Joined(N, m[p]) = {m[p], m[q]}
      <4>1. m[p] \in Joined(N, m[p]) /\ m[q] \in Joined(N, m[p])
        BY <1>4, <2>2
      <4>2. \A r \in Joined(N, m[p]) : r = m[p] \/ r = m[q]
        BY <1>5, <2>2
      <4> QED
        BY <4>1, <4>2
    <3>2. /\ m[q] \in DataAt(N) /\ N[m[q]] = t[q] /\ N[m[p]] = t[p]
          /\ (p < q => m[p] < m[q]) /\ (q < p => m[q] < m[p])
      BY <1>1
    <3> QED
      BY <2>2, <3>1, <3>2 DEF SoundAt
  <2> QED
    BY <1>7, <2>1, <2>2 DEF SoundAt
<1>8. ASSUME SoundAt(N, m[p]) PROVE SoundAt(t, p)
  <2>1. CASE N[m[p]] = "whole" /\ Joined(N, m[p]) = {m[p]}
    <3>1. p \in Joined(t, p) /\ \A q \in Joined(t, p) : q = p
      BY <1>3, <1>4, <1>6, <2>1
    <3>2. Joined(t, p) = {p}
      BY <3>1
    <3> QED
      BY <1>1, <2>1, <3>2 DEF SoundAt
  <2>2. ASSUME NEW r \in DataAt(N), Joined(N, m[p]) = {m[p], r},
               \/ m[p] < r /\ N[m[p]] = "head" /\ N[r] = "rest"
               \/ r < m[p] /\ N[r] = "head" /\ N[m[p]] = "rest"
        PROVE  SoundAt(t, p)
    <3>1. PICK q \in DataAt(t) : m[q] = r
      BY <1>1
    <3>2. p \in Joined(t, p) /\ q \in Joined(t, p) /\ \A x \in Joined(t, p) : x = p \/ x = q
      BY <1>3, <1>4, <1>6, <2>2, <3>1
    <3>3. Joined(t, p) = {p, q}
      BY <3>2
    <3>4. N[r] = t[q] /\ N[m[p]] = t[p] /\ (m[p] < r => p < q) /\ (r < m[p] => q < p)
      BY <1>1, <1>3, <3>1
    <3> QED
      BY <2>2, <3>3, <3>4 DEF SoundAt
  <2> QED
    BY <1>8, <2>1, <2>2 DEF SoundAt
<1> QED
  BY <1>7, <1>8

\* A text without pairs of characters for one line end keeps its length.
LEMMA PlainIsFaithful ==
  ASSUME NEW t \in Seq(Tokens), NEW N \in Seq(Tokens), NEW m, Renders(t, N, m),
         \A n \in 1..Len(t) : ~EndsPair(t, n)
  PROVE  Faithful(t, N, m)
<1>0. Len(t) \in Nat /\ Len(N) \in Nat
  OBVIOUS
<1>1. m[0] = 0 /\ m[Len(t)] = Len(N)
  BY DEF Renders
<1>2. \A n \in 1..Len(t) : m[n] = m[n - 1] + 1 /\ N[m[n]] = OneEnd(t[n])
  BY DEF Renders
<1>3. \A n \in 0..Len(t) : m[n] = n
  <2> DEFINE S == {n \in 0..Len(t) : m[n] = n}
  <2>1. 0 \in S
    BY <1>0, <1>1
  <2>2. ASSUME NEW n \in 1..Len(t), n - 1 \in S PROVE n \in S
    <3>1. n \in 0..Len(t) /\ m[n - 1] = n - 1
      BY <1>0, <2>2
    <3>2. m[n] = (n - 1) + 1
      BY <1>2, <3>1
    <3> QED
      BY <3>1, <3>2
  <2> HIDE DEF S
  <2>3. 0..Len(t) \subseteq S
    BY <1>0, <2>1, <2>2, InductUpTo
  <2> QED
    BY <2>3 DEF S
<1>4. \A n \in 1..Len(t) : N[n] = OneEnd(t[n])
  <2>1. \A n \in 1..Len(t) : n \in 0..Len(t)
    BY <1>0
  <2> QED
    BY <1>2, <1>3, <2>1
<1>5. \A p \in DataAt(t) : p \in 1..Len(t) /\ m[p] = p
  <2>1. \A p \in DataAt(t) : p \in 1..Len(t) /\ p \in 0..Len(t)
    BY <1>0, DataAreNoEnds
  <2> QED
    BY <1>3, <2>1
<1>6. ASSUME NEW p \in DataAt(t), NEW q \in DataAt(t), Apart(t, p, q)
      PROVE  Apart(N, p, q)
  <2>1. p \in 1..Len(t) /\ q \in 1..Len(t)
    BY <1>5
  <2>2. PICK i \in (p + 1)..(q - 2) : EmptyLineAt(t, i)
    BY <1>6 DEF Apart
  <2>3. i \in 1..Len(t) /\ i + 1 \in 1..Len(t)
    BY <1>0, <2>1
  <2>4. N[i] = OneEnd(t[i]) /\ N[i + 1] = OneEnd(t[i + 1])
    BY <1>4, <2>3
  <2>5. N[i] \in LineEnds /\ N[i + 1] \in LineEnds
    BY <2>2, <2>4 DEF EmptyLineAt, OneEnd, LineEnds
  <2> QED
    BY <2>2, <2>5 DEF Apart, EmptyLineAt
<1> QED
  BY <1>5, <1>6 DEF Faithful

\* Frames with one data line at most keep their data apart from all others.
LEMMA OneLineIsFaithful ==
  ASSUME NEW t \in Seq(Tokens), NEW N \in Seq(Tokens), NEW m, Renders(t, N, m),
         \A r \in DataAt(N) : Joined(N, r) = {r}
  PROVE  Faithful(t, N, m)
<1> SUFFICES ASSUME NEW p \in DataAt(t), NEW q \in DataAt(t), Apart(t, p, q)
             PROVE  Apart(N, m[p], m[q])
  BY DEF Faithful
<1>1. p \in 1..Len(t) /\ q \in 1..Len(t) /\ Len(t) \in Nat
  BY DataAreNoEnds
<1>2. p < q
  <2>1. PICK i \in (p + 1)..(q - 2) : EmptyLineAt(t, i)
    BY DEF Apart
  <2> QED
    BY <1>1, <2>1
<1>3. m[p] \in DataAt(N) /\ m[q] \in DataAt(N) /\ m[p] < m[q]
  BY <1>2, DataRendered
<1>4. m[p] \in Nat /\ m[q] \in Nat
  BY <1>3, DataAreNoEnds
<1>5. m[q] \notin Joined(N, m[p])
  BY <1>3, <1>4
<1>6. ~Apart(N, m[q], m[p])
  <2>1. (m[q] + 1)..(m[p] - 2) = {}
    BY <1>3, <1>4
  <2> QED
    BY <2>1 DEF Apart
<1> QED
  BY <1>3, <1>5, <1>6 DEF Joined

\* What is written for the first d characters of a text is the beginning of what is written for
\* all of it.
LEMMA RendersPrefix ==
  ASSUME NEW t \in Seq(Tokens), NEW N \in Seq(Tokens), NEW m, Renders(t, N, m),
         NEW d \in 0..Len(t),
         NEW M \in Seq(Tokens), NEW l, Renders(SubSeq(t, 1, d), M, l)
  PROVE  /\ \A n \in 0..d : l[n] = m[n]
         /\ Len(M) = m[d] /\ Len(M) <= Len(N)
         /\ \A r \in 1..Len(M) : M[r] = N[r]
<1> DEFINE u == SubSeq(t, 1, d)
<1>0. Len(t) \in Nat /\ d \in Nat /\ Len(M) \in Nat /\ Len(N) \in Nat
  OBVIOUS
<1>1. u \in Seq(Tokens) /\ Len(u) = d /\ \A n \in 1..d : u[n] = t[n]
  BY PrefixFacts
<1>2. Renders(u, M, l)
  OBVIOUS
<1> HIDE DEF u
<1>3. \A n \in 1..d : (EndsPair(u, n) <=> EndsPair(t, n)) /\ n \in 1..Len(t)
  <2> SUFFICES ASSUME NEW n \in 1..d PROVE (EndsPair(u, n) <=> EndsPair(t, n)) /\ n \in 1..Len(t)
    OBVIOUS
  <2>1. n > 1 => n - 1 \in 1..d
    BY <1>0
  <2> QED
    BY <1>0, <1>1, <2>1 DEF EndsPair
<1>4. /\ m[0] = 0 /\ l[0] = 0 /\ l[d] = Len(M)
      /\ m \in [0..Len(t) -> 0..Len(N)] /\ l \in [0..d -> 0..Len(M)]
  BY <1>1, <1>2 DEF Renders
<1>5. \A n \in 1..d : /\ EndsPair(t, n) => m[n] = m[n - 1] /\ l[n] = l[n - 1]
                      /\ ~EndsPair(t, n) => /\ m[n] = m[n - 1] + 1 /\ l[n] = l[n - 1] + 1
                                            /\ N[m[n]] = OneEnd(t[n]) /\ M[l[n]] = OneEnd(u[n])
  <2> SUFFICES ASSUME NEW n \in 1..d
               PROVE  /\ EndsPair(t, n) => m[n] = m[n - 1] /\ l[n] = l[n - 1]
                      /\ ~EndsPair(t, n) => /\ m[n] = m[n - 1] + 1 /\ l[n] = l[n - 1] + 1
                                            /\ N[m[n]] = OneEnd(t[n]) /\ M[l[n]] = OneEnd(u[n])
    OBVIOUS
  <2>1. n \in 1..Len(u) /\ n \in 1..Len(t) /\ (EndsPair(u, n) <=> EndsPair(t, n))
    BY <1>1, <1>3
  <2>2. IF EndsPair(t, n) THEN m[n] = m[n - 1] ELSE m[n] = m[n - 1] + 1 /\ N[m[n]] = OneEnd(t[n])
    BY <2>1 DEF Renders
  <2>3. IF EndsPair(u, n) THEN l[n] = l[n - 1] ELSE l[n] = l[n - 1] + 1 /\ M[l[n]] = OneEnd(u[n])
    BY <1>2, <2>1 DEF Renders
  <2> QED
    BY <2>1, <2>2, <2>3
<1>6. \A n \in 0..d : l[n] = m[n]
  <2> DEFINE S == {n \in 0..d : l[n] = m[n]}
  <2>1. 0 \in S
    BY <1>0, <1>4
  <2>2. ASSUME NEW n \in 1..d, n - 1 \in S PROVE n \in S
    <3>1. n \in 0..d /\ l[n - 1] = m[n - 1]
      BY <1>0, <2>2
    <3> QED
      BY <1>5, <3>1
  <2> HIDE DEF S
  <2>3. 0..d \subseteq S
    BY <1>0, <2>1, <2>2, InductUpTo
  <2> QED
    BY <2>3 DEF S
<1>7. Len(M) = m[d] /\ Len(M) <= Len(N)
  <2>1. d \in 0..d /\ d \in 0..Len(t)
    BY <1>0
  <2>2. m[d] \in 0..Len(N)
    BY <1>4, <2>1
  <2> QED
    BY <1>0, <1>4, <1>6, <2>1, <2>2
<1>8. ASSUME NEW r \in 1..Len(M) PROVE M[r] = N[r]
  <2>1. PICK n \in 1..d : ~EndsPair(u, n) /\ l[n] = r
    BY <1>1, <1>2 DEF Renders
  <2>2. n \in 0..d /\ ~EndsPair(t, n) /\ u[n] = t[n]
    BY <1>0, <1>1, <1>3, <2>1
  <2>3. N[m[n]] = OneEnd(t[n]) /\ M[l[n]] = OneEnd(u[n])
    BY <1>5, <2>2
  <2>4. l[n] = m[n]
    BY <1>6, <2>2
  <2> QED
    BY <2>1, <2>2, <2>3, <2>4
<1> QED
  BY <1>6, <1>7, <1>8

\* What holds of the text written for a whole text holds of its beginning.
LEMMA FaithfulPrefix ==
  ASSUME NEW t \in Seq(Tokens), NEW N \in Seq(Tokens), NEW m, Renders(t, N, m), Faithful(t, N, m),
         NEW d \in 0..Len(t),
         NEW M \in Seq(Tokens), NEW l, Renders(SubSeq(t, 1, d), M, l)
  PROVE  Faithful(SubSeq(t, 1, d), M, l)
<1> DEFINE u == SubSeq(t, 1, d)
<1>0. Len(t) \in Nat /\ d \in Nat /\ Len(M) \in Nat /\ Len(N) \in Nat
  OBVIOUS
<1>1. u \in Seq(Tokens) /\ Len(u) = d /\ \A n \in 1..d : u[n] = t[n]
  BY PrefixFacts
<1>2. Renders(u, M, l)
  OBVIOUS
<1>3. /\ \A n \in 0..d : l[n] = m[n]
      /\ \A r \in 1..Len(M) : M[r] = N[r]
  BY RendersPrefix
<1> HIDE DEF u
<1>4. \A p \in DataAt(u) : p \in 1..d /\ p \in 0..d /\ p \in DataAt(t) /\ l[p] = m[p]
  <2> SUFFICES ASSUME NEW p \in DataAt(u) PROVE p \in 1..d /\ p \in 0..d /\ p \in DataAt(t) /\ l[p] = m[p]
    OBVIOUS
  <2>1. p \in 1..Len(u) /\ u[p] \in DataLines
    BY <1>1, DataAreNoEnds
  <2>2. p \in 1..d /\ p \in 0..d /\ p \in 1..Len(t) /\ u[p] = t[p]
    BY <1>0, <1>1, <2>1
  <2> QED
    BY <1>3, <2>1, <2>2 DEF DataAt
<1>5. \A p \in DataAt(u) : l[p] \in 1..Len(M)
  BY <1>1, <1>2, DataRendered, DataAreNoEnds
<1> SUFFICES ASSUME NEW p \in DataAt(u), NEW q \in DataAt(u), Apart(u, p, q)
             PROVE  Apart(M, l[p], l[q])
  BY DEF Faithful, u
<1>6. PICK i \in (p + 1)..(q - 2) : EmptyLineAt(u, i)
  BY DEF Apart
<1>7. p \in 1..d /\ q \in 1..d /\ p \in DataAt(t) /\ q \in DataAt(t)
  BY <1>4
<1>8. i \in 1..d /\ i + 1 \in 1..d
  BY <1>0, <1>7
<1>9. EmptyLineAt(t, i)
  BY <1>1, <1>6, <1>8 DEF EmptyLineAt
<1>10. Apart(N, m[p], m[q])
  BY <1>6, <1>7, <1>9 DEF Faithful, Apart
<1>11. PICK j \in (m[p] + 1)..(m[q] - 2) : EmptyLineAt(N, j)
  BY <1>10 DEF Apart
<1>12. l[p] = m[p] /\ l[q] = m[q] /\ m[p] \in 1..Len(M) /\ m[q] \in 1..Len(M)
  <2>1. l[p] = m[p] /\ l[q] = m[q]
    BY <1>4
  <2>2. l[p] \in 1..Len(M) /\ l[q] \in 1..Len(M)
    BY <1>5
  <2> QED
    BY <2>1, <2>2
<1>13. j \in 1..Len(M) /\ j + 1 \in 1..Len(M)
  <2> DEFINE x == m[p]
             y == m[q]
  <2>1. j \in (x + 1)..(y - 2) /\ x \in 1..Len(M) /\ y \in 1..Len(M)
    BY <1>12
  <2> HIDE DEF x, y
  <2> QED
    BY <1>0, <2>1
<1>14. EmptyLineAt(M, j)
  BY <1>3, <1>11, <1>13 DEF EmptyLineAt
<1> QED
  BY <1>11, <1>12, <1>14 DEF Apart
----------------------------------------------------------------------------
(***************************************************************************)
(* The frames of chunks, and those of what was passed on.                  *)
(***************************************************************************)

\* A place where what is read of a text so far may be cut: a frame may start after the first k
\* characters, and none has ended since.
Waiting(text, k, n) ==
  /\ StartsPiece(text, k + 1)
  /\ \A i \in (k + 1)..(n - 1) : ~EmptyLineAt(text, i)

\* Whatever is left over from the chunks before, the frames that a chunk completes have the data
\* of the text up to some place, and what is then left over waits from there.
LEMMA ChunkFacts ==
  ASSUME NEW t \in Seq(Tokens), NEW k \in Nat, NEW n \in k..Len(t), StartsPiece(t, k + 1)
  PROVE  \E l \in k..n :
           LET c == Cut(SubSeq(t, k + 1, n))
           IN  /\ c.rest = SubSeq(t, l + 1, n)
               /\ Waiting(t, l, n)
               /\ (\A i \in DOMAIN c.frames : Sound(c.frames[i]))
                    <=> \A p \in DataAt(t) : k < p /\ p <= l => SoundAt(t, p)
<1> DEFINE u == SubSeq(t, k + 1, n)
           c == Cut(u)
           AllFrames == \A i \in DOMAIN c.frames : Sound(c.frames[i])
<1>0. Len(t) \in Nat /\ n \in Nat /\ n <= Len(t) /\ k <= n
  OBVIOUS
<1>1. u \in Seq(Tokens) /\ Len(u) = n - k /\ DOMAIN u = 1..(n - k) /\ \A x \in 1..(n - k) : u[x] = t[k + x]
  <2>1. n \in 0..Len(t) /\ k \in 0..n
    BY <1>0
  <2> QED
    BY <2>1, PartFacts
<1> HIDE DEF u
<1>2. PICK j \in 0..Len(u) :
        /\ c.rest = SubSeq(u, j + 1, Len(u))
        /\ Piece(u, j + 1, Len(u))
        /\ AllFrames <=> \A p \in DataAt(u) : p <= j => SoundAt(u, p)
  BY <1>1, CutFacts
<1> HIDE DEF c, AllFrames
<1> DEFINE l == k + j
<1>3. j \in Nat /\ j <= n - k /\ l \in k..n /\ l \in Nat
  BY <1>0, <1>1
<1>4. c.rest = SubSeq(t, l + 1, n)
  <2>1. /\ k \in 0..Len(t) /\ n \in k..Len(t) /\ j + 1 \in Nat \ {0} /\ n - k \in 0..(n - k)
        /\ j + 1 <= (n - k) + 1 /\ k + (j + 1) = l + 1 /\ k + (n - k) = n
    BY <1>0, <1>3
  <2>2. SubSeq(SubSeq(t, k + 1, n), j + 1, n - k) = SubSeq(t, k + (j + 1), k + (n - k))
    BY <2>1, SubSeqOfRest
  <2> QED
    BY <1>1, <1>2, <2>1, <2>2 DEF u
<1>5. \A x \in 1..(n - k - 1) : EmptyLineAt(u, x) <=> EmptyLineAt(t, k + x)
  <2> SUFFICES ASSUME NEW x \in 1..(n - k - 1) PROVE EmptyLineAt(u, x) <=> EmptyLineAt(t, k + x)
    OBVIOUS
  <2>1. x \in 1..(n - k) /\ x + 1 \in 1..(n - k) /\ k + (x + 1) = (k + x) + 1
    BY <1>0
  <2>2. u[x] = t[k + x] /\ u[x + 1] = t[k + (x + 1)]
    BY <1>1, <2>1
  <2>3. t[k + (x + 1)] = t[(k + x) + 1]
    BY <2>1
  <2> QED
    BY <2>2, <2>3 DEF EmptyLineAt
<1>6. j = 0 \/ (j >= 2 /\ EmptyLineAt(u, j - 1))
  <2>1. j + 1 = 1 \/ (j + 1 >= 3 /\ EmptyLineAt(u, (j + 1) - 2))
    BY <1>2 DEF Piece, StartsPiece
  <2>2. (j + 1) - 2 = j - 1
    BY <1>3
  <2> QED
    BY <1>3, <2>1, <2>2
<1>7. Waiting(t, l, n)
  <2>1. StartsPiece(t, l + 1)
    <3>1. CASE j = 0
      <4>1. l + 1 = k + 1
        BY <3>1
      <4> QED
        BY <4>1
    <3>2. CASE j >= 2 /\ EmptyLineAt(u, j - 1)
      <4>1. j - 1 \in 1..(n - k - 1) /\ k + (j - 1) = (l + 1) - 2 /\ l + 1 >= 3
        BY <1>0, <1>3, <3>2
      <4> QED
        BY <1>5, <3>2, <4>1 DEF StartsPiece
    <3> QED
      BY <1>6, <3>1, <3>2
  <2>2. \A i \in (l + 1)..(n - 1) : ~EmptyLineAt(t, i)
    <3> SUFFICES ASSUME NEW i \in (l + 1)..(n - 1) PROVE ~EmptyLineAt(t, i)
      OBVIOUS
    <3>1. i - k \in (j + 1)..(Len(u) - 1) /\ i - k \in 1..(n - k - 1) /\ k + (i - k) = i
      BY <1>0, <1>1, <1>3
    <3>2. ~EmptyLineAt(u, i - k)
      BY <1>2, <3>1 DEF Piece
    <3> QED
      BY <1>5, <3>1, <3>2
  <2> QED
    BY <2>1, <2>2 DEF Waiting
<1>8. ASSUME NEW p \in DataAt(u), p <= j
      PROVE  /\ p \in 1..j /\ k + p \in DataAt(t) /\ k < k + p /\ k + p <= l
             /\ (SoundAt(u, p) <=> SoundAt(t, k + p))
  <2>1. p \in 1..(n - k) /\ u[p] \notin LineEnds
    BY <1>1, DataAreNoEnds
  <2>2. j >= 2 /\ EmptyLineAt(u, j - 1)
    BY <1>6, <1>8, <2>1
  <2>3. p # j - 1 /\ p # j
    <3>1. (j - 1) + 1 = j
      BY <1>3
    <3> QED
      BY <2>1, <2>2, <3>1 DEF EmptyLineAt
  <2>4. j - 1 \in (p + 1)..(n - k - 1)
    BY <1>0, <1>3, <1>8, <2>1, <2>3
  <2>5. k + p \in DataAt(t) /\ (SoundAt(u, p) <=> SoundAt(t, k + p))
    <3>1. p \in DataAt(SubSeq(t, k + 1, n)) /\ EmptyLineAt(SubSeq(t, k + 1, n), j - 1)
      BY <1>8, <2>2 DEF u
    <3>2. k + p \in DataAt(t) /\ (SoundAt(SubSeq(t, k + 1, n), p) <=> SoundAt(t, k + p))
      BY <2>4, <3>1, Window
    <3> QED
      BY <3>2 DEF u
  <2>6. p \in 1..j /\ k < k + p /\ k + p <= l
    BY <1>3, <1>8, <2>1
  <2> QED
    BY <2>5, <2>6
<1>9. ASSUME NEW q \in DataAt(t), k < q, q <= l
      PROVE  q - k \in DataAt(u) /\ q - k <= j /\ k + (q - k) = q
  <2>1. q \in 1..Len(t) /\ t[q] \in DataLines
    BY DataAreNoEnds
  <2>2. q - k \in 1..(n - k) /\ q - k <= j /\ k + (q - k) = q
    BY <1>0, <1>3, <1>9, <2>1
  <2>3. u[q - k] = t[q]
    <3> DEFINE x == q - k
    <3>1. x \in 1..(n - k) /\ k + x = q
      BY <2>2
    <3> HIDE DEF x
    <3>2. u[x] = t[k + x]
      BY <1>1, <3>1
    <3> QED
      BY <3>1, <3>2 DEF x
  <2> QED
    BY <1>1, <2>1, <2>2, <2>3 DEF DataAt
<1>10. AllFrames <=> \A p \in DataAt(t) : k < p /\ p <= l => SoundAt(t, p)
  <2>1. ASSUME AllFrames, NEW q \in DataAt(t), k < q, q <= l PROVE SoundAt(t, q)
    <3>1. q - k \in DataAt(u) /\ q - k <= j /\ k + (q - k) = q
      BY <1>9, <2>1
    <3>2. SoundAt(u, q - k)
      BY <1>2, <2>1, <3>1
    <3> QED
      BY <1>8, <3>1, <3>2
  <2>2. ASSUME \A p \in DataAt(t) : k < p /\ p <= l => SoundAt(t, p) PROVE AllFrames
    BY <1>2, <1>8, <2>2
  <2> QED
    BY <2>1, <2>2
<1> HIDE DEF l
<1> QED
  BY <1>3, <1>4, <1>7, <1>10 DEF AllFrames, c, u

\* When all data before what still waits to be cut are sound, so are the frames that the parser of
\* the standard completes in what was passed on.
LEMMA PrefixValidated ==
  ASSUME NEW t \in Seq(Tokens), NEW N \in Seq(Tokens), NEW m, Renders(t, N, m), Faithful(t, N, m),
         NEW d \in 0..Len(t), NEW k \in 0..d, Waiting(t, k, d),
         \A p \in DataAt(t) : p <= k => SoundAt(t, p),
         NEW i \in DOMAIN Parsed(SubSeq(t, 1, d)).frames
  PROVE  Sound(Parsed(SubSeq(t, 1, d)).frames[i])
<1> DEFINE u == SubSeq(t, 1, d)
           M == Normalized(u)
           c == Cut(M)
<1>0. Len(t) \in Nat /\ d \in Nat /\ k \in Nat
  OBVIOUS
<1>1. u \in Seq(Tokens) /\ Len(u) = d /\ DOMAIN u = 1..d /\ \A n \in 1..d : u[n] = t[n]
  BY PrefixFacts
<1>2. M \in Seq(Tokens) /\ \E l : Renders(u, M, l)
  <2> HIDE DEF u
  <2> QED
    BY <1>1, NormalizedRenders
<1>3. PICK l : Renders(u, M, l)
  BY <1>2
<1>4. Parsed(u) = c
  BY DEF Parsed
<1> HIDE DEF M
<1>5. Faithful(u, M, l)
  BY <1>2, <1>3, FaithfulPrefix
<1> HIDE DEF u
<1>6. PICK j \in 0..Len(M) :
        /\ Piece(M, j + 1, Len(M))
        /\ (\A x \in DOMAIN c.frames : Sound(c.frames[x])) <=> \A r \in DataAt(M) : r <= j => SoundAt(M, r)
  BY <1>2, CutFacts
<1> HIDE DEF c
<1>7. ASSUME NEW r \in DataAt(M), r <= j PROVE SoundAt(M, r)
  <2>0. Len(M) \in Nat /\ r \in 1..Len(M) /\ M[r] \notin LineEnds
    BY <1>2, DataAreNoEnds
  <2>1. PICK p \in DataAt(u) : l[p] = r
    BY <1>1, <1>2, <1>3, DataRendered
  <2>2. p \in 1..d /\ p \in 0..Len(u)
    BY <1>0, <1>1, DataAreNoEnds
  <2>3. j - 1 \in Nat /\ j - 1 > r /\ (j - 1) + 1 <= Len(M) /\ EmptyLineAt(M, j - 1)
    <3>1. j + 1 = 1 \/ (j + 1 >= 3 /\ EmptyLineAt(M, (j + 1) - 2))
      BY <1>6 DEF Piece, StartsPiece
    <3>2. j + 1 >= 3 /\ (j + 1) - 2 = j - 1 /\ (j - 1) + 1 = j /\ j \in Nat
      BY <1>7, <2>0, <3>1
    <3>3. EmptyLineAt(M, j - 1)
      BY <1>7, <2>0, <3>1, <3>2
    <3>4. r # j - 1 /\ r # j
      BY <2>0, <3>2, <3>3 DEF EmptyLineAt
    <3> QED
      BY <1>7, <2>0, <3>2, <3>3, <3>4
  <2>4. PICK n \in (p + 1)..(Len(u) - 1) : EmptyLineAt(u, n)
    BY <1>1, <1>2, <1>3, <2>1, <2>2, <2>3, EmptyLineBack
  <2>5. n \in (p + 1)..(d - 0 - 1) /\ n \in 1..d /\ n + 1 \in 1..d
    BY <1>0, <1>1, <2>2
  <2>6. EmptyLineAt(t, n)
    BY <1>1, <2>4, <2>5 DEF EmptyLineAt
  <2>7. p <= k
    <3>1. ~(n \in (k + 1)..(d - 1))
      BY <2>6 DEF Waiting
    <3> QED
      BY <1>0, <2>2, <2>5, <3>1
  <2>8. p \in DataAt(t) /\ (SoundAt(u, p) <=> SoundAt(t, p))
    <3>1. 0 \in Nat /\ d \in 0..Len(t) /\ StartsPiece(t, 0 + 1) /\ 0 + 1 = 1 /\ 0 + p = p
      BY <1>0, <2>2 DEF StartsPiece
    <3>2. p \in DataAt(SubSeq(t, 0 + 1, d)) /\ EmptyLineAt(SubSeq(t, 0 + 1, d), n)
      BY <2>4, <3>1 DEF u
    <3>3. 0 + p \in DataAt(t) /\ (SoundAt(SubSeq(t, 0 + 1, d), p) <=> SoundAt(t, 0 + p))
      BY <2>5, <3>1, <3>2, Window
    <3> QED
      BY <3>1, <3>3 DEF u
  <2>9. SoundAt(u, p)
    BY <2>7, <2>8
  <2> QED
    BY <1>1, <1>2, <1>3, <1>5, <2>1, <2>9, FaithfulSound
<1> QED
  BY <1>4, <1>6, <1>7 DEF u

\* The events of a whole text are sound when all its data are.
LEMMA EventsSound ==
  ASSUME NEW t \in Seq(Tokens), NEW m, Renders(t, Normalized(t), m), Faithful(t, Normalized(t), m)
  PROVE  LET events == Append(Parsed(t).frames, Parsed(t).rest)
         IN  (\A i \in DOMAIN events : Sound(events[i])) <=> \A p \in DataAt(t) : SoundAt(t, p)
<1> DEFINE N == Normalized(t)
           events == Append(Cut(N).frames, Cut(N).rest)
           AllEvents == \A i \in DOMAIN events : Sound(events[i])
<1>1. N \in Seq(Tokens) /\ Renders(t, N, m) /\ Faithful(t, N, m)
  BY NormalizedRenders
<1>2. Parsed(t) = Cut(N)
  BY DEF Parsed
<1> HIDE DEF N
<1>3. AllEvents <=> \A r \in DataAt(N) : SoundAt(N, r)
  BY <1>1, EventFacts
<1> HIDE DEF AllEvents
<1>4. /\ \A p \in DataAt(t) : m[p] \in DataAt(N)
      /\ \A r \in DataAt(N) : \E p \in DataAt(t) : m[p] = r
  BY <1>1, DataRendered
<1>5. \A p \in DataAt(t) : SoundAt(t, p) <=> SoundAt(N, m[p])
  BY <1>1, FaithfulSound
<1>6. AllEvents <=> \A p \in DataAt(t) : SoundAt(t, p)
  BY <1>3, <1>4, <1>5
<1> QED
  BY <1>2, <1>6 DEF AllEvents
----------------------------------------------------------------------------
(***************************************************************************)
(* The hops of a call.                                                     *)
(***************************************************************************)

\* What the hops of a call rely on.
HopTypes ==
  /\ call \in Call
  /\ request \in Request
  /\ sent \in Seq(Request)
  /\ admitted \in Nat

\* The current request stays at the origin of the call, and so did those before it.
RequestsStay ==
  /\ request.origin = call.origin
  /\ \A i \in DOMAIN sent : sent[i].origin = call.origin

\* A request about to be sent was admitted after all those before it.
VerdictsLead == Len(sent) + (IF step = "sending" THEN 1 ELSE 0) <= admitted

\* A body is consumed from its first fetch on; a request with a body consumed is never sent.
BodyIsConsumed ==
  /\ step \in {"credentials", "policy", "sending"} => request.body # "used"
  /\ request.body = "fresh" => \A i \in DOMAIN sent : sent[i].body = "none"

\* A stream exists only once its call has ended, and a timer that fired before that shows in
\* the outcome.
StreamFollowsCall ==
  /\ step = "done" => timer # "armed"
  /\ ending # "none" => step = "done" /\ (timer = "fired" => outcome = "returnedLate")

\* What every step keeps, the text of the stream left out.
IInv ==
  /\ HopTypes
  /\ RequestsStay
  /\ VerdictsLead
  /\ BodyIsConsumed
  /\ BodyIsSentOnce
  /\ StreamFollowsCall
  /\ TimerSparesStreams
----------------------------------------------------------------------------
\* The invariant holds at first.
LEMMA InitInv == Init => IInv
<1> SUFFICES ASSUME Init PROVE IInv
  OBVIOUS
<1>1. call \in Call
  BY PolicyFetchAssumption DEF Init
<1>2. Method(call) \in {"GET", "POST"}
  BY DEF Method
<1>3. request \in Request /\ request.origin = call.origin /\ request.body # "used"
  BY <1>1, <1>2 DEF Init, Request, Call
<1>4. sent = << >> /\ admitted = 0 /\ step = "credentials" /\ ending = "none"
  BY DEF Init
<1> QED
  BY <1>1, <1>3, <1>4 DEF IInv, HopTypes, RequestsStay, VerdictsLead, BodyIsConsumed,
     BodyIsSentOnce, StreamFollowsCall, TimerSparesStreams

\* A step that keeps request and requests sent, and does not lead to sending one.
LEMMA HopsUnchanged ==
  ASSUME IInv, UNCHANGED <<call, request, sent, admitted>>,
         step' = step \/ step' \notin {"credentials", "policy", "sending"}
  PROVE  HopTypes' /\ RequestsStay' /\ VerdictsLead' /\ BodyIsConsumed' /\ BodyIsSentOnce'
<1> USE DEF IInv
<1>1. HopTypes' /\ RequestsStay' /\ BodyIsSentOnce'
  BY DEF HopTypes, RequestsStay, BodyIsSentOnce
<1>2. VerdictsLead'
  <2>1. Len(sent) \in Nat /\ admitted \in Nat
    BY DEF HopTypes
  <2> QED
    BY <2>1 DEF VerdictsLead
<1>3. BodyIsConsumed'
  BY DEF BodyIsConsumed
<1> QED
  BY <1>1, <1>2, <1>3

\* A call that has not ended has no stream yet.
LEMMA NoStreamYet ==
  ASSUME IInv, step # "done", UNCHANGED ending,
         step' = "done" => timer' # "armed"
  PROVE  StreamFollowsCall' /\ TimerSparesStreams'
  BY DEF IInv, StreamFollowsCall, TimerSparesStreams

\* A call that fails leaves no stream.
LEMMA FailInv ==
  ASSUME IInv, step # "done", NEW code, Fail(code)
  PROVE  IInv'
<1>1. HopTypes' /\ RequestsStay' /\ VerdictsLead' /\ BodyIsConsumed' /\ BodyIsSentOnce'
  BY HopsUnchanged DEF Fail
<1>2. StreamFollowsCall' /\ TimerSparesStreams'
  BY NoStreamYet DEF Fail, ClearTimer, streamVars
<1> QED
  BY <1>1, <1>2 DEF IInv

\* Credentials change neither where the request goes nor its body.
LEMMA TakeCredentialsInv ==
  ASSUME IInv, TakeCredentials
  PROVE  IInv'
<1> USE DEF IInv, TakeCredentials
<1>1. request' \in Request /\ request'.origin = request.origin /\ request'.body = request.body
  <2>1. call.provider \in BOOLEAN /\ request \in Request
    BY DEF HopTypes, Call
  <2> QED
    BY <2>1 DEF Request
<1>2. HopTypes' /\ RequestsStay' /\ BodyIsConsumed' /\ BodyIsSentOnce'
  BY <1>1 DEF HopTypes, RequestsStay, BodyIsConsumed, BodyIsSentOnce
<1>3. VerdictsLead'
  BY DEF VerdictsLead
<1>4. StreamFollowsCall' /\ TimerSparesStreams'
  BY NoStreamYet DEF streamVars
<1> QED
  BY <1>2, <1>3, <1>4

\* A verdict is counted before the request it is for.
LEMMA AdmitInv ==
  ASSUME IInv, Admit
  PROVE  IInv'
<1> USE DEF IInv, Admit
<1>1. HopTypes' /\ RequestsStay' /\ BodyIsConsumed' /\ BodyIsSentOnce'
  BY DEF HopTypes, RequestsStay, BodyIsConsumed, BodyIsSentOnce
<1>2. VerdictsLead'
  <2>1. Len(sent) \in Nat /\ admitted \in Nat
    BY DEF HopTypes
  <2> QED
    BY <2>1 DEF VerdictsLead
<1>3. StreamFollowsCall' /\ TimerSparesStreams'
  BY NoStreamYet DEF streamVars
<1> QED
  BY <1>1, <1>2, <1>3

\* The requests sent are the ones before and the current one.
LEMMA SendInv ==
  ASSUME IInv, Send
  PROVE  IInv'
<1> USE DEF IInv, Send
<1>1. /\ request \in Request /\ sent \in Seq(Request) /\ admitted \in Nat
      /\ sent' = Append(sent, request)
  BY DEF HopTypes
<1>2. /\ sent' \in Seq(Request) /\ Len(sent') = Len(sent) + 1 /\ Len(sent) \in Nat
      /\ sent'[Len(sent) + 1] = request
      /\ \A i \in DOMAIN sent : i \in 1..Len(sent) /\ sent'[i] = sent[i]
      /\ \A i \in DOMAIN sent' : i \in DOMAIN sent \/ i = Len(sent) + 1
  BY <1>1
<1>3. /\ request' \in Request /\ request'.origin = request.origin
      /\ request'.body = IF request.body = "none" THEN "none" ELSE "used"
  BY <1>1 DEF Request
<1>4. HopTypes' /\ RequestsStay'
  BY <1>1, <1>2, <1>3 DEF HopTypes, RequestsStay
<1>5. VerdictsLead'
  BY <1>1, <1>2 DEF VerdictsLead
<1>6. BodyIsConsumed'
  BY <1>3 DEF BodyIsConsumed
<1>7. BodyIsSentOnce'
  <2>1. request.body \in {"none", "fresh"}
    BY <1>1 DEF BodyIsConsumed, Request
  <2>2. CASE request.body = "none"
    <3>1. \A i \in DOMAIN sent' : sent'[i].body # "none" => i \in DOMAIN sent /\ sent'[i] = sent[i]
      BY <1>2, <2>2
    <3> QED
      BY <3>1 DEF BodyIsSentOnce
  <2>3. CASE request.body = "fresh"
    <3>1. \A i \in DOMAIN sent' : sent'[i].body # "none" => i = Len(sent) + 1
      BY <1>2, <2>3 DEF BodyIsConsumed
    <3> QED
      BY <3>1 DEF BodyIsSentOnce
  <2> QED
    BY <2>1, <2>2, <2>3
<1>8. StreamFollowsCall' /\ TimerSparesStreams'
  BY NoStreamYet DEF streamVars
<1> QED
  BY <1>4, <1>5, <1>6, <1>7, <1>8

\* What a redirect makes of a request.
LEMMA RedirectedRequest ==
  ASSUME HopTypes, Followed
  PROVE  /\ Redirected \in Request
         /\ Redirected.origin = call.origin
         /\ Redirected.body \in {"none", request.body}
<1>1. request \in Request /\ call.origin \in Origins /\ response.target = call.origin
  BY DEF HopTypes, Call, Followed
<1>2. CASE BecomesGet
  BY <1>1, <1>2 DEF Redirected, Request
<1>3. CASE ~BecomesGet
  BY <1>1, <1>3 DEF Redirected, Request
<1> QED
  BY <1>2, <1>3

\* A redirect leads to the origin of the call, with the body of the request or none.
LEMMA FollowRedirectInv ==
  ASSUME IInv, FollowRedirect
  PROVE  IInv'
<1> USE DEF IInv, FollowRedirect
<1>1. /\ request' \in Request /\ request'.origin = call.origin
      /\ request'.body \in {"none", request.body} /\ request'.body # "used"
  BY RedirectedRequest
<1>2. HopTypes' /\ RequestsStay'
  BY <1>1 DEF HopTypes, RequestsStay
<1>3. VerdictsLead'
  <2>1. Len(sent) \in Nat /\ admitted \in Nat
    BY DEF HopTypes
  <2> QED
    BY <2>1 DEF VerdictsLead
<1>4. BodyIsConsumed' /\ BodyIsSentOnce'
  BY <1>1 DEF BodyIsConsumed, BodyIsSentOnce
<1>5. StreamFollowsCall' /\ TimerSparesStreams'
  BY NoStreamYet DEF streamVars
<1> QED
  BY <1>2, <1>3, <1>4, <1>5

\* A call that returns in time cleared its timer.
LEMMA ReturnInv ==
  ASSUME IInv, step # "done", Return, ending' \in {"none", "open"}
  PROVE  IInv'
<1> USE DEF Return, ClearTimer
<1>1. HopTypes' /\ RequestsStay' /\ VerdictsLead' /\ BodyIsConsumed' /\ BodyIsSentOnce'
  BY HopsUnchanged
<1>2. StreamFollowsCall'
  BY DEF StreamFollowsCall
<1>3. TimerSparesStreams'
  BY DEF TimerSparesStreams
<1> QED
  BY <1>1, <1>2, <1>3 DEF IInv

\* The steps of the client.
LEMMA CallStepsInv ==
  ASSUME IInv, CallSteps
  PROVE  IInv'
<1>1. CASE TakeCredentials
  BY <1>1, TakeCredentialsInv
<1>2. CASE MissCredentials
  BY <1>2, FailInv DEF MissCredentials
<1>3. CASE Policy
  BY <1>3, AdmitInv, FailInv DEF Policy, Reject
<1>4. CASE Send
  BY <1>4, SendInv
<1>5. CASE RefuseToSend
  BY <1>5, FailInv DEF RefuseToSend
<1>6. CASE FollowRedirect
  BY <1>6, FollowRedirectInv
<1>7. CASE RefuseRedirect
  BY <1>7, FailInv DEF RefuseRedirect
<1>8. CASE ReadBody
  <2>1. step # "done" /\ ending = "none"
    BY <1>8 DEF ReadBody, IInv, StreamFollowsCall
  <2>2. (\E code \in {"RESPONSE_TOO_LARGE", "PROTOCOL_VIOLATION"} : Fail(code))
          \/ (Return /\ ending' = "none")
    BY <1>8, <2>1 DEF ReadBody, streamVars
  <2> QED
    BY <2>1, <2>2, FailInv, ReturnInv
<1>9. CASE HandOverStream
  BY <1>9, ReturnInv DEF HandOverStream
<1>10. CASE HearSignal
  BY <1>10, FailInv DEF HearSignal
<1> QED
  BY <1>1, <1>2, <1>3, <1>4, <1>5, <1>6, <1>7, <1>8, <1>9, <1>10 DEF CallSteps

\* The end of a stream is an abort only when the caller aborted, or when the call had returned
\* late.
LEMMA EndInv ==
  ASSUME IInv, Live, NEW how, End(how),
         how = "AbortError" => Interrupted
  PROVE  IInv'
<1>1. UNCHANGED <<call, request, sent, admitted, step, timer, outcome, aborted>> /\ ending' = how
  BY DEF End, callVars
<1>2. HopTypes' /\ RequestsStay' /\ VerdictsLead' /\ BodyIsConsumed' /\ BodyIsSentOnce'
  BY <1>1, HopsUnchanged
<1>3. StreamFollowsCall' /\ TimerSparesStreams'
  BY <1>1 DEF IInv, Live, StreamFollowsCall, TimerSparesStreams, Interrupted
<1> QED
  BY <1>2, <1>3 DEF IInv

\* The steps of the agent and of the network.
LEMMA AgentInv ==
  ASSUME IInv, Agent
  PROVE  IInv'
<1>1. ASSUME NEW r \in Response, Respond(r) PROVE IInv'
  <2>1. /\ UNCHANGED <<call, request, sent, admitted, ending>>
        /\ step' \in {"evidence", "body", "redirect"} /\ step # "done"
    BY <1>1 DEF Respond, streamVars
  <2> QED
    BY <2>1, HopsUnchanged, NoStreamYet DEF IInv
<1>2. CASE BreakConnection
  BY <1>2, FailInv DEF BreakConnection
<1>3. ASSUME NEW n \in 1..(MaxTokens + 1), TakeChunk(n) PROVE IInv'
  <2>1. Live
    BY <1>3 DEF TakeChunk
  <2>2. \/ End("RESPONSE_TOO_LARGE") \/ End("STREAM_INVALID")
        \/ UNCHANGED <<callVars, aborted, ending>>
    BY <1>3 DEF TakeChunk
  <2>3. CASE UNCHANGED <<callVars, aborted, ending>>
    <3>1. UNCHANGED <<call, request, sent, admitted, step, timer, outcome, aborted, ending>>
      BY <2>3 DEF callVars
    <3>2. StreamFollowsCall' /\ TimerSparesStreams'
      BY <3>1 DEF IInv, StreamFollowsCall, TimerSparesStreams
    <3> QED
      BY <3>1, <3>2, HopsUnchanged DEF IInv
  <2> QED
    BY <2>1, <2>2, <2>3, EndInv
<1>4. CASE EndOfStream
  BY <1>4, EndInv DEF EndOfStream
<1>5. CASE BreakStream
  BY <1>5, EndInv DEF BreakStream
<1> QED
  BY <1>1, <1>2, <1>3, <1>4, <1>5 DEF Agent

\* A timer that fires finds its call not ended, and an abort only adds a reason to stop.
LEMMA InterruptInv ==
  ASSUME IInv, FireTimer \/ Abort
  PROVE  IInv'
<1>1. CASE FireTimer
  <2>1. /\ UNCHANGED <<call, request, sent, admitted, step, ending>>
        /\ step # "done"
    BY <1>1 DEF FireTimer, streamVars, IInv, StreamFollowsCall
  <2> QED
    BY <2>1, HopsUnchanged, NoStreamYet DEF IInv
<1>2. CASE Abort
  <2>1. UNCHANGED <<call, request, sent, admitted, step, timer, outcome, ending>> /\ aborted'
    BY <1>2 DEF Abort, callVars, streamVars
  <2>2. StreamFollowsCall' /\ TimerSparesStreams'
    BY <2>1 DEF IInv, StreamFollowsCall, TimerSparesStreams
  <2> QED
    BY <2>1, <2>2, HopsUnchanged DEF IInv
<1> QED
  BY <1>1, <1>2

\* Every step keeps the invariant.
LEMMA NextInv == IInv /\ [Next]_vars => IInv'
<1> SUFFICES ASSUME IInv, [Next]_vars PROVE IInv'
  OBVIOUS
<1>1. CASE CallSteps
  BY <1>1, CallStepsInv
<1>2. CASE Agent
  BY <1>2, AgentInv
<1>3. CASE FireTimer \/ Abort
  BY <1>3, InterruptInv
<1>4. CASE AbortStream
  BY <1>4, EndInv DEF AbortStream
<1>5. CASE UNCHANGED vars
  <2>1. UNCHANGED <<call, request, sent, admitted, step, timer, outcome, aborted, ending>>
    BY <1>5 DEF vars, callVars, streamVars
  <2>2. StreamFollowsCall' /\ TimerSparesStreams'
    BY <2>1 DEF IInv, StreamFollowsCall, TimerSparesStreams
  <2> QED
    BY <2>1, <2>2, HopsUnchanged DEF IInv
<1> QED
  BY <1>1, <1>2, <1>3, <1>4, <1>5 DEF Next

\* The invariant holds in every reachable state.
THEOREM Invariance == Spec => []IInv
  BY InitInv, NextInv, PTL DEF Spec

\* No redirect, however chosen by the agent, leads a request away from the origin of its call or
\* past the URL policy (the loop of createPolicyFetch).
THEOREM AdmissionCorrect == Spec => []RequestsStayAdmitted
<1>1. IInv => RequestsStayAdmitted
  <2> SUFFICES ASSUME IInv PROVE RequestsStayAdmitted
    OBVIOUS
  <2>1. Len(sent) \in Nat /\ admitted \in Nat
    BY DEF IInv, HopTypes
  <2> QED
    BY <2>1 DEF IInv, RequestsStay, VerdictsLead, RequestsStayAdmitted
<1> QED
  BY <1>1, Invariance, PTL

\* No chain of redirects delivers the body of a call twice (redirectRequest).
THEOREM BodyCorrect == Spec => []BodyIsSentOnce
<1>1. IInv => BodyIsSentOnce
  BY DEF IInv
<1> QED
  BY <1>1, Invariance, PTL

\* The timer of a call does not end a stream that was handed over in time (the finally block of
\* createPolicyFetch).
THEOREM TimerCorrect == Spec => []TimerSparesStreams
<1>1. IInv => TimerSparesStreams
  BY DEF IInv
<1> QED
  BY <1>1, Invariance, PTL
----------------------------------------------------------------------------
(***************************************************************************)
(* The stream.                                                             *)
(***************************************************************************)

\* Where the validator cuts a text where the standard does, what is written for the text keeps its
\* data apart.
LEMMA OneLineFramesAreFaithful ==
  ASSUME NEW t \in Seq(Tokens), OneLineFrames(t), NEW m, Renders(t, Normalized(t), m)
  PROVE  Faithful(t, Normalized(t), m)
<1> DEFINE N == Normalized(t)
           events == Append(Cut(N).frames, Cut(N).rest)
<1>0. N \in Seq(Tokens) /\ Renders(t, N, m) /\ Len(t) \in Nat
  BY NormalizedRenders
<1>1. Events(t) = events
  BY DEF Events, Parsed
<1> HIDE DEF N, events
<1>2. CASE \E i \in 1..(Len(t) - 1) : t[i] = "CR" /\ t[i + 1] = "LF"
  <2>1. \A i \in DOMAIN events : \A x, y \in DataAt(events[i]) : x = y
    BY <1>1, <1>2 DEF OneLineFrames
  <2>2. \A r \in DataAt(N) : Joined(N, r) = {r}
    BY <1>0, <2>1, EventFacts DEF events
  <2> QED
    BY <1>0, <2>2, OneLineIsFaithful DEF N
<1>3. CASE ~(\E i \in 1..(Len(t) - 1) : t[i] = "CR" /\ t[i + 1] = "LF")
  <2>1. ASSUME NEW n \in 1..Len(t), EndsPair(t, n) PROVE FALSE
    <3>1. n - 1 \in 1..(Len(t) - 1) /\ (n - 1) + 1 = n
      BY <1>0, <2>1 DEF EndsPair
    <3> QED
      BY <1>3, <2>1, <3>1 DEF EndsPair
  <2> QED
    BY <1>0, <2>1, PlainIsFaithful DEF N
<1> QED
  BY <1>2, <1>3

\* A request that fits its operation is taken for one of its operation.
LEMMA InferredOperation ==
  ASSUME call \in Call, RequestFits, call.binding # "none"
  PROVE  InferOperation(call) = call.operation
<1>1. call.operation \in Operations /\ call.binding \in {"JSONRPC", "HTTP+JSON", "none"}
  BY DEF Call
<1>2. CASE call.binding = "JSONRPC"
  BY <1>2 DEF RequestFits
<1>3. CASE call.binding = "HTTP+JSON"
  <2> DEFINE o == call.operation
             known == {i \in DOMAIN KnownPaths : Matches(o, KnownPaths[i])}
  <2>1. call.path = o
    BY <1>3 DEF Call
  <2>2. DOMAIN KnownPaths = 1..8
    BY DEF KnownPaths
  <2>3. PICK n \in 1..8 : KnownPaths[n] = o
    BY <1>1, <2>2 DEF Operations
  <2>4. n \in known
    BY <2>2, <2>3 DEF Matches
  <2>5. Min(known) \in known /\ Min(known) <= n
    <3>1. known \in SUBSET Nat /\ known # {}
      BY <2>2, <2>4
    <3> HIDE DEF known
    <3> QED
      BY <2>4, <3>1, LeastIsMin
  <2>6. \A i \in 1..8 : i <= n /\ Matches(o, KnownPaths[i]) => i = n
    BY <2>3 DEF KnownPaths, Matches
  <2>7. Min(known) = n
    BY <2>2, <2>5, <2>6
  <2>8. InferOperation(call) = IF PathOperation(o, KnownPaths) = "other" THEN o ELSE PathOperation(o, KnownPaths)
    BY <2>1 DEF InferOperation
  <2>9. PathOperation(o, KnownPaths) = KnownPaths[Min(known)]
    BY <2>4 DEF PathOperation
  <2> QED
    BY <2>3, <2>7, <2>8, <2>9
<1> QED
  BY <1>1, <1>2, <1>3
----------------------------------------------------------------------------
\* Only the response to a request that fits its operation becomes a stream, and nothing is read
\* before the stream is handed over.
StreamOrigin ==
  /\ step = "response" \/ response.kind = "stream" => RequestFits
  /\ step = "evidence" \/ ending # "none" => response.kind = "stream"
  /\ ending = "none" => buffer = << >> /\ received = 0 /\ delivered = 0

\* Where the reader of a stream is: what was passed on ends in the text that waits to be cut,
\* and of the data before that, if they are validated, all are sound.  A stream that was closed
\* was passed on whole, and one that was refused has data that are not sound.
StreamRead ==
  LET t == response.text
  IN  response.kind = "stream" =>
        /\ received \in delivered..Len(t)
        /\ Live => received = delivered
        /\ \E k \in 0..delivered :
             /\ buffer = SubSeq(t, k + 1, delivered)
             /\ Waiting(t, k, delivered)
             /\ Validated => \A p \in DataAt(t) : p <= k => SoundAt(t, p)
        /\ ending = "closed" =>
             /\ delivered = Len(t)
             /\ Validated => \A p \in DataAt(t) : SoundAt(t, p)
        /\ ending = "STREAM_INVALID" => \E p \in DataAt(t) : ~SoundAt(t, p)

\* What every step keeps of the stream.
StreamInv == TypeOK /\ StreamOrigin /\ StreamRead

\* The text of a stream is one.
LEMMA StreamTexts ==
  ASSUME TypeOK, response.kind = "stream"
  PROVE  response.text \in Seq(Tokens) /\ Len(response.text) \in Nat
<1>1. response.text \in Streams
  BY DEF TypeOK, Response
<1> QED
  BY <1>1, PolicyFetchAssumption

\* At first there is no stream.
LEMMA StreamInitInv == Init => StreamInv
<1> SUFFICES ASSUME Init PROVE StreamInv
  OBVIOUS
<1>1. call \in Call /\ call \in Calls
  BY PolicyFetchAssumption DEF Init
<1>2. Method(call) \in {"GET", "POST"}
  BY DEF Method
<1>3. request \in Request
  BY <1>1, <1>2 DEF Init, Request, Call
<1>4. TypeOK
  <2>1. hops \in 0..MaxRedirects /\ received \in 0..MaxTokens /\ delivered \in 0..received
    BY PolicyFetchAssumption DEF Init
  <2>2. << >> \in Seq(Tokens) /\ << >> \in Seq(Request)
    OBVIOUS
  <2> QED
    BY <1>1, <1>3, <2>1, <2>2 DEF Init, TypeOK
<1>5. StreamOrigin /\ StreamRead
  BY DEF Init, StreamOrigin, StreamRead
<1> QED
  BY <1>4, <1>5 DEF StreamInv

\* A step that leaves the stream alone.
LEMMA StreamUnread ==
  ASSUME StreamInv, UNCHANGED <<call, response, streamVars>>,
         step' = "response" => RequestFits,
         step' = "evidence" => step = "evidence"
  PROVE  StreamOrigin' /\ StreamRead'
<1>1. StreamOrigin'
  BY DEF StreamInv, StreamOrigin, RequestFits, streamVars
<1>2. StreamRead'
  BY DEF StreamInv, StreamRead, Validated, Live, streamVars
<1> QED
  BY <1>1, <1>2

\* The codes a call may fail with.
Codes ==
  {"AbortError", "AUTHENTICATION_FAILED", "URL_POLICY_REJECTED", "PROTOCOL_VIOLATION",
   "RESPONSE_TOO_LARGE", "NETWORK_ERROR", "TypeError"}

\* A call that fails leaves what it knows of its response.
LEMMA StreamFailInv ==
  ASSUME StreamInv, NEW code \in Codes, Fail(code)
  PROVE  StreamInv'
<1>1. StreamOrigin' /\ StreamRead'
  BY StreamUnread DEF Fail
<1>2. TypeOK'
  BY DEF Fail, ClearTimer, Reported, Codes, StreamInv, TypeOK, streamVars
<1> QED
  BY <1>1, <1>2 DEF StreamInv

\* The steps of the client, but for the one that hands a stream over.
LEMMA StreamCallStepsInv ==
  ASSUME StreamInv, IInv, CallSteps, ~HandOverStream
  PROVE  StreamInv'
<1> USE DEF StreamInv
<1>1. CASE TakeCredentials
  <2>1. StreamOrigin' /\ StreamRead'
    BY <1>1, StreamUnread DEF TakeCredentials
  <2>2. request' \in Request
    <3>1. call.provider \in BOOLEAN /\ request \in Request
      BY DEF IInv, HopTypes, Call
    <3> QED
      BY <1>1, <3>1 DEF TakeCredentials, Request
  <2>3. TypeOK'
    BY <1>1, <2>2 DEF TakeCredentials, TypeOK, streamVars
  <2> QED
    BY <2>1, <2>3
<1>2. CASE MissCredentials
  BY <1>2, StreamFailInv DEF MissCredentials, Codes
<1>3. CASE Admit
  <2>1. StreamOrigin' /\ StreamRead'
    BY <1>3, StreamUnread DEF Admit
  <2>2. TypeOK'
    BY <1>3 DEF Admit, TypeOK, streamVars
  <2> QED
    BY <2>1, <2>2
<1>4. CASE Reject
  BY <1>4, StreamFailInv DEF Reject, Codes
<1>5. CASE Send
  <2>1. StreamOrigin' /\ StreamRead'
    BY <1>5, StreamUnread DEF Send
  <2>2. request' \in Request /\ sent' \in Seq(Request)
    <3>1. request \in Request /\ sent \in Seq(Request)
      BY DEF TypeOK
    <3>2. sent' = Append(sent, request)
      BY <1>5 DEF Send
    <3>3. request' = [request EXCEPT !.body = IF @ = "none" THEN "none" ELSE "used"]
      BY <1>5 DEF Send
    <3>4. sent' \in Seq(Request)
      BY <3>1, <3>2
    <3>5. request' \in Request
      BY <3>1, <3>3 DEF Request
    <3> QED
      BY <3>4, <3>5
  <2>3. TypeOK'
    BY <1>5, <2>2 DEF Send, TypeOK, streamVars
  <2> QED
    BY <2>1, <2>3
<1>6. CASE RefuseToSend
  BY <1>6, StreamFailInv DEF RefuseToSend, Codes
<1>7. CASE FollowRedirect
  <2>1. StreamOrigin' /\ StreamRead'
    BY <1>7, StreamUnread DEF FollowRedirect
  <2>2. request' \in Request
    BY <1>7, RedirectedRequest DEF FollowRedirect, IInv
  <2>3. hops' \in 0..MaxRedirects
    BY <1>7, PolicyFetchAssumption DEF FollowRedirect, Followed, TypeOK
  <2>4. TypeOK'
    BY <1>7, <2>2, <2>3 DEF FollowRedirect, TypeOK, streamVars
  <2> QED
    BY <2>1, <2>4
<1>8. CASE RefuseRedirect
  BY <1>8, StreamFailInv DEF RefuseRedirect, Codes
<1>9. CASE ReadBody
  <2>1. CASE \E code \in Codes : Fail(code)
    BY <2>1, StreamFailInv
  <2>2. CASE Return /\ UNCHANGED <<response, streamVars>>
    <3>1. StreamOrigin' /\ StreamRead'
      BY <2>2, StreamUnread DEF Return
    <3>2. TypeOK'
      BY <2>2 DEF Return, ClearTimer, TypeOK, streamVars
    <3> QED
      BY <3>1, <3>2
  <2> QED
    BY <1>9, <2>1, <2>2 DEF ReadBody, Codes
<1>10. CASE HearSignal
  BY <1>10, StreamFailInv DEF HearSignal, Codes
<1> QED
  BY <1>1, <1>2, <1>3, <1>4, <1>5, <1>6, <1>7, <1>8, <1>9, <1>10 DEF CallSteps, Policy

\* A stream is handed over unread.
LEMMA HandOverStreamInv ==
  ASSUME StreamInv, IInv, HandOverStream
  PROVE  StreamInv'
<1>1. /\ step = "evidence" /\ ending = "none" /\ ending' = "open"
      /\ UNCHANGED <<call, response, buffer, received, delivered>>
      /\ step' = "done" /\ response.kind = "stream"
  BY DEF HandOverStream, Return, IInv, StreamFollowsCall, StreamInv, StreamOrigin
<1>2. StreamOrigin'
  BY <1>1 DEF StreamInv, StreamOrigin, RequestFits
<1>3. StreamRead'
  <2>1. received = 0 /\ delivered = 0
    BY <1>1 DEF StreamInv, StreamOrigin
  <2> QED
    BY <1>1, <2>1 DEF StreamInv, StreamRead, Validated, Live
<1>4. TypeOK'
  BY <1>1 DEF HandOverStream, Return, ClearTimer, StreamInv, TypeOK
<1> QED
  BY <1>2, <1>3, <1>4 DEF StreamInv

\* A response that is a stream has not been read.
LEMMA RespondInv ==
  ASSUME StreamInv, IInv, NEW r \in Response, Respond(r)
  PROVE  StreamInv'
<1>1. /\ step = "response" /\ ending = "none" /\ response' = r
      /\ step' = IF r.kind = "stream" THEN "evidence" ELSE IF r.kind = "body" THEN "body" ELSE "redirect"
      /\ UNCHANGED <<call, buffer, received, delivered, ending>>
  BY DEF Respond, streamVars, IInv, StreamFollowsCall
<1>2. TypeOK'
  BY <1>1 DEF Respond, StreamInv, TypeOK, streamVars
<1>3. StreamOrigin'
  BY <1>1 DEF StreamInv, StreamOrigin, RequestFits
<1>4. StreamRead'
  <2> SUFFICES ASSUME r.kind = "stream" PROVE StreamRead'
    BY <1>1 DEF StreamRead
  <2> DEFINE t == r.text
  <2>1. response'.kind = "stream" /\ response'.text = t
    BY <1>1
  <2>2. t \in Seq(Tokens) /\ Len(t) \in Nat
    <3>1. t \in Streams
      BY DEF Response
    <3> QED
      BY <3>1, PolicyFetchAssumption
  <2> HIDE DEF t
  <2>3. buffer' = << >> /\ received' = 0 /\ delivered' = 0 /\ ending' = "none"
    BY <1>1 DEF StreamInv, StreamOrigin
  <2>4. SubSeq(t, 0 + 1, 0) = << >>
    BY <2>2
  <2>5. \A p \in DataAt(t) : ~(p <= 0)
    BY <2>2, DataAreNoEnds
  <2>6. Waiting(t, 0, 0)
    BY DEF Waiting, StartsPiece
  <2>7. \E k \in 0..0 : /\ << >> = SubSeq(t, k + 1, 0)
                        /\ Waiting(t, k, 0)
                        /\ Validated' => \A p \in DataAt(t) : p <= k => SoundAt(t, p)
    BY <2>4, <2>5, <2>6
  <2>8. 0 \in 0..Len(t)
    BY <2>2
  <2> QED
    BY <2>1, <2>3, <2>7, <2>8 DEF StreamRead, Live
<1> QED
  BY <1>2, <1>3, <1>4 DEF StreamInv

\* A stream ends closed only when all of it was passed on and found sound, and refused only when
\* some of it is not.
LEMMA StreamEndInv ==
  ASSUME StreamInv, IInv, Live, NEW how \in {"closed", "STREAM_INVALID", "RESPONSE_TOO_LARGE",
                                            "NETWORK_ERROR", "AbortError"},
         End(how), UNCHANGED <<buffer, delivered>>, received' \in received..Len(response.text),
         received' <= MaxTokens,
         how = "closed" => /\ delivered = Len(response.text)
                           /\ Validated => \A p \in DataAt(response.text) : SoundAt(response.text, p),
         how = "STREAM_INVALID" => \E p \in DataAt(response.text) : ~SoundAt(response.text, p)
  PROVE  StreamInv'
<1> DEFINE t == response.text
<1>1. UNCHANGED <<call, step, request, hops, response, timer, outcome, sent, admitted, aborted>>
  BY DEF End, callVars
<1>2. ending' = how /\ ending = "open" /\ response.kind = "stream"
  BY DEF End, Live, StreamInv, StreamOrigin
<1>3. received \in Nat /\ delivered \in Nat /\ received = delivered
  BY <1>2, PolicyFetchAssumption DEF StreamInv, TypeOK, StreamRead, Live
<1>4. Len(t) \in Nat
  BY <1>2, StreamTexts DEF StreamInv
<1>5. received' \in 0..MaxTokens /\ delivered' \in 0..received' /\ received' \in delivered..Len(t)
  <2>1. received' \in delivered..Len(t) /\ received' <= MaxTokens
    BY <1>3
  <2>2. received' \in Nat /\ delivered <= received'
    BY <1>3, <1>4, <2>1
  <2> QED
    BY <1>3, <2>1, <2>2, PolicyFetchAssumption
<1>6. TypeOK'
  BY <1>1, <1>2, <1>5 DEF StreamInv, TypeOK
<1>7. StreamOrigin'
  BY <1>1, <1>2 DEF StreamInv, StreamOrigin, RequestFits
<1>8. StreamRead'
  <2>1. \E k \in 0..delivered :
             /\ buffer = SubSeq(t, k + 1, delivered)
             /\ Waiting(t, k, delivered)
             /\ Validated => \A p \in DataAt(t) : p <= k => SoundAt(t, p)
    BY <1>2 DEF StreamInv, StreamRead
  <2>2. Validated' = Validated
    BY <1>1 DEF Validated
  <2> QED
    BY <1>1, <1>2, <1>5, <2>1, <2>2 DEF StreamRead, Live
<1> QED
  BY <1>6, <1>7, <1>8 DEF StreamInv

\* A chunk is cut where the text so far would be.
LEMMA TakeChunkInv ==
  ASSUME StreamInv, IInv, NEW n \in 1..(MaxTokens + 1), TakeChunk(n)
  PROVE  StreamInv'
<1> DEFINE t == response.text
           text == buffer \o SubSeq(t, received + 1, n)
<1>0. Live /\ response.kind = "stream" /\ StreamRead /\ TypeOK
  BY DEF TakeChunk, Live, StreamInv, StreamOrigin
<1>1. t \in Seq(Tokens) /\ Len(t) \in Nat /\ MaxTokens \in Nat /\ n \in Nat
  BY <1>0, StreamTexts, PolicyFetchAssumption
<1>2. received = delivered /\ delivered \in Nat /\ delivered <= Len(t) /\ received <= MaxTokens
  BY <1>0, <1>1 DEF TypeOK, StreamRead
<1>3. n \in (delivered + 1)..Len(t)
  BY <1>2 DEF TakeChunk
<1>4. PICK k \in 0..delivered :
             /\ buffer = SubSeq(t, k + 1, delivered)
             /\ Waiting(t, k, delivered)
             /\ Validated => \A p \in DataAt(t) : p <= k => SoundAt(t, p)
  BY <1>0 DEF StreamRead
<1>5. text = SubSeq(t, k + 1, n)
  <2>1. k + 1 \in 1..Len(t) /\ delivered \in k..(n - 1) /\ n \in 1..Len(t)
    BY <1>1, <1>2, <1>3
  <2>2. SubSeq(t, k + 1, delivered) \o SubSeq(t, delivered + 1, n) = SubSeq(t, k + 1, n)
    BY <1>1, <1>2, <1>3, ConcatAdjacentSubSeq
  <2> QED
    BY <1>2, <1>4, <2>2
<1>6. PICK l \in k..n :
        /\ Cut(text).rest = SubSeq(t, l + 1, n)
        /\ Waiting(t, l, n)
        /\ AllSound(Cut(text).frames) <=> \A p \in DataAt(t) : k < p /\ p <= l => SoundAt(t, p)
  <2>1. k \in Nat /\ n \in k..Len(t) /\ StartsPiece(t, k + 1)
    BY <1>1, <1>2, <1>3, <1>4 DEF Waiting
  <2>2. PICK l \in k..n :
          /\ Cut(SubSeq(t, k + 1, n)).rest = SubSeq(t, l + 1, n)
          /\ Waiting(t, l, n)
          /\ (\A i \in DOMAIN Cut(SubSeq(t, k + 1, n)).frames : Sound(Cut(SubSeq(t, k + 1, n)).frames[i]))
               <=> \A p \in DataAt(t) : k < p /\ p <= l => SoundAt(t, p)
    BY <1>1, <2>1, ChunkFacts
  <2> QED
    BY <1>5, <2>2 DEF AllSound
<1>7. CASE n > MaxTokens
  <2>1. End("RESPONSE_TOO_LARGE") /\ UNCHANGED <<buffer, received, delivered>>
    BY <1>7 DEF TakeChunk
  <2>2. received' \in received..Len(t) /\ received' <= MaxTokens
    BY <1>1, <1>2, <2>1
  <2> QED
    BY <1>0, <2>1, <2>2, StreamEndInv
<1>8. CASE ~(n > MaxTokens) /\ ~Passes(text)
  <2>1. End("STREAM_INVALID") /\ received' = n /\ UNCHANGED <<buffer, delivered>>
    BY <1>8 DEF TakeChunk
  <2>2. received' \in received..Len(t) /\ received' <= MaxTokens
    BY <1>1, <1>2, <1>3, <1>8, <2>1
  <2>3. \E p \in DataAt(t) : ~SoundAt(t, p)
    BY <1>6, <1>8 DEF Passes
  <2> QED
    BY <1>0, <2>1, <2>2, <2>3, StreamEndInv
<1>9. CASE ~(n > MaxTokens) /\ Passes(text)
  <2>1. /\ buffer' = SubSeq(t, l + 1, n) /\ received' = n /\ delivered' = n
        /\ UNCHANGED <<callVars, aborted, ending>>
    BY <1>6, <1>9 DEF TakeChunk
  <2>2. UNCHANGED <<call, step, request, hops, response, timer, outcome, sent, admitted, aborted, ending>>
    BY <2>1 DEF callVars
  <2>3. l \in 0..n /\ n <= MaxTokens /\ n <= Len(t) /\ ending = "open" /\ l \in Nat /\ k \in Nat
    BY <1>0, <1>1, <1>2, <1>3, <1>9 DEF Live
  <2>4. TypeOK'
    <3>1. buffer' \in Seq(Tokens)
      <4>1. l + 1 \in Nat \ {0} /\ n \in 0..Len(t) /\ l + 1 <= n + 1
        BY <1>1, <2>3
      <4> QED
        BY <1>1, <2>1, <4>1, SubSeqFacts
    <3>2. received' \in 0..MaxTokens /\ delivered' \in 0..received'
      BY <1>1, <2>1, <2>3
    <3> QED
      BY <1>0, <2>2, <3>1, <3>2 DEF TypeOK
  <2>5. StreamOrigin'
    BY <2>2, <2>3 DEF StreamInv, StreamOrigin, RequestFits
  <2>6. Validated => \A p \in DataAt(t) : p <= l => SoundAt(t, p)
    <3> SUFFICES ASSUME Validated, NEW p \in DataAt(t), p <= l PROVE SoundAt(t, p)
      OBVIOUS
    <3>1. p \in Nat
      BY <1>1, DataAreNoEnds
    <3>2. CASE p <= k
      BY <1>4, <3>2
    <3>3. CASE k < p
      BY <1>6, <1>9, <3>3 DEF Passes
    <3> QED
      BY <2>3, <3>1, <3>2, <3>3
  <2>7. StreamRead'
    <3>1. (Validated' <=> Validated) /\ response' = response
      BY <2>2 DEF Validated
    <3>2. n \in n..Len(t)
      BY <1>1, <2>3
    <3> QED
      BY <1>6, <2>1, <2>2, <2>3, <2>6, <3>1, <3>2 DEF StreamRead, Live
  <2> QED
    BY <2>4, <2>5, <2>7 DEF StreamInv
<1> QED
  BY <1>7, <1>8, <1>9

\* What follows the last frame is all that was left to validate.
LEMMA EndOfStreamInv ==
  ASSUME StreamInv, IInv, EndOfStream
  PROVE  StreamInv'
<1> DEFINE t == response.text
           how == IF Validated /\ ~Blank(buffer) /\ ~Sound(buffer) THEN "STREAM_INVALID" ELSE "closed"
<1>0. Live /\ response.kind = "stream" /\ StreamRead /\ TypeOK
  BY DEF EndOfStream, Live, StreamInv, StreamOrigin
<1>1. t \in Seq(Tokens) /\ Len(t) \in Nat /\ MaxTokens \in Nat
  BY <1>0, StreamTexts, PolicyFetchAssumption
<1>2. received = delivered /\ delivered = Len(t) /\ received <= MaxTokens
  BY <1>0, <1>1 DEF TypeOK, StreamRead, EndOfStream
<1>3. PICK k \in 0..Len(t) :
             /\ buffer = SubSeq(t, k + 1, Len(t))
             /\ Waiting(t, k, Len(t))
             /\ Validated => \A p \in DataAt(t) : p <= k => SoundAt(t, p)
  BY <1>0, <1>2 DEF StreamRead
<1>4. Sound(buffer) <=> \A p \in DataAt(t) : p \in (k + 1)..Len(t) => SoundAt(t, p)
  <2>1. Piece(t, k + 1, Len(t))
    BY <1>1, <1>3 DEF Piece, Waiting, EndsPiece
  <2> QED
    BY <1>1, <1>3, <2>1, PieceSound
<1>5. Blank(buffer) => Sound(buffer)
  BY DEF Blank, Sound, DataAt, DataLines, LineEnds
<1>6. \A p \in DataAt(t) : p <= k \/ p \in (k + 1)..Len(t)
  BY <1>1, DataAreNoEnds
<1>7. how = "closed" => (Validated => \A p \in DataAt(t) : SoundAt(t, p))
  BY <1>3, <1>4, <1>5, <1>6
<1>8. how = "STREAM_INVALID" => \E p \in DataAt(t) : ~SoundAt(t, p)
  BY <1>4
<1>9. how \in {"closed", "STREAM_INVALID"} /\ End(how) /\ UNCHANGED <<buffer, received, delivered>>
  BY DEF EndOfStream
<1>10. received' \in received..Len(t) /\ received' <= MaxTokens
  BY <1>1, <1>2, <1>9
<1> HIDE DEF how
<1> QED
  BY <1>0, <1>2, <1>7, <1>8, <1>9, <1>10, StreamEndInv

\* An end that is not the stream's own.
LEMMA StreamCutShortInv ==
  ASSUME StreamInv, IInv, BreakStream \/ AbortStream
  PROVE  StreamInv'
<1>0. Live /\ response.kind = "stream" /\ StreamRead /\ TypeOK
  BY DEF BreakStream, AbortStream, Live, StreamInv, StreamOrigin
<1>1. Len(response.text) \in Nat /\ MaxTokens \in Nat
  BY <1>0, StreamTexts, PolicyFetchAssumption
<1>2. PICK how \in {"NETWORK_ERROR", "AbortError"} : End(how)
  BY DEF BreakStream, AbortStream
<1>3. UNCHANGED <<buffer, received, delivered>>
  BY DEF BreakStream, AbortStream
<1>4. received' \in received..Len(response.text) /\ received' <= MaxTokens
  BY <1>0, <1>1, <1>3 DEF TypeOK, StreamRead
<1> QED
  BY <1>0, <1>2, <1>3, <1>4, StreamEndInv

\* The timer and the caller's abort leave the stream to the steps that hear them.
LEMMA StreamInterruptInv ==
  ASSUME StreamInv, FireTimer \/ Abort
  PROVE  StreamInv'
<1>1. UNCHANGED <<call, step, request, hops, response, outcome, sent, admitted, streamVars>>
  BY DEF FireTimer, Abort, callVars
<1>2. StreamOrigin' /\ StreamRead'
  BY <1>1, StreamUnread DEF StreamInv, StreamOrigin
<1>3. CASE FireTimer
  BY <1>1, <1>2, <1>3 DEF FireTimer, StreamInv, TypeOK, streamVars
<1>4. CASE Abort
  <2>1. timer' = timer /\ aborted' = TRUE
    BY <1>4 DEF Abort, callVars
  <2>2. TypeOK'
    BY <1>1, <2>1 DEF StreamInv, TypeOK, streamVars
  <2> QED
    BY <1>2, <2>2 DEF StreamInv
<1> QED
  BY <1>3, <1>4

\* Every step keeps what is known of the stream.
LEMMA StreamNextInv == StreamInv /\ IInv /\ [Next]_vars => StreamInv'
<1> SUFFICES ASSUME StreamInv, IInv, [Next]_vars PROVE StreamInv'
  OBVIOUS
<1>1. CASE CallSteps
  BY <1>1, StreamCallStepsInv, HandOverStreamInv
<1>2. CASE \E r \in Response : Respond(r)
  BY <1>2, RespondInv
<1>3. CASE BreakConnection
  BY <1>3, StreamFailInv DEF BreakConnection, Codes
<1>4. CASE \E n \in 1..(MaxTokens + 1) : TakeChunk(n)
  BY <1>4, TakeChunkInv
<1>5. CASE EndOfStream
  BY <1>5, EndOfStreamInv
<1>6. CASE BreakStream \/ AbortStream
  BY <1>6, StreamCutShortInv
<1>7. CASE FireTimer \/ Abort
  BY <1>7, StreamInterruptInv
<1>8. CASE UNCHANGED vars
  <2>1. UNCHANGED <<call, step, request, hops, response, timer, outcome, sent, admitted, aborted, streamVars>>
    BY <1>8 DEF vars, callVars
  <2>2. StreamOrigin' /\ StreamRead'
    BY <2>1, StreamUnread DEF StreamInv, StreamOrigin
  <2>3. TypeOK'
    BY <2>1 DEF StreamInv, TypeOK, streamVars
  <2> QED
    BY <2>2, <2>3 DEF StreamInv
<1> QED
  BY <1>1, <1>2, <1>3, <1>4, <1>5, <1>6, <1>7, <1>8 DEF Next, Agent

\* Where the reader of a stream is, whatever the chunks were.
THEOREM StreamInvariance == Spec => []StreamInv
  BY StreamInitInv, StreamNextInv, Invariance, PTL DEF Spec

\* Every variable keeps its type; a call that ended left no armed timer behind.
THEOREM TypeCorrect == Spec => []TypeOK
<1>1. StreamInv => TypeOK
  BY DEF StreamInv
<1> QED
  BY <1>1, StreamInvariance, PTL

\* Whatever the text of a stream and however it is cut into chunks, the events that the page's
\* parser makes of what was passed on were validated (validateSseResponse).
THEOREM EventsCorrect == Spec => []EventsAreValidated
<1>1. StreamInv => EventsAreValidated
  <2> DEFINE t == response.text
             text == SubSeq(t, 1, delivered)
             N == Normalized(t)
  <2> SUFFICES ASSUME StreamInv, call.operation \in Streaming, call.binding # "none",
                      response.kind = "stream", OneLineFrames(t)
               PROVE  AllSound(Parsed(text).frames) /\ (ending = "closed" => AllSound(Events(text)))
    BY DEF EventsAreValidated
  <2>1. t \in Seq(Tokens) /\ Len(t) \in Nat /\ StreamRead
    BY StreamTexts DEF StreamInv
  <2>2. N \in Seq(Tokens) /\ \E m : Renders(t, N, m)
    BY <2>1, NormalizedRenders
  <2>3. PICK m : Renders(t, N, m)
    BY <2>2
  <2>4. Faithful(t, N, m)
    BY <2>1, <2>3, OneLineFramesAreFaithful
  <2>5. Validated
    <3>1. call \in Call /\ RequestFits
      BY PolicyFetchAssumption DEF StreamInv, TypeOK, StreamOrigin
    <3> QED
      BY <3>1, InferredOperation DEF Validated
  <2>6. delivered \in 0..Len(t)
    BY <2>1, PolicyFetchAssumption DEF StreamInv, TypeOK, StreamRead
  <2>7. PICK k \in 0..delivered : Waiting(t, k, delivered) /\ \A p \in DataAt(t) : p <= k => SoundAt(t, p)
    BY <2>1, <2>5 DEF StreamRead
  <2>8. AllSound(Parsed(text).frames)
    <3> HIDE DEF t, N
    <3>1. \A i \in DOMAIN Parsed(text).frames : Sound(Parsed(text).frames[i])
      BY <2>1, <2>2, <2>3, <2>4, <2>6, <2>7, PrefixValidated
    <3> QED
      BY <3>1 DEF AllSound
  <2>9. ASSUME ending = "closed" PROVE AllSound(Events(text))
    <3>1. delivered = Len(t) /\ \A p \in DataAt(t) : SoundAt(t, p)
      BY <2>1, <2>5, <2>9 DEF StreamRead
    <3>2. text = t
      BY <2>1, <3>1, SubSeqFull
    <3> QED
      BY <2>1, <2>3, <2>4, <3>1, <3>2, EventsSound DEF Events, AllSound
  <2> QED
    BY <2>8, <2>9
<1> QED
  BY <1>1, StreamInvariance, PTL

\* However a stream is cut into chunks, it is refused only when one of its events is not valid
\* (validateAvailableFrames).
THEOREM RefusalCorrect == Spec => []RefusalIsEarned
<1>1. StreamInv => RefusalIsEarned
  <2> DEFINE t == response.text
  <2> SUFFICES ASSUME StreamInv, ending = "STREAM_INVALID", OneLineFrames(t)
               PROVE  ~AllSound(Events(t))
    BY DEF RefusalIsEarned
  <2>1. response.kind = "stream"
    BY DEF StreamInv, StreamOrigin
  <2>2. t \in Seq(Tokens) /\ \E p \in DataAt(t) : ~SoundAt(t, p)
    BY <2>1, StreamTexts DEF StreamInv, StreamRead
  <2>3. PICK m : Renders(t, Normalized(t), m)
    BY <2>2, NormalizedRenders
  <2>4. Faithful(t, Normalized(t), m)
    BY <2>2, <2>3, OneLineFramesAreFaithful
  <2> QED
    BY <2>2, <2>3, <2>4, EventsSound DEF Events, AllSound
<1> QED
  BY <1>1, StreamInvariance, PTL
=============================================================================
