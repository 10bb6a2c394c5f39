--------------------------- MODULE ProtocolProofs ---------------------------
(***************************************************************************)
(* What is proved of Protocol.                                             *)
(***************************************************************************)
EXTENDS Protocol, SequenceTheorems, WellFoundedInduction, TLAPS

-----------------------------------------------------------------------------
(* Induction.  The library's induction principles speak of an operator; here *)
(* a property of numbers is the set of those that have it.                  *)

\* A set of natural numbers has a smallest element.
LEMMA Smallest ==
    ASSUME NEW T \in SUBSET Nat, T # {}
    PROVE  \E n \in T : \A m \in T : n <= m
<1> DEFINE R == OpToRel(<, Nat)
<1>1. \A m, n \in Nat : m < n => <<m, n>> \in R
  <2> SUFFICES ASSUME NEW m \in Nat, NEW n \in Nat, m < n PROVE <<m, n>> \in R
    OBVIOUS
  <2>1. <<m, n>> \in Nat \X Nat /\ <<m, n>>[1] = m /\ <<m, n>>[2] = n
    OBVIOUS
  <2>2. <<m, n>>[1] < <<m, n>>[2]
    BY <2>1
  <2> QED
    BY <2>1, <2>2, Zenon DEF R, OpToRel
<1>2. IsWellFoundedOn(R, Nat)
  BY NatLessThanWellFounded
<1> HIDE DEF R
<1>3. PICK n \in T : \A m \in T : ~ (<<m, n>> \in R)
  BY <1>2, WFMin
<1>4. \A m \in T : ~ (m < n)
  BY <1>1, <1>3
<1>5. \A m \in T : n <= m
  BY <1>4
<1> QED
  BY <1>5

\* A set with 0 and the successors of its numbers has them all.
LEMMA Induction ==
    ASSUME NEW S, 0 \in S, \A n \in Nat : n \in S => n + 1 \in S
    PROVE  \A n \in Nat : n \in S
<1> SUFFICES ASSUME Nat \ S # {} PROVE FALSE
  OBVIOUS
<1>1. PICK n \in Nat \ S : \A m \in Nat \ S : n <= m
  BY Smallest
<1>2. n # 0 /\ n - 1 \in Nat /\ n - 1 \in S
  BY <1>1
<1> QED
  BY <1>2

-----------------------------------------------------------------------------
(* Folds.                                                                   *)

\* f holds the values of a fold, from the first to the last.
Folds(f, step, base, seq) ==
    /\ f[0] = base
    /\ \A n \in 1..Len(seq) : f[n] = step[f[n - 1]][seq[n]]

\* There is such a function.
LEMMA FoldExists ==
    ASSUME NEW A, NEW B, NEW step, \A a \in A, b \in B : step[a][b] \in A,
           NEW base \in A, NEW seq \in Seq(B)
    PROVE  \E f \in [0..Len(seq) -> A] : Folds(f, step, base, seq)
<1> DEFINE Upto(f, n) == f[0] = base /\ \A k \in 1..n : f[k] = step[f[k - 1]][seq[k]]
           S == {n \in Nat : n <= Len(seq) => \E f \in [0..n -> A] : Upto(f, n)}
<1>1. 0 \in S
  <2> DEFINE f == [k \in 0..0 |-> base]
  <2>1. f \in [0..0 -> A] /\ Upto(f, 0)
    OBVIOUS
  <2> QED
    BY <2>1
<1>2. ASSUME NEW n \in Nat, n \in S PROVE n + 1 \in S
  <2> SUFFICES ASSUME n + 1 <= Len(seq) PROVE \E f \in [0..(n + 1) -> A] : Upto(f, n + 1)
    OBVIOUS
  <2>1. PICK f \in [0..n -> A] : Upto(f, n)
    BY <1>2
  <2> DEFINE g == [k \in 0..(n + 1) |-> IF k = n + 1 THEN step[f[n]][seq[n + 1]] ELSE f[k]]
  <2>2. f[n] \in A /\ seq[n + 1] \in B
    OBVIOUS
  <2>3. g \in [0..(n + 1) -> A]
    BY <2>2
  <2>4. Upto(g, n + 1)
    <3>1. g[0] = base
      BY <2>1
    <3>2. ASSUME NEW k \in 1..(n + 1) PROVE g[k] = step[g[k - 1]][seq[k]]
      <4>1. CASE k = n + 1
        BY <4>1
      <4>2. CASE k # n + 1
        <5>1. k \in 1..n /\ k - 1 \in 0..n
          BY <4>2
        <5>2. g[k] = f[k] /\ g[k - 1] = f[k - 1]
          BY <5>1
        <5> QED
          BY <2>1, <5>1, <5>2
      <4> QED
        BY <4>1, <4>2
    <3> QED
      BY <3>1, <3>2
  <2> HIDE DEF g
  <2> QED
    BY <2>3, <2>4
<1>3. Len(seq) \in S
  <2> HIDE DEF S
  <2> QED
    BY <1>1, <1>2, Induction, Len(seq) \in Nat
<1> QED
  BY <1>3 DEF Folds

\* And it is what Fold computes.
LEMMA FoldIs ==
    ASSUME NEW step, NEW base, NEW B, NEW seq \in Seq(B), NEW f, Folds(f, step, base, seq)
    PROVE  Fold(step, base, seq) = f[Len(seq)]
<1> DEFINE F(g) == [n \in 0..Len(seq) |-> IF n = 0 THEN base ELSE step[g[n - 1]][seq[n]]]
           h == [n \in 0..Len(seq) |-> f[n]]
           g == CHOOSE g : g = F(g)
<1>1. h = F(h)
  <2>1. ASSUME NEW n \in 0..Len(seq), n # 0 PROVE h[n] = step[h[n - 1]][seq[n]]
    <3>1. n \in 1..Len(seq) /\ n - 1 \in 0..Len(seq)
      BY <2>1
    <3> QED
      BY <3>1 DEF Folds
  <2> QED
    BY <2>1 DEF Folds
<1>2. g = F(g)
  <2> HIDE DEF h
  <2> QED
    BY <1>1, Zenon
<1>3. Fold(step, base, seq) = g[Len(seq)]
  BY Zenon DEF Fold
<1> HIDE DEF g
<1>7. \A n \in 0..Len(seq) : g[n] = IF n = 0 THEN base ELSE step[g[n - 1]][seq[n]]
  BY <1>2
<1> DEFINE S == {n \in Nat : n <= Len(seq) => g[n] = f[n]}
<1>4. 0 \in S
  BY <1>2 DEF Folds
<1>5. ASSUME NEW n \in Nat, n \in S PROVE n + 1 \in S
  <2> SUFFICES ASSUME n + 1 <= Len(seq) PROVE g[n + 1] = f[n + 1]
    OBVIOUS
  <2>1. n + 1 \in 1..Len(seq) /\ n + 1 \in 0..Len(seq) /\ n + 1 # 0 /\ (n + 1) - 1 = n
    OBVIOUS
  <2>2. g[n + 1] = step[g[n]][seq[n + 1]]
    BY <1>7, <2>1
  <2> QED
    BY <1>5, <2>1, <2>2 DEF Folds
<1> HIDE DEF S
<1>6. Len(seq) \in S
  BY <1>4, <1>5, Induction
<1> QED
  BY <1>3, <1>6 DEF S

\* The equations and the type of a fold.
LEMMA FoldEmpty ==
    ASSUME NEW step, NEW base
    PROVE  Fold(step, base, <<>>) = base
<1> DEFINE f == [n \in 0..0 |-> base]
<1>1. Folds(f, step, base, <<>>)
  BY DEF Folds
<1>2. <<>> \in Seq(Nat) /\ Len(<<>>) = 0
  OBVIOUS
<1>3. Fold(step, base, <<>>) = f[0]
  <2> HIDE DEF f
  <2> QED
    BY <1>1, <1>2, FoldIs
<1> QED
  BY <1>3

LEMMA FoldType ==
    ASSUME NEW A, NEW B, NEW step, \A a \in A, b \in B : step[a][b] \in A,
           NEW base \in A, NEW seq \in Seq(B)
    PROVE  Fold(step, base, seq) \in A
<1>1. PICK f \in [0..Len(seq) -> A] : Folds(f, step, base, seq)
  BY FoldExists
<1>2. Fold(step, base, seq) = f[Len(seq)]
  BY <1>1, FoldIs
<1> QED
  BY <1>2

LEMMA FoldAppend ==
    ASSUME NEW A, NEW B, NEW step, \A a \in A, b \in B : step[a][b] \in A,
           NEW base \in A, NEW seq \in Seq(B), NEW b \in B
    PROVE  Fold(step, base, Append(seq, b)) = step[Fold(step, base, seq)][b]
<1> DEFINE more == Append(seq, b)
<1>1. /\ more \in Seq(B) /\ Len(more) = Len(seq) + 1 /\ more[Len(seq) + 1] = b
      /\ \A n \in 1..Len(seq) : more[n] = seq[n]
  OBVIOUS
<1> HIDE DEF more
<1>2. PICK f \in [0..Len(more) -> A] : Folds(f, step, base, more)
  BY <1>1, FoldExists
<1>3. Folds(f, step, base, seq)
  BY <1>1, <1>2 DEF Folds
<1>4. Fold(step, base, more) = f[Len(seq) + 1] /\ Fold(step, base, seq) = f[Len(seq)]
  BY <1>1, <1>2, <1>3, FoldIs
<1>5. f[Len(seq) + 1] = step[f[Len(seq)]][b]
  BY <1>1, <1>2 DEF Folds
<1> QED
  BY <1>4, <1>5 DEF more

\* Induction over sequences, by their lengths.
LEMMA Appending ==
    ASSUME NEW B, NEW S, <<>> \in S,
           \A seq \in Seq(B), b \in B : seq \in S => Append(seq, b) \in S
    PROVE  \A seq \in Seq(B) : seq \in S
<1> DEFINE T == {n \in Nat : \A seq \in Seq(B) : Len(seq) = n => seq \in S}
<1>1. 0 \in T
  <2>1. \A seq \in Seq(B) : Len(seq) = 0 => seq = <<>>
    OBVIOUS
  <2> QED
    BY <2>1
<1>2. ASSUME NEW n \in Nat, n \in T PROVE n + 1 \in T
  <2> SUFFICES ASSUME NEW seq \in Seq(B), Len(seq) = n + 1 PROVE seq \in S
    OBVIOUS
  <2>1. PICK front \in Seq(B), b \in B : seq = Append(front, b)
    BY SequenceEmptyOrAppend
  <2>2. Len(front) = n
    BY <2>1
  <2> QED
    BY <1>2, <2>1, <2>2
<1> HIDE DEF T
<1>3. \A n \in Nat : n \in T
  BY <1>1, <1>2, Induction
<1> QED
  BY <1>3 DEF T

-----------------------------------------------------------------------------
(* The checksum.                                                            *)

\* The values of the checksum's register.
Word == 0..WordMax

LEMMA Words == \A n : n \in Word <=> n \in Nat /\ n <= WordMax
<1>1. WordMax \in Nat
  BY DEF WordMax
<1> QED
  BY <1>1 DEF Word

LEMMA XorWord ==
    ASSUME NEW a \in Nat, NEW b \in Nat
    PROVE  Xor(a, b) \in Word
<1>1. \A n \in Nat : n % 2 \in {0, 1}
  OBVIOUS
<1>2. \A w \in Nat \ {0} : a \div w \in Nat /\ b \div w \in Nat
  OBVIOUS
<1>3. \A w \in Nat \ {0} : (a \div w + b \div w) % 2 \in {0, 1}
  BY <1>1, <1>2
<1> QED
  BY <1>3, Words DEF Xor, WordMax

LEMMA ShiftWord ==
    ASSUME NEW v \in Word
    PROVE  Shift[v] \in Word
<1>1. v \in Nat /\ v <= WordMax /\ WordMax \in Nat
  BY Words DEF WordMax
<1>2. v \div 2 \in Word
  <2>1. v \div 2 <= WordMax /\ v \div 2 \in Nat
    BY <1>1
  <2> QED
    BY <2>1, Words
<1>3. Xor(v \div 2, 33800) \in Word
  <2>1. v \div 2 \in Nat /\ 33800 \in Nat
    BY <1>1
  <2> QED
   BY <2>1, XorWord
<1>4. Shift[v] = IF v % 2 = 1 THEN Xor(v \div 2, 33800) ELSE v \div 2
  BY <1>1 DEF Shift
<1> QED
  BY <1>2, <1>3, <1>4

LEMMA CrcWord ==
    ASSUME NEW data \in Bytes
    PROVE  Crc16(data) \in Word
<1>1. ASSUME NEW v \in Word, NEW b \in Byte PROVE CrcByte[v][b] \in Word
  <2>1. v \in Nat /\ b \in Nat
    BY Words DEF Byte
  <2>2. Xor(v, b) \in Word
    BY <2>1, XorWord
  <2>3. CrcByte[v][b] = Shift[Shift[Shift[Shift[Shift[Shift[Shift[Shift[Xor(v, b)]]]]]]]]
    BY <2>1, Zenon DEF CrcByte
  <2> QED
    BY <2>2, <2>3, ShiftWord, Zenon
<1>2. WordMax \in Word
  BY Words DEF WordMax
<1>3. Fold(CrcByte, WordMax, data) \in Word
  BY <1>1, <1>2, FoldType DEF Bytes
<1>4. WordMax \in Nat
  BY DEF WordMax
<1> QED
  BY <1>3, <1>4, Words DEF Crc16

\* The bytes of a number.
LEMMA HighLow ==
    ASSUME NEW a \in Nat
    PROVE  High(a) \in Nat /\ Low(a) \in Byte /\ Joined(High(a), Low(a)) = a
<1> DEFINE q == a \div 256
           r == a - q * 256
<1>1. q \in Nat /\ q * 256 <= a /\ a < (q + 1) * 256
  OBVIOUS
<1>2. r \in 0..255 /\ a = q * 256 + r
  BY <1>1
<1> HIDE DEF q, r
<1>3. a % 256 = r
  BY <1>1, <1>2
<1> QED
  BY <1>1, <1>2, <1>3, Zenon DEF q, High, Low, Joined, Byte

LEMMA CrcBytes ==
    ASSUME NEW w \in Word
    PROVE  w \in Nat /\ High(w) \in Byte
<1>1. w \in Nat /\ w <= WordMax
  BY Words
<1>2. w \div 256 \in 0..255
  BY <1>1 DEF WordMax
<1> QED
  BY <1>1, <1>2 DEF High, Byte

-----------------------------------------------------------------------------
(* Escapes.                                                                 *)

LEMMA FlipFlip ==
    ASSUME NEW b \in Byte
    PROVE  Flip(b) \in Byte /\ Flip(Flip(b)) = b
BY DEF Flip, Byte

LEMMA UnescapeType ==
    /\ NothingYet \in Unescaping
    /\ \A a \in Unescaping, b \in Byte : UnescapeByte[a][b] \in Unescaping
BY FlipFlip DEF NothingYet, Unescaping, UnescapeByte, Bytes

LEMMA EscapeIs ==
    ASSUME NEW w \in Bytes, NEW b \in Byte
    PROVE  /\ b \in {START, END, ESCAPE} =>
                 EscapeByte[w][b] = Append(Append(w, ESCAPE), Flip(b))
           /\ b \notin {START, END, ESCAPE} => EscapeByte[w][b] = Append(w, b)
           /\ EscapeByte[w][b] \in Bytes
<1>1. EscapeByte[w][b] = w \o IF b \in {START, END, ESCAPE} THEN <<ESCAPE, Flip(b)>> ELSE <<b>>
  BY Zenon DEF EscapeByte
<1>2. Flip(b) \in Byte /\ ESCAPE \in Byte
  <2>1. ESCAPE \in Byte
    BY DEF ESCAPE, Byte
  <2> QED
    BY <2>1, FlipFlip
<1>3. \A c, d \in Byte : w \o <<c, d>> = Append(Append(w, c), d) /\ w \o <<c>> = Append(w, c)
  BY DEF Bytes
<1>4. \A c, d \in Byte : Append(Append(w, c), d) \in Bytes /\ Append(w, c) \in Bytes
  BY DEF Bytes
<1>5. CASE b \in {START, END, ESCAPE}
  <2>1. EscapeByte[w][b] = w \o <<ESCAPE, Flip(b)>>
    BY <1>1, <1>5, Zenon
  <2>2. EscapeByte[w][b] = Append(Append(w, ESCAPE), Flip(b))
    BY <1>2, <1>3, <2>1, Zenon
  <2> QED
    BY <1>2, <1>4, <1>5, <2>2, Zenon
<1>6. CASE b \notin {START, END, ESCAPE}
  <2>1. EscapeByte[w][b] = Append(w, b)
    BY <1>1, <1>3, <1>6, Zenon
  <2> QED
    BY <1>4, <1>6, <2>1, Zenon
<1> QED
  BY <1>5, <1>6, Zenon

LEMMA EscapedAppend ==
    ASSUME NEW s \in Bytes, NEW b \in Byte
    PROVE  Escaped(Append(s, b)) = EscapeByte[Escaped(s)][b]
<1>1. \A w \in Bytes, c \in Byte : EscapeByte[w][c] \in Bytes
  BY EscapeIs
<1>2. <<>> \in Bytes /\ s \in Seq(Byte)
  BY DEF Bytes
<1>3. Fold(EscapeByte, <<>>, Append(s, b)) = EscapeByte[Fold(EscapeByte, <<>>, s)][b]
  BY <1>1, <1>2, FoldAppend
<1> QED
  BY <1>3 DEF Escaped

\* What escapes add is what unescaping removes.
LEMMA UnescapesEscaped ==
    ASSUME NEW bytes \in Bytes
    PROVE  /\ Escaped(bytes) \in Bytes
           /\ Fold(UnescapeByte, NothingYet, Escaped(bytes))
                = [open |-> FALSE, bad |-> FALSE, body |-> bytes]
<1> DEFINE Done(s) == [open |-> FALSE, bad |-> FALSE, body |-> s]
           Open(s) == [open |-> TRUE, bad |-> FALSE, body |-> s]
           S == {s \in Bytes : Fold(UnescapeByte, NothingYet, Escaped(s)) = Done(s)}
<1>1. \A w \in Bytes, b \in Byte : EscapeByte[w][b] \in Bytes
  BY EscapeIs
<1>2. <<>> \in Bytes /\ Bytes = Seq(Byte)
  BY DEF Bytes
<1>3. ASSUME NEW s \in Bytes PROVE Escaped(s) \in Bytes
  BY <1>1, <1>2, FoldType DEF Escaped
<1>4. <<>> \in S
  BY <1>2, FoldEmpty DEF Escaped, NothingYet
<1>5. ASSUME NEW s \in Bytes, NEW b \in Byte, s \in S PROVE Append(s, b) \in S
  <2> DEFINE e == Escaped(s)
  <2>1. e \in Bytes /\ Fold(UnescapeByte, NothingYet, e) = Done(s)
    BY <1>3, <1>5
  <2>2. Escaped(Append(s, b)) = EscapeByte[e][b]
    BY EscapedAppend
  <2>3. Append(s, b) \in Bytes
    BY <1>2
  <2>4. Done(s) \in Unescaping /\ Open(s) \in Unescaping
    BY DEF Unescaping
  <2> HIDE DEF e
  <2>5. \A w \in Bytes, f \in Byte : Fold(UnescapeByte, NothingYet, Append(w, f))
                                          = UnescapeByte[Fold(UnescapeByte, NothingYet, w)][f]
    BY <1>2, UnescapeType, FoldAppend, SMT
  <2>6. CASE b \in {START, END, ESCAPE}
    <3>1. ESCAPE \in Byte /\ Flip(b) \in Byte /\ Flip(Flip(b)) = b
      <4>1. ESCAPE \in Byte
        BY DEF ESCAPE, Byte
      <4> QED
        BY <4>1, FlipFlip
    <3>2. Append(e, ESCAPE) \in Bytes
      BY <1>2, <2>1, <3>1
    <3>3. UnescapeByte[Done(s)][ESCAPE] = Open(s)
      <4>1. ESCAPE # START /\ ESCAPE # END
        BY DEF ESCAPE, START, END
      <4> QED
        BY <2>4, <3>1, <4>1 DEF UnescapeByte
    <3>4. UnescapeByte[Open(s)][Flip(b)] = Done(Append(s, b))
      BY <2>4, <3>1 DEF UnescapeByte
    <3>5. EscapeByte[e][b] = Append(Append(e, ESCAPE), Flip(b))
      BY <2>1, <2>6, EscapeIs, Zenon
    <3>6. Fold(UnescapeByte, NothingYet, Append(e, ESCAPE)) = Open(s)
      <4>1. Fold(UnescapeByte, NothingYet, Append(e, ESCAPE))
              = UnescapeByte[Fold(UnescapeByte, NothingYet, e)][ESCAPE]
        BY <2>1, <2>5, <3>1
      <4> QED
        BY <2>1, <3>3, <4>1
    <3>7. Fold(UnescapeByte, NothingYet, Append(Append(e, ESCAPE), Flip(b))) = Done(Append(s, b))
      <4>1. Fold(UnescapeByte, NothingYet, Append(Append(e, ESCAPE), Flip(b)))
              = UnescapeByte[Fold(UnescapeByte, NothingYet, Append(e, ESCAPE))][Flip(b)]
        BY <2>5, <3>1, <3>2
      <4> QED
        BY <3>4, <3>6, <4>1
    <3> QED
      BY <2>2, <2>3, <3>5, <3>7
  <2>7. CASE b \notin {START, END, ESCAPE}
    <3>1. EscapeByte[e][b] = Append(e, b)
      BY <2>1, <2>7, EscapeIs, Zenon
    <3>2. UnescapeByte[Done(s)][b] = Done(Append(s, b))
      BY <2>4, <2>7 DEF UnescapeByte
    <3>3. Fold(UnescapeByte, NothingYet, Append(e, b))
            = UnescapeByte[Fold(UnescapeByte, NothingYet, e)][b]
      BY <2>1, <2>5
    <3> QED
      BY <2>1, <2>2, <2>3, <3>1, <3>2, <3>3
  <2> QED
    BY <2>6, <2>7
<1> HIDE DEF S
<1>6. bytes \in S
  BY <1>2, <1>4, <1>5, Appending
<1> QED
  BY <1>3, <1>6 DEF S

-----------------------------------------------------------------------------
(* The codec.                                                               *)

LEMMA ConcatIs ==
    ASSUME NEW B, NEW s \in Seq(B), NEW t \in Seq(B), NEW n, Len(s) = n
    PROVE  /\ s \o t \in Seq(B) /\ Len(s \o t) = n + Len(t)
           /\ \A i \in 1..n : (s \o t)[i] = s[i]
           /\ \A i \in 1..Len(t) : (s \o t)[n + i] = t[i]
OBVIOUS

LEMMA BeginningAt ==
    ASSUME NEW B, NEW s \in Seq(B), NEW t \in 0..Len(s), NEW i \in 1..t
    PROVE  SubSeq(s, 1, t)[i] = s[i]
OBVIOUS

LEMMA BodyIs ==
    ASSUME NEW d \in Byte, NEW s \in Byte, NEW o \in Byte, NEW a \in Nat, High(High(High(a))) \in Byte,
           NEW l \in Byte, NEW p \in Bytes
    PROVE  /\ Body(d, s, o, a, l, p) \in Bytes
           /\ Len(Body(d, s, o, a, l, p)) = 8 + Len(p)
           /\ \A i \in 1..Len(p) : Body(d, s, o, a, l, p)[8 + i] = p[i]
           /\ Body(d, s, o, a, l, p)[1] = d /\ Body(d, s, o, a, l, p)[2] = s
           /\ Body(d, s, o, a, l, p)[3] = o /\ Body(d, s, o, a, l, p)[8] = l
           /\ Body(d, s, o, a, l, p)[4] = High(High(High(a)))
           /\ Body(d, s, o, a, l, p)[5] = Low(High(High(a)))
           /\ Body(d, s, o, a, l, p)[6] = Low(High(a))
           /\ Body(d, s, o, a, l, p)[7] = Low(a)
<1> DEFINE h == <<d, s, o, High(High(High(a))), Low(High(High(a))), Low(High(a)), Low(a), l>>
<1>1. h \in Seq(Byte) /\ Len(h) = 8
  <2>1. High(a) \in Nat /\ High(High(a)) \in Nat
    BY HighLow
  <2> QED
    BY <2>1, HighLow
<1>2. /\ h[1] = d /\ h[2] = s /\ h[3] = o /\ h[8] = l
      /\ h[4] = High(High(High(a))) /\ h[5] = Low(High(High(a)))
      /\ h[6] = Low(High(a)) /\ h[7] = Low(a)
  OBVIOUS
<1> DEFINE n == 8
<1>3. Len(h) = n /\ h \in Seq(Byte) /\ p \in Seq(Byte)
  BY <1>1 DEF Bytes
<1> HIDE DEF h, n
<1>4. /\ h \o p \in Seq(Byte) /\ Len(h \o p) = n + Len(p)
      /\ \A i \in 1..n : (h \o p)[i] = h[i]
      /\ \A i \in 1..Len(p) : (h \o p)[n + i] = p[i]
  BY <1>3, ConcatIs, SMTT(20)
<1>5. /\ h \o p \in Bytes /\ Len(h \o p) = 8 + Len(p)
      /\ \A i \in 1..8 : (h \o p)[i] = h[i]
      /\ \A i \in 1..Len(p) : (h \o p)[8 + i] = p[i]
  BY <1>4, Zenon DEF n, Bytes
<1>6. Body(d, s, o, a, l, p) = h \o p
  BY DEF Body, h
<1> QED
  BY <1>2, <1>5, <1>6, SMTT(20)

\* What encode makes, decode takes apart: a frame comes back as it was, with
\* any payload and however many of its bytes need an escape.
THEOREM RoundTrip ==
    ASSUME NEW d \in Byte, NEW s \in Byte, NEW o \in Byte, NEW a \in Nat, High(High(High(a))) \in Byte,
           NEW l \in Byte, NEW p \in Bytes
    PROVE  /\ Wire(d, s, o, a, l, p) \in Bytes
           /\ Encode(d, s, o, a, l, p) =
                IF Len(Wire(d, s, o, a, l, p)) > MaxFrameSize THEN None
                ELSE [destination |-> d, source |-> s, opcode |-> o, address |-> a, length |-> l,
                      payload |-> p, wire |-> Wire(d, s, o, a, l, p)]
<1> DEFINE b == Body(d, s, o, a, l, p)
           crc == Crc16(b)
           c == b \o <<High(crc), Low(crc)>>
           e == Escaped(c)
           w == <<START>> \o e \o <<END>>
<1>1. /\ b \in Bytes /\ Len(b) = 8 + Len(p) /\ \A i \in 1..Len(p) : b[8 + i] = p[i]
      /\ b[1] = d /\ b[2] = s /\ b[3] = o /\ b[8] = l
      /\ b[4] = High(High(High(a))) /\ b[5] = Low(High(High(a)))
      /\ b[6] = Low(High(a)) /\ b[7] = Low(a)
  BY BodyIs
<1>2. Joined(Joined(Joined(b[4], b[5]), b[6]), b[7]) = a
  <2>1. High(a) \in Nat /\ High(High(a)) \in Nat
    BY HighLow
  <2> QED
    BY <1>1, <2>1, HighLow
<1>3. High(crc) \in Byte /\ Low(crc) \in Byte /\ Joined(High(crc), Low(crc)) = crc
  BY <1>1, CrcWord, CrcBytes, HighLow
<1>4. p \in Seq(Byte) /\ Len(p) \in Nat /\ b \in Seq(Byte)
  BY <1>1 DEF Bytes
<1> HIDE DEF b, crc
<1>5. /\ c \in Seq(Byte) /\ Len(c) = 10 + Len(p)
      /\ \A i \in 1..(8 + Len(p)) : c[i] = b[i]
      /\ c[9 + Len(p)] = High(crc) /\ c[10 + Len(p)] = Low(crc)
  BY <1>1, <1>3, <1>4
<1> HIDE DEF c
<1>6. SubSeq(c, 1, Len(c) - 2) = b
  BY <1>1, <1>4, <1>5
<1>7. Check(c)
  <2>1. Len(c) - 1 = 9 + Len(p) /\ Len(c) = 10 + Len(p)
    BY <1>4, <1>5
  <2>2. Joined(c[Len(c) - 1], c[Len(c)]) = crc
    BY <1>3, <1>5, <2>1
  <2> QED
    BY <1>6, <2>2, Zenon DEF Check, crc
<1>8. SubSeq(c, 9, Len(c) - 2) = p
  <2>1. \A i \in 1..Len(p) : c[8 + i] = p[i]
    <3>1. \A i \in 1..Len(p) : 8 + i \in 1..(8 + Len(p))
      BY <1>4
    <3> QED
      BY <1>1, <1>5, <3>1
  <2>2. /\ Len(SubSeq(c, 9, 8 + Len(p))) = Len(p) /\ SubSeq(c, 9, 8 + Len(p)) \in Seq(Byte)
        /\ \A i \in 1..Len(p) : SubSeq(c, 9, 8 + Len(p))[i] = c[8 + i]
    BY <1>4, <1>5
  <2>3. Len(c) - 2 = 8 + Len(p)
    BY <1>4, <1>5
  <2> QED
    BY <1>4, <2>1, <2>2, <2>3
<1>9. e \in Seq(Byte) /\ Fold(UnescapeByte, NothingYet, e) = [open |-> FALSE, bad |-> FALSE, body |-> c]
  BY <1>5, UnescapesEscaped DEF Bytes
<1> HIDE DEF e
<1>10. /\ w \in Seq(Byte) /\ Len(w) = Len(e) + 2 /\ w[1] = START /\ w[Len(w)] = END
       /\ SubSeq(w, 2, Len(w) - 1) = e
  <2>1. START \in Byte /\ END \in Byte
    BY DEF START, END, Byte
  <2> QED
    BY <1>9, <2>1
<1>11. w = Wire(d, s, o, a, l, p)
  BY Zenon DEF w, e, c, b, crc, Wire
<1> HIDE DEF w
<1>12. w # <<>> /\ Delimited(w)
  BY <1>9, <1>10 DEF Delimited
<1>13. Inner(w) = [open |-> FALSE, bad |-> FALSE, body |-> c]
  BY <1>9, <1>10 DEF Inner
<1>14. Unescaped(w) = c /\ c # None
  BY <1>5, <1>13, NamesAssumption DEF Unescaped, Bytes
<1>15. ~ (Len(c) < 10)
  BY <1>4, <1>5
<1>16. Decode(w) = IF Len(w) > MaxFrameSize THEN None
                   ELSE [destination |-> d, source |-> s, opcode |-> o, address |-> a, length |-> l,
                         payload |-> p, wire |-> w]
  <2>1. c[1] = d /\ c[2] = s /\ c[3] = o /\ c[8] = l
        /\ Joined(Joined(Joined(c[4], c[5]), c[6]), c[7]) = a
    BY <1>1, <1>2, <1>4, <1>5
  <2> QED
    BY <1>7, <1>8, <1>12, <1>14, <1>15, <2>1 DEF Decode
<1> QED
  BY <1>10, <1>11, <1>16 DEF Encode, Bytes

\* Whatever is decoded is a frame, with the bytes it was decoded from.
LEMMA DecodeType ==
    ASSUME NEW w \in Bytes
    PROVE  /\ Decode(w) # None =>
                /\ Decode(w) \in Frame /\ Decode(w).wire = w
                /\ Len(w) <= MaxFrameSize /\ Delimited(w) /\ ~ Inner(w).open /\ ~ Inner(w).bad
           /\ Inner(w) \in Unescaping
<1>1. Inner(w) \in Unescaping
  <2>1. SubSeq(w, 2, Len(w) - 1) \in Seq(Byte)
    BY DEF Bytes
  <2> QED
    BY <2>1, UnescapeType, FoldType DEF Inner
<1> SUFFICES ASSUME Decode(w) # None
             PROVE  /\ Decode(w) \in Frame /\ Decode(w).wire = w
                    /\ Len(w) <= MaxFrameSize /\ Delimited(w) /\ ~ Inner(w).open /\ ~ Inner(w).bad
  BY <1>1
<1> DEFINE c == Unescaped(w)
<1>2. ~ (Len(w) > MaxFrameSize) /\ Delimited(w) /\ c # None /\ ~ (Len(c) < 10)
      /\ Decode(w) = [destination |-> c[1], source |-> c[2], opcode |-> c[3],
             address |-> Joined(Joined(Joined(c[4], c[5]), c[6]), c[7]),
             length |-> c[8], payload |-> SubSeq(c, 9, Len(c) - 2), wire |-> w]
  BY Zenon DEF Decode
<1>3. ~ Inner(w).open /\ ~ Inner(w).bad /\ c = Inner(w).body
  BY <1>2 DEF Unescaped
<1>4. c \in Seq(Byte)
  BY <1>1, <1>3 DEF Unescaping, Bytes
<1> HIDE DEF c
<1>5. \A i \in 1..8 : c[i] \in Byte
  BY <1>2, <1>4
<1>6. \A i \in Nat, k \in Byte : Joined(i, k) \in Nat
  BY DEF Joined, Byte
<1>7. Joined(Joined(Joined(c[4], c[5]), c[6]), c[7]) \in Nat
  <2>1. c[4] \in Nat
    BY <1>5 DEF Byte
  <2> QED
    BY <1>5, <1>6, <2>1
<1>8. SubSeq(c, 9, Len(c) - 2) \in Bytes
  BY <1>4 DEF Bytes
<1>9. Decode(w) \in Frame /\ Decode(w).wire = w
  BY <1>2, <1>5, <1>7, <1>8 DEF Frame
<1>10. Len(w) \in Nat /\ MaxFrameSize \in Nat
  BY ConstantsAssumption DEF Bytes
<1> QED
  BY <1>2, <1>3, <1>9, <1>10

-----------------------------------------------------------------------------
(* Streams of frames.                                                       *)

LEMMA AddWireIs ==
    \A bytes \in Bytes, frame \in Frame :
        AddWire[bytes][frame] = bytes \o frame.wire /\ AddWire[bytes][frame] \in Bytes
<1> SUFFICES ASSUME NEW bytes \in Bytes, NEW frame \in Frame
             PROVE  AddWire[bytes][frame] = bytes \o frame.wire /\ AddWire[bytes][frame] \in Bytes
  OBVIOUS
<1>1. AddWire[bytes][frame] = bytes \o frame.wire
  BY DEF AddWire
<1>2. frame.wire \in Bytes
  BY DEF Frame
<1> QED
  BY <1>1, <1>2 DEF Bytes

LEMMA WiresAppend ==
    ASSUME NEW frames \in Seq(Frame)
    PROVE  /\ Wires(frames) \in Bytes
           /\ \A frame \in Frame : Wires(Append(frames, frame)) = Wires(frames) \o frame.wire
<1>1. <<>> \in Bytes
  BY DEF Bytes
<1>2. Wires(frames) \in Bytes
  BY <1>1, AddWireIs, FoldType DEF Wires
<1>3. ASSUME NEW frame \in Frame
      PROVE  Fold(AddWire, <<>>, Append(frames, frame)) = AddWire[Fold(AddWire, <<>>, frames)][frame]
  <2>1. \A w \in Bytes, f \in Frame : AddWire[w][f] \in Bytes
    BY AddWireIs
  <2> QED
    BY <1>1, <2>1, FoldAppend
<1> QED
  BY <1>2, <1>3, AddWireIs DEF Wires

LEMMA WiresConcat ==
    ASSUME NEW frames \in Seq(Frame), NEW more \in Seq(Frame)
    PROVE  Wires(frames \o more) = Wires(frames) \o Wires(more)
<1> DEFINE S == {m \in Seq(Frame) : Wires(frames \o m) = Wires(frames) \o Wires(m)}
<1>1. <<>> \in S
  <2>1. Wires(<<>>) = <<>> /\ frames \o <<>> = frames
    BY FoldEmpty DEF Wires
  <2>2. Wires(frames) \o <<>> = Wires(frames)
    BY WiresAppend DEF Bytes
  <2>3. <<>> \in Seq(Frame)
    OBVIOUS
  <2>4. Wires(frames \o <<>>) = Wires(frames) \o Wires(<<>>)
    BY <2>1, <2>2
  <2> QED
    BY <2>3, <2>4, Zenon
<1>2. ASSUME NEW m \in Seq(Frame), NEW f \in Frame, m \in S PROVE Append(m, f) \in S
  <2>1. frames \o m \in Seq(Frame) /\ frames \o Append(m, f) = Append(frames \o m, f)
    OBVIOUS
  <2>2. Wires(frames \o Append(m, f)) = (Wires(frames) \o Wires(m)) \o f.wire
    BY <1>2, <2>1, WiresAppend
  <2>3. Wires(Append(m, f)) = Wires(m) \o f.wire
    BY WiresAppend
  <2>4. Wires(frames) \in Seq(Byte) /\ Wires(m) \in Seq(Byte) /\ f.wire \in Seq(Byte)
    BY WiresAppend DEF Bytes, Frame
  <2>5. (Wires(frames) \o Wires(m)) \o f.wire = Wires(frames) \o (Wires(m) \o f.wire)
    <3>1. \A x, y, z \in Seq(Byte) : (x \o y) \o z = x \o (y \o z)
      OBVIOUS
    <3> QED
      BY <2>4, <3>1, Zenon
  <2>6. Wires(frames \o Append(m, f)) = Wires(frames) \o Wires(Append(m, f))
    BY <2>2, <2>3, <2>5, Zenon
  <2>7. Append(m, f) \in Seq(Frame)
    OBVIOUS
  <2> QED
    BY <2>6, <2>7, Zenon
<1> HIDE DEF S
<1>3. more \in S
  BY <1>1, <1>2, Appending
<1> QED
  BY <1>3 DEF S

\* The bytes before a frame, those of the frame, and the others.
LEMMA WiresAround ==
    ASSUME NEW frames \in Seq(Frame), NEW k \in 0..(Len(frames) - 1)
    PROVE  \E rest \in Bytes :
               Wires(frames) = (Wires(SubSeq(frames, 1, k)) \o frames[k + 1].wire) \o rest
<1> DEFINE a == SubSeq(frames, 1, k)
           f == frames[k + 1]
           c == SubSeq(frames, k + 2, Len(frames))
<1>1. a \in Seq(Frame) /\ f \in Frame /\ c \in Seq(Frame)
  OBVIOUS
<1>2. frames = Append(a, f) \o c
  <2>1. /\ k \in Nat /\ Len(frames) \in Nat /\ k + 1 <= Len(frames)
        /\ Len(a) = k /\ \A i \in 1..k : a[i] = frames[i]
        /\ Len(c) = Len(frames) - (k + 1)
        /\ \A i \in 1..(Len(frames) - (k + 1)) : c[i] = frames[(k + 1) + i]
    OBVIOUS
  <2> HIDE DEF a, c
  <2>2. /\ Append(a, f) \in Seq(Frame) /\ Len(Append(a, f)) = k + 1
        /\ \A i \in 1..(k + 1) : Append(a, f)[i] = frames[i]
    BY <1>1, <2>1
  <2> HIDE DEF f
  <2> DEFINE n == k + 1
             s == Append(a, f)
  <2>3. /\ s \in Seq(Frame) /\ Len(s) = n /\ \A i \in 1..n : s[i] = frames[i]
        /\ Len(c) = Len(frames) - n
        /\ \A i \in 1..(Len(frames) - n) : c[i] = frames[n + i]
        /\ n \in Nat /\ n <= Len(frames)
    <3>1. s \in Seq(Frame) /\ Len(s) = n /\ \A i \in 1..n : s[i] = frames[i]
      BY <2>2
    <3>2. Len(c) = Len(frames) - n /\ n \in Nat /\ n <= Len(frames)
      BY <2>1
    <3>3. \A i \in 1..(Len(frames) - n) : c[i] = frames[n + i]
      BY <2>1
    <3> QED
      BY <3>1, <3>2, <3>3
  <2> HIDE DEF n, s
  <2>4. s \o c \in Seq(Frame) /\ Len(s \o c) = Len(frames)
    BY <1>1, <2>3
  <2>5. ASSUME NEW i \in 1..Len(frames) PROVE (s \o c)[i] = frames[i]
    <3>1. CASE i <= n
      BY <1>1, <2>3, <3>1
    <3>2. CASE i > n
      <4>1. i - n \in 1..Len(c) /\ i = n + (i - n)
        BY <2>3, <3>2
      <4>2. (s \o c)[n + (i - n)] = c[i - n]
        BY <1>1, <2>3, <4>1, ConcatIs, SMTT(20)
      <4> QED
        BY <2>3, <4>1, <4>2
    <3> QED
      BY <2>3, <3>1, <3>2
  <2>6. s \o c = frames
    BY <2>4, <2>5, SeqEqual
  <2> QED
    BY <2>6 DEF s
<1> HIDE DEF a, f, c
<1>3. Append(a, f) \in Seq(Frame)
  BY <1>1
<1>4. Wires(frames) = Wires(Append(a, f)) \o Wires(c)
  BY <1>1, <1>2, <1>3, WiresConcat
<1>5. Wires(Append(a, f)) = Wires(a) \o f.wire /\ Wires(c) \in Bytes
  BY <1>1, WiresAppend
<1> QED
  BY <1>4, <1>5 DEF a, f


-----------------------------------------------------------------------------
(* The parser.                                                              *)

\* What unescaping has made of a partial frame so far.
Begin(buffer) == Fold(UnescapeByte, NothingYet, Tail(buffer))

\* The partial frame has the form of a frame's beginning, and `escaped` is
\* what its bytes say.
WellFormed(p) ==
    /\ Len(p.buffer) <= MaxFrameSize
    /\ Pending(p) => /\ p.buffer[1] = START
                     /\ Begin(p.buffer).open = p.escaped /\ ~ Begin(p.buffer).bad

LEMMA UnescapeAppend ==
    ASSUME NEW bytes \in Bytes, NEW b \in Byte
    PROVE  /\ Fold(UnescapeByte, NothingYet, bytes) \in Unescaping
           /\ Fold(UnescapeByte, NothingYet, Append(bytes, b))
                = UnescapeByte[Fold(UnescapeByte, NothingYet, bytes)][b]
<1>1. bytes \in Seq(Byte)
  BY DEF Bytes
<1>2. \A a \in Unescaping, c \in Byte : UnescapeByte[a][c] \in Unescaping
  BY UnescapeType
<1>3. NothingYet \in Unescaping
  BY UnescapeType
<1>4. Fold(UnescapeByte, NothingYet, bytes) \in Unescaping
  BY <1>1, <1>2, <1>3, FoldType
<1>5. Fold(UnescapeByte, NothingYet, Append(bytes, b))
        = UnescapeByte[Fold(UnescapeByte, NothingYet, bytes)][b]
  BY <1>1, <1>2, <1>3, FoldAppend
<1> QED
  BY <1>4, <1>5

LEMMA BeginAppend ==
    ASSUME NEW buffer \in Bytes, buffer # <<>>, NEW b \in Byte
    PROVE  /\ Begin(buffer) \in Unescaping
           /\ Begin(Append(buffer, b)) = UnescapeByte[Begin(buffer)][b]
<1>1. Tail(buffer) \in Bytes /\ Tail(Append(buffer, b)) = Append(Tail(buffer), b)
  BY DEF Bytes
<1> QED
  BY <1>1, UnescapeAppend DEF Begin

LEMMA UnescapeIs ==
    ASSUME NEW a \in Unescaping, NEW b \in Byte
    PROVE  /\ a.open => ~ UnescapeByte[a][b].open /\ UnescapeByte[a][b].bad = a.bad
           /\ ~ a.open => /\ UnescapeByte[a][b].open = (b = ESCAPE)
                          /\ UnescapeByte[a][b].bad = (a.bad \/ b = START \/ b = END)
BY DEF Unescaping, UnescapeByte

\* The cases of a round of feed: it raises, keeps the byte, or completes a frame.
LEMMA FeedByteIs ==
    ASSUME NEW p \in Feeding, NEW b \in Byte
    PROVE  LET buffer == Append(p.buffer, b)
               raised == [p EXCEPT !.ok = FALSE]
               q      == FeedByte[p][b]
           IN /\ ~ p.ok => q = p
              /\ p.ok /\ ~ Pending(p) =>
                   q = IF b = START THEN [p EXCEPT !.buffer = buffer, !.escaped = FALSE] ELSE raised
              /\ p.ok /\ Pending(p) =>
                   q = IF Len(buffer) > MaxFrameSize THEN raised
                       ELSE IF p.escaped THEN [p EXCEPT !.buffer = buffer, !.escaped = FALSE]
                       ELSE IF b = ESCAPE THEN [p EXCEPT !.buffer = buffer, !.escaped = TRUE]
                       ELSE IF b = START THEN raised
                       ELSE IF b # END THEN [p EXCEPT !.buffer = buffer, !.escaped = FALSE]
                       ELSE IF Decode(buffer) = None THEN raised
                       ELSE [p EXCEPT !.buffer = <<>>, !.escaped = FALSE,
                                      !.frames = Append(p.frames, Decode(buffer))]
<1>1. FeedByte[p][b] =
        LET buffer == Append(p.buffer, b)
            frame  == Decode(buffer)
            Into(bb, e) == [p EXCEPT !.buffer = bb, !.escaped = e]
            Raise  == [p EXCEPT !.ok = FALSE]
        IN IF ~p.ok THEN p
           ELSE IF ~Pending(p) THEN IF b = START THEN Into(buffer, FALSE) ELSE Raise
           ELSE IF TooLong(buffer) THEN Raise
           ELSE IF p.escaped THEN Into(buffer, FALSE)
           ELSE IF b = ESCAPE THEN Into(buffer, TRUE)
           ELSE IF b = START THEN Raise
           ELSE IF b # END THEN Into(buffer, FALSE)
           ELSE IF frame = None THEN Raise
           ELSE [Into(<<>>, FALSE) EXCEPT !.frames = Append(@, frame)]
  BY Zenon DEF FeedByte
<1> QED
  BY <1>1 DEF TooLong, Feeding

\* A round keeps the form of the partial frame, and the bytes: they are in the
\* buffer or in a frame that was decoded from them.
LEMMA FeedByteKeeps ==
    ASSUME NEW p \in Feeding, NEW b \in Byte, WellFormed(p)
    PROVE  LET buffer == Append(p.buffer, b)
               q      == FeedByte[p][b]
           IN /\ q \in Feeding /\ WellFormed(q)
              /\ q.ok =>
                  /\ p.ok
                  /\ \/ q.frames = p.frames /\ q.buffer = buffer
                     \/ /\ Decode(buffer) \in Frame /\ Decode(buffer).wire = buffer
                        /\ q.frames = Append(p.frames, Decode(buffer)) /\ q.buffer = <<>>
<1> DEFINE buffer == Append(p.buffer, b)
           q      == FeedByte[p][b]
           Kept(e) == [p EXCEPT !.buffer = buffer, !.escaped = e]
           Raised == [p EXCEPT !.ok = FALSE]
           Completed == [p EXCEPT !.buffer = <<>>, !.escaped = FALSE,
                                  !.frames = Append(p.frames, Decode(buffer))]
<1>1. /\ p.buffer \in Bytes /\ buffer \in Bytes /\ buffer # <<>>
      /\ Len(buffer) = Len(p.buffer) + 1 /\ Len(p.buffer) \in Nat /\ MaxFrameSize \in Nat \ {0}
      /\ p.escaped \in BOOLEAN
  BY ConstantsAssumption DEF Feeding, Bytes
<1>2. p.buffer # <<>> => buffer[1] = p.buffer[1]
  BY <1>1 DEF Bytes
<1>3. p.buffer = <<>> => buffer = <<b>>
  BY <1>1 DEF Bytes
<1>4. CASE ~ p.ok
  BY <1>4, FeedByteIs
<1>5. CASE p.ok /\ q = Raised
  <2>1. q \in Feeding /\ q.buffer = p.buffer /\ q.escaped = p.escaped /\ ~ q.ok
    BY <1>5 DEF Feeding
  <2> QED
    BY <2>1 DEF WellFormed, Pending
<1>6. CASE p.ok /\ ~ Pending(p) /\ b = START /\ q = Kept(FALSE)
  <2>1. q \in Feeding /\ q.buffer = buffer /\ q.escaped = FALSE /\ q.frames = p.frames
    BY <1>1, <1>6 DEF Feeding
  <2>2. Tail(buffer) = <<>> /\ buffer[1] = START /\ Len(buffer) = 1
    BY <1>3, <1>6 DEF Pending
  <2> HIDE DEF buffer, q
  <2>3. Begin(buffer) = NothingYet
    BY <2>2, FoldEmpty DEF Begin
  <2>4. Begin(buffer).open = FALSE /\ Begin(buffer).bad = FALSE
    BY <2>3 DEF NothingYet
  <2> QED
    <3>1. Len(q.buffer) <= MaxFrameSize
      <4>1. 1 <= MaxFrameSize
        BY ConstantsAssumption
      <4> QED
        BY <2>1, <2>2, <4>1, Zenon
    <3>2. WellFormed(q)
      BY <2>1, <2>2, <2>4, <3>1, Zenon DEF WellFormed
    <3> QED
      BY <1>6, <2>1, <3>2, Zenon DEF q, buffer
<1>7. ASSUME NEW e \in BOOLEAN, p.ok, Pending(p), ~ (Len(buffer) > MaxFrameSize), q = Kept(e),
             p.escaped => ~ e,
             ~ p.escaped => e = (b = ESCAPE) /\ b # START /\ b # END
      PROVE  /\ q \in Feeding /\ WellFormed(q) /\ p.ok
             /\ q.frames = p.frames /\ q.buffer = buffer
  <2>1. q \in Feeding /\ q.buffer = buffer /\ q.escaped = e /\ q.frames = p.frames
    BY <1>1, <1>7 DEF Feeding
  <2>2. Begin(p.buffer) \in Unescaping /\ Begin(buffer) = UnescapeByte[Begin(p.buffer)][b]
    BY <1>1, <1>7, BeginAppend DEF Pending
  <2>3. Begin(buffer).open = e /\ ~ Begin(buffer).bad
    <3>1. Begin(p.buffer).open = p.escaped /\ ~ Begin(p.buffer).bad
      BY <1>7 DEF WellFormed
    <3> DEFINE u == UnescapeByte[Begin(p.buffer)][b]
    <3>2. /\ p.escaped => ~ u.open /\ u.bad = Begin(p.buffer).bad
          /\ ~ p.escaped => /\ u.open = (b = ESCAPE)
                            /\ u.bad = (Begin(p.buffer).bad \/ b = START \/ b = END)
      BY <2>2, <3>1, UnescapeIs
    <3>3. u \in Unescaping
      BY <2>2, UnescapeType
    <3>4. u.open \in BOOLEAN /\ u.bad \in BOOLEAN
      BY <3>3 DEF Unescaping
    <3> HIDE DEF u
    <3>5. u.open = e /\ ~ u.bad
      BY <1>1, <1>7, <3>1, <3>2, <3>4, Zenon
    <3> QED
      BY <2>2, <3>5, Zenon DEF u
  <2>4. buffer[1] = START
    BY <1>2, <1>7 DEF WellFormed, Pending
  <2> QED
    BY <1>1, <1>7, <2>1, <2>3, <2>4 DEF WellFormed
<1>8. CASE p.ok /\ Decode(buffer) # None /\ q = Completed
  <2>1. Decode(buffer) \in Frame /\ Decode(buffer).wire = buffer
    BY <1>1, <1>8, DecodeType
  <2>2. q \in Feeding /\ q.buffer = <<>> /\ q.frames = Append(p.frames, Decode(buffer))
    <3>1. <<>> \in Bytes /\ Append(p.frames, Decode(buffer)) \in Seq(Frame)
      BY <2>1 DEF Bytes, Feeding
    <3> QED
      BY <1>8, <3>1 DEF Feeding
  <2> QED
    BY <1>1, <1>8, <2>1, <2>2 DEF WellFormed, Pending
<1>9. CASE p.ok /\ ~ Pending(p)
  <2>1. q = IF b = START THEN Kept(FALSE) ELSE Raised
    BY <1>9, FeedByteIs
  <2>2. CASE b = START
    <3>1. q = Kept(FALSE)
      BY <2>1, <2>2
    <3> QED
      BY <1>6, <1>9, <2>2, <3>1, Zenon
  <2>3. CASE b # START
    <3>1. q = Raised
      BY <2>1, <2>3
    <3> QED
      BY <1>5, <1>9, <3>1, Zenon
  <2> QED
    BY <2>2, <2>3
<1>10. CASE p.ok /\ Pending(p)
  <2>1. q = Raised \/ (Decode(buffer) # None /\ q = Completed) \/
        \E e \in BOOLEAN :
            /\ ~ (Len(buffer) > MaxFrameSize) /\ q = Kept(e)
            /\ p.escaped => ~ e
            /\ ~ p.escaped => e = (b = ESCAPE) /\ b # START /\ b # END
    <3>1. ESCAPE # START /\ ESCAPE # END
      BY DEF ESCAPE, START, END
    <3>2. q = IF Len(buffer) > MaxFrameSize THEN Raised
              ELSE IF p.escaped THEN Kept(FALSE)
              ELSE IF b = ESCAPE THEN Kept(TRUE)
              ELSE IF b = START THEN Raised
              ELSE IF b # END THEN Kept(FALSE)
              ELSE IF Decode(buffer) = None THEN Raised
              ELSE Completed
      BY <1>10, FeedByteIs
    <3> HIDE DEF buffer, q, Raised, Completed, Kept
    <3>3. CASE Len(buffer) > MaxFrameSize
      BY <3>2, <3>3
    <3>4. CASE ~ (Len(buffer) > MaxFrameSize) /\ p.escaped
      BY <3>2, <3>4
    <3>5. CASE ~ (Len(buffer) > MaxFrameSize) /\ ~ p.escaped /\ b = ESCAPE
      BY <3>1, <3>2, <3>5
    <3>6. CASE ~ (Len(buffer) > MaxFrameSize) /\ ~ p.escaped /\ b # ESCAPE
      BY <3>2, <3>6
    <3> QED
      BY <3>3, <3>4, <3>5, <3>6
  <2> QED
    BY <1>5, <1>7, <1>8, <1>10, <2>1
<1> QED
  BY <1>4, <1>9, <1>10

\* Once there was a delimiter where it may not be, unescaping has failed.
LEMMA BadStays ==
    ASSUME NEW bytes \in Bytes, NEW more \in Bytes, Fold(UnescapeByte, NothingYet, bytes).bad
    PROVE  Fold(UnescapeByte, NothingYet, bytes \o more).bad
<1> DEFINE S == {m \in Bytes : Fold(UnescapeByte, NothingYet, bytes \o m).bad}
<1>1. <<>> \in S
  <2>1. <<>> \in Bytes /\ bytes \o <<>> = bytes
    BY DEF Bytes
  <2> QED
    BY <2>1
<1>2. ASSUME NEW m \in Seq(Byte), NEW b \in Byte, m \in S PROVE Append(m, b) \in S
  <2>1. bytes \o m \in Bytes /\ bytes \o Append(m, b) = Append(bytes \o m, b) /\ Append(m, b) \in Bytes
    BY DEF Bytes
  <2> DEFINE a == Fold(UnescapeByte, NothingYet, bytes \o m)
  <2>2. a \in Unescaping /\ a.bad
        /\ Fold(UnescapeByte, NothingYet, Append(bytes \o m, b)) = UnescapeByte[a][b]
    BY <1>2, <2>1, UnescapeAppend
  <2> HIDE DEF a
  <2>3. UnescapeByte[a][b].bad
    BY <2>2, UnescapeIs DEF Unescaping
  <2>4. Fold(UnescapeByte, NothingYet, bytes \o Append(m, b)).bad
    BY <2>1, <2>2, <2>3
  <2> QED
    BY <2>1, <2>4
<1> HIDE DEF S
<1>3. more \in S
  BY <1>1, <1>2, Appending DEF Bytes
<1> QED
  BY <1>3 DEF S

LEMMA OneMore ==
    ASSUME NEW B, NEW w \in Seq(B), NEW n \in 0..(Len(w) - 1)
    PROVE  /\ Append(SubSeq(w, 1, n), w[n + 1]) = SubSeq(w, 1, n + 1)
           /\ Len(SubSeq(w, 1, n)) = n /\ SubSeq(w, 1, n) \in Seq(B) /\ w[n + 1] \in B
<1>1. /\ SubSeq(w, 1, n) \in Seq(B) /\ Len(SubSeq(w, 1, n)) = n /\ w[n + 1] \in B
      /\ \A i \in 1..n : SubSeq(w, 1, n)[i] = w[i]
  OBVIOUS
<1>2. /\ SubSeq(w, 1, n + 1) \in Seq(B) /\ Len(SubSeq(w, 1, n + 1)) = n + 1
      /\ \A i \in 1..(n + 1) : SubSeq(w, 1, n + 1)[i] = w[i]
  OBVIOUS
<1> DEFINE s == SubSeq(w, 1, n)
           t == SubSeq(w, 1, n + 1)
           b == w[n + 1]
<1> HIDE DEF s, t, b
<1>3. /\ s \in Seq(B) /\ Len(s) = n /\ t \in Seq(B) /\ Len(t) = n + 1 /\ b \in B /\ n \in Nat
      /\ \A i \in 1..n : s[i] = t[i] /\ t[n + 1] = b
  BY <1>1, <1>2 DEF s, t, b
<1>4. /\ Append(s, b) \in Seq(B) /\ Len(Append(s, b)) = n + 1
      /\ \A i \in 1..n : Append(s, b)[i] = s[i]
      /\ Append(s, b)[n + 1] = b
  BY <1>3
<1>5. t[n + 1] = b
  BY <1>2 DEF t, b
<1>6. ASSUME NEW i \in 1..(n + 1) PROVE Append(s, b)[i] = t[i]
  <2>1. CASE i \in 1..n
    BY <1>3, <1>4, <2>1
  <2>2. CASE i = n + 1
    BY <1>4, <1>5, <2>2, Zenon
  <2> QED
    BY <1>3, <2>1, <2>2
<1>7. Append(s, b) = t
  BY <1>3, <1>4, <1>6, SeqEqual
<1> QED
  BY <1>1, <1>7 DEF s, t, b

\* The bytes of a frame that decode accepts: a parser that has read some of
\* them reads the next, and completes just this frame with the last of them.
LEMMA FeedByteAccepts ==
    ASSUME NEW p \in Feeding, WellFormed(p), p.ok,
           NEW w \in Bytes, Decode(w) # None,
           NEW n \in 0..(Len(w) - 1), p.buffer = SubSeq(w, 1, n)
    PROVE  LET q == FeedByte[p][w[n + 1]]
           IN /\ q.ok
              /\ n + 1 < Len(w) => q.frames = p.frames /\ q.buffer = Append(p.buffer, w[n + 1])
              /\ n + 1 = Len(w) => q.frames = Append(p.frames, Decode(w)) /\ q.buffer = <<>>
<1> DEFINE b == w[n + 1]
           q == FeedByte[p][b]
           buffer == Append(p.buffer, b)
           Kept(e) == [p EXCEPT !.buffer = buffer, !.escaped = e]
<1>1. /\ w \in Seq(Byte) /\ Len(w) \in Nat /\ n \in Nat /\ n + 1 <= Len(w) /\ b \in Byte
      /\ p.buffer \in Bytes /\ Len(p.buffer) = n /\ buffer = SubSeq(w, 1, n + 1)
      /\ p.escaped \in BOOLEAN
  <2>1. w \in Seq(Byte)
    BY DEF Bytes
  <2>2. /\ Append(SubSeq(w, 1, n), w[n + 1]) = SubSeq(w, 1, n + 1)
        /\ Len(SubSeq(w, 1, n)) = n /\ w[n + 1] \in Byte
    BY <2>1, OneMore
  <2>3. p.buffer \in Bytes /\ p.escaped \in BOOLEAN
    BY DEF Feeding
  <2>4. Len(w) \in Nat /\ n \in Nat /\ n + 1 <= Len(w)
    BY <2>1
  <2> QED
    BY <2>1, <2>2, <2>3, <2>4
<1>2. /\ Len(w) <= MaxFrameSize /\ MaxFrameSize \in Nat /\ ~ Inner(w).open /\ ~ Inner(w).bad
      /\ w[1] = START /\ w[Len(w)] = END
  BY DecodeType, ConstantsAssumption DEF Delimited
<1>3. START # END /\ END # ESCAPE
  BY DEF START, END, ESCAPE
<1>4. Pending(p) <=> n # 0
  BY <1>1 DEF Pending, Bytes
<1>5. Len(buffer) = n + 1
  BY <1>1 DEF Bytes
<1> HIDE DEF b, q, buffer
<1>6. CASE n = 0
  <2>1. b = START /\ n + 1 < Len(w)
    BY <1>1, <1>2, <1>3, <1>6 DEF b
  <2>2. q = Kept(FALSE)
    BY <1>1, <1>4, <1>6, <2>1, FeedByteIs, Zenon DEF q, buffer
  <2>3. q.ok /\ q.frames = p.frames /\ q.buffer = buffer
    BY <2>2 DEF Feeding
  <2> QED
    BY <1>1, <2>1, <2>3 DEF q, b, buffer
<1>7. CASE n # 0
  <2>1. /\ Begin(p.buffer).open = p.escaped /\ p.buffer # <<>>
        /\ Begin(p.buffer) \in Unescaping /\ Begin(buffer) = UnescapeByte[Begin(p.buffer)][b]
    BY <1>1, <1>4, <1>7, BeginAppend DEF WellFormed, Pending, buffer
  <2>2. q = IF p.escaped THEN Kept(FALSE)
            ELSE IF b = ESCAPE THEN Kept(TRUE)
            ELSE IF b = START THEN [p EXCEPT !.ok = FALSE]
            ELSE IF b # END THEN Kept(FALSE)
            ELSE IF Decode(buffer) = None THEN [p EXCEPT !.ok = FALSE]
            ELSE [p EXCEPT !.buffer = <<>>, !.escaped = FALSE,
                           !.frames = Append(p.frames, Decode(buffer))]
    <3>1. ~ (Len(buffer) > MaxFrameSize)
      BY <1>1, <1>2, <1>5
    <3>2. q = IF Len(buffer) > MaxFrameSize THEN [p EXCEPT !.ok = FALSE]
              ELSE IF p.escaped THEN Kept(FALSE)
              ELSE IF b = ESCAPE THEN Kept(TRUE)
              ELSE IF b = START THEN [p EXCEPT !.ok = FALSE]
              ELSE IF b # END THEN Kept(FALSE)
              ELSE IF Decode(buffer) = None THEN [p EXCEPT !.ok = FALSE]
              ELSE [p EXCEPT !.buffer = <<>>, !.escaped = FALSE,
                             !.frames = Append(p.frames, Decode(buffer))]
      BY <1>1, <1>4, <1>7, FeedByteIs, Zenon DEF q, buffer
    <3> QED
      BY <3>1, <3>2
  <2>3. CASE n + 1 < Len(w)
    <3>1. ASSUME ~ p.escaped PROVE b # START /\ b # END
      <4> SUFFICES ASSUME b = START \/ b = END PROVE FALSE
        OBVIOUS
      <4>1. Begin(buffer).bad
        <5>1. ~ Begin(p.buffer).open
          BY <2>1, <3>1
        <5>2. UnescapeByte[Begin(p.buffer)][b].bad = (Begin(p.buffer).bad \/ b = START \/ b = END)
          BY <1>1, <2>1, <5>1, UnescapeIs
        <5> QED
          BY <2>1, <5>2
      <4> DEFINE x == Tail(buffer)
                 y == SubSeq(w, n + 2, Len(w) - 1)
      <4>2. x \in Bytes /\ y \in Bytes /\ SubSeq(w, 2, Len(w) - 1) = x \o y
        <5>1. x = SubSeq(w, 2, n + 1)
          BY <1>1, <1>7
        <5>2. SubSeq(w, 2, Len(w) - 1) = SubSeq(w, 2, n + 1) \o SubSeq(w, n + 2, Len(w) - 1)
          <6>1. /\ 2 \in 1..(Len(w) + 1) /\ n + 1 \in (2 - 1)..Len(w)
                /\ Len(w) - 1 \in (n + 1)..Len(w) /\ (n + 1) + 1 = n + 2
            BY <1>1, <1>7, <2>3
          <6> QED
            BY <1>1, <6>1, ConcatAdjacentSubSeq
        <5>3. x \in Bytes /\ y \in Bytes
          BY <1>1, <5>1 DEF Bytes
        <5> QED
          BY <5>1, <5>2, <5>3
      <4> HIDE DEF x, y
      <4>3. Fold(UnescapeByte, NothingYet, x).bad
        BY <4>1, Zenon DEF Begin, x
      <4>4. Inner(w).bad
        BY <4>2, <4>3, BadStays DEF Inner
      <4> QED
        BY <1>2, <4>4
    <3>2. q = Kept(FALSE) \/ q = Kept(TRUE)
      BY <2>2, <3>1
    <3>3. q.ok /\ q.frames = p.frames /\ q.buffer = buffer
      BY <3>2 DEF Feeding
    <3> QED
      BY <1>1, <2>3, <3>3 DEF q, b, buffer
  <2>4. CASE n + 1 = Len(w)
    <3>1. b = END /\ buffer = w
      BY <1>1, <1>2, <2>4 DEF b
    <3>2. ~ p.escaped
      <4>1. Tail(p.buffer) = SubSeq(w, 2, Len(w) - 1)
        BY <1>1, <1>7, <2>4
      <4>2. Begin(p.buffer) = Inner(w)
        BY <4>1, Zenon DEF Begin, Inner
      <4> QED
        BY <1>2, <2>1, <4>2
    <3>3. q = [p EXCEPT !.buffer = <<>>, !.escaped = FALSE, !.frames = Append(p.frames, Decode(w))]
      BY <1>3, <2>2, <3>1, <3>2
    <3>4. q.ok /\ q.frames = Append(p.frames, Decode(w)) /\ q.buffer = <<>>
      BY <3>3 DEF Feeding
    <3> QED
      BY <1>1, <2>4, <3>4 DEF q, b
  <2> QED
    <3>1. n + 1 < Len(w) \/ n + 1 = Len(w)
      BY <1>1
    <3> QED
      BY <2>3, <2>4, <3>1, Zenon
<1> QED
  BY <1>6, <1>7

-----------------------------------------------------------------------------
(* What the checksum detects.                                               *)

LEMMA WordIs == \A n : n \in Word <=> n \in Nat /\ n < 65536
<1>1. WordMax = 65535
  BY DEF WordMax
<1>2. \A n : n \in Word <=> n \in Nat /\ n <= 65535
  BY <1>1, Words
<1>3. \A n \in Nat : n <= 65535 <=> n < 65536
  OBVIOUS
<1> QED
  BY <1>2, <1>3

\* Numbers that are equal have the same four lowest bits and the same rest.
LEMMA LowBits ==
    ASSUME NEW x1 \in {0, 1}, NEW x2 \in {0, 1}, NEW x4 \in {0, 1}, NEW x8 \in {0, 1}, NEW x \in Nat,
           NEW y1 \in {0, 1}, NEW y2 \in {0, 1}, NEW y4 \in {0, 1}, NEW y8 \in {0, 1}, NEW y \in Nat,
           x1 + 2 * x2 + 4 * x4 + 8 * x8 + 16 * x = y1 + 2 * y2 + 4 * y4 + 8 * y8 + 16 * y
    PROVE  x1 = y1 /\ x2 = y2 /\ x4 = y4 /\ x8 = y8 /\ x = y
OBVIOUS

\* And so the same sixteen.
Weights == {1, 2, 4, 8, 16, 32, 64, 128, 256, 512, 1024, 2048, 4096, 8192, 16384, 32768}

\* The number with these bits.
Valued(f) == 1 * f[1] + 2 * f[2] + 4 * f[4] + 8 * f[8] + 16 * f[16] + 32 * f[32] + 64 * f[64]
               + 128 * f[128] + 256 * f[256] + 512 * f[512] + 1024 * f[1024] + 2048 * f[2048]
               + 4096 * f[4096] + 8192 * f[8192] + 16384 * f[16384] + 32768 * f[32768]

\* Four of the bits.
Nibble(f, w) == f[w] + 2 * f[2 * w] + 4 * f[4 * w] + 8 * f[8 * w]

LEMMA Nested ==
    ASSUME NEW f \in [Weights -> {0, 1}]
    PROVE  /\ \A w \in {1, 16, 256, 4096} : Nibble(f, w) \in Nat
           /\ Valued(f) = Nibble(f, 1) + 16 * (Nibble(f, 16) + 16 * (Nibble(f, 256) + 16 * Nibble(f, 4096)))
<1> DEFINE n(w) == Nibble(f, w)
<1>1. \A w \in Weights : f[w] \in Nat /\ f[w] \in Int
  OBVIOUS
<1>2. \A w \in {1, 16, 256, 4096} : n(w) \in Nat
  BY <1>1 DEF Nibble, Weights
<1>3. 16 * n(16) = 16 * f[16] + 32 * f[32] + 64 * f[64] + 128 * f[128]
  BY <1>1 DEF Nibble, Weights
<1>4. 256 * n(256) = 256 * f[256] + 512 * f[512] + 1024 * f[1024] + 2048 * f[2048]
  BY <1>1 DEF Nibble, Weights
<1>5. 4096 * n(4096) = 4096 * f[4096] + 8192 * f[8192] + 16384 * f[16384] + 32768 * f[32768]
  BY <1>1 DEF Nibble, Weights
<1>6. n(1) = 1 * f[1] + 2 * f[2] + 4 * f[4] + 8 * f[8]
  BY <1>1 DEF Nibble, Weights
<1> HIDE DEF n
<1>7. Valued(f) = n(1) + 16 * n(16) + 256 * n(256) + 4096 * n(4096)
  BY <1>1, <1>2, <1>3, <1>4, <1>5, <1>6 DEF Valued, Weights
<1>8. Valued(f) = n(1) + 16 * (n(16) + 16 * (n(256) + 16 * n(4096)))
  BY <1>2, <1>7
<1> QED
  BY <1>2, <1>8 DEF n

LEMMA SumBits ==
    ASSUME NEW f \in [Weights -> {0, 1}], NEW g \in [Weights -> {0, 1}], Valued(f) = Valued(g)
    PROVE  f = g
<1> DEFINE a3 == Nibble(f, 4096)
           a2 == Nibble(f, 256) + 16 * a3
           a1 == Nibble(f, 16) + 16 * a2
           b3 == Nibble(g, 4096)
           b2 == Nibble(g, 256) + 16 * b3
           b1 == Nibble(g, 16) + 16 * b2
<1>1. \A w \in Weights : f[w] \in {0, 1} /\ g[w] \in {0, 1}
  OBVIOUS
<1>2. \A w \in {1, 16, 256, 4096} : Nibble(f, w) \in Nat /\ Nibble(g, w) \in Nat
  BY Nested
<1>3. Nibble(f, 1) + 16 * a1 = Nibble(g, 1) + 16 * b1
  <2>1. Valued(f) = Nibble(f, 1) + 16 * a1
    BY Nested
  <2>2. Valued(g) = Nibble(g, 1) + 16 * b1
    BY Nested
  <2> HIDE DEF a1, b1
  <2> QED
    BY <2>1, <2>2
<1>4. a1 \in Nat /\ b1 \in Nat /\ a2 \in Nat /\ b2 \in Nat /\ a3 \in Nat /\ b3 \in Nat
  BY <1>2
<1>5. \A w \in {1, 16, 256, 4096} : \A m, n \in Nat :
          Nibble(f, w) + 16 * m = Nibble(g, w) + 16 * n =>
              /\ f[w] = g[w] /\ f[2 * w] = g[2 * w] /\ f[4 * w] = g[4 * w] /\ f[8 * w] = g[8 * w]
              /\ m = n
  <2> SUFFICES ASSUME NEW w \in {1, 16, 256, 4096}, NEW m \in Nat, NEW n \in Nat,
                      Nibble(f, w) + 16 * m = Nibble(g, w) + 16 * n
               PROVE  /\ f[w] = g[w] /\ f[2 * w] = g[2 * w] /\ f[4 * w] = g[4 * w] /\ f[8 * w] = g[8 * w]
                      /\ m = n
    OBVIOUS
  <2>1. w \in Weights /\ 2 * w \in Weights /\ 4 * w \in Weights /\ 8 * w \in Weights
    BY DEF Weights
  <2> QED
    BY <1>1, <2>1, LowBits DEF Nibble
<1> HIDE DEF a1, b1
<1>6. f[1] = g[1] /\ f[2] = g[2] /\ f[4] = g[4] /\ f[8] = g[8] /\ a1 = b1
  BY <1>3, <1>4, <1>5
<1> HIDE DEF a2, b2
<1>7. f[16] = g[16] /\ f[32] = g[32] /\ f[64] = g[64] /\ f[128] = g[128] /\ a2 = b2
  <2>1. Nibble(f, 16) + 16 * a2 = Nibble(g, 16) + 16 * b2
    BY <1>6 DEF a1, b1
  <2> QED
    BY <1>4, <1>5, <2>1
<1> HIDE DEF a3, b3
<1>8. f[256] = g[256] /\ f[512] = g[512] /\ f[1024] = g[1024] /\ f[2048] = g[2048] /\ a3 = b3
  <2>1. Nibble(f, 256) + 16 * a3 = Nibble(g, 256) + 16 * b3
    BY <1>7 DEF a2, b2
  <2> QED
    BY <1>4, <1>5, <2>1
<1>9. f[4096] = g[4096] /\ f[8192] = g[8192] /\ f[16384] = g[16384] /\ f[32768] = g[32768]
  <2>1. Nibble(f, 4096) + 16 * 0 = Nibble(g, 4096) + 16 * 0
    BY <1>8 DEF a3, b3
  <2> QED
    BY <1>5, <2>1
<1> QED
  BY <1>6, <1>7, <1>8, <1>9 DEF Weights

\* A word is known by its sixteen bits.
LEMMA BitsAreWord ==
    ASSUME NEW a \in Word, NEW b \in Word,
           \A w \in Weights : (a \div w) % 2 = (b \div w) % 2
    PROVE  a = b
<1> USE DEF Weights
<1>1. a \in Nat /\ b \in Nat /\ a < 65536 /\ b < 65536
  BY WordIs
<1>2. \A n \in Nat : n = (n % 2) + 2 * (n \div 2) /\ n \div 2 \in Nat
  OBVIOUS
<1>3. \A n \in Nat :
        /\ n \div 1 = n /\ (n \div 2) \div 2 = n \div 4 /\ (n \div 4) \div 2 = n \div 8
        /\ (n \div 8) \div 2 = n \div 16 /\ (n \div 16) \div 2 = n \div 32
        /\ (n \div 32) \div 2 = n \div 64 /\ (n \div 64) \div 2 = n \div 128
        /\ (n \div 128) \div 2 = n \div 256 /\ (n \div 256) \div 2 = n \div 512
        /\ (n \div 512) \div 2 = n \div 1024 /\ (n \div 1024) \div 2 = n \div 2048
        /\ (n \div 2048) \div 2 = n \div 4096 /\ (n \div 4096) \div 2 = n \div 8192
        /\ (n \div 8192) \div 2 = n \div 16384 /\ (n \div 16384) \div 2 = n \div 32768
        /\ (n \div 32768) \div 2 = n \div 65536
  OBVIOUS
<1>4. \A w \in Nat \ {0} : a \div w \in Nat /\ b \div w \in Nat
  BY <1>1
<1>5. a \div 65536 = b \div 65536
  BY <1>1
<1> DEFINE p(w) == a \div w
           q(w) == b \div w
           Same(w) == p(w) = q(w)
<1>6. \A w \in Weights : p(w) \in Nat /\ q(w) \in Nat /\ p(w) % 2 = q(w) % 2
  BY <1>4
<1>7. \A w \in Weights : p(w) \div 2 = q(w) \div 2 => Same(w)
  <2> HIDE DEF p, q
  <2> QED
    BY <1>2, <1>6
<1>8. /\ p(32768) \div 2 = p(65536) /\ p(16384) \div 2 = p(32768) /\ p(8192) \div 2 = p(16384)
      /\ p(4096) \div 2 = p(8192) /\ p(2048) \div 2 = p(4096) /\ p(1024) \div 2 = p(2048)
      /\ p(512) \div 2 = p(1024) /\ p(256) \div 2 = p(512) /\ p(128) \div 2 = p(256)
      /\ p(64) \div 2 = p(128) /\ p(32) \div 2 = p(64) /\ p(16) \div 2 = p(32)
      /\ p(8) \div 2 = p(16) /\ p(4) \div 2 = p(8) /\ p(2) \div 2 = p(4) /\ p(1) = a
      /\ a \div 2 = p(2)
  BY <1>1, <1>3
<1>9. /\ q(32768) \div 2 = q(65536) /\ q(16384) \div 2 = q(32768) /\ q(8192) \div 2 = q(16384)
      /\ q(4096) \div 2 = q(8192) /\ q(2048) \div 2 = q(4096) /\ q(1024) \div 2 = q(2048)
      /\ q(512) \div 2 = q(1024) /\ q(256) \div 2 = q(512) /\ q(128) \div 2 = q(256)
      /\ q(64) \div 2 = q(128) /\ q(32) \div 2 = q(64) /\ q(16) \div 2 = q(32)
      /\ q(8) \div 2 = q(16) /\ q(4) \div 2 = q(8) /\ q(2) \div 2 = q(4) /\ q(1) = b
      /\ b \div 2 = q(2)
  BY <1>1, <1>3
<1> HIDE DEF p, q
<1>10. Same(32768) /\ Same(16384) /\ Same(8192) /\ Same(4096)
  BY <1>5, <1>7, <1>8, <1>9 DEF p, q
<1>11. Same(2048) /\ Same(1024) /\ Same(512) /\ Same(256)
  BY <1>7, <1>8, <1>9, <1>10
<1>12. Same(128) /\ Same(64) /\ Same(32) /\ Same(16)
  BY <1>7, <1>8, <1>9, <1>11
<1>13. Same(8) /\ Same(4) /\ Same(2) /\ Same(1)
  BY <1>7, <1>8, <1>9, <1>12
<1> QED
  BY <1>8, <1>9, <1>13

LEMMA XorValued ==
    ASSUME NEW a \in Nat, NEW b \in Nat
    PROVE  Xor(a, b) = Valued([w \in Weights |-> (a \div w + b \div w) % 2])
<1> DEFINE f == [w \in Weights |-> (a \div w + b \div w) % 2]
           at(w) == w * ((a \div w + b \div w) % 2)
<1>1. Xor(a, b) = at(1) + at(2) + at(4) + at(8) + at(16) + at(32) + at(64) + at(128) + at(256) + at(512)
                    + at(1024) + at(2048) + at(4096) + at(8192) + at(16384) + at(32768)
  BY DEF Xor
<1>2. \A w \in Weights : w * f[w] = at(w)
  OBVIOUS
<1> HIDE DEF f, at
<1>3. Valued(f) = at(1) + at(2) + at(4) + at(8) + at(16) + at(32) + at(64) + at(128) + at(256) + at(512)
                    + at(1024) + at(2048) + at(4096) + at(8192) + at(16384) + at(32768)
  BY <1>2 DEF Valued, Weights
<1> QED
  BY <1>1, <1>3 DEF f

\* The bits of two numbers are the same if those of their XOR with a third are.
LEMMA XorBits ==
    ASSUME NEW a \in Nat, NEW b \in Nat, NEW c \in Nat, Xor(a, c) = Xor(b, c)
    PROVE  \A w \in Weights : (a \div w) % 2 = (b \div w) % 2
<1> DEFINE x(w) == (a \div w + c \div w) % 2
           y(w) == (b \div w + c \div w) % 2
<1>1. \A w \in Nat \ {0} : x(w) \in {0, 1} /\ y(w) \in {0, 1}
  <2>1. \A n \in Nat : n % 2 \in {0, 1}
    OBVIOUS
  <2>2. \A w \in Nat \ {0} : (a \div w + c \div w) \in Nat /\ (b \div w + c \div w) \in Nat
    OBVIOUS
  <2> QED
    BY <2>1, <2>2
<1>2. \A w \in Nat \ {0} : x(w) = y(w) => (a \div w) % 2 = (b \div w) % 2
  <2>1. \A k, m, n \in Nat : (m + k) % 2 = (n + k) % 2 => m % 2 = n % 2
    OBVIOUS
  <2>2. \A w \in Nat \ {0} : a \div w \in Nat /\ b \div w \in Nat /\ c \div w \in Nat
    OBVIOUS
  <2> QED
    BY <2>1, <2>2
<1> HIDE DEF x, y
<1>3. \A w \in Weights : x(w) \in {0, 1} /\ y(w) \in {0, 1}
  BY <1>1 DEF Weights
<1> DEFINE f == [w \in Weights |-> x(w)]
           g == [w \in Weights |-> y(w)]
<1>4. f \in [Weights -> {0, 1}] /\ g \in [Weights -> {0, 1}] /\ \A w \in Weights : f[w] = x(w) /\ g[w] = y(w)
  BY <1>3
<1>5. Valued(f) = Valued(g)
  <2>1. Xor(a, c) = Valued(f)
    BY XorValued DEF x
  <2>2. Xor(b, c) = Valued(g)
    BY XorValued DEF y
  <2> QED
    BY <2>1, <2>2
<1> HIDE DEF f, g
<1>6. f = g
  BY <1>4, <1>5, SumBits
<1>7. \A w \in Weights : x(w) = y(w)
  BY <1>4, <1>6
<1>8. \A w \in Weights : w \in Nat \ {0}
  BY DEF Weights
<1> QED
  BY <1>2, <1>7, <1>8 DEF x, y

\* Words that differ still do after each was XORed with the same number.
LEMMA XorKeeps ==
    ASSUME NEW a \in Word, NEW b \in Word, NEW c \in Nat, Xor(a, c) = Xor(b, c)
    PROVE  a = b
<1>1. a \in Nat /\ b \in Nat
  BY Words
<1> QED
  BY <1>1, XorBits, BitsAreWord

LEMMA XorTurns == ASSUME NEW a \in Nat, NEW b \in Nat PROVE Xor(a, b) = Xor(b, a)
<1>1. \A w \in Nat \ {0} : a \div w + b \div w = b \div w + a \div w
  OBVIOUS
<1> QED
  BY <1>1 DEF Xor

\* So they do after a shift, whose constant has the highest bit.
LEMMA ShiftKeeps ==
    ASSUME NEW v \in Word, NEW w \in Word, Shift[v] = Shift[w]
    PROVE  v = w
<1>1. v \in Nat /\ v < 65536 /\ w \in Nat /\ w < 65536
  BY WordIs
<1>2. \A n \in Nat : /\ n \div 2 \in Nat /\ n % 2 \in {0, 1} /\ n = (n % 2) + 2 * (n \div 2)
                     /\ n < 65536 => n \div 2 < 32768
  OBVIOUS
<1>3. \A n \in Nat : n < 32768 => Xor(n, 33800) >= 32768
  <2> SUFFICES ASSUME NEW n \in Nat, n < 32768 PROVE Xor(n, 33800) >= 32768
    OBVIOUS
  <2>1. \A k \in Nat \ {0} : (n \div k + 33800 \div k) % 2 \in Nat
    <3>1. \A k \in Nat \ {0} : n \div k \in Nat /\ 33800 \div k \in Nat
      OBVIOUS
    <3> QED
      BY <3>1
  <2>2. (n \div 32768 + 33800 \div 32768) % 2 = 1
    OBVIOUS
  <2> QED
    BY <2>1, <2>2 DEF Xor
<1> DEFINE m == v \div 2
           n == w \div 2
<1>4. /\ m \in Nat /\ m < 32768 /\ v % 2 \in {0, 1} /\ v = (v % 2) + 2 * m
      /\ n \in Nat /\ n < 32768 /\ w % 2 \in {0, 1} /\ w = (w % 2) + 2 * n
      /\ Xor(m, 33800) >= 32768 /\ Xor(n, 33800) >= 32768
  BY <1>1, <1>2, <1>3
<1>5. m \in Word /\ n \in Word
  BY <1>4, WordIs
<1>6. Xor(m, 33800) = Xor(n, 33800) => m = n
  BY <1>5, XorKeeps
<1> DEFINE r == v % 2
           s == w % 2
           x == Xor(m, 33800)
           y == Xor(n, 33800)
           h == 32768
<1>7. Shift[v] = IF r = 1 THEN x ELSE m
  BY <1>1 DEF Shift
<1>8. Shift[w] = IF s = 1 THEN y ELSE n
  BY <1>1 DEF Shift
<1>9. x \in Nat /\ y \in Nat /\ h \in Nat
  <2>1. 33800 \in Nat
    OBVIOUS
  <2> QED
    BY <1>4, <2>1, XorWord, Words
<1>10. r \in {0, 1} /\ s \in {0, 1} /\ m \in Nat /\ n \in Nat /\ m < h /\ n < h /\ h <= x /\ h <= y
       /\ (x = y => m = n) /\ v = r + 2 * m /\ w = s + 2 * n
  BY <1>4, <1>6, <1>9
<1> HIDE DEF m, n, r, s, x, y, h
<1>11. CASE r = s
  <2>1. r = 1 => x = y
    BY <1>7, <1>8, <1>11
  <2>2. r # 1 => m = n
    BY <1>7, <1>8, <1>11
  <2> QED
    BY <1>10, <1>11, <2>1, <2>2
<1>12. CASE r # s
  <2>1. \A k, l \in Nat : k < h /\ h <= l => k # l
    BY <1>9
  <2>2. x # n /\ m # y
    BY <1>9, <1>10, <2>1
  <2>3. (r = 1 /\ s # 1) \/ (r # 1 /\ s = 1)
    BY <1>10, <1>12
  <2> QED
    BY <1>7, <1>8, <2>2, <2>3
<1> QED
  BY <1>11, <1>12

\* A byte's turn of the register forgets neither the byte nor the register.
LEMMA CrcByteKeeps ==
    ASSUME NEW v \in Word, NEW w \in Word, NEW b \in Byte, NEW c \in Byte,
           CrcByte[v][b] = CrcByte[w][c]
    PROVE  (b = c => v = w) /\ (v = w => b = c)
<1>1. v \in Nat /\ w \in Nat /\ b \in Nat /\ c \in Nat /\ b \in Word /\ c \in Word
  BY WordIs DEF Byte
<1> DEFINE x == Xor(v, b)
           y == Xor(w, c)
<1>2. x \in Word /\ y \in Word
  BY <1>1, XorWord
<1>3. /\ CrcByte[v][b] = Shift[Shift[Shift[Shift[Shift[Shift[Shift[Shift[x]]]]]]]]
      /\ CrcByte[w][c] = Shift[Shift[Shift[Shift[Shift[Shift[Shift[Shift[y]]]]]]]]
  BY <1>1, Zenon DEF CrcByte
<1> HIDE DEF x, y
<1>4. x = y
  <2>1. \A a, d \in Word : Shift[a] \in Word /\ (Shift[a] = Shift[d] => a = d)
    BY ShiftWord, ShiftKeeps
  <2> DEFINE T(a) == Shift[Shift[a]]
  <2>2. \A a, d \in Word : T(a) \in Word /\ (T(a) = T(d) => a = d)
    BY <2>1
  <2>3. T(T(T(T(x)))) = T(T(T(T(y))))
    BY <1>3
  <2> HIDE DEF T
  <2>4. T(T(x)) \in Word /\ T(T(y)) \in Word /\ T(T(T(x))) \in Word /\ T(T(T(y))) \in Word
        /\ T(x) \in Word /\ T(y) \in Word
    BY <1>2, <2>2
  <2>5. T(T(x)) = T(T(y))
    BY <2>2, <2>3, <2>4
  <2> QED
    BY <1>2, <2>2, <2>4, <2>5
<1>5. ASSUME b = c PROVE v = w
  BY <1>1, <1>4, <1>5, XorKeeps DEF x, y
<1>6. ASSUME v = w PROVE b = c
  <2>1. Xor(b, v) = Xor(c, v)
    BY <1>1, <1>4, <1>6, XorTurns DEF x, y
  <2> QED
    BY <1>1, <2>1, XorKeeps
<1> QED
  BY <1>5, <1>6

\* The sequences are of one length and differ in just the m-th element.
DifferAt(m, x, y) ==
    /\ Len(x) = Len(y) /\ m \in 1..Len(x) /\ x[m] # y[m]
    /\ \A i \in 1..Len(x) : i # m => x[i] = y[i]

LEMMA DifferAppend ==
    ASSUME NEW B, NEW x \in Seq(B), NEW y \in Seq(B), NEW m, DifferAt(m, x, y), NEW d \in B
    PROVE  DifferAt(m, Append(x, d), Append(y, d))
<1> DEFINE n == Len(x)
           p == Append(x, d)
           q == Append(y, d)
<1>1. /\ Len(y) = n /\ n \in Nat /\ m \in 1..n /\ x[m] # y[m]
      /\ \A j \in 1..n : j # m => x[j] = y[j]
  BY DEF DifferAt
<1>2. Len(p) = n + 1 /\ p[n + 1] = d /\ \A j \in 1..n : p[j] = x[j]
  OBVIOUS
<1>3. Len(q) = n + 1 /\ q[n + 1] = d /\ \A j \in 1..n : q[j] = y[j]
  BY <1>1
<1> HIDE DEF n, p, q
<1>4. m \in 1..(n + 1) /\ \A j \in 1..(n + 1) : j \in 1..n \/ j = n + 1
  BY <1>1
<1>5. Len(p) = Len(q) /\ m \in 1..Len(p) /\ p[m] # q[m]
  BY <1>1, <1>2, <1>3, <1>4
<1>6. \A j \in 1..Len(p) : j # m => p[j] = q[j]
  BY <1>1, <1>2, <1>3, <1>4
<1> QED
  BY <1>5, <1>6 DEF DifferAt, p, q

\* The fold of a beginning and of one element more.
LEMMA FoldNext ==
    ASSUME NEW A, NEW B, NEW step, \A a \in A, b \in B : step[a][b] \in A,
           NEW base \in A, NEW seq \in Seq(B), NEW n \in 0..(Len(seq) - 1)
    PROVE  LET f(k) == Fold(step, base, SubSeq(seq, 1, k))
           IN f(n) \in A /\ f(n + 1) = step[f(n)][seq[n + 1]]
<1> DEFINE s == SubSeq(seq, 1, n)
<1>1. s \in Seq(B) /\ seq[n + 1] \in B /\ SubSeq(seq, 1, n + 1) = Append(s, seq[n + 1])
  BY OneMore
<1> HIDE DEF s
<1>2. Fold(step, base, s) \in A
  BY <1>1, FoldType
<1>3. Fold(step, base, Append(s, seq[n + 1])) = step[Fold(step, base, s)][seq[n + 1]]
  BY <1>1, FoldAppend
<1> QED
  BY <1>1, <1>2, <1>3 DEF s

\* The checksum tells apart what differs in one byte.
LEMMA CrcTells ==
    ASSUME NEW x \in Bytes, NEW y \in Bytes, NEW m, DifferAt(m, x, y)
    PROVE  Crc16(x) # Crc16(y)
<1> DEFINE f(k) == Fold(CrcByte, WordMax, SubSeq(x, 1, k))
           g(k) == Fold(CrcByte, WordMax, SubSeq(y, 1, k))
           S == {k \in Nat : k <= Len(x) => /\ f(k) \in Word /\ g(k) \in Word
                                            /\ f(k) = g(k) <=> k < m}
<1>1. x \in Seq(Byte) /\ y \in Seq(Byte) /\ Len(x) \in Nat /\ Len(y) = Len(x) /\ m \in 1..Len(x)
  BY DEF Bytes, DifferAt
<1>2. \A v \in Word, b \in Byte : CrcByte[v][b] \in Word
  <2> SUFFICES ASSUME NEW v \in Word, NEW b \in Byte PROVE CrcByte[v][b] \in Word
    OBVIOUS
  <2>1. v \in Nat /\ b \in Nat
    BY Words DEF Byte
  <2>2. Xor(v, b) \in Word
    BY <2>1, XorWord
  <2>3. CrcByte[v][b] = Shift[Shift[Shift[Shift[Shift[Shift[Shift[Shift[Xor(v, b)]]]]]]]]
    BY <2>1, Zenon DEF CrcByte
  <2> QED
    BY <2>2, <2>3, ShiftWord, Zenon
<1>3. WordMax \in Word
  BY Words DEF WordMax
<1>4. 0 \in S
  <2>1. SubSeq(x, 1, 0) = <<>> /\ SubSeq(y, 1, 0) = <<>>
    BY <1>1
  <2>2. f(0) = WordMax /\ g(0) = WordMax
    BY <2>1, FoldEmpty
  <2> HIDE DEF f, g
  <2> QED
    BY <1>1, <1>3, <2>2
<1>5. ASSUME NEW k \in Nat, k \in S PROVE k + 1 \in S
  <2> SUFFICES ASSUME k + 1 <= Len(x)
               PROVE  f(k + 1) \in Word /\ g(k + 1) \in Word /\ (f(k + 1) = g(k + 1) <=> k + 1 < m)
    BY <1>5
  <2> DEFINE b == x[k + 1]
             c == y[k + 1]
  <2>1. k \in 0..(Len(x) - 1) /\ k \in 0..(Len(y) - 1)
    BY <1>1
  <2>2. f(k + 1) = CrcByte[f(k)][b]
    BY <1>1, <1>2, <1>3, <2>1, FoldNext
  <2>3. g(k + 1) = CrcByte[g(k)][c]
    <3>1. y \in Seq(Byte) /\ k \in 0..(Len(y) - 1)
      BY <1>1, <2>1
    <3> QED
      BY <1>2, <1>3, <3>1, FoldNext
  <2>4. f(k) \in Word /\ g(k) \in Word /\ (f(k) = g(k) <=> k < m)
    BY <1>1, <1>5, <2>1
  <2>5. b \in Byte /\ c \in Byte /\ (b = c <=> k + 1 # m)
    BY <1>1, <2>1 DEF DifferAt
  <2> HIDE DEF f, g, b, c
  <2>6. f(k + 1) \in Word /\ g(k + 1) \in Word
    BY <1>2, <2>2, <2>3, <2>4, <2>5
  <2>7. CASE k + 1 < m
    <3>1. f(k) = g(k) /\ b = c
      BY <1>1, <2>4, <2>5, <2>7
    <3> QED
      BY <2>2, <2>3, <2>6, <2>7, <3>1
  <2>8. CASE k + 1 = m
    <3>1. f(k) = g(k) /\ b # c /\ ~ (k + 1 < m)
      BY <1>1, <2>4, <2>5, <2>8
    <3>2. CrcByte[f(k)][b] # CrcByte[g(k)][c]
      BY <2>4, <2>5, <3>1, CrcByteKeeps
    <3> QED
      BY <2>2, <2>3, <2>6, <3>1, <3>2, Zenon
  <2>9. CASE k + 1 > m
    <3>1. f(k) # g(k) /\ b = c /\ ~ (k + 1 < m)
      BY <1>1, <2>4, <2>5, <2>9
    <3>2. CrcByte[f(k)][b] # CrcByte[g(k)][c]
      BY <2>4, <2>5, <3>1, CrcByteKeeps
    <3> QED
      BY <2>2, <2>3, <2>6, <3>1, <3>2, Zenon
  <2> QED
    BY <1>1, <2>7, <2>8, <2>9
<1> HIDE DEF S
<1>6. \A k \in Nat : k \in S
  BY <1>4, <1>5, Induction
<1>7. Len(x) \in S
  BY <1>1, <1>6
<1>8. SubSeq(x, 1, Len(x)) = x /\ SubSeq(y, 1, Len(x)) = y
  BY <1>1
<1>9. f(Len(x)) \in Word /\ g(Len(x)) \in Word /\ f(Len(x)) # g(Len(x))
  <2> HIDE DEF f, g
  <2> QED
    BY <1>1, <1>7 DEF S
<1>10. Fold(CrcByte, WordMax, x) \in Nat /\ Fold(CrcByte, WordMax, y) \in Nat
       /\ Fold(CrcByte, WordMax, x) # Fold(CrcByte, WordMax, y)
  BY <1>8, <1>9, Words
<1>11. WordMax \in Nat
  BY DEF WordMax
<1> QED
  BY <1>10, <1>11 DEF Crc16

\* So decode accepts at most one of two bodies that differ in one byte, whatever
\* their length, the byte and where it is (calculate_crc, decode).
THEOREM CheckTells ==
    ASSUME NEW x \in Bytes, NEW y \in Bytes, NEW m, DifferAt(m, x, y), 2 <= Len(x), Check(x)
    PROVE  ~ Check(y)
<1> DEFINE n == Len(x)
           a == SubSeq(x, 1, n - 2)
           b == SubSeq(y, 1, n - 2)
<1>1. /\ x \in Seq(Byte) /\ y \in Seq(Byte) /\ n \in Nat /\ Len(x) = n /\ Len(y) = n /\ m \in 1..n /\ 2 <= n
      /\ x[m] # y[m] /\ \A i \in 1..n : i # m => x[i] = y[i]
  BY DEF Bytes, DifferAt
<1>2. /\ a \in Seq(Byte) /\ b \in Seq(Byte) /\ Len(a) = n - 2 /\ Len(b) = n - 2
      /\ \A i \in 1..(n - 2) : a[i] = x[i] /\ b[i] = y[i]
  BY <1>1
<1>3. /\ Check(x) <=> Crc16(a) = Joined(x[n - 1], x[n])
      /\ Check(y) <=> Crc16(b) = Joined(y[n - 1], y[n])
  BY <1>1 DEF Check
<1> HIDE DEF n, a, b
<1>4. CASE m \in 1..(n - 2)
  <2>1. DifferAt(m, a, b)
    BY <1>1, <1>2, <1>4 DEF DifferAt
  <2>2. Crc16(a) # Crc16(b)
    BY <1>2, <2>1, CrcTells DEF Bytes
  <2>3. x[n - 1] = y[n - 1] /\ x[n] = y[n]
    BY <1>1, <1>4
  <2> QED
    BY <1>3, <2>2, <2>3
<1>5. CASE m \in {n - 1, n}
  <2>1. \A i \in 1..(n - 2) : a[i] = b[i]
    BY <1>1, <1>2, <1>5
  <2>2. a = b
    BY <1>1, <1>2, <2>1, SeqEqual
  <2>3. n - 1 \in 1..n /\ n \in 1..n
    BY <1>1
  <2>4. x[n - 1] \in Byte /\ x[n] \in Byte /\ y[n - 1] \in Byte /\ y[n] \in Byte
    <3>1. \A i \in 1..n : x[i] \in Byte /\ y[i] \in Byte
      BY <1>1
    <3> QED
      BY <2>3, <3>1
  <2>5. x[n - 1] # y[n - 1] \/ x[n] # y[n]
    BY <1>1, <1>5
  <2>6. \A h, l, i, k \in Byte : Joined(h, l) = Joined(i, k) => h = i /\ l = k
    BY DEF Joined, Byte
  <2>7. Joined(x[n - 1], x[n]) # Joined(y[n - 1], y[n])
    <3> DEFINE p == x[n - 1]
               q == x[n]
               r == y[n - 1]
               s == y[n]
    <3>1. p \in Byte /\ q \in Byte /\ r \in Byte /\ s \in Byte /\ (p # r \/ q # s)
      BY <2>4, <2>5
    <3> HIDE DEF p, q, r, s
    <3>2. Joined(p, q) # Joined(r, s)
      BY <2>6, <3>1
    <3> QED
      BY <3>2 DEF p, q, r, s
  <2> QED
    BY <1>3, <2>2, <2>7
<1> QED
  BY <1>1, <1>4, <1>5

-----------------------------------------------------------------------------
(* What a changed byte makes of a frame.                                    *)

\* What unescaping has made of a wire after its j-th byte.
Upto(w, j) == Fold(UnescapeByte, NothingYet, SubSeq(Tail(w), 1, j - 1))

LEMMA UptoNext ==
    ASSUME NEW w \in Bytes, w # <<>>
    PROVE  /\ Upto(w, 1) = NothingYet
           /\ \A j \in 1..Len(w) : Upto(w, j) \in Unescaping
           /\ \A j \in 1..(Len(w) - 1) : Upto(w, j + 1) = UnescapeByte[Upto(w, j)][w[j + 1]]
<1>1. /\ Tail(w) \in Seq(Byte) /\ Len(Tail(w)) = Len(w) - 1 /\ Len(w) \in Nat /\ Len(w) >= 1
      /\ \A j \in 1..(Len(w) - 1) : Tail(w)[j] = w[j + 1]
  BY DEF Bytes
<1>2. NothingYet \in Unescaping /\ \A a \in Unescaping, b \in Byte : UnescapeByte[a][b] \in Unescaping
  BY UnescapeType
<1>3. Upto(w, 1) = NothingYet
  <2>1. SubSeq(Tail(w), 1, 1 - 1) = <<>>
    BY <1>1
  <2> QED
    BY <2>1, FoldEmpty DEF Upto
<1>4. ASSUME NEW j \in 1..Len(w) PROVE Upto(w, j) \in Unescaping
  <2>1. SubSeq(Tail(w), 1, j - 1) \in Seq(Byte)
    BY <1>1
  <2> QED
    BY <1>2, <2>1, FoldType DEF Upto
<1>5. ASSUME NEW j \in 1..(Len(w) - 1) PROVE Upto(w, j + 1) = UnescapeByte[Upto(w, j)][w[j + 1]]
  <2> DEFINE n == j - 1
             s == Tail(w)
  <2>1. s \in Seq(Byte) /\ n \in 0..(Len(s) - 1) /\ (j + 1) - 1 = n + 1 /\ s[n + 1] = w[j + 1]
    BY <1>1
  <2> HIDE DEF n, s
  <2>2. Fold(UnescapeByte, NothingYet, SubSeq(s, 1, n + 1))
          = UnescapeByte[Fold(UnescapeByte, NothingYet, SubSeq(s, 1, n))][s[n + 1]]
    <3>1. NothingYet \in Unescaping
      BY <1>2
    <3>2. \A a \in Unescaping, b \in Byte : UnescapeByte[a][b] \in Unescaping
      BY <1>2
    <3>3. s \in Seq(Byte) /\ n \in 0..(Len(s) - 1)
      BY <2>1
    <3> QED
      BY <3>1, <3>2, <3>3, FoldNext
  <2> QED
    BY <2>1, <2>2, Zenon DEF Upto, n, s
<1> QED
  BY <1>3, <1>4, <1>5

\* It depends on these bytes only.
LEMMA UptoSame ==
    ASSUME NEW x \in Bytes, NEW y \in Bytes, NEW n \in 1..Len(x), n <= Len(y),
           \A j \in 1..n : x[j] = y[j]
    PROVE  Upto(x, n) = Upto(y, n)
<1> DEFINE a == SubSeq(Tail(x), 1, n - 1)
           b == SubSeq(Tail(y), 1, n - 1)
<1>1. x \in Seq(Byte) /\ y \in Seq(Byte) /\ n \in Nat /\ 1 <= n /\ n <= Len(x)
  BY DEF Bytes
<1>2. /\ Tail(x) \in Seq(Byte) /\ Len(Tail(x)) = Len(x) - 1
      /\ \A j \in 1..(Len(x) - 1) : Tail(x)[j] = x[j + 1]
  BY <1>1
<1>3. /\ Tail(y) \in Seq(Byte) /\ Len(Tail(y)) = Len(y) - 1
      /\ \A j \in 1..(Len(y) - 1) : Tail(y)[j] = y[j + 1]
  BY <1>1
<1>4. a \in Seq(Byte) /\ Len(a) = n - 1 /\ \A j \in 1..(n - 1) : a[j] = x[j + 1]
  BY <1>1, <1>2
<1>5. b \in Seq(Byte) /\ Len(b) = n - 1 /\ \A j \in 1..(n - 1) : b[j] = y[j + 1]
  BY <1>1, <1>3
<1>6. \A j \in 1..(n - 1) : x[j + 1] = y[j + 1]
  BY <1>1
<1> HIDE DEF a, b
<1>7. a = b
  BY <1>4, <1>5, <1>6, SeqEqual
<1> QED
  BY <1>7 DEF Upto, a, b

\* The form of a frame: a delimiter at each end and none between them.
Framed(w) ==
    /\ w \in Bytes /\ Len(w) >= 2 /\ w[1] = START /\ w[Len(w)] = END
    /\ ~ Upto(w, Len(w) - 1).open
    /\ \A j \in 1..(Len(w) - 2) : ~ Upto(w, j).open => w[j + 1] \notin {START, END}

LEMMA InnerFramed ==
    ASSUME NEW w \in Bytes, Delimited(w), ~ Inner(w).open, ~ Inner(w).bad
    PROVE  Framed(w) /\ Inner(w) = Upto(w, Len(w) - 1)
<1>1. /\ w \in Seq(Byte) /\ Len(w) \in Nat /\ w # <<>> /\ w[1] = START /\ w[Len(w)] = END /\ Len(w) # 1
      /\ Len(w) # 0
  <2>1. START # END
    BY DEF START, END
  <2> QED
    BY <2>1 DEF Delimited, Bytes
<1> DEFINE L == Len(w)
<1>2. L \in Nat /\ L >= 2 /\ L - 1 \in 1..L
  <2>1. L \in Nat /\ L # 0 /\ L # 1
    BY <1>1
  <2> HIDE DEF L
  <2> QED
    BY <2>1
<1>3. Inner(w) = Upto(w, L - 1)
  <2>1. SubSeq(w, 2, L - 1) = SubSeq(Tail(w), 1, (L - 1) - 1)
    BY <1>1, <1>2
  <2> QED
    BY <2>1, Zenon DEF Inner, Upto
<1>4. ASSUME NEW j \in 1..(L - 2), ~ Upto(w, j).open, w[j + 1] \in {START, END} PROVE FALSE
  <2>1. j \in 1..(L - 1) /\ j \in 1..L /\ w[j + 1] \in Byte
    BY <1>1, <1>2
  <2>2. Upto(w, j) \in Unescaping /\ Upto(w, j + 1) = UnescapeByte[Upto(w, j)][w[j + 1]]
    BY <1>1, <2>1, UptoNext
  <2>3. Upto(w, j + 1).bad
    <3>1. UnescapeByte[Upto(w, j)][w[j + 1]].bad
            = (Upto(w, j).bad \/ w[j + 1] = START \/ w[j + 1] = END)
      BY <1>4, <2>1, <2>2, UnescapeIs
    <3>2. w[j + 1] = START \/ w[j + 1] = END
      BY <1>4
    <3> QED
      BY <2>2, <3>1, <3>2, Zenon
  <2> DEFINE s == SubSeq(Tail(w), 1, j)
             r == SubSeq(Tail(w), j + 1, L - 2)
  <2>4. /\ s \in Bytes /\ r \in Bytes /\ (j + 1) - 1 = j /\ (L - 1) - 1 = L - 2
        /\ SubSeq(Tail(w), 1, L - 2) = s \o r
    <3>1. Tail(w) \in Seq(Byte) /\ Len(Tail(w)) = L - 1
      BY <1>1
    <3>2. /\ 1 \in 1..(Len(Tail(w)) + 1) /\ j \in (1 - 1)..Len(Tail(w))
          /\ L - 2 \in j..Len(Tail(w))
      BY <1>2, <2>1, <3>1
    <3>3. SubSeq(Tail(w), 1, L - 2) = s \o r
      BY <3>1, <3>2, ConcatAdjacentSubSeq
    <3>4. s \in Seq(Byte) /\ r \in Seq(Byte)
      BY <1>2, <2>1, <3>1
    <3>5. (j + 1) - 1 = j /\ (L - 1) - 1 = L - 2
      BY <1>2, <2>1
    <3> QED
      BY <3>3, <3>4, <3>5 DEF Bytes
  <2> HIDE DEF s, r
  <2>5. Fold(UnescapeByte, NothingYet, s).bad
    BY <2>3, <2>4, Zenon DEF Upto, s
  <2>6. Fold(UnescapeByte, NothingYet, s \o r).bad
    BY <2>4, <2>5, BadStays
  <2>7. Upto(w, L - 1).bad
    BY <2>4, <2>6, Zenon DEF Upto
  <2> QED
    BY <1>3, <2>7
<1> QED
  BY <1>1, <1>2, <1>3, <1>4 DEF Framed

\* What decode accepts has this form, and its body the right checksum.
LEMMA DecodedFramed ==
    ASSUME NEW w \in Bytes, Decode(w) # None
    PROVE  /\ Framed(w) /\ Len(Upto(w, Len(w) - 1).body) >= 10 /\ Check(Upto(w, Len(w) - 1).body)
           /\ Len(w) <= MaxFrameSize
<1>1. Delimited(w) /\ ~ Inner(w).open /\ ~ Inner(w).bad /\ Inner(w) \in Unescaping /\ Len(w) <= MaxFrameSize
  BY DecodeType
<1>2. Framed(w) /\ Inner(w) = Upto(w, Len(w) - 1)
  BY <1>1, InnerFramed
<1>3. Unescaped(w) = Inner(w).body
  BY <1>1 DEF Unescaped
<1>4. ~ (Len(Inner(w).body) < 10 \/ ~ Check(Inner(w).body))
  <2> DEFINE c == Inner(w).body
             f == [destination |-> c[1], source |-> c[2], opcode |-> c[3],
                   address |-> Joined(Joined(Joined(c[4], c[5]), c[6]), c[7]),
                   length |-> c[8], payload |-> SubSeq(c, 9, Len(c) - 2), wire |-> w]
  <2>1. Decode(w) = IF Len(w) > MaxFrameSize \/ ~ Delimited(w) THEN None
                    ELSE IF c = None THEN None
                    ELSE IF Len(c) < 10 \/ ~ Check(c) THEN None ELSE f
    BY <1>3, Zenon DEF Decode
  <2> HIDE DEF c, f
  <2> QED
    BY <2>1, Zenon DEF c
<1>5. Inner(w).body \in Seq(Byte)
  BY <1>1 DEF Unescaping, Bytes
<1>6. Len(Inner(w).body) >= 10 /\ Check(Inner(w).body)
  BY <1>4, <1>5
<1> QED
  BY <1>1, <1>2, <1>6

\* No frame is the beginning of another one.
LEMMA PrefixFree ==
    ASSUME NEW x, NEW y, Framed(x), Framed(y), Len(y) <= Len(x), \A j \in 1..Len(y) : x[j] = y[j]
    PROVE  x = y
<1>1. /\ x \in Bytes /\ y \in Bytes /\ x \in Seq(Byte) /\ y \in Seq(Byte)
      /\ Len(x) \in Nat /\ Len(y) \in Nat /\ Len(x) >= 2 /\ Len(y) >= 2
  BY DEF Framed, Bytes
<1>2. ASSUME Len(y) < Len(x) PROVE FALSE
  <2> DEFINE n == Len(y) - 1
  <2>1. n \in 1..Len(y) /\ n \in 1..Len(x) /\ n + 1 = Len(y) /\ n <= Len(y) /\ n \in 1..(Len(x) - 2)
    BY <1>1, <1>2
  <2>2. \A j \in 1..n : x[j] = y[j]
    BY <1>1
  <2> HIDE DEF n
  <2>3. Upto(x, n) = Upto(y, n)
    BY <1>1, <2>1, <2>2, UptoSame
  <2>4. ~ Upto(y, n).open
    BY DEF Framed, n
  <2>5. x[n + 1] \notin {START, END}
    BY <2>1, <2>3, <2>4 DEF Framed
  <2>6. x[n + 1] = END
    <3>1. y[Len(y)] = END
      BY DEF Framed
    <3> QED
      BY <1>1, <2>1, <3>1
  <2> QED
    BY <2>5, <2>6
<1>3. Len(x) = Len(y)
  BY <1>1, <1>2
<1> QED
  BY <1>1, <1>3, SeqEqual

\* A changed byte x of a frame that becomes y is noticed: neither adds or
\* removes an escape or ends the frame early, or the byte had been escaped.
Noticed(x, y, escaped) == escaped \/ (x # ESCAPE /\ y \notin {END, ESCAPE})

\* Of two frames that agree but for one changed byte, only one is accepted.
LEMMA OneFrame ==
    ASSUME NEW x \in Bytes, NEW y \in Bytes, Decode(x) # None, Decode(y) # None,
           NEW r \in Int,
           \A j \in 1..Len(x) : j <= Len(y) /\ j # r => x[j] = y[j],
           Len(y) > Len(x) /\ r # Len(x) + 1 => y[Len(x) + 1] = START,
           r \in 1..Len(x) /\ r <= Len(y) => x[r] = y[r] \/ r = 1 \/ Noticed(x[r], y[r], Upto(x, r - 1).open)
    PROVE  x = y
<1> DEFINE bx(j) == Upto(x, j).body
           by(j) == Upto(y, j).body
<1>1. /\ Framed(x) /\ Framed(y) /\ x \in Seq(Byte) /\ y \in Seq(Byte)
      /\ Len(x) \in Nat /\ Len(y) \in Nat /\ Len(x) >= 2 /\ Len(y) >= 2
      /\ x # <<>> /\ y # <<>>
      /\ x[1] = START /\ y[1] = START /\ x[Len(x)] = END /\ y[Len(y)] = END
      /\ ~ Upto(x, Len(x) - 1).open /\ ~ Upto(y, Len(y) - 1).open
  <2>1. Framed(x) /\ Framed(y)
    BY DecodedFramed
  <2> QED
    BY <2>1 DEF Framed, Bytes
<1>2. START # END /\ START # ESCAPE /\ END # ESCAPE
  BY DEF START, END, ESCAPE
<1>3. /\ \A j \in 1..Len(x) : Upto(x, j) \in Unescaping
      /\ \A j \in 1..Len(y) : Upto(y, j) \in Unescaping
      /\ \A j \in 1..(Len(x) - 1) : Upto(x, j + 1) = UnescapeByte[Upto(x, j)][x[j + 1]]
      /\ \A j \in 1..(Len(y) - 1) : Upto(y, j + 1) = UnescapeByte[Upto(y, j)][y[j + 1]]
  BY <1>1, UptoNext
<1>4. /\ \A j \in 1..(Len(x) - 2) : ~ Upto(x, j).open => x[j + 1] \notin {START, END}
      /\ \A j \in 1..(Len(y) - 2) : ~ Upto(y, j).open => y[j + 1] \notin {START, END}
  BY <1>1 DEF Framed
<1>5. ASSUME \A j \in 1..Len(x) : j <= Len(y) => x[j] = y[j] PROVE x = y
  <2>1. CASE Len(y) <= Len(x)
    <3>1. \A j \in 1..Len(y) : x[j] = y[j]
      BY <1>1, <1>5, <2>1
    <3> QED
      BY <1>1, <2>1, <3>1, PrefixFree
  <2>2. CASE Len(x) <= Len(y)
    <3>1. \A j \in 1..Len(x) : y[j] = x[j]
      BY <1>1, <1>5, <2>2
    <3> QED
      BY <1>1, <2>2, <3>1, PrefixFree
  <2> QED
    BY <1>1, <2>1, <2>2
<1>6. ASSUME r \in 1..Len(x), r <= Len(y), x[r] # y[r] PROVE FALSE
  <2>1. /\ r \in Nat /\ r >= 2 /\ r <= Len(x) /\ r \in 1..Len(y)
        /\ Noticed(x[r], y[r], Upto(x, r - 1).open)
    BY <1>1, <1>6
  <2> DEFINE p == r - 1
             u == Upto(x, p)
  <2>2. p \in Nat /\ p >= 1 /\ p + 1 = r /\ p \in 1..Len(x) /\ p <= Len(y) /\ p \in 1..Len(y)
        /\ p \in 1..(Len(x) - 1) /\ p \in 1..(Len(y) - 1)
    BY <1>1, <2>1
  <2>3. Noticed(x[r], y[r], u.open)
    BY <2>1
  <2> HIDE DEF p
  <2>4. u = Upto(y, p) /\ u \in Unescaping
    <3>1. \A j \in 1..p : x[j] = y[j]
      BY <1>1, <2>1, <2>2
    <3> QED
      BY <1>3, <2>2, <3>1, UptoSame
  <2>5. ASSUME r = Len(x) PROVE FALSE
    <3>1. ~ u.open
      BY <1>1, <2>2, <2>5 DEF p
    <3>2. y[r] # END /\ y[r] # ESCAPE
      BY <1>1, <1>6, <2>3, <2>5, <3>1 DEF Noticed
    <3>3. r < Len(y) /\ r \in 1..(Len(y) - 1) /\ p \in 1..(Len(y) - 2)
      BY <1>1, <2>1, <2>2, <3>2
    <3>4. y[r + 1] = START
      BY <1>1, <2>5, <3>3
    <3>5. r + 1 # Len(y)
      BY <1>1, <1>2, <3>4
    <3>6. y[r] \in Byte
      BY <1>1, <2>1
    <3>7. ~ Upto(y, r).open
      <4>1. Upto(y, r) = UnescapeByte[u][y[r]]
        BY <1>3, <2>2, <2>4
      <4>2. UnescapeByte[u][y[r]].open = (y[r] = ESCAPE)
        BY <2>4, <3>1, <3>6, UnescapeIs
      <4> QED
        BY <3>2, <4>1, <4>2, Zenon
    <3>8. r \in 1..(Len(y) - 2)
      BY <1>1, <2>1, <3>3, <3>5
    <3> QED
      BY <1>4, <3>4, <3>7, <3>8
  <2>6. ASSUME r = Len(y) PROVE FALSE
    <3>1. ~ u.open /\ y[r] = END
      BY <1>1, <2>2, <2>4, <2>6 DEF p
    <3> QED
      BY <2>3, <3>1 DEF Noticed
  <2>7. r < Len(x) /\ r < Len(y)
    BY <1>1, <2>1, <2>5, <2>6
  <2> DEFINE m == Len(u.body) + 1
             Alike(j) == /\ Upto(x, j).open = Upto(y, j).open
                         /\ DifferAt(m, bx(j), by(j))
             S == {k \in Nat : r + k < Len(x) /\ r + k < Len(y) => Alike(r + k)}
  <2>8. \A a \in Unescaping : a.body \in Seq(Byte) /\ Len(a.body) \in Nat /\ a.open \in BOOLEAN
    BY DEF Unescaping, Bytes
  <2>9. m \in Nat /\ m >= 1 /\ u.body \in Seq(Byte) /\ Len(u.body) = m - 1
    BY <2>4, <2>8
  <2> HIDE DEF u, m
  <2>10. Alike(r)
    <3>1. Upto(x, r) = UnescapeByte[u][x[r]] /\ Upto(y, r) = UnescapeByte[u][y[r]]
      BY <1>3, <2>2, <2>4 DEF u
    <3>2. x[r] \in Byte /\ y[r] \in Byte
      BY <1>1, <2>1, <1>6
    <3>3. Flip(x[r]) \in Byte /\ Flip(y[r]) \in Byte /\ Flip(x[r]) # Flip(y[r])
      BY <1>6, <3>2, FlipFlip
    <3>4. \A a, b \in Byte : a # b => DifferAt(m, Append(u.body, a), Append(u.body, b))
      BY <2>9 DEF DifferAt
    <3>5. CASE u.open
      <4>1. \A b \in Byte : /\ UnescapeByte[u][b].open = FALSE
                            /\ UnescapeByte[u][b].body = Append(u.body, Flip(b))
        BY <2>4, <3>5 DEF UnescapeByte
      <4> QED
        BY <3>1, <3>2, <3>3, <3>4, <4>1
    <3>6. CASE ~ u.open
      <4>1. x[r] # ESCAPE /\ y[r] # ESCAPE
        BY <2>3, <3>6 DEF Noticed, u
      <4>2. \A b \in Byte : b # ESCAPE => /\ UnescapeByte[u][b].open = FALSE
                                          /\ UnescapeByte[u][b].body = Append(u.body, b)
        BY <2>4, <3>6 DEF UnescapeByte
      <4> QED
        BY <1>6, <3>1, <3>2, <3>4, <4>1, <4>2
    <3> QED
      BY <3>5, <3>6
  <2>11. 0 \in S
    <3>1. r + 0 = r
      BY <2>1
    <3> QED
      BY <2>10, <3>1
  <2>12. ASSUME NEW k \in Nat, k \in S PROVE k + 1 \in S
    <3> SUFFICES ASSUME r + (k + 1) < Len(x), r + (k + 1) < Len(y) PROVE Alike(r + (k + 1))
      OBVIOUS
    <3> DEFINE j == r + k
               a == Upto(x, j)
               b == Upto(y, j)
               c == x[j + 1]
    <3>1. /\ r + (k + 1) = j + 1 /\ j \in 1..(Len(x) - 1) /\ j \in 1..(Len(y) - 1) /\ j + 1 # r
          /\ j + 1 \in 1..Len(x) /\ j + 1 <= Len(y) /\ j \in 1..Len(x) /\ j \in 1..Len(y)
          /\ r + k < Len(x) /\ r + k < Len(y)
      BY <1>1, <2>1
    <3>2. Alike(j)
      BY <2>12, <3>1
    <3>3. a \in Unescaping /\ b \in Unescaping /\ c \in Byte
      BY <1>1, <1>3, <3>1
    <3>4. Upto(x, j + 1) = UnescapeByte[a][c] /\ Upto(y, j + 1) = UnescapeByte[b][c]
      BY <1>1, <1>3, <3>1
    <3>5. a.open = b.open /\ DifferAt(m, a.body, b.body)
      BY <3>2
    <3> HIDE DEF a, b, c, j
    <3>6. \A d \in Byte : DifferAt(m, Append(a.body, d), Append(b.body, d))
      <4>1. a.body \in Seq(Byte) /\ b.body \in Seq(Byte)
        BY <2>8, <3>3
      <4> DEFINE e == a.body
                 f == b.body
      <4> HIDE DEF e, f
      <4>2. e \in Seq(Byte) /\ f \in Seq(Byte) /\ DifferAt(m, e, f)
        BY <3>5, <4>1 DEF e, f
      <4>3. \A d \in Byte : DifferAt(m, Append(e, d), Append(f, d))
        BY <4>2, DifferAppend
      <4> QED
        BY <4>3 DEF e, f
    <3>7. /\ UnescapeByte[a][c].open = UnescapeByte[b][c].open
          /\ \/ /\ UnescapeByte[a][c].body = a.body
                /\ UnescapeByte[b][c].body = b.body
             \/ \E d \in Byte : /\ UnescapeByte[a][c].body = Append(a.body, d)
                                /\ UnescapeByte[b][c].body = Append(b.body, d)
      <4>1. Flip(c) \in Byte
        BY <3>3, FlipFlip
      <4> QED
        BY <3>3, <3>5, <4>1 DEF UnescapeByte
    <3>8. DifferAt(m, UnescapeByte[a][c].body, UnescapeByte[b][c].body)
      BY <3>5, <3>6, <3>7
    <3> QED
      BY <3>1, <3>4, <3>7, <3>8, Zenon
  <2> HIDE DEF S
  <2>13. \A k \in Nat : k \in S
    BY <2>11, <2>12, Induction
  <2>14. \A j \in r..(Len(x) - 1) : j < Len(y) => Alike(j)
    <3> SUFFICES ASSUME NEW j \in r..(Len(x) - 1), j < Len(y) PROVE Alike(j)
      BY Zenon
    <3>1. j - r \in Nat /\ r + (j - r) = j /\ j < Len(x)
      BY <1>1, <2>1
    <3>2. j - r \in S
      BY <2>13, <3>1
    <3> HIDE DEF Alike
    <3> QED
      BY <3>1, <3>2 DEF S
  <2>15. Len(x) = Len(y)
    <3>1. ASSUME Len(x) < Len(y) PROVE FALSE
      <4> DEFINE j == Len(x) - 1
      <4>1. j \in r..(Len(x) - 1) /\ j < Len(y) /\ j + 1 = Len(x) /\ j \in 1..(Len(y) - 2)
        BY <1>1, <2>1, <2>7, <3>1
      <4>2. ~ Upto(y, j).open
        BY <1>1, <2>14, <4>1
      <4>3. y[Len(x)] = END
        <5>1. Len(x) \in 1..Len(x) /\ Len(x) <= Len(y) /\ Len(x) # r
          BY <1>1, <2>7, <3>1
        <5> QED
          BY <1>1, <5>1
      <4> HIDE DEF j
      <4> QED
        BY <1>4, <4>1, <4>2, <4>3
    <3>2. ASSUME Len(y) < Len(x) PROVE FALSE
      <4> DEFINE j == Len(y) - 1
      <4>1. j \in r..(Len(x) - 1) /\ j < Len(y) /\ j + 1 = Len(y) /\ j \in 1..(Len(x) - 2)
        BY <1>1, <2>1, <2>7, <3>2
      <4>2. ~ Upto(x, j).open
        BY <1>1, <2>14, <4>1
      <4>3. x[Len(y)] = END
        <5>1. Len(y) \in 1..Len(x) /\ Len(y) <= Len(y) /\ Len(y) # r
          BY <1>1, <2>7, <3>2
        <5> QED
          BY <1>1, <5>1
      <4> HIDE DEF j
      <4> QED
        BY <1>4, <4>1, <4>2, <4>3
    <3> QED
      BY <1>1, <3>1, <3>2
  <2> DEFINE j == Len(x) - 1
  <2>16. j \in r..(Len(x) - 1) /\ j < Len(y) /\ j = Len(y) - 1 /\ j \in 1..Len(x) /\ j \in 1..Len(y)
    BY <1>1, <2>1, <2>7, <2>15
  <2>17. /\ bx(j) \in Bytes /\ by(j) \in Bytes /\ DifferAt(m, bx(j), by(j))
    <3> HIDE DEF j
    <3>1. Upto(x, j) \in Unescaping /\ Upto(y, j) \in Unescaping
      BY <1>3, <2>16
    <3> QED
      BY <2>8, <2>14, <2>16, <3>1 DEF Bytes
  <2>18. Check(bx(j)) /\ Check(by(j)) /\ Len(bx(j)) >= 10
    <3>1. Len(Upto(x, Len(x) - 1).body) >= 10 /\ Check(Upto(x, Len(x) - 1).body)
      BY DecodedFramed
    <3>2. Check(Upto(y, Len(y) - 1).body)
      BY DecodedFramed
    <3> QED
      BY <2>16, <3>1, <3>2
  <2> HIDE DEF j, bx, by
  <2>19. 2 <= Len(bx(j))
    <3>1. Len(bx(j)) \in Nat
      BY <2>17 DEF Bytes
    <3> QED
      BY <2>18, <3>1
  <2> QED
    BY <2>17, <2>18, <2>19, CheckTells
<1>7. CASE r \in 1..Len(x) /\ r <= Len(y) /\ x[r] # y[r]
  BY <1>6, <1>7
<1>8. CASE ~ (r \in 1..Len(x) /\ r <= Len(y) /\ x[r] # y[r])
  <2>1. \A j \in 1..Len(x) : j <= Len(y) => x[j] = y[j]
    BY <1>8
  <2> QED
    BY <1>5, <2>1
<1> QED
  BY <1>7, <1>8

-----------------------------------------------------------------------------
(* Streams with a changed byte.                                             *)

\* Where a frame begins in the bytes of a sequence of frames.
Place(frames, k) == Len(Wires(SubSeq(frames, 1, k)))

LEMMA FrameAt ==
    ASSUME NEW frames \in Seq(Frame), NEW rest \in Bytes, NEW k \in 0..(Len(frames) - 1)
    PROVE  /\ frames[k + 1].wire \in Bytes /\ Len(frames[k + 1].wire) \in Nat
           /\ Place(frames, k) \in Nat
           /\ Place(frames, k) + Len(frames[k + 1].wire) = Place(frames, k + 1)
           /\ Place(frames, k + 1) <= Len(Wires(frames) \o rest)
           /\ \A j \in 1..Len(frames[k + 1].wire) :
                  (Wires(frames) \o rest)[Place(frames, k) + j] = frames[k + 1].wire[j]
<1> DEFINE s == Wires(frames) \o rest
<1> DEFINE a == Wires(SubSeq(frames, 1, k))
           w == frames[k + 1].wire
           c == a \o w
           n == Place(frames, k)
<1>1. PICK more \in Bytes : Wires(frames) = (a \o w) \o more
  BY WiresAround
<1>2. a \in Bytes /\ w \in Bytes /\ Wires(SubSeq(frames, 1, k + 1)) = a \o w
  <2>1. SubSeq(frames, 1, k) \in Seq(Frame) /\ frames[k + 1] \in Frame
    OBVIOUS
  <2>2. Append(SubSeq(frames, 1, k), frames[k + 1]) = SubSeq(frames, 1, k + 1)
    BY OneMore
  <2>3. frames[k + 1].wire \in Bytes
    BY <2>1 DEF Frame
  <2> QED
    BY <2>1, <2>2, <2>3, WiresAppend
<1>3. n = Len(a) /\ Place(frames, k + 1) = Len(c)
  BY <1>2, Zenon DEF Place
<1> HIDE DEF a, w, n
<1>4. /\ c \in Seq(Byte) /\ Len(c) = Len(a) + Len(w) /\ Len(a) \in Nat /\ Len(w) \in Nat
      /\ a \in Seq(Byte) /\ w \in Seq(Byte) /\ more \in Seq(Byte) /\ rest \in Seq(Byte)
  BY <1>2 DEF Bytes
<1>5. \A j \in 1..Len(w) : c[Len(a) + j] = w[j]
  BY <1>4, ConcatIs
<1>6. s = (c \o more) \o rest
  BY <1>1
<1> HIDE DEF c
<1> HIDE DEF s
<1>7. c \o more \in Seq(Byte) /\ Len(c \o more) = Len(c) + Len(more) /\ Len(more) \in Nat /\ Len(rest) \in Nat
  <2>1. \A u, v \in Seq(Byte) : u \o v \in Seq(Byte) /\ Len(u \o v) = Len(u) + Len(v) /\ Len(u) \in Nat
    OBVIOUS
  <2> QED
    BY <1>4, <2>1
<1>8. /\ Len(s) = Len(c \o more) + Len(rest)
      /\ \A j \in 1..Len(c \o more) : s[j] = (c \o more)[j]
  <2> DEFINE d == c \o more
  <2>1. d \in Seq(Byte) /\ s = d \o rest
    BY <1>6, <1>7
  <2> HIDE DEF d
  <2>2. Len(s) = Len(d) + Len(rest) /\ \A j \in 1..Len(d) : s[j] = d[j]
    BY <1>4, <2>1, ConcatIs
  <2> QED
    BY <2>2 DEF d
<1>9. \A j \in 1..Len(c) : (c \o more)[j] = c[j]
  BY <1>4, ConcatIs
<1>10. \A j \in 1..Len(w) : n + j \in 1..Len(c) /\ n + j \in 1..Len(c \o more)
  BY <1>3, <1>4, <1>7
<1>11. \A j \in 1..Len(w) : s[n + j] = w[j]
  BY <1>3, <1>5, <1>8, <1>9, <1>10
<1>12. Len(s) \in Nat /\ n \in Nat /\ n + Len(w) = Place(frames, k + 1) /\ Place(frames, k + 1) <= Len(s)
  BY <1>3, <1>4, <1>7, <1>8
<1> QED
  BY <1>2, <1>4, <1>11, <1>12 DEF n, w, s

\* The change of byte i of the frames' bytes to b is noticed, or none, or it
\* is that of a frame's first byte.
NoticedAt(frames, i, b) ==
    \A k \in 0..(Len(frames) - 1) :
        LET w == frames[k + 1].wire
            r == i - Place(frames, k)
        IN r \in 1..Len(w) => r = 1 \/ w[r] = b \/ Noticed(w[r], b, Upto(w, r - 1).open)

\* Frames that decode to themselves, as those that encode makes.
Proper == {frame \in Frame : Decode(frame.wire) = frame}

\* Bytes that differ from those of the frames sent in a noticed one: what
\* decode accepts of them are frames that were sent, in order.
LEMMA SameFrames ==
    ASSUME NEW out \in Seq(Proper), NEW frames \in Seq(Proper), NEW buffer \in Bytes,
           NEW s \in Bytes, NEW t \in 0..Len(s), Wires(out) \o buffer = SubSeq(s, 1, t),
           Len(s) <= Len(Wires(frames)), NEW i \in Int,
           \A j \in 1..Len(s) : j # i => s[j] = Wires(frames)[j],
           i \in 1..Len(s) => NoticedAt(frames, i, s[i])
    PROVE  IsPrefix(out, frames)
<1> DEFINE whole == Wires(frames)
           got == SubSeq(s, 1, t)
           Same(k) == k <= Len(frames) /\ SubSeq(out, 1, k) = SubSeq(frames, 1, k)
           S == {k \in Nat : k <= Len(out) => Same(k)}
<1>1. /\ out \in Seq(Frame) /\ frames \in Seq(Frame) /\ Len(out) \in Nat /\ Len(frames) \in Nat
      /\ whole \in Bytes /\ Len(whole) \in Nat /\ Len(s) \in Nat /\ t \in Nat /\ t <= Len(s)
      /\ whole = whole \o <<>> /\ <<>> \in Bytes
  <2>1. Proper \subseteq Frame
    BY DEF Proper
  <2>2. out \in Seq(Frame) /\ frames \in Seq(Frame)
    BY <2>1
  <2>3. whole \in Bytes
    BY <2>2, WiresAppend
  <2>4. whole = whole \o <<>> /\ Len(whole) \in Nat
    BY <2>3 DEF Bytes
  <2> QED
    BY <2>2, <2>3, <2>4 DEF Bytes
<1>2. Len(got) = t /\ \A j \in 1..t : got[j] = s[j]
  BY <1>1 DEF Bytes
<1> HIDE DEF whole, got
<1>3. 0 \in S
  BY <1>1
<1>4. ASSUME NEW k \in Nat, k \in S PROVE k + 1 \in S
  <2> SUFFICES ASSUME k + 1 <= Len(out) PROVE Same(k + 1)
    OBVIOUS
  <2>1. k <= Len(frames) /\ SubSeq(out, 1, k) = SubSeq(frames, 1, k) /\ k \in 0..(Len(out) - 1)
    BY <1>1, <1>4
  <2> DEFINE n == Place(frames, k)
             y == out[k + 1].wire
             x == frames[k + 1].wire
             r == i - n
  <2>2. /\ y \in Bytes /\ n \in Nat /\ Len(y) \in Nat /\ n + Len(y) <= t
        /\ \A j \in 1..Len(y) : got[n + j] = y[j]
    <3>1. got = Wires(out) \o buffer
      BY DEF got
    <3>2. /\ y \in Bytes /\ Len(y) \in Nat /\ Place(out, k) \in Nat
          /\ Place(out, k) + Len(y) = Place(out, k + 1)
          /\ Place(out, k + 1) <= Len(Wires(out) \o buffer)
          /\ \A j \in 1..Len(y) : (Wires(out) \o buffer)[Place(out, k) + j] = y[j]
      BY <1>1, <2>1, FrameAt, Zenon
    <3>3. n = Place(out, k)
      BY <2>1, Zenon DEF Place
    <3> HIDE DEF y, n
    <3> QED
      BY <1>2, <3>1, <3>2, <3>3
  <2>3. out[k + 1] \in Proper /\ Decode(y) = out[k + 1]
    BY <1>1, <2>1 DEF Proper
  <2>4. Decode(y) # None
    BY <2>3, NamesAssumption DEF Proper
  <2>5. Len(y) >= 2
    BY <2>2, <2>4, DecodedFramed DEF Framed
  <2>6. ASSUME k = Len(frames) PROVE FALSE
    <3>1. SubSeq(frames, 1, k) = frames
      BY <1>1, <2>6
    <3>2. n = Len(whole)
      BY <3>1 DEF whole, Place
    <3>3. Len(s) <= Len(whole)
      BY DEF whole
    <3> HIDE DEF n, y
    <3> QED
      BY <1>1, <2>2, <2>5, <3>2, <3>3
  <2>7. k \in 0..(Len(frames) - 1)
    BY <1>1, <2>1, <2>6
  <2>8. /\ x \in Bytes /\ Len(x) \in Nat /\ n + Len(x) <= Len(whole)
        /\ \A j \in 1..Len(x) : whole[n + j] = x[j]
        /\ n + Len(x) = Place(frames, k + 1)
    <3>1. /\ x \in Bytes /\ Len(x) \in Nat /\ n \in Nat
          /\ n + Len(x) = Place(frames, k + 1)
          /\ Place(frames, k + 1) <= Len(Wires(frames) \o <<>>)
          /\ \A j \in 1..Len(x) : (Wires(frames) \o <<>>)[n + j] = x[j]
      BY <1>1, <2>7, FrameAt, Zenon
    <3>2. Wires(frames) \o <<>> = whole
      BY <1>1 DEF whole
    <3> HIDE DEF x, n
    <3> QED
      BY <3>1, <3>2
  <2>9. frames[k + 1] \in Proper /\ Decode(x) = frames[k + 1]
    BY <1>1, <2>7 DEF Proper
  <2>10. Decode(x) # None
    BY <2>9, NamesAssumption DEF Proper
  <2>11. i \in 1..Len(s) => (r \in 1..Len(x) =>
             r = 1 \/ x[r] = s[i] \/ Noticed(x[r], s[i], Upto(x, r - 1).open))
    BY <2>7, Zenon DEF NoticedAt
  <2>12. ASSUME n + Len(x) < Len(whole) PROVE whole[(n + Len(x)) + 1] = START
    <3>1. k + 1 # Len(frames)
      <4>1. ASSUME k + 1 = Len(frames) PROVE FALSE
        <5>1. SubSeq(frames, 1, k + 1) = frames
          BY <1>1, <4>1
        <5>2. n + Len(x) = Len(whole)
          BY <2>8, <5>1 DEF Place, whole
        <5> HIDE DEF n, x
        <5> QED
          BY <1>1, <2>12, <5>2
      <4> QED
        BY <4>1
    <3> DEFINE h == k + 1
               z == frames[h + 1].wire
               m == n + Len(x)
    <3>2. h \in 0..(Len(frames) - 1)
      BY <1>1, <2>7, <3>1
    <3>3. m = Place(frames, h)
      BY <2>8
    <3> HIDE DEF h, m
    <3>4. z \in Bytes /\ \A j \in 1..Len(z) : whole[m + j] = z[j]
      <4>1. /\ z \in Bytes /\ \A j \in 1..Len(z) : (Wires(frames) \o <<>>)[Place(frames, h) + j] = z[j]
        BY <1>1, <3>2, FrameAt, Zenon
      <4>2. Wires(frames) \o <<>> = whole
        BY <1>1 DEF whole
      <4> QED
        BY <3>3, <4>1, <4>2, Zenon
    <3>5. frames[h + 1] \in Proper /\ Decode(z) = frames[h + 1]
      BY <1>1, <3>2 DEF Proper
    <3>6. Decode(z) # None
      BY <3>5, NamesAssumption DEF Proper
    <3>7. Framed(z)
      BY <3>4, <3>6, DecodedFramed
    <3>8. z[1] = START /\ 1 \in 1..Len(z)
      BY <3>4, <3>7 DEF Framed, Bytes
    <3> QED
      BY <3>4, <3>8 DEF m
  <2>13. /\ n \in Nat /\ Len(s) <= Len(whole) /\ \A j \in 1..Len(s) : j # i => s[j] = whole[j]
         /\ \A j \in 1..Len(y) : n + j \in 1..t /\ n + j \in 1..Len(s)
    <3>1. Len(s) <= Len(whole) /\ \A j \in 1..Len(s) : j # i => s[j] = whole[j]
      BY DEF whole
    <3> HIDE DEF n, y
    <3>2. \A j \in 1..Len(y) : n + j \in 1..t /\ n + j \in 1..Len(s)
      BY <1>1, <2>2
    <3> QED
      BY <2>2, <3>1, <3>2
  <2>14. \A j \in 1..Len(y) : y[j] = s[n + j]
    BY <1>2, <2>2, <2>13
  <2> HIDE DEF n, x, y, r
  <2>15. r \in Int /\ i = n + r
    BY <2>2 DEF r
  <2>16. \A j \in 1..Len(x) : j <= Len(y) /\ j # r => x[j] = y[j]
    <3> SUFFICES ASSUME NEW j \in 1..Len(x), j <= Len(y), j # r PROVE x[j] = y[j]
      BY Zenon
    <3>1. j \in 1..Len(y)
      <4>1. j \in Nat /\ 1 <= j /\ Len(y) \in Nat
        BY <2>2, <2>8
      <4> QED
        BY <4>1
    <3>2. n + j # i
      <4>1. j \in Int /\ n \in Int
        BY <2>8, <2>13
      <4> QED
        BY <2>15, <4>1
    <3>3. x[j] = whole[n + j] /\ y[j] = s[n + j] /\ n + j \in 1..Len(s)
      BY <2>8, <2>13, <2>14, <3>1
    <3> QED
      BY <2>13, <3>2, <3>3, Zenon
  <2>17. Len(y) > Len(x) /\ r # Len(x) + 1 => y[Len(x) + 1] = START
    <3> SUFFICES ASSUME Len(y) > Len(x), r # Len(x) + 1 PROVE y[Len(x) + 1] = START
      OBVIOUS
    <3> DEFINE j == Len(x) + 1
    <3>1. j \in 1..Len(y) /\ n + j # i /\ n + j = (n + Len(x)) + 1 /\ n + Len(x) < Len(whole)
      BY <1>1, <2>2, <2>8, <2>13, <2>15
    <3>2. whole[n + j] = START
      BY <2>12, <3>1
    <3> HIDE DEF j
    <3>3. y[j] = START
      BY <2>13, <2>14, <3>1, <3>2
    <3> QED
      BY <3>3 DEF j
  <2>18. r \in 1..Len(x) /\ r <= Len(y) => x[r] = y[r] \/ r = 1 \/ Noticed(x[r], y[r], Upto(x, r - 1).open)
    <3> SUFFICES ASSUME r \in 1..Len(x), r <= Len(y)
                 PROVE  x[r] = y[r] \/ r = 1 \/ Noticed(x[r], y[r], Upto(x, r - 1).open)
      OBVIOUS
    <3>1. r \in 1..Len(y)
      BY <2>2
    <3>2. y[r] = s[i] /\ i \in 1..Len(s)
      BY <2>13, <2>14, <2>15, <3>1
    <3> QED
      BY <2>11, <3>2
  <2>19. x = y
    BY <2>2, <2>4, <2>8, <2>10, <2>15, <2>16, <2>17, <2>18, OneFrame
  <2>20. out[k + 1] = frames[k + 1]
    BY <2>3, <2>9, <2>19, Zenon
  <2>21. SubSeq(out, 1, k + 1) = SubSeq(frames, 1, k + 1)
    <3>1. Append(SubSeq(out, 1, k), out[k + 1]) = SubSeq(out, 1, k + 1)
      BY <1>1, <2>1, OneMore
    <3>2. Append(SubSeq(frames, 1, k), frames[k + 1]) = SubSeq(frames, 1, k + 1)
      BY <1>1, <2>7, OneMore
    <3> QED
      BY <2>1, <2>20, <3>1, <3>2, Zenon
  <2> QED
    BY <1>1, <2>7, <2>21
<1> HIDE DEF S
<1>5. \A k \in Nat : k \in S
  BY <1>3, <1>4, Induction
<1>6. Same(Len(out))
  BY <1>1, <1>5 DEF S
<1>7. SubSeq(out, 1, Len(out)) = out
  BY <1>1
<1> QED
  BY <1>6 DEF IsPrefix

\* In these bytes an ESCAPE always begins an escape.
Marked(e) == \A j \in 1..Len(e) : e[j] = ESCAPE => Fold(UnescapeByte, NothingYet, SubSeq(e, 1, j)).open

LEMMA MarkedAppend ==
    ASSUME NEW e \in Bytes, Marked(e), NEW b \in Byte,
           b = ESCAPE => ~ Fold(UnescapeByte, NothingYet, e).open
    PROVE  Marked(Append(e, b))
<1> DEFINE f == Append(e, b)
<1>1. /\ e \in Seq(Byte) /\ Len(e) \in Nat /\ f \in Seq(Byte) /\ Len(f) = Len(e) + 1 /\ f[Len(e) + 1] = b
      /\ \A j \in 1..Len(e) : f[j] = e[j]
  BY DEF Bytes
<1>2. ASSUME NEW j \in 1..Len(f), f[j] = ESCAPE
      PROVE  Fold(UnescapeByte, NothingYet, SubSeq(f, 1, j)).open
  <2>1. CASE j <= Len(e)
    <3>1. j \in 1..Len(e) /\ e[j] = ESCAPE
      BY <1>1, <1>2, <2>1
    <3>2. SubSeq(f, 1, j) = SubSeq(e, 1, j)
      <4>1. /\ SubSeq(f, 1, j) \in Seq(Byte) /\ Len(SubSeq(f, 1, j)) = j
            /\ \A i \in 1..j : SubSeq(f, 1, j)[i] = f[i]
        <5> HIDE DEF f
        <5> QED
          BY <1>1, <3>1
      <4>2. /\ SubSeq(e, 1, j) \in Seq(Byte) /\ Len(SubSeq(e, 1, j)) = j
            /\ \A i \in 1..j : SubSeq(e, 1, j)[i] = e[i]
        BY <1>1, <3>1
      <4>3. \A i \in 1..j : i \in 1..Len(e)
        BY <1>1, <3>1
      <4> HIDE DEF f
      <4> QED
        BY <1>1, <4>1, <4>2, <4>3, SeqEqual
    <3> QED
      BY <3>1, <3>2 DEF Marked
  <2>2. CASE j = Len(e) + 1
    <3>1. b = ESCAPE /\ SubSeq(f, 1, j) = f
      BY <1>1, <1>2, <2>2
    <3>2. Fold(UnescapeByte, NothingYet, f) = UnescapeByte[Fold(UnescapeByte, NothingYet, e)][b]
      BY UnescapeAppend
    <3>3. Fold(UnescapeByte, NothingYet, e) \in Unescaping /\ ~ Fold(UnescapeByte, NothingYet, e).open
      BY <3>1, UnescapeAppend
    <3> DEFINE a == Fold(UnescapeByte, NothingYet, e)
    <3>4. UnescapeByte[a][b].open = (b = ESCAPE)
      <4> HIDE DEF a
      <4> QED
        BY <3>3, UnescapeIs DEF a
    <3> QED
      BY <3>1, <3>2, <3>4, Zenon
  <2> QED
    BY <1>1, <1>2, <2>1, <2>2
<1> QED
  BY <1>2 DEF Marked

\* What escapes add begins an escape, and nothing else does.
LEMMA EscapedMarked ==
    ASSUME NEW bytes \in Bytes
    PROVE  Marked(Escaped(bytes)) /\ Len(Escaped(bytes)) \in Nat /\ Len(Escaped(bytes)) >= Len(bytes)
<1> DEFINE S == {s \in Bytes : Marked(Escaped(s)) /\ Len(Escaped(s)) >= Len(s)}
<1>1. <<>> \in Bytes /\ Bytes = Seq(Byte) /\ Escaped(<<>>) = <<>>
  BY FoldEmpty DEF Bytes, Escaped
<1>2. <<>> \in S
  BY <1>1 DEF Marked
<1>3. ASSUME NEW s \in Bytes, NEW b \in Byte, s \in S PROVE Append(s, b) \in S
  <2> DEFINE e == Escaped(s)
  <2>1. e \in Bytes /\ ~ Fold(UnescapeByte, NothingYet, e).open /\ Marked(e) /\ Len(e) >= Len(s)
    BY <1>3, UnescapesEscaped
  <2>2. Escaped(Append(s, b)) = EscapeByte[e][b]
    BY EscapedAppend
  <2>3. Append(s, b) \in Bytes /\ Len(Append(s, b)) = Len(s) + 1 /\ Len(s) \in Nat
    BY <1>1
  <2> HIDE DEF e
  <2>4. Len(e) \in Nat /\ \A c \in Byte : Append(e, c) \in Bytes /\ Len(Append(e, c)) = Len(e) + 1
    BY <2>1 DEF Bytes
  <2>5. CASE b \in {START, END, ESCAPE}
    <3>1. EscapeByte[e][b] = Append(Append(e, ESCAPE), Flip(b))
      BY <2>1, <2>5, EscapeIs, Zenon
    <3>2. ESCAPE \in Byte /\ Flip(b) \in Byte /\ Flip(b) # ESCAPE
      <4>1. ESCAPE \in Byte
        BY DEF ESCAPE, Byte
      <4>2. Flip(b) # ESCAPE
        BY <2>5 DEF Flip, START, END, ESCAPE
      <4> QED
        BY <4>1, <4>2, FlipFlip
    <3> DEFINE f == Append(e, ESCAPE)
    <3>3. Marked(f) /\ f \in Bytes /\ Len(f) = Len(e) + 1
      BY <2>1, <2>4, <3>2, MarkedAppend
    <3> HIDE DEF f
    <3>4. Marked(Append(f, Flip(b)))
      BY <3>2, <3>3, MarkedAppend
    <3>5. Len(Append(f, Flip(b))) = Len(f) + 1
      BY <3>2, <3>3 DEF Bytes
    <3>6. Escaped(Append(s, b)) = Append(f, Flip(b))
      BY <2>2, <3>1 DEF f
    <3>7. Marked(Escaped(Append(s, b)))
      BY <3>4, <3>6, Zenon
    <3>8. Len(Escaped(Append(s, b))) >= Len(Append(s, b))
      <4>1. Len(Escaped(Append(s, b))) = Len(e) + 2
        BY <2>4, <3>3, <3>5, <3>6
      <4> QED
        BY <2>1, <2>3, <2>4, <4>1
    <3> QED
      BY <2>3, <3>7, <3>8
  <2>6. CASE b \notin {START, END, ESCAPE}
    <3>1. Escaped(Append(s, b)) = Append(e, b)
      BY <2>1, <2>2, <2>6, EscapeIs, Zenon
    <3>2. Marked(Append(e, b))
      BY <2>1, <2>6, MarkedAppend
    <3>3. Marked(Escaped(Append(s, b)))
      BY <3>1, <3>2, Zenon
    <3>4. Len(Escaped(Append(s, b))) >= Len(Append(s, b))
      <4>1. Len(Escaped(Append(s, b))) = Len(e) + 1
        BY <2>4, <3>1
      <4> QED
        BY <2>1, <2>3, <2>4, <4>1
    <3> QED
      BY <2>3, <3>3, <3>4
  <2> QED
    BY <2>5, <2>6
<1> HIDE DEF S
<1>4. bytes \in S
  BY <1>1, <1>2, <1>3, Appending
<1>5. Len(Escaped(bytes)) \in Nat
  BY UnescapesEscaped DEF Bytes
<1> QED
  BY <1>4, <1>5 DEF S

\* The bytes between the delimiters.
LEMMA Wrapped ==
    ASSUME NEW c \in Bytes, NEW w, w = <<START>> \o Escaped(c) \o <<END>>
    PROVE  /\ Framed(w) /\ Len(w) \in Nat /\ Len(w) >= Len(c) + 2
           /\ \A j \in 1..Len(w) : w[j] = ESCAPE => Upto(w, j).open
<1> DEFINE e == Escaped(c)
<1>1. e \in Seq(Byte) /\ Marked(e) /\ Len(e) \in Nat /\ Len(e) >= Len(c)
  BY UnescapesEscaped, EscapedMarked DEF Bytes
<1>2. Fold(UnescapeByte, NothingYet, e) = [open |-> FALSE, bad |-> FALSE, body |-> c]
  BY UnescapesEscaped
<1>3. START \in Byte /\ END \in Byte /\ START # ESCAPE /\ END # ESCAPE
  BY DEF START, END, ESCAPE, Byte
<1> HIDE DEF e
<1>4. /\ w \in Seq(Byte) /\ Len(w) = Len(e) + 2 /\ w[1] = START /\ w[Len(w)] = END
      /\ SubSeq(w, 2, Len(w) - 1) = e /\ \A j \in 2..(Len(w) - 1) : w[j] = e[j - 1]
      /\ Tail(w) = e \o <<END>>
  BY <1>1, <1>3 DEF e
<1>5. w \in Bytes /\ Delimited(w) /\ Inner(w) = [open |-> FALSE, bad |-> FALSE, body |-> c]
  <2>1. w # <<>>
    BY <1>1, <1>4
  <2> QED
    BY <1>2, <1>4, <2>1 DEF Bytes, Delimited, Inner
<1>6. Framed(w)
  <2>1. \A a : a = [open |-> FALSE, bad |-> FALSE, body |-> c] => ~ a.open /\ ~ a.bad
    OBVIOUS
  <2>2. w \in Bytes /\ Delimited(w) /\ ~ Inner(w).open /\ ~ Inner(w).bad
    BY <1>5, <2>1, Zenon
  <2> QED
    BY <2>2, InnerFramed
<1>7. ASSUME NEW j \in 1..Len(w), w[j] = ESCAPE PROVE Upto(w, j).open
  <2>1. j \in 2..(Len(w) - 1) /\ j - 1 \in 1..Len(e)
    BY <1>1, <1>3, <1>4, <1>7
  <2>2. e[j - 1] = ESCAPE
    BY <1>4, <1>7, <2>1
  <2>3. SubSeq(Tail(w), 1, j - 1) = SubSeq(e, 1, j - 1)
    BY <1>1, <1>3, <1>4, <2>1
  <2> QED
    BY <1>1, <2>1, <2>2, <2>3, Zenon DEF Upto, Marked
<1>8. Len(w) \in Nat /\ Len(w) >= Len(c) + 2
  <2>1. Len(c) \in Nat
    BY DEF Bytes
  <2> QED
    BY <1>1, <1>4, <2>1
<1> QED
  BY <1>6, <1>7, <1>8

\* What encode makes has the form of a frame, and an ESCAPE in it always
\* begins an escape.
LEMMA WireMarked ==
    ASSUME NEW d \in Byte, NEW s \in Byte, NEW o \in Byte, NEW a \in Nat, High(High(High(a))) \in Byte,
           NEW l \in Byte, NEW p \in Bytes, NEW w, w = Wire(d, s, o, a, l, p)
    PROVE  /\ Framed(w) /\ Len(w) \in Nat /\ Len(w) >= 12 + Len(p)
           /\ \A j \in 1..Len(w) : w[j] = ESCAPE => Upto(w, j).open
<1> DEFINE b == Body(d, s, o, a, l, p)
           crc == Crc16(b)
           c == b \o <<High(crc), Low(crc)>>
<1>1. b \in Bytes /\ Len(b) = 8 + Len(p)
  BY BodyIs
<1>2. High(crc) \in Byte /\ Low(crc) \in Byte
  BY <1>1, CrcWord, CrcBytes, HighLow
<1> HIDE DEF b, crc
<1>3. c \in Bytes /\ Len(c) = 10 + Len(p) /\ Len(p) \in Nat
  <2>1. b \in Seq(Byte) /\ p \in Seq(Byte)
    BY <1>1 DEF Bytes
  <2>2. c \in Seq(Byte) /\ Len(c) = Len(b) + 2 /\ Len(p) \in Nat
    BY <1>2, <2>1
  <2> QED
    BY <1>1, <2>2 DEF Bytes
<1>4. w = <<START>> \o Escaped(c) \o <<END>>
  BY Zenon DEF c, b, crc, Wire
<1> HIDE DEF c
<1>5. /\ Framed(w) /\ Len(w) \in Nat /\ Len(w) >= Len(c) + 2
      /\ \A j \in 1..Len(w) : w[j] = ESCAPE => Upto(w, j).open
  BY <1>3, <1>4, Wrapped
<1> QED
  BY <1>3, <1>5

\* Frames that encode makes.
Made == {frame \in Proper : /\ Framed(frame.wire)
                            /\ \A j \in 1..Len(frame.wire) :
                                   frame.wire[j] = ESCAPE => Upto(frame.wire, j).open}

\* A change of a byte of such frames is noticed, but for one that removes an
\* escape or adds one or the end of a frame.
LEMMA NoticedChange ==
    ASSUME NEW frames \in Seq(Made), NEW i \in 1..Len(Wires(frames)), NEW b,
           \/ b = Wires(frames)[i] \/ Wires(frames)[i] = START
           \/ i > 1 /\ Wires(frames)[i - 1] = ESCAPE
           \/ Wires(frames)[i] # ESCAPE /\ b \notin {END, ESCAPE}
    PROVE  NoticedAt(frames, i, b)
<1> DEFINE whole == Wires(frames)
<1>1. frames \in Seq(Frame) /\ whole \in Seq(Byte) /\ whole \o <<>> = whole /\ <<>> \in Bytes
      /\ Len(frames) \in Nat /\ Len(whole) \in Nat
  <2>1. Made \subseteq Frame
    BY DEF Made, Proper
  <2>2. frames \in Seq(Frame)
    BY <2>1
  <2>3. whole \in Seq(Byte)
    BY <2>2, WiresAppend DEF Bytes
  <2> HIDE DEF whole
  <2> QED
    BY <2>2, <2>3 DEF Bytes
<1> SUFFICES ASSUME NEW k \in 0..(Len(frames) - 1),
                    i - Place(frames, k) \in 1..Len(frames[k + 1].wire)
             PROVE  LET w == frames[k + 1].wire
                        r == i - Place(frames, k)
                    IN r = 1 \/ w[r] = b \/ Noticed(w[r], b, Upto(w, r - 1).open)
  BY Zenon DEF NoticedAt
<1> DEFINE w == frames[k + 1].wire
           n == Place(frames, k)
           r == i - n
<1>2. /\ w \in Bytes /\ Len(w) \in Nat /\ n \in Nat
      /\ \A j \in 1..Len(w) : (Wires(frames) \o <<>>)[n + j] = w[j]
  BY <1>1, FrameAt, Zenon
<1>3. \A j \in 1..Len(w) : whole[n + j] = w[j]
  BY <1>1, <1>2
<1>4. frames[k + 1] \in Made
  BY <1>1
<1>5. Framed(w) /\ \A j \in 1..Len(w) : w[j] = ESCAPE => Upto(w, j).open
  BY <1>4 DEF Made
<1>6. \/ b = whole[i] \/ whole[i] = START
      \/ i > 1 /\ whole[i - 1] = ESCAPE
      \/ whole[i] # ESCAPE /\ b \notin {END, ESCAPE}
  OBVIOUS
<1> SUFFICES ASSUME r # 1 PROVE w[r] = b \/ Noticed(w[r], b, Upto(w, r - 1).open)
  OBVIOUS
<1>7. i \in Int /\ r \in 1..Len(w) /\ r # 1
  BY <1>1
<1> HIDE DEF whole, w, n
<1>8. r \in Nat /\ r - 1 \in 1..Len(w) /\ n + r = i /\ n + (r - 1) = i - 1
  BY <1>2, <1>7
<1>9. whole[i] = w[r] /\ whole[i - 1] = w[r - 1]
  BY <1>3, <1>7, <1>8
<1> HIDE DEF r
<1>10. CASE b = whole[i]
  BY <1>9, <1>10
<1>11. CASE whole[i] = START
  <2>1. r # Len(w)
    <3>1. w[Len(w)] = END /\ START # END
      BY <1>5 DEF Framed, START, END
    <3> QED
      BY <1>9, <1>11, <3>1
  <2>2. r - 1 \in 1..(Len(w) - 2) /\ (r - 1) + 1 = r
    <3>1. r \in Nat /\ r >= 2 /\ r <= Len(w) /\ Len(w) \in Nat
      BY <1>2, <1>7, <1>8
    <3> QED
      BY <2>1, <3>1
  <2>3. Upto(w, r - 1).open
    <3>1. \A j \in 1..(Len(w) - 2) : ~ Upto(w, j).open => w[j + 1] \notin {START, END}
      BY <1>5 DEF Framed
    <3> DEFINE j == r - 1
    <3>2. j \in 1..(Len(w) - 2) /\ w[j + 1] = START
      BY <1>9, <1>11, <2>2
    <3> HIDE DEF j
    <3>3. Upto(w, j).open
      BY <3>1, <3>2
    <3> QED
      BY <3>3 DEF j
  <2> QED
    BY <2>3 DEF Noticed
<1>12. CASE i > 1 /\ whole[i - 1] = ESCAPE
  <2>1. Upto(w, r - 1).open
    BY <1>5, <1>8, <1>9, <1>12
  <2> QED
    BY <2>1 DEF Noticed
<1>13. CASE whole[i] # ESCAPE /\ b \notin {END, ESCAPE}
  BY <1>9, <1>13 DEF Noticed
<1> QED
  BY <1>6, <1>10, <1>11, <1>12, <1>13

\* Nothing of a frame that is too long is accepted.
LEMMA NoneOfTooLong ==
    ASSUME NEW s \in Bytes, Framed(s), Len(s) > MaxFrameSize,
           NEW out \in Seq(Proper), NEW buffer \in Bytes, NEW t \in 0..Len(s),
           Wires(out) \o buffer = SubSeq(s, 1, t)
    PROVE  out = <<>>
<1> SUFFICES ASSUME out # <<>> PROVE FALSE
  OBVIOUS
<1> DEFINE y == out[0 + 1].wire
<1>1. out \in Seq(Frame) /\ 0 \in 0..(Len(out) - 1) /\ out[0 + 1] \in Proper /\ s \in Seq(Byte)
  <2>1. Proper \subseteq Frame
    BY DEF Proper
  <2> QED
    BY <2>1 DEF Bytes
<1>2. Place(out, 0) = 0
  <2>1. SubSeq(out, 1, 0) = <<>> /\ Wires(<<>>) = <<>>
    BY FoldEmpty DEF Wires
  <2> QED
    BY <2>1, Len(<<>>) = 0 DEF Place
<1>3. /\ y \in Bytes /\ Len(y) \in Nat /\ Place(out, 0) + Len(y) = Place(out, 0 + 1)
      /\ Place(out, 0 + 1) <= Len(Wires(out) \o buffer)
      /\ \A j \in 1..Len(y) : (Wires(out) \o buffer)[Place(out, 0) + j] = y[j]
  BY <1>1, FrameAt, Zenon
<1>4. Decode(y) = out[0 + 1] /\ Decode(y) # None
  BY <1>1, NamesAssumption DEF Proper
<1> HIDE DEF y
<1>5. Framed(y) /\ Len(y) <= MaxFrameSize
  BY <1>3, <1>4, DecodedFramed
<1>6. Len(SubSeq(s, 1, t)) = t /\ t <= Len(s) /\ \A j \in 1..t : SubSeq(s, 1, t)[j] = s[j]
  BY <1>1
<1>7. Len(y) <= t /\ \A j \in 1..Len(y) : s[j] = y[j]
  <2> DEFINE got == Wires(out) \o buffer
  <2>1. got = SubSeq(s, 1, t)
    OBVIOUS
  <2>2. Len(y) <= Len(got) /\ \A j \in 1..Len(y) : got[j] = y[j]
    <3>1. /\ Place(out, 0 + 1) <= Len(got)
          /\ \A j \in 1..Len(y) : got[Place(out, 0) + j] = y[j]
      BY <1>3, Zenon
    <3> HIDE DEF got
    <3>2. \A j \in 1..Len(y) : Place(out, 0) + j = j
      BY <1>2
    <3>3. Place(out, 0 + 1) = Len(y)
      BY <1>2, <1>3
    <3> QED
      BY <3>1, <3>2, <3>3
  <2> HIDE DEF got
  <2>3. Len(got) = t /\ \A j \in 1..t : got[j] = s[j]
    BY <1>6, <2>1
  <2> QED
    BY <1>3, <2>2, <2>3
<1>8. Len(y) <= Len(s) /\ Len(s) \in Nat
  BY <1>1, <1>3, <1>6, <1>7
<1>9. s = y
  BY <1>5, <1>7, <1>8, PrefixFree
<1> QED
  BY <1>3, <1>5, <1>9, ConstantsAssumption

-----------------------------------------------------------------------------
(* The reader.                                                              *)

\* The stream is that of the frames sent, up to its end.
Unbroken == IsPrefix(stream, Wires(sent))

\* Where the reader is after t bytes: they are those of the frames it has
\* decoded and of its buffer, and while the stream is that of the frames sent
\* it is in the midst of the next of these.
Progress(frames, buffer, t) ==
    /\ frames \in Seq(Proper) /\ Wires(frames) \o buffer = SubSeq(stream, 1, t)
    /\ Unbroken => \E k \in 0..Len(sent) :
          /\ frames = SubSeq(sent, 1, k)
          /\ buffer # <<>> => k < Len(sent) /\ Len(buffer) < Len(sent[k + 1].wire)

\* The next byte of the stream, if the reader is in the midst of a frame.
LEMMA NextByte ==
    ASSUME stream \in Bytes, sent \in Seq(Frame), Unbroken, NEW k \in 0..(Len(sent) - 1),
           NEW b \in Bytes, NEW t \in 0..(Len(stream) - 1),
           Wires(SubSeq(sent, 1, k)) \o b = SubSeq(stream, 1, t), Len(b) < Len(sent[k + 1].wire)
    PROVE  b = SubSeq(sent[k + 1].wire, 1, Len(b)) /\ stream[t + 1] = sent[k + 1].wire[Len(b) + 1]
<1> DEFINE s == stream
           a == Wires(SubSeq(sent, 1, k))
           w == sent[k + 1].wire
           whole == Wires(sent)
<1>1. PICK rest \in Bytes : whole = (a \o w) \o rest
  BY WiresAround
<1>2. /\ s \in Seq(Byte) /\ a \in Seq(Byte) /\ w \in Seq(Byte) /\ rest \in Seq(Byte)
      /\ whole \in Seq(Byte) /\ IsPrefix(s, whole) /\ b \in Seq(Byte) /\ t \in 0..(Len(s) - 1)
      /\ a \o b = SubSeq(s, 1, t) /\ Len(b) < Len(w)
  <2>1. SubSeq(sent, 1, k) \in Seq(Frame) /\ sent[k + 1] \in Frame
    OBVIOUS
  <2>2. w \in Bytes
    BY <2>1 DEF Frame
  <2>3. a \in Bytes /\ whole \in Bytes
    BY <2>1, WiresAppend
  <2> QED
    BY <1>1, <2>2, <2>3 DEF Bytes, Unbroken
<1> HIDE DEF s, a, w, whole
<1>3. /\ Len(s) \in Nat /\ Len(whole) = Len(a) + Len(w) + Len(rest)
      /\ Len(a) \in Nat /\ Len(w) \in Nat /\ Len(b) \in Nat /\ Len(rest) \in Nat
      /\ t \in Nat /\ t + 1 <= Len(s) /\ Len(b) + 1 <= Len(w)
  <2>1. a \o w \in Seq(Byte) /\ Len(a \o w) = Len(a) + Len(w)
    BY <1>2
  <2>2. Len((a \o w) \o rest) = Len(a \o w) + Len(rest)
    BY <1>2, <2>1
  <2>3. Len(s) \in Nat /\ Len(a) \in Nat /\ Len(w) \in Nat /\ Len(b) \in Nat /\ Len(rest) \in Nat
    <3>1. \A x \in Seq(Byte) : Len(x) \in Nat
      OBVIOUS
    <3> QED
      BY <1>2, <3>1, Zenon
  <2>4. t \in 0..(Len(s) - 1) /\ Len(b) < Len(w)
    BY <1>2
  <2> QED
    BY <1>1, <2>1, <2>2, <2>3, <2>4
<1>4. Len(s) <= Len(whole) /\ SubSeq(s, 1, Len(s)) = SubSeq(whole, 1, Len(s))
  BY <1>2 DEF IsPrefix
<1>5. \A i \in 1..Len(s) : s[i] = whole[i]
  <2>1. \A i \in 1..Len(s) : SubSeq(s, 1, Len(s))[i] = s[i] /\ SubSeq(whole, 1, Len(s))[i] = whole[i]
    BY <1>2, <1>3, <1>4
  <2> QED
    BY <1>2, <1>4, <2>1
<1>6. Len(a) + Len(b) = t
  <2>1. Len(a \o b) = Len(a) + Len(b) /\ Len(SubSeq(s, 1, t)) = t
    BY <1>2
  <2> QED
    BY <1>2, <2>1
<1>7. \A i \in 1..Len(w) : whole[Len(a) + i] = w[i]
  <2> SUFFICES ASSUME NEW i \in 1..Len(w) PROVE whole[Len(a) + i] = w[i]
    BY <1>2
  <2>1. a \o w \in Seq(Byte) /\ Len(a \o w) = Len(a) + Len(w)
    BY <1>2
  <2>2. Len(a) + i \in 1..Len(a \o w)
    BY <1>2, <1>3, <2>1
  <2>3. whole[Len(a) + i] = (a \o w)[Len(a) + i]
    BY <1>1, <1>2, <2>1, <2>2
  <2>4. (a \o w)[Len(a) + i] = w[i]
    BY <1>2, ConcatIs
  <2> QED
    BY <1>2, <2>3, <2>4
<1>8. \A i \in 1..Len(b) : b[i] = w[i]
  <2> SUFFICES ASSUME NEW i \in 1..Len(b) PROVE b[i] = w[i]
    BY <1>2
  <2>1. (a \o b)[Len(a) + i] = b[i]
    <3>1. a \in Seq(Byte) /\ b \in Seq(Byte)
      BY <1>2
    <3> QED
      BY <3>1, ConcatIs
  <2>2. Len(a) + i \in 1..t /\ Len(a) + i \in 1..Len(s) /\ i \in 1..Len(w)
    <3>1. i \in Nat /\ 1 <= i /\ i <= Len(b)
      BY <1>3
    <3>2. i \in 1..Len(w)
      BY <1>3, <3>1
    <3>3. Len(a) + i \in Nat /\ 1 <= Len(a) + i /\ Len(a) + i <= Len(a) + Len(b)
      BY <1>3, <3>1, SMTT(20)
    <3>4. Len(a) + i <= t
      BY <1>6, <3>3, Zenon
    <3>5. Len(a) + i <= Len(s)
      BY <1>3, <3>3, <3>4
    <3> QED
      BY <1>3, <3>2, <3>3, <3>4, <3>5
  <2>3. SubSeq(s, 1, t)[Len(a) + i] = s[Len(a) + i]
    <3>1. s \in Seq(Byte) /\ t \in 0..Len(s)
      BY <1>2, <1>3
    <3> DEFINE j == Len(a) + i
    <3>2. j \in 1..t
      BY <2>2
    <3> HIDE DEF j
    <3>3. SubSeq(s, 1, t)[j] = s[j]
      BY <3>1, <3>2, BeginningAt
    <3> QED
      BY <3>3 DEF j
  <2> QED
    BY <1>2, <1>5, <1>7, <2>1, <2>2, <2>3
<1>9. b = SubSeq(w, 1, Len(b))
  <2>1. /\ SubSeq(w, 1, Len(b)) \in Seq(Byte) /\ Len(SubSeq(w, 1, Len(b))) = Len(b)
        /\ \A i \in 1..Len(b) : SubSeq(w, 1, Len(b))[i] = w[i]
    <3>1. w \in Seq(Byte)
      BY <1>2
    <3> QED
      BY <1>3, <3>1, SMTT(20)
  <2> QED
    BY <1>2, <1>8, <2>1, SeqEqual
<1>10. s[t + 1] = w[Len(b) + 1]
  <2>1. t + 1 \in 1..Len(s) /\ Len(b) + 1 \in 1..Len(w) /\ t + 1 = Len(a) + (Len(b) + 1)
    BY <1>3, <1>6, SMTT(20)
  <2>2. s[t + 1] = whole[t + 1] /\ whole[Len(a) + (Len(b) + 1)] = w[Len(b) + 1]
    BY <1>2, <1>5, <1>7, <2>1
  <2> QED
    BY <1>2, <2>1, <2>2, Zenon
<1> QED
  BY <1>9, <1>10 DEF s, w

LEMMA OneByte ==
    ASSUME stream \in Bytes, sent \in Seq(Proper), NEW before \in Seq(Frame),
           NEW p \in Feeding, WellFormed(p), NEW t \in 0..(Len(stream) - 1),
           p.ok => Progress(before \o p.frames, p.buffer, t), Unbroken => p.ok
    PROVE  LET q == FeedByte[p][stream[t + 1]]
           IN /\ q \in Feeding /\ WellFormed(q) /\ (Unbroken => q.ok)
              /\ q.ok => Progress(before \o q.frames, q.buffer, t + 1)
<1> DEFINE b == stream[t + 1]
           q == FeedByte[p][b]
           done == before \o p.frames
<1>1. /\ stream \in Seq(Byte) /\ b \in Byte /\ Len(stream) \in Nat /\ t \in Nat /\ t < Len(stream)
      /\ Append(SubSeq(stream, 1, t), b) = SubSeq(stream, 1, t + 1)
      /\ SubSeq(stream, 1, t) \in Seq(Byte) /\ Len(SubSeq(stream, 1, t)) = t
  <2>1. stream \in Seq(Byte)
    BY DEF Bytes
  <2> QED
    BY <2>1, OneMore
<1>2. p.buffer \in Bytes /\ p.frames \in Seq(Frame) /\ done \in Seq(Frame)
  BY DEF Feeding
<1>3. sent \in Seq(Frame) /\ \A i \in 1..Len(sent) : sent[i] \in Proper
  <2>1. Proper \subseteq Frame
    BY DEF Proper
  <2> QED
    BY <2>1
<1>4. /\ q \in Feeding /\ WellFormed(q)
      /\ q.ok =>
          /\ p.ok
          /\ \/ q.frames = p.frames /\ q.buffer = Append(p.buffer, b)
             \/ /\ Decode(Append(p.buffer, b)) \in Frame
                /\ Decode(Append(p.buffer, b)).wire = Append(p.buffer, b)
                /\ q.frames = Append(p.frames, Decode(Append(p.buffer, b))) /\ q.buffer = <<>>
  BY <1>1, FeedByteKeeps
<1>5. \A f \in Frame : before \o Append(p.frames, f) = Append(done, f)
  BY <1>2, SMTT(30)
<1> HIDE DEF b, q, done
<1>6. ASSUME q.ok
      PROVE  /\ before \o q.frames \in Seq(Proper)
             /\ Wires(before \o q.frames) \o q.buffer = SubSeq(stream, 1, t + 1)
  <2>1. done \in Seq(Proper) /\ Wires(done) \o p.buffer = SubSeq(stream, 1, t) /\ p.ok
    BY <1>4, <1>6 DEF Progress, done
  <2>2. Wires(done) \in Seq(Byte) /\ p.buffer \in Seq(Byte)
    BY <1>2, WiresAppend DEF Bytes
  <2>3. Wires(done) \o Append(p.buffer, b) = SubSeq(stream, 1, t + 1)
    <3>1. Wires(done) \o Append(p.buffer, b) = Append(Wires(done) \o p.buffer, b)
      BY <1>1, <2>2, SMTT(30)
    <3> QED
      BY <1>1, <2>1, <3>1
  <2>4. CASE q.frames = p.frames /\ q.buffer = Append(p.buffer, b)
    BY <2>1, <2>3, <2>4 DEF done
  <2>5. CASE /\ Decode(Append(p.buffer, b)) \in Frame
             /\ Decode(Append(p.buffer, b)).wire = Append(p.buffer, b)
             /\ q.frames = Append(p.frames, Decode(Append(p.buffer, b))) /\ q.buffer = <<>>
    <3> DEFINE f == Decode(Append(p.buffer, b))
    <3>1. before \o q.frames = Append(done, f) /\ f \in Frame /\ f.wire = Append(p.buffer, b)
      BY <1>5, <2>5
    <3>2. Wires(Append(done, f)) = Wires(done) \o f.wire /\ Wires(Append(done, f)) \in Seq(Byte)
      <4> HIDE DEF f
      <4>1. Wires(Append(done, f)) = Wires(done) \o f.wire
        BY <1>2, <3>1, WiresAppend
      <4>2. Append(done, f) \in Seq(Frame)
        BY <1>2, <3>1
      <4> QED
        BY <4>1, <4>2, WiresAppend DEF Bytes
    <3>3. Wires(Append(done, f)) \o <<>> = Wires(Append(done, f))
      BY <3>2
    <3>4. Append(done, f) \in Seq(Proper)
      <4>1. f \in Proper
        BY <3>1 DEF Proper
      <4> HIDE DEF f
      <4> QED
        BY <2>1, <4>1
    <3> QED
      BY <2>3, <2>5, <3>1, <3>2, <3>3, <3>4
  <2> QED
    BY <1>4, <1>6, <2>4, <2>5
<1>7. ASSUME Unbroken
      PROVE  q.ok /\ \E k \in 0..Len(sent) :
                        /\ before \o q.frames = SubSeq(sent, 1, k)
                        /\ q.buffer # <<>> => k < Len(sent) /\ Len(q.buffer) < Len(sent[k + 1].wire)
  <2>1. p.ok /\ Wires(done) \o p.buffer = SubSeq(stream, 1, t)
    BY <1>7 DEF Progress, done
  <2>2. PICK k \in 0..Len(sent) :
            /\ done = SubSeq(sent, 1, k)
            /\ p.buffer # <<>> => k < Len(sent) /\ Len(p.buffer) < Len(sent[k + 1].wire)
    BY <1>7, <2>1 DEF Progress, done
  <2>3. Wires(done) \in Seq(Byte) /\ Wires(sent) \in Seq(Byte) /\ p.buffer \in Seq(Byte)
    BY <1>2, <1>3, WiresAppend DEF Bytes
  <2>4. k < Len(sent)
    <3> SUFFICES ASSUME ~ (k < Len(sent)) PROVE FALSE
      OBVIOUS
    <3>1. p.buffer = <<>> /\ done = sent
      BY <1>3, <2>2
    <3>2. Wires(sent) = SubSeq(stream, 1, t)
      BY <2>1, <2>3, <3>1
    <3>3. Len(stream) <= Len(Wires(sent))
      BY <1>7 DEF Unbroken, IsPrefix
    <3> QED
      BY <1>1, <3>2, <3>3
  <2> DEFINE f == sent[k + 1]
             w == f.wire
             n == Len(p.buffer)
  <2>5. f \in Frame /\ w \in Bytes /\ w \in Seq(Byte) /\ Decode(w) = f
    <3>1. f \in Proper
      BY <1>3, <2>2, <2>4
    <3> QED
      BY <3>1 DEF Proper, Frame, Bytes
  <2>6. f # None
    BY <2>5, NamesAssumption
  <2>7. Len(w) \in Nat /\ n \in Nat /\ n < Len(w)
    <3>1. w # <<>>
      BY <2>5, <2>6, DecodeType DEF Delimited
    <3>2. Len(w) \in Nat /\ Len(w) # 0 /\ n \in Nat
      BY <2>3, <2>5, <3>1
    <3>3. p.buffer = <<>> => n = 0
      BY <2>3
    <3> QED
      BY <2>2, <3>2, <3>3
  <2>8. p.buffer = SubSeq(w, 1, n) /\ b = w[n + 1]
    <3>1. /\ k \in 0..(Len(sent) - 1) /\ Len(p.buffer) < Len(sent[k + 1].wire)
          /\ Wires(SubSeq(sent, 1, k)) \o p.buffer = SubSeq(stream, 1, t)
      <4>1. k \in 0..(Len(sent) - 1)
        BY <1>3, <2>2, <2>4
      <4>2. Wires(SubSeq(sent, 1, k)) \o p.buffer = SubSeq(stream, 1, t)
        BY <2>1, <2>2, Zenon
      <4> QED
        BY <2>7, <4>1, <4>2, Zenon
    <3> HIDE DEF f, w, n
    <3>2. /\ p.buffer = SubSeq(sent[k + 1].wire, 1, Len(p.buffer))
          /\ stream[t + 1] = sent[k + 1].wire[Len(p.buffer) + 1]
      BY <1>2, <1>3, <1>7, <3>1, NextByte
    <3> QED
      BY <3>2, Zenon DEF b, f, w, n
  <2>9. /\ q.ok
        /\ n + 1 < Len(w) => q.frames = p.frames /\ q.buffer = Append(p.buffer, b)
        /\ n + 1 = Len(w) => q.frames = Append(p.frames, f) /\ q.buffer = <<>>
    <3>1. n \in 0..(Len(w) - 1)
      BY <2>7
    <3> HIDE DEF f, w, n
    <3>2. /\ FeedByte[p][w[n + 1]].ok
          /\ n + 1 < Len(w) => /\ FeedByte[p][w[n + 1]].frames = p.frames
                               /\ FeedByte[p][w[n + 1]].buffer = Append(p.buffer, w[n + 1])
          /\ n + 1 = Len(w) => /\ FeedByte[p][w[n + 1]].frames = Append(p.frames, Decode(w))
                               /\ FeedByte[p][w[n + 1]].buffer = <<>>
      BY <2>1, <2>5, <2>6, <2>8, <3>1, FeedByteAccepts
    <3> QED
      BY <2>5, <2>8, <3>2, Zenon DEF q
  <2>10. CASE n + 1 < Len(w)
    <3>1. before \o q.frames = SubSeq(sent, 1, k)
      BY <2>2, <2>9, <2>10 DEF done
    <3>2. Len(q.buffer) = n + 1
      BY <1>1, <2>3, <2>9, <2>10, SMTT(20)
    <3> QED
      BY <2>4, <2>9, <2>10, <3>1, <3>2
  <2>11. CASE n + 1 = Len(w)
    <3>1. before \o q.frames = Append(SubSeq(sent, 1, k), sent[k + 1])
      BY <1>5, <2>2, <2>5, <2>9, <2>11
    <3>2. Append(SubSeq(sent, 1, k), sent[k + 1]) = SubSeq(sent, 1, k + 1)
      <4>1. k \in 0..(Len(sent) - 1)
        BY <2>2, <2>4
      <4> QED
        BY <1>3, <4>1, OneMore
    <3>3. k + 1 \in 0..Len(sent)
      BY <1>3, <2>2, <2>4
    <3> QED
      BY <2>9, <2>11, <3>1, <3>2, <3>3
  <2> QED
    <3>1. n + 1 < Len(w) \/ n + 1 = Len(w)
      BY <2>7
    <3> QED
      BY <2>10, <2>11, <3>1
<1> QED
  BY <1>4, <1>6, <1>7 DEF Progress, q, b

\* A chunk, byte for byte.
LEMMA Chunk ==
    ASSUME stream \in Bytes, sent \in Seq(Proper), taken \in 0..Len(stream),
           delivered \in Seq(Frame), parser \in [buffer : Bytes, escaped : BOOLEAN],
           WellFormed(parser), Progress(delivered, parser.buffer, taken),
           NEW n \in 0..(Len(stream) - taken)
    PROVE  LET p == Feed(SubSeq(stream, taken + 1, taken + n))
           IN /\ p \in Feeding /\ WellFormed(p) /\ (Unbroken => p.ok)
              /\ p.ok => Progress(delivered \o p.frames, p.buffer, taken + n)
<1> DEFINE data(m) == SubSeq(stream, taken + 1, taken + m)
           p(m) == Fold(FeedByte, Begun, data(m))
           Good(q, m) == /\ q \in Feeding /\ WellFormed(q) /\ (Unbroken => q.ok)
                         /\ q.ok => Progress(delivered \o q.frames, q.buffer, taken + m)
           S == {m \in Nat : m <= n => Good(p(m), m)}
           A == {q \in Feeding : WellFormed(q)}
<1>1. /\ stream \in Seq(Byte) /\ Len(stream) \in Nat /\ taken \in Nat /\ n \in Nat
      /\ taken + n <= Len(stream)
  BY DEF Bytes
<1>2. Begun \in A /\ Begun.ok /\ Begun.frames = <<>> /\ Begun.buffer = parser.buffer
  <2>1. Begun \in Feeding /\ Begun.buffer = parser.buffer /\ Begun.escaped = parser.escaped
        /\ Begun.ok /\ Begun.frames = <<>>
    BY DEF Begun, Feeding
  <2> QED
    BY <2>1 DEF WellFormed, Pending
<1>3. \A q \in A, b \in Byte : FeedByte[q][b] \in A
  BY FeedByteKeeps
<1>4. 0 \in S
  <2>1. data(0) = <<>>
    BY <1>1
  <2> HIDE DEF data
  <2>2. p(0) = Begun
    BY <2>1, FoldEmpty
  <2>3. delivered \o Begun.frames = delivered /\ taken + 0 = taken
    BY <1>1, <1>2
  <2>4. Good(Begun, 0)
    BY <1>2, <2>3
  <2> HIDE DEF p, Good
  <2> QED
    BY <2>2, <2>4
<1>5. ASSUME NEW m \in Nat, m \in S PROVE m + 1 \in S
  <2> SUFFICES ASSUME m + 1 <= n PROVE Good(p(m + 1), m + 1)
    OBVIOUS
  <2> DEFINE t == taken + m
             b == stream[t + 1]
  <2>1. t \in 0..(Len(stream) - 1) /\ t + 1 = taken + (m + 1) /\ b \in Byte
    BY <1>1
  <2>2. data(m) \in Seq(Byte) /\ data(m + 1) = Append(data(m), b)
    <3>1. data(m) \in Seq(Byte) /\ Len(data(m)) = m /\ \A i \in 1..m : data(m)[i] = stream[taken + i]
      BY <1>1
    <3>2. /\ data(m + 1) \in Seq(Byte) /\ Len(data(m + 1)) = m + 1
          /\ \A i \in 1..(m + 1) : data(m + 1)[i] = stream[taken + i]
      BY <1>1
    <3>3. b = stream[taken + (m + 1)]
      BY <2>1
    <3> HIDE DEF data, b
    <3>4. /\ Append(data(m), b) \in Seq(Byte) /\ Len(Append(data(m), b)) = m + 1
          /\ \A i \in 1..m : Append(data(m), b)[i] = data(m)[i]
          /\ Append(data(m), b)[m + 1] = b
      BY <2>1, <3>1
    <3>5. ASSUME NEW i \in 1..(m + 1) PROVE data(m + 1)[i] = Append(data(m), b)[i]
      <4>1. CASE i \in 1..m
        BY <3>1, <3>2, <3>4, <4>1
      <4>2. CASE i = m + 1
        BY <3>2, <3>3, <3>4, <4>2
      <4>3. i \in 1..m \/ i = m + 1
        OBVIOUS
      <4> QED
        BY <4>1, <4>2, <4>3
    <3> QED
      BY <3>1, <3>2, <3>4, <3>5, SeqEqual
  <2>3. Good(p(m), m)
    BY <1>5
  <2> HIDE DEF data
  <2>4. p(m + 1) = FeedByte[p(m)][b] /\ p(m) \in A
    <3>1. Fold(FeedByte, Begun, Append(data(m), b)) = FeedByte[Fold(FeedByte, Begun, data(m))][b]
      <4> HIDE DEF A, b
      <4> QED
        BY <1>2, <1>3, <2>1, <2>2, FoldAppend, SMTT(20)
    <3> QED
      BY <2>2, <2>3, <3>1
  <2> HIDE DEF p
  <2>5. Good(FeedByte[p(m)][b], m + 1)
    <3> DEFINE q == p(m)
    <3>1. q \in Feeding /\ WellFormed(q) /\ (Unbroken => q.ok)
          /\ (q.ok => Progress(delivered \o q.frames, q.buffer, t))
      BY <2>3
    <3> HIDE DEF q, t
    <3>2. LET r == FeedByte[q][stream[t + 1]]
          IN /\ r \in Feeding /\ WellFormed(r) /\ (Unbroken => r.ok)
             /\ r.ok => Progress(delivered \o r.frames, r.buffer, t + 1)
      BY <2>1, <3>1, OneByte
    <3> QED
      BY <2>1, <3>2, Zenon DEF q
  <2> QED
    BY <2>4, <2>5
<1> HIDE DEF S
<1>6. n \in S
  BY <1>1, <1>4, <1>5, Induction
<1> QED
  BY <1>1, <1>6 DEF S, Feed

\* A stream of whole frames leaves nothing of a frame in the buffer.
LEMMA NothingLeft ==
    ASSUME sent \in Seq(Frame), stream = Wires(sent), NEW frames, NEW buffer \in Bytes,
           Progress(frames, buffer, Len(stream))
    PROVE  buffer = <<>>
<1> SUFFICES ASSUME buffer # <<>> PROVE FALSE
  OBVIOUS
<1>1. stream \in Seq(Byte) /\ buffer \in Seq(Byte)
  BY WiresAppend DEF Bytes
<1>2. Unbroken
  BY <1>1 DEF Unbroken, IsPrefix
<1>3. PICK k \in 0..Len(sent) : /\ frames = SubSeq(sent, 1, k)
                                /\ k < Len(sent) /\ Len(buffer) < Len(sent[k + 1].wire)
  BY <1>2 DEF Progress
<1>4. k \in 0..(Len(sent) - 1)
  BY <1>3
<1> DEFINE a == Wires(frames)
           w == sent[k + 1].wire
<1>5. PICK rest \in Bytes : stream = (a \o w) \o rest
  BY <1>3, <1>4, WiresAround
<1>6. a \in Seq(Byte) /\ w \in Seq(Byte) /\ rest \in Seq(Byte)
  <2>1. frames \in Seq(Frame) /\ sent[k + 1] \in Frame
    BY <1>3, <1>4
  <2> QED
    BY <2>1, WiresAppend DEF Bytes, Frame
<1>7. a \o buffer = stream
  BY <1>1 DEF Progress
<1>8. Len(buffer) < Len(w)
  BY <1>3
<1> HIDE DEF a, w
<1>9. Len(stream) = Len(a) + Len(buffer)
  BY <1>1, <1>6, <1>7
<1>10. Len(stream) = Len(a) + Len(w) + Len(rest)
  <2>1. a \o w \in Seq(Byte) /\ Len(a \o w) = Len(a) + Len(w)
    BY <1>6
  <2>2. Len((a \o w) \o rest) = Len(a \o w) + Len(rest)
    BY <1>6, <2>1
  <2> QED
    BY <1>5, <2>1, <2>2
<1>11. Len(a) \in Nat /\ Len(w) \in Nat /\ Len(rest) \in Nat /\ Len(buffer) \in Nat
  BY <1>1, <1>6
<1> QED
  BY <1>8, <1>9, <1>10, <1>11

-----------------------------------------------------------------------------
(* The peer.                                                                *)

\* The addresses that the requests and answers name.
Addresses == {0, 26, 32, 80}

LEMMA Numbers ==
    /\ \A n \in {1, 2, 16, 32, 26, 48, 49, 80, 128, 0} : n \in Byte /\ n \in Nat
    /\ 0 \in Addresses /\ 26 \in Addresses /\ 32 \in Addresses /\ 80 \in Addresses
    /\ \A n \in Addresses : n \in Nat /\ High(High(High(n))) \in Byte
<1>1. \A n \in Byte : n \div 256 = 0
  BY DEF Byte
<1>2. \A n \in {1, 2, 16, 32, 26, 48, 49, 80, 128, 0} : n \in Byte /\ n \in Nat
  BY DEF Byte
<1>3. \A n \in Byte : High(n) = 0
  BY <1>1 DEF High
<1> QED
  BY <1>2, <1>3 DEF Addresses

\* What encode makes of these fields, if it is not too long.
Encoding(d, s, o, a, l, p) ==
    [destination |-> d, source |-> s, opcode |-> o, address |-> a, length |-> l, payload |-> p,
     wire |-> Wire(d, s, o, a, l, p)]

LEMMA Encodings ==
    ASSUME NEW d \in Byte, NEW s \in Byte, NEW o \in Byte, NEW a \in Addresses,
           NEW l \in Byte, NEW p \in Bytes
    PROVE  /\ Wire(d, s, o, a, l, p) \in Bytes
           /\ Encode(d, s, o, a, l, p) \in Made \cup {None}
           /\ Encode(d, s, o, a, l, p) # None => Encode(d, s, o, a, l, p) = Encoding(d, s, o, a, l, p)
<1>1. a \in Nat /\ High(High(High(a))) \in Byte
  BY Numbers
<1> DEFINE w == Wire(d, s, o, a, l, p)
           e == Encode(d, s, o, a, l, p)
<1>2. w \in Bytes /\ e = IF Len(w) > MaxFrameSize THEN None ELSE Encoding(d, s, o, a, l, p)
  BY <1>1, RoundTrip DEF Encoding
<1>3. e = Decode(w)
  BY Zenon DEF Encode
<1> HIDE DEF w, e
<1>4. Framed(w) /\ \A j \in 1..Len(w) : w[j] = ESCAPE => Upto(w, j).open
  BY <1>1, WireMarked DEF w
<1>5. ASSUME e # None PROVE e \in Made
  <2>1. e \in Frame /\ e.wire = w
    BY <1>2, <1>3, <1>5, DecodeType
  <2>2. e \in Proper
    BY <1>3, <2>1 DEF Proper
  <2> QED
    BY <1>4, <2>1, <2>2 DEF Made
<1> QED
  BY <1>2, <1>5, Zenon DEF w, e

LEMMA Encoded ==
    ASSUME NEW d \in Byte, NEW s \in Byte, NEW o \in Byte, NEW a \in Addresses,
           NEW l \in Byte, NEW p \in Bytes, Encode(d, s, o, a, l, p) # None
    PROVE  /\ Encode(d, s, o, a, l, p) \in Made
           /\ Encode(d, s, o, a, l, p) = Encoding(d, s, o, a, l, p)
BY Encodings

\* The frames the proxy's requests are.
LEMMA ReadsAre ==
    ASSUME NEW r \in Reads
    PROVE  /\ r \in Made
           /\ \E tag \in Tags : \/ r = Encoding(1, tag, 49, 32, 16, <<>>)
                                \/ r = Encoding(1, tag, 49, 0, 128, <<>>)
<1>1. PICK tag \in Tags : r # None /\ (r = ReadStatus(tag) \/ r = ReadSnapshot(tag))
  BY DEF Reads, Frames
<1>2. tag \in Byte /\ 1 \in Byte /\ 49 \in Byte /\ 16 \in Byte /\ 128 \in Byte
      /\ 0 \in Addresses /\ 32 \in Addresses
  BY ConstantsAssumption, Numbers
<1>3. <<>> \in Bytes
  BY DEF Bytes
<1>4. CASE r = ReadStatus(tag)
  <2>1. r = Encode(1, tag, 49, 32, 16, <<>>)
    BY <1>4 DEF ReadStatus, DeviceAddress
  <2> QED
    BY <1>1, <1>2, <1>3, <2>1, Encoded
<1>5. CASE r = ReadSnapshot(tag)
  <2>1. r = Encode(1, tag, 49, 0, 128, <<>>)
    BY <1>5 DEF ReadSnapshot, DeviceAddress
  <2> QED
    BY <1>1, <1>2, <1>3, <2>1, Encoded
<1> QED
  BY <1>1, <1>4, <1>5

LEMMA ReadFields ==
    ASSUME NEW r \in Reads
    PROVE  /\ r.opcode = 49 /\ r.payload = <<>> /\ r.source \in Tags
           /\ (r.address = 32 /\ r.length = 16) \/ (r.address = 0 /\ r.length = 128)
           /\ r = Encoding(1, r.source, 49, r.address, r.length, <<>>)
<1>1. PICK tag \in Tags : \/ r = Encoding(1, tag, 49, 32, 16, <<>>)
                          \/ r = Encoding(1, tag, 49, 0, 128, <<>>)
  BY ReadsAre
<1>2. CASE r = Encoding(1, tag, 49, 32, 16, <<>>)
  <2>1. /\ r.opcode = 49 /\ r.payload = <<>> /\ r.source = tag
        /\ r.address = 32 /\ r.length = 16
    BY <1>2 DEF Encoding
  <2>2. r = Encoding(1, r.source, 49, r.address, r.length, <<>>)
    BY <1>2, <2>1, Zenon
  <2> QED
    BY <2>1, <2>2
<1>3. CASE r = Encoding(1, tag, 49, 0, 128, <<>>)
  <2>1. /\ r.opcode = 49 /\ r.payload = <<>> /\ r.source = tag
        /\ r.address = 0 /\ r.length = 128
    BY <1>3 DEF Encoding
  <2> QED
    BY <1>3, <2>1
<1> QED
  BY <1>1, <1>2, <1>3

LEMMA CodesAre ==
    /\ DOMAIN Codes = {"open", "closed"} /\ \A v \in DOMAIN Codes : Codes[v] \in Byte
    /\ Codes["open"] = 199 /\ Codes["closed"] = 200
    /\ \A v \in DOMAIN Codes : Named(Codes[v]) = v
<1>1. DOMAIN Codes = {"open", "closed"} /\ Codes["open"] = 199 /\ Codes["closed"] = 200
  BY DEF Codes
<1>2. \A v, w \in DOMAIN Codes : Codes[v] = Codes[w] => v = w
  BY <1>1
<1>3. \A v \in DOMAIN Codes : Named(Codes[v]) = v
  BY <1>2 DEF Named
<1> QED
  BY <1>1, <1>3 DEF Byte

LEMMA CommandsAre ==
    ASSUME NEW v \in DOMAIN Codes, NEW c \in CommandsOf[v]
    PROVE  c \in Made /\ \E tag \in Tags : c = Encoding(1, tag, 32, 26, 2, <<0, Codes[v]>>)
<1>1. PICK tag \in Tags : c # None /\ c = SetValve(tag, v)
  BY DEF CommandsOf, Frames
<1>2. tag \in Byte /\ 1 \in Byte /\ 32 \in Byte /\ 2 \in Byte
      /\ 26 \in Addresses
  BY ConstantsAssumption, Numbers
<1>3. <<0, Codes[v]>> \in Bytes
  BY CodesAre, Numbers DEF Bytes
<1>4. c = Encode(1, tag, 32, 26, 2, <<0, Codes[v]>>)
  BY <1>1 DEF SetValve, DeviceAddress
<1> QED
  BY <1>1, <1>2, <1>3, <1>4, Encoded

LEMMA ArrayIs ==
    ASSUME NEW B, NEW n \in Nat, NEW m \in [1..n -> B]
    PROVE  m \in Seq(B)
OBVIOUS

LEMMA ArrayLen ==
    ASSUME NEW B, NEW n \in Nat, NEW m \in [1..n -> B]
    PROVE  Len(m) = n
OBVIOUS

LEMMA ZerosBytes ==
    ASSUME NEW n \in Int
    PROVE  Zeros(n) \in Bytes /\ Len(Zeros(n)) \in Nat /\ Len(Zeros(n)) >= n
<1>1. 0 \in Byte
  BY Numbers
<1>2. CASE n \in Nat
  <2>1. Zeros(n) \in Seq(Byte) /\ Len(Zeros(n)) = n
    BY <1>1, <1>2, ArrayIs, ArrayLen DEF Zeros
  <2> QED
    BY <1>2, <2>1 DEF Bytes
<1>3. CASE n \notin Nat
  <2>1. 1..n = 1..0
    BY <1>3
  <2>2. Zeros(n) \in Seq(Byte) /\ Len(Zeros(n)) = 0
    BY <1>1, <2>1, ArrayIs, ArrayLen DEF Zeros
  <2> QED
    BY <1>3, <2>2 DEF Bytes
<1> QED
  BY <1>2, <1>3

LEMMA LongestAre ==
    ASSUME NEW f \in Longest
    PROVE  f \in Made /\ f.opcode = 48
<1>1. PICK tag \in Tags : f # None /\ f = Encode(1, tag, 48, 80, 0, Zeros(MaxFrameSize - 12))
  BY DEF Longest, Frames, DeviceAddress
<1>2. tag \in Byte /\ 1 \in Byte /\ 48 \in Byte /\ 0 \in Byte /\ 80 \in Addresses
  BY ConstantsAssumption, Numbers
<1>3. Zeros(MaxFrameSize - 12) \in Bytes
  BY ZerosBytes, ConstantsAssumption
<1>4. f \in Made /\ f = Encoding(1, tag, 48, 80, 0, Zeros(MaxFrameSize - 12))
  BY <1>1, <1>2, <1>3, Encoded
<1> QED
  BY <1>4 DEF Encoding

LEMMA UnknownAre ==
    ASSUME NEW f \in Unknown
    PROVE  f \in Made /\ f.opcode = 32 /\ f.address = 80
<1>1. PICK tag \in Tags, p \in Payloads : f # None /\ f = Encode(1, tag, 32, 80, Len(p), p)
  BY DEF Unknown, Frames, DeviceAddress
<1>2. tag \in Byte /\ 1 \in Byte /\ 32 \in Byte /\ p \in Bytes /\ Len(p) \in Byte
      /\ 80 \in Addresses
  BY ConstantsAssumption, Numbers
<1>3. f \in Made /\ f = Encoding(1, tag, 32, 80, Len(p), p)
  BY <1>1, <1>2, Encoded
<1> QED
  BY <1>3 DEF Encoding

\* What the memory may be; the memory's size stays out of sight of the provers.
Contents == [1..128 -> Byte]

LEMMA MemoryIs ==
    ASSUME NEW m \in Contents
    PROVE  m \in Seq(Byte) /\ Len(m) = 128
<1> DEFINE n == 128
<1>1. n \in Nat /\ m \in [1..n -> Byte]
  BY DEF Contents
<1> HIDE DEF n
<1>2. m \in Seq(Byte) /\ Len(m) = n
  BY <1>1, ArrayIs, ArrayLen
<1> QED
  BY <1>2 DEF n

\* The part of the memory that a read asks for.
Part(m, r) == SubSeq(m, r.address + 1, r.address + r.length)

LEMMA PartIs ==
    ASSUME NEW B, NEW m \in Seq(B), NEW r, r.address \in Nat, r.length \in Nat,
           r.address + r.length <= Len(m)
    PROVE  Part(m, r) \in Seq(B)
BY DEF Part

LEMMA AnswersAre ==
    ASSUME NEW m \in Contents, NEW f \in Answers(m)
    PROVE  /\ f \in Made
           /\ \/ \E r \in Reads :
                    f = Answer(r, m) /\ f = Encoding(r.source, 1, 49, r.address, r.length, Part(m, r))
              \/ \E tag \in Tags : f = Encoding(tag, 1, 32, 0, 0, <<>>)
<1>1. PICK r \in Reads \cup Commands : f # None /\ f = Answer(r, m)
  BY DEF Answers, Frames
<1>2. CASE r \in Reads
  <2>1. /\ r.opcode = 49 /\ r.source \in Tags
        /\ (r.address = 32 /\ r.length = 16) \/ (r.address = 0 /\ r.length = 128)
    BY <1>2, ReadFields
  <2>3. f = Encode(r.source, 1, 49, r.address, r.length, Part(m, r))
    BY <1>1, <2>1 DEF Answer, Part, DeviceAddress
  <2>4. r.source \in Byte /\ r.length \in Byte /\ 1 \in Byte /\ 49 \in Byte
        /\ r.address \in Addresses
    BY <2>1, ConstantsAssumption, Numbers DEF Addresses
  <2>5. Part(m, r) \in Bytes
    <3>1. m \in Seq(Byte) /\ Len(m) = 128
      BY MemoryIs
    <3>2. r.address \in Nat /\ r.length \in Nat /\ r.address + r.length <= 128
      BY <2>1
    <3>3. r.address + r.length <= Len(m)
      BY <3>1, <3>2
    <3> QED
      BY <3>1, <3>2, <3>3, PartIs DEF Bytes
  <2>6. f \in Made /\ f = Encoding(r.source, 1, 49, r.address, r.length, Part(m, r))
    BY <1>1, <2>3, <2>4, <2>5, Encoded
  <2> QED
    BY <1>1, <1>2, <2>6
<1>3. CASE r \in Commands
  <2>1. PICK v \in DOMAIN Codes : r \in CommandsOf[v]
    BY <1>3 DEF Commands
  <2>2. PICK tag \in Tags : r = Encoding(1, tag, 32, 26, 2, <<0, Codes[v]>>)
    BY <2>1, CommandsAre
  <2>3. r.opcode = 32 /\ r.source = tag
    BY <2>2 DEF Encoding
  <2>4. f = Encode(tag, 1, 32, 0, 0, <<>>)
    BY <1>1, <2>3 DEF Answer, DeviceAddress
  <2>5. tag \in Byte /\ 1 \in Byte /\ 32 \in Byte /\ 0 \in Byte /\ 0 \in Addresses /\ <<>> \in Bytes
    BY ConstantsAssumption, Numbers DEF Bytes
  <2>6. f \in Made /\ f = Encoding(tag, 1, 32, 0, 0, <<>>)
    BY <1>1, <2>4, <2>5, Encoded
  <2> QED
    BY <2>6
<1> QED
  BY <1>2, <1>3

\* All that the peer sends.
Known(m) == Answers(m) \cup Longest \cup Commands \cup Unknown

LEMMA KnownMade ==
    ASSUME NEW m \in Contents
    PROVE  Known(m) \subseteq Made
<1>1. Answers(m) \subseteq Made
  BY AnswersAre
<1>2. Commands \subseteq Made
  BY CommandsAre DEF Commands
<1>3. Longest \subseteq Made /\ Unknown \subseteq Made
  BY LongestAre, UnknownAre
<1> QED
  BY <1>1, <1>2, <1>3 DEF Known

\* What Recognized says of one frame.
RecognizedFrame(f, m) ==
    /\ \A r \in Reads : Matches(f, r) =>
          /\ f = Answer(r, m)
          /\ StatusValues(f) =
               <<Named(m[46]),
                 IF r.length = 16 THEN None
                 ELSE Joined(Joined(Joined(m[52], m[51]), m[50]), m[49])>>
    /\ \A v \in DOMAIN Codes : ValveCommand(f) = v <=> f \in CommandsOf[v]

LEMMA AnswerMeans ==
    ASSUME NEW m \in Contents, NEW r \in Reads,
           NEW f, f = Encoding(r.source, 1, 49, r.address, r.length, Part(m, r))
    PROVE  StatusValues(f) =
               <<Named(m[46]),
                 IF r.length = 16 THEN None
                 ELSE Joined(Joined(Joined(m[52], m[51]), m[50]), m[49])>>
<1>1. (r.address = 32 /\ r.length = 16) \/ (r.address = 0 /\ r.length = 128)
  BY ReadFields
<1>2. f.opcode = 49 /\ f.address = r.address /\ f.length = r.length /\ f.payload = Part(m, r)
  BY DEF Encoding
<1>3. m \in Seq(Byte) /\ Len(m) = 128
  BY MemoryIs
<1>4. CASE r.address = 32 /\ r.length = 16
  <2>1. Part(m, r) = SubSeq(m, 33, 48)
    BY <1>4 DEF Part
  <2>2. Len(SubSeq(m, 33, 48)) = 16 /\ SubSeq(m, 33, 48)[14] = m[46]
    BY <1>3
  <2>3. StatusStart(f) = 0
    BY <1>2, <1>4 DEF StatusStart
  <2>4. StatusValues(f) = <<Named(f.payload[StatusStart(f) + 14]), None>>
    <3>1. f.opcode = 49 /\ Len(f.payload) = f.length /\ f.address = 32 /\ f.length = 16
      BY <1>2, <1>4, <2>1, <2>2
    <3> QED
      BY <3>1 DEF StatusValues
  <2> QED
    BY <1>2, <1>4, <2>1, <2>2, <2>3, <2>4
<1>5. CASE r.address = 0 /\ r.length = 128
  <2>1. Part(m, r) = SubSeq(m, 1, 128)
    BY <1>5 DEF Part
  <2>2. SubSeq(m, 1, 128) = m
    BY <1>3
  <2>3. StatusStart(f) = 32
    BY <1>2, <1>5 DEF StatusStart
  <2>4. LET p == f.payload
        IN StatusValues(f) = <<Named(p[StatusStart(f) + 14]),
                               Joined(Joined(Joined(p[52], p[51]), p[50]), p[49])>>
    <3>1. f.opcode = 49 /\ f.address = 0 /\ f.length = 128
      BY <1>2, <1>5
    <3>2. f.payload = m
      BY <1>2, <2>1, <2>2
    <3>3. Len(f.payload) = f.length
      BY <1>3, <3>1, <3>2
    <3>4. f.address # 32
      BY <3>1
    <3> QED
      BY <3>1, <3>3, <3>4 DEF StatusValues
  <2> QED
    <3>1. f.payload = m
      BY <1>2, <2>1, <2>2
    <3>2. StatusStart(f) + 14 = 46 /\ r.length # 16
      BY <1>5, <2>3
    <3>3. StatusValues(f) = <<Named(m[46]), Joined(Joined(Joined(m[52], m[51]), m[50]), m[49])>>
      BY <2>4, <3>1, <3>2, Zenon
    <3> QED
      BY <3>2, <3>3, Zenon
<1> QED
  BY <1>1, <1>4, <1>5

LEMMA KnownRecognized ==
    ASSUME NEW m \in Contents, NEW f \in Known(m)
    PROVE  RecognizedFrame(f, m)
<1>1. \A r \in Reads : /\ r.opcode = 49 /\ r.payload = <<>>
                       /\ r = Encoding(1, r.source, 49, r.address, r.length, <<>>)
  BY ReadFields
<1>2. \A v \in DOMAIN Codes : \A c \in CommandsOf[v] :
          /\ c.opcode = 32 /\ c.address = 26 /\ c.length = 2 /\ c.payload = <<0, Codes[v]>>
  <2> SUFFICES ASSUME NEW v \in DOMAIN Codes, NEW c \in CommandsOf[v]
               PROVE  c.opcode = 32 /\ c.address = 26 /\ c.length = 2 /\ c.payload = <<0, Codes[v]>>
    OBVIOUS
  <2>1. PICK tag \in Tags : c = Encoding(1, tag, 32, 26, 2, <<0, Codes[v]>>)
    BY CommandsAre
  <2> QED
    BY <2>1 DEF Encoding
<1>3. ASSUME f.opcode # 32 \/ f.address # 26, f.opcode # 49
      PROVE  RecognizedFrame(f, m)
  <2>1. \A r \in Reads : ~ Matches(f, r)
    BY <1>1, <1>3 DEF Matches
  <2>2. \A v \in DOMAIN Codes : f \notin CommandsOf[v]
    BY <1>2, <1>3
  <2>3. ValveCommand(f) = None /\ \A v \in DOMAIN Codes : v # None
    BY <1>3, NamesAssumption DEF ValveCommand
  <2> QED
    BY <2>1, <2>2, <2>3 DEF RecognizedFrame
<1>4. CASE f \in Longest
  BY <1>3, <1>4, LongestAre
<1>5. CASE f \in Unknown
  BY <1>3, <1>5, UnknownAre
<1>6. CASE f \in Commands
  <2>1. PICK w \in DOMAIN Codes : f \in CommandsOf[w]
    BY <1>6 DEF Commands
  <2>2. f.opcode = 32 /\ f.address = 26 /\ f.length = 2 /\ f.payload = <<0, Codes[w]>>
    BY <1>2, <2>1
  <2>3. ValveCommand(f) = w
    <3>1. Len(f.payload) = 2 /\ f.payload[1] = 0 /\ f.payload[2] = Codes[w]
      BY <2>2
    <3> QED
      BY <2>2, <3>1, CodesAre DEF ValveCommand
  <2>4. \A r \in Reads : ~ Matches(f, r)
    <3>1. f.opcode = 32 /\ \A r \in Reads : r.opcode = 49
      BY <1>1, <2>2
    <3> SUFFICES ASSUME NEW r \in Reads, Matches(f, r) PROVE FALSE
      OBVIOUS
    <3>2. f.opcode = r.opcode
      BY DEF Matches
    <3> QED
      BY <3>1, <3>2
  <2>5. ASSUME NEW v \in DOMAIN Codes PROVE ValveCommand(f) = v <=> f \in CommandsOf[v]
    <3>1. ASSUME f \in CommandsOf[v] PROVE v = w
      <4>1. <<0, Codes[v]>> = <<0, Codes[w]>>
        BY <1>2, <2>2, <3>1
      <4>2. Codes[v] = Codes[w]
        BY <4>1
      <4> QED
        BY <4>2, CodesAre
    <3> QED
      BY <2>1, <2>3, <3>1
  <2> QED
    BY <2>4, <2>5 DEF RecognizedFrame
<1>7. CASE f \in Answers(m)
  <2>1. CASE \E tag \in Tags : f = Encoding(tag, 1, 32, 0, 0, <<>>)
    BY <1>3, <2>1 DEF Encoding
  <2>2. ASSUME NEW s \in Reads, f = Answer(s, m),
               f = Encoding(s.source, 1, 49, s.address, s.length, Part(m, s))
        PROVE  RecognizedFrame(f, m)
    <3>1. f.destination = s.source /\ f.opcode = 49 /\ f.address = s.address /\ f.length = s.length
      BY <2>2 DEF Encoding
    <3>2. ASSUME NEW r \in Reads, Matches(f, r) PROVE r = s
      <4>1. f.destination = r.source /\ f.address = r.address /\ f.length = r.length
        BY <1>1, <3>2 DEF Matches
      <4>2. r.source = s.source /\ r.address = s.address /\ r.length = s.length
        BY <3>1, <4>1
      <4> QED
        BY <1>1, <3>2, <4>2
    <3>3. \A v \in DOMAIN Codes : f \notin CommandsOf[v]
      BY <1>2, <3>1
    <3>4. ValveCommand(f) = None /\ \A v \in DOMAIN Codes : v # None
      BY <3>1, NamesAssumption DEF ValveCommand
    <3> QED
      BY <2>2, <3>2, <3>3, <3>4, AnswerMeans DEF RecognizedFrame
  <2> QED
    BY <1>7, <2>1, <2>2, AnswersAre
<1> QED
  BY <1>4, <1>5, <1>6, <1>7 DEF Known

-----------------------------------------------------------------------------
(* The invariant.                                                           *)

Typed ==
    /\ memory \in Contents /\ sent \in Seq(Known(memory))
    /\ stream \in Bytes /\ taken \in 0..Len(stream)
    /\ parser \in [buffer : Bytes, escaped : BOOLEAN] /\ delivered \in Seq(Frame)
    /\ left \in 0..FrameTimeout \cup {None} /\ age \in Nat
    /\ state \in {"reading", "ended", "invalid", "late"}

\* What arrives: the bytes of the frames sent or a beginning of them, these
\* bytes with one changed, or a frame that is too long.
Arrives ==
    \/ Unbroken
    \/ \E i \in DOMAIN Wires(sent), b \in Noise : stream = ReplaceAt(Wires(sent), i, b)
    \/ sent = <<>> /\ stream \in Oversized

\* A deadline runs while a frame is partial, and it is the first one.
OneDeadline ==
    state = "reading" =>
        /\ left # None <=> Pending(parser)
        /\ Pending(parser) => age + left = FrameTimeout

\* How reading comes to an end.
Ends ==
    /\ state = "ended" => ~ Pending(parser) /\ taken = Len(stream)
    /\ stream = Wires(sent) => state # "invalid"

IInv ==
    /\ Typed
    /\ Arrives
    /\ WellFormed(parser)
    /\ Progress(delivered, parser.buffer, taken)
    /\ OneDeadline
    /\ Ends

LEMMA SentMade ==
    ASSUME Typed
    PROVE  sent \in Seq(Made) /\ sent \in Seq(Proper) /\ sent \in Seq(Frame)
<1>1. Known(memory) \subseteq Made /\ Made \subseteq Proper /\ Proper \subseteq Frame
  BY KnownMade DEF Typed, Made, Proper
<1>2. /\ Seq(Known(memory)) \subseteq Seq(Made) /\ Seq(Made) \subseteq Seq(Proper)
      /\ Seq(Proper) \subseteq Seq(Frame)
  BY <1>1, SeqMonotonic
<1> QED
  BY <1>2 DEF Typed

LEMMA InitInvariant ==
    ASSUME Init
    PROVE  IInv
<1>1. /\ memory \in Contents
      /\ taken = 0 /\ delivered = <<>> /\ parser = [buffer |-> <<>>, escaped |-> FALSE]
      /\ left = None /\ age = 0 /\ state = "reading"
  BY ConstantsAssumption DEF Init, Contents
<1>2. sent \in Seq(Known(memory))
  <2>1. \A A, n : SeqOf(A, n) = UNION {[1..k -> A] : k \in 0..n}
    BY DEF SeqOf
  <2>2. \A A : \A n \in Nat : SeqOf(A, n) \subseteq Seq(A)
    BY <2>1
  <2>3. SeqOf(Answers(memory) \cup Longest, 1) \subseteq Seq(Known(memory))
    <3>1. SeqOf(Answers(memory) \cup Longest, 1) \subseteq Seq(Answers(memory) \cup Longest)
      BY <2>2
    <3>2. Seq(Answers(memory) \cup Longest) \subseteq Seq(Known(memory))
      BY SeqMonotonic DEF Known
    <3> QED
      BY <3>1, <3>2
  <2>4. SeqOf(Commands \cup Unknown, MaxSent) \subseteq Seq(Known(memory))
    <3>1. SeqOf(Commands \cup Unknown, MaxSent) \subseteq Seq(Commands \cup Unknown)
      BY <2>2, ConstantsAssumption
    <3>2. Seq(Commands \cup Unknown) \subseteq Seq(Known(memory))
      BY SeqMonotonic DEF Known
    <3> QED
      BY <3>1, <3>2
  <2> QED
    BY <2>3, <2>4 DEF Init
<1>3. Wires(sent) \in Bytes
  <2>1. Known(memory) \subseteq Frame
    BY <1>1, KnownMade DEF Made, Proper
  <2>2. sent \in Seq(Frame)
    BY <1>2, <2>1
  <2> QED
    BY <2>2, WiresAppend
<1>4. stream \in Bytes
  <2>1. Damaged(Wires(sent)) \subseteq Bytes
    <3> SUFFICES ASSUME NEW d \in Damaged(Wires(sent)) PROVE d \in Seq(Byte)
      BY DEF Bytes
    <3>1. Wires(sent) \in Seq(Byte)
      BY <1>3 DEF Bytes
    <3>2. CASE \E n \in 0..(Len(Wires(sent)) - 1) : d = SubSeq(Wires(sent), 1, n)
      BY <3>1, <3>2
    <3>3. CASE \E i \in DOMAIN Wires(sent), b \in Noise : d = ReplaceAt(Wires(sent), i, b)
      <4>1. PICK i \in DOMAIN Wires(sent), b \in Noise : d = [Wires(sent) EXCEPT ![i] = b]
        BY <3>3 DEF ReplaceAt
      <4>2. b \in Byte
        BY ConstantsAssumption
      <4> QED
        BY <3>1, <4>1, <4>2
    <3> QED
      BY <3>2, <3>3 DEF Damaged
  <2>2. Oversized \subseteq Bytes
    <3> SUFFICES ASSUME NEW tag \in Tags
                 PROVE  Wire(1, tag, 48, 80, 0, Zeros(MaxFrameSize - 10)) \in Bytes
      BY DEF Oversized, DeviceAddress
    <3>1. tag \in Byte /\ 1 \in Byte /\ 48 \in Byte /\ 0 \in Byte /\ 80 \in Addresses
      BY ConstantsAssumption, Numbers
    <3>2. Zeros(MaxFrameSize - 10) \in Bytes
      BY ConstantsAssumption, ZerosBytes
    <3> QED
      BY <3>1, <3>2, Encodings
  <2> QED
    BY <1>3, <2>1, <2>2 DEF Init
<1>5. Typed
  <2>1. <<>> \in Bytes /\ <<>> \in Seq(Frame) /\ 0 \in 0..Len(stream)
    BY <1>4 DEF Bytes
  <2> QED
    BY <1>1, <1>2, <1>4, <2>1 DEF Typed
<1>6. WellFormed(parser) /\ ~ Pending(parser)
  BY <1>1, ConstantsAssumption DEF WellFormed, Pending
<1>7. Progress(delivered, parser.buffer, taken)
  <2>1. Wires(<<>>) = <<>>
    BY FoldEmpty DEF Wires
  <2>2. SubSeq(stream, 1, 0) = <<>> /\ <<>> \o <<>> = <<>> /\ parser.buffer = <<>>
    BY <1>1, <1>4 DEF Bytes
  <2>3. 0 \in 0..Len(sent) /\ SubSeq(sent, 1, 0) = <<>>
    BY <1>2
  <2>4. <<>> \in Seq(Proper)
    OBVIOUS
  <2> QED
    BY <1>1, <2>1, <2>2, <2>3, <2>4 DEF Progress
<1>8. Arrives
  <2>1. stream = Wires(sent) => Unbroken
    BY <1>3, <1>4 DEF Unbroken, IsPrefix, Bytes
  <2>2. ASSUME NEW n \in 0..(Len(Wires(sent)) - 1), stream = SubSeq(Wires(sent), 1, n)
        PROVE  Unbroken
    <3>1. Wires(sent) \in Seq(Byte)
      BY <1>3 DEF Bytes
    <3> DEFINE w == Wires(sent)
    <3> HIDE DEF w
    <3>2. \A m \in 0..(Len(w) - 1) : w \in Seq(Byte) => IsPrefix(SubSeq(w, 1, m), w)
      BY DEF IsPrefix
    <3> QED
      BY <2>2, <3>1, <3>2 DEF w, Unbroken
  <2>3. \/ stream = Wires(sent)
        \/ stream \in Damaged(Wires(sent))
        \/ sent = <<>> /\ stream \in Oversized
    BY DEF Init
  <2>4. ASSUME stream \in Damaged(Wires(sent)) PROVE Arrives
    <3>1. \/ \E n \in 0..(Len(Wires(sent)) - 1) : stream = SubSeq(Wires(sent), 1, n)
          \/ \E i \in DOMAIN Wires(sent), b \in Noise : stream = ReplaceAt(Wires(sent), i, b)
      BY <2>4 DEF Damaged
    <3> QED
      BY <2>2, <3>1, Zenon DEF Arrives
  <2> QED
    BY <2>1, <2>3, <2>4, Zenon DEF Arrives
<1> QED
  BY <1>1, <1>5, <1>6, <1>7, <1>8 DEF IInv, OneDeadline, Ends

LEMMA NextInvariant ==
    ASSUME IInv, [Next]_vars
    PROVE  IInv'
<1> USE DEF IInv
<1>1. ASSUME UNCHANGED <<sent, stream>> PROVE Arrives'
  BY <1>1 DEF Arrives, Unbroken
<1>2. ASSUME EndOfStream PROVE IInv'
  <2>1. UNCHANGED <<memory, sent, stream, taken, parser, delivered, left, age>>
        /\ taken = Len(stream) /\ state' = Finish
    BY <1>2 DEF EndOfStream
  <2>2. state' = IF Pending(parser) THEN "invalid" ELSE "ended"
    BY <2>1 DEF Finish
  <2>3. Typed' /\ OneDeadline'
    BY <2>1, <2>2 DEF Typed, OneDeadline
  <2>4. WellFormed(parser)' /\ Progress(delivered, parser.buffer, taken)'
    BY <2>1 DEF WellFormed, Progress, Unbroken, Pending
  <2>5. ASSUME stream = Wires(sent) PROVE ~ Pending(parser)
    <3>1. parser.buffer \in Bytes
      BY DEF Typed
    <3> QED
      BY <2>1, <2>5, <3>1, SentMade, NothingLeft DEF Pending
  <2>6. Ends'
    BY <2>1, <2>2, <2>5 DEF Ends, Pending
  <2>7. Arrives'
    BY <1>1, <2>1
  <2> QED
    BY <2>3, <2>4, <2>6, <2>7
<1>3. ASSUME Tick PROVE IInv'
  <2>1. UNCHANGED <<memory, sent, stream, taken, parser, delivered>> /\ state = "reading" /\ left # None
        /\ IF left = 0 THEN state' = "late" /\ UNCHANGED <<left, age>>
           ELSE left' = left - 1 /\ age' = age + 1 /\ UNCHANGED state
    BY <1>3 DEF Tick
  <2>2. WellFormed(parser)' /\ Progress(delivered, parser.buffer, taken)'
    BY <2>1 DEF WellFormed, Progress, Unbroken, Pending
  <2>3. left \in 0..FrameTimeout /\ age \in Nat /\ FrameTimeout \in Nat
    BY <2>1, ConstantsAssumption DEF Typed
  <2>4. Arrives'
    BY <1>1, <2>1
  <2>5. CASE left = 0
    BY <2>1, <2>2, <2>4, <2>5 DEF Typed, OneDeadline, Ends, Pending
  <2>6. CASE left # 0
    <3>1. left' \in 0..FrameTimeout /\ age' \in Nat /\ age' + left' = age + left /\ left' # None
      BY <2>1, <2>3, <2>6, NamesAssumption
    <3>2. Typed'
      BY <2>1, <2>6, <3>1 DEF Typed
    <3>3. OneDeadline' /\ Ends'
      BY <2>1, <2>6, <3>1 DEF OneDeadline, Ends, Pending
    <3> QED
      BY <2>2, <2>4, <3>2, <3>3
  <2> QED
    BY <2>5, <2>6
<1>4. ASSUME NEW n \in Chunks \cup {Len(stream) - taken}, Receive(n) PROVE IInv'
  <2> DEFINE p == Feed(SubSeq(stream, taken + 1, taken + n))
  <2>1. /\ state = "reading" /\ n \in 1..(Len(stream) - taken)
        /\ UNCHANGED <<memory, sent, stream>>
        /\ IF ~p.ok
           THEN state' = "invalid" /\ UNCHANGED <<taken, parser, delivered, left, age>>
           ELSE /\ taken' = taken + n
                /\ parser' = [buffer |-> p.buffer, escaped |-> p.escaped]
                /\ delivered' = delivered \o p.frames
                /\ left' = Deadline(p)
                /\ age' = IF Pending(parser) /\ p.frames = <<>> THEN age ELSE 0
                /\ UNCHANGED state
    BY <1>4 DEF Receive
  <2>2. /\ p \in Feeding /\ WellFormed(p) /\ (Unbroken => p.ok)
        /\ p.ok => Progress(delivered \o p.frames, p.buffer, taken + n)
    <3>1. n \in 0..(Len(stream) - taken)
      BY <2>1
    <3> QED
      BY <3>1, SentMade, Chunk DEF Typed
  <2> HIDE DEF p
  <2>3. CASE ~ p.ok
    <3>1. UNCHANGED <<memory, sent, stream, taken, parser, delivered, left, age>> /\ state' = "invalid"
      BY <2>1, <2>3
    <3>2. ~ (stream = Wires(sent))
      <4> SUFFICES ASSUME stream = Wires(sent) PROVE FALSE
        OBVIOUS
      <4>1. Unbroken
        BY SentMade, WiresAppend DEF Unbroken, IsPrefix, Bytes
      <4> QED
        BY <2>2, <2>3, <4>1
    <3>3. Typed' /\ OneDeadline' /\ Ends'
      BY <3>1, <3>2 DEF Typed, OneDeadline, Ends
    <3>4. WellFormed(parser)' /\ Progress(delivered, parser.buffer, taken)'
      BY <3>1 DEF WellFormed, Progress, Unbroken, Pending
    <3>5. Arrives'
      BY <1>1, <3>1
    <3> QED
      BY <3>3, <3>4, <3>5
  <2>4. CASE p.ok
    <3>1. /\ taken' = taken + n /\ delivered' = delivered \o p.frames /\ state' = "reading"
          /\ parser' = [buffer |-> p.buffer, escaped |-> p.escaped]
          /\ left' = IF ~Pending(p) THEN None
                     ELSE IF left = None \/ p.frames # <<>> THEN FrameTimeout ELSE left
          /\ age' = IF Pending(parser) /\ p.frames = <<>> THEN age ELSE 0
          /\ UNCHANGED <<memory, sent, stream>>
      BY <2>1, <2>4 DEF Deadline
    <3>2. parser'.buffer = p.buffer /\ parser'.escaped = p.escaped
      BY <3>1
    <3>3. FrameTimeout \in Nat /\ FrameTimeout # None /\ age \in Nat
          /\ left \in 0..FrameTimeout \cup {None}
      BY ConstantsAssumption, NamesAssumption DEF Typed
    <3>4. Typed'
      <4>1. p.frames \in Seq(Frame) /\ p.buffer \in Bytes /\ p.escaped \in BOOLEAN
        BY <2>2 DEF Feeding
      <4>2. delivered' \in Seq(Frame) /\ parser' \in [buffer : Bytes, escaped : BOOLEAN]
        BY <3>1, <4>1 DEF Typed
      <4>3. taken' \in 0..Len(stream)
        <5>1. taken \in Nat /\ Len(stream) \in Nat
          BY DEF Typed, Bytes
        <5> QED
          BY <2>1, <3>1, <5>1
      <4>4. left' \in 0..FrameTimeout \cup {None} /\ age' \in Nat
        BY <3>1, <3>3
      <4> QED
        BY <3>1, <4>2, <4>3, <4>4 DEF Typed
    <3>5. WellFormed(parser)'
      BY <2>2, <3>2 DEF WellFormed, Pending
    <3>6. Progress(delivered, parser.buffer, taken)'
      BY <2>2, <2>4, <3>1, <3>2 DEF Progress, Unbroken
    <3>7. OneDeadline'
      <4>1. Pending(parser)' <=> Pending(p)
        BY <3>2 DEF Pending
      <4>2. /\ left # None <=> Pending(parser)
            /\ Pending(parser) => age + left = FrameTimeout
        BY <2>1 DEF OneDeadline
      <4> QED
        BY <3>1, <3>3, <4>1, <4>2 DEF OneDeadline
    <3>8. Ends'
      BY <3>1 DEF Ends
    <3>9. Arrives'
      BY <1>1, <3>1
    <3> QED
      BY <3>4, <3>5, <3>6, <3>7, <3>8, <3>9
  <2> QED
    BY <2>3, <2>4
<1>5. ASSUME UNCHANGED vars PROVE IInv'
  BY <1>1, <1>5 DEF vars, Typed, WellFormed, Progress, Unbroken, OneDeadline, Ends, Pending
<1> QED
  BY <1>2, <1>3, <1>4, <1>5 DEF Next

\* The invariant holds.
THEOREM Invariant == Spec => []IInv
BY InitInvariant, NextInvariant, PTL DEF Spec

\* What the reader keeps is bounded by the size of a frame and has the form of
\* a frame's beginning (feed, read_stream).
THEOREM TypeCorrect == Spec => []TypeOK
<1>1. IInv => TypeOK
  BY DEF IInv, Typed, WellFormed, TypeOK, Pending
<1> QED
  BY <1>1, Invariant, PTL

\* A frame has FrameTimeout from its first byte on, however its other bytes
\* trickle in (read_stream).
THEOREM DeadlineAbsolute == Spec => []AbsoluteDeadline
<1>1. IInv => AbsoluteDeadline
  BY DEF IInv, OneDeadline, AbsoluteDeadline
<1> QED
  BY <1>1, Invariant, PTL

\* No byte that was accepted is lost or doubled, a stream that ends cleanly was
\* delivered to its last byte, and a stream of frames within the size limit is
\* never refused, for chunks of any size (feed, finish, read_stream).
THEOREM NothingLost == Spec => []Lossless
<1>1. ASSUME IInv PROVE Lossless
  <2>1. Wires(delivered) \o parser.buffer = SubSeq(stream, 1, taken)
    BY <1>1 DEF IInv, Progress
  <2>2. stream = Wires(sent) => state # "invalid"
    BY <1>1 DEF IInv, Ends
  <2>3. ASSUME state = "ended" PROVE Wires(delivered) = stream
    <3>1. parser.buffer = <<>> /\ taken = Len(stream) /\ stream \in Seq(Byte)
      BY <1>1, <2>3 DEF IInv, Ends, Pending, Typed, Bytes
    <3>2. Wires(delivered) \in Seq(Byte)
      BY <1>1, WiresAppend DEF IInv, Typed, Bytes
    <3>3. Wires(delivered) \o <<>> = Wires(delivered) /\ SubSeq(stream, 1, Len(stream)) = stream
      BY <3>1, <3>2
    <3> QED
      BY <2>1, <3>1, <3>3
  <2> QED
    BY <2>1, <2>2, <2>3 DEF Lossless
<1> QED
  BY <1>1, Invariant, PTL

\* One byte was changed so that decode may not notice: neither the first byte
\* of a frame nor the second of an escape, it was an ESCAPE or became one, or
\* became an END.  Such a change moves the bytes after it or ends a frame
\* early, and what is left of the frame may by chance have its right checksum.
Misframed ==
    \E i \in DOMAIN Wires(sent), b \in Noise :
        LET whole == Wires(sent)
        IN /\ stream = ReplaceAt(whole, i, b)
           /\ whole[i] # START /\ ~ (i > 1 /\ whole[i - 1] = ESCAPE)
           /\ b # whole[i] /\ (whole[i] = ESCAPE \/ b \in {END, ESCAPE})

\* Frames come out as they were sent, in order, however the stream is split,
\* whether it is whole, cut off or has any one byte changed: a change that
\* neither adds nor removes an END or an ESCAPE is always noticed (calculate_crc,
\* decode, feed).
THEOREM SentOnly == Spec => [](~ Misframed => OnlySent)
<1>1. ASSUME IInv, ~ Misframed PROVE OnlySent
  <2> DEFINE whole == Wires(sent)
  <2>1. /\ sent \in Seq(Made) /\ sent \in Seq(Proper) /\ whole \in Bytes /\ stream \in Bytes
        /\ delivered \in Seq(Proper) /\ parser.buffer \in Bytes /\ taken \in 0..Len(stream)
        /\ Wires(delivered) \o parser.buffer = SubSeq(stream, 1, taken)
    BY <1>1, SentMade, WiresAppend DEF IInv, Typed, Progress
  <2> HIDE DEF whole
  <2>2. CASE Unbroken
    <3>1. Len(stream) <= Len(whole) /\ SubSeq(stream, 1, Len(stream)) = SubSeq(whole, 1, Len(stream))
      BY <2>2 DEF Unbroken, IsPrefix, whole
    <3>2. \A j \in 1..Len(stream) : stream[j] = whole[j]
      <4>1. \A u \in Seq(Byte) : \A n \in Nat : n <= Len(u) => \A j \in 1..n : SubSeq(u, 1, n)[j] = u[j]
        OBVIOUS
      <4>2. /\ stream \in Seq(Byte) /\ whole \in Seq(Byte) /\ Len(stream) \in Nat
            /\ Len(stream) <= Len(stream)
        BY <2>1 DEF Bytes
      <4> QED
        BY <3>1, <4>1, <4>2
    <3>3. 0 \in Int /\ 0 \notin 1..Len(stream)
      OBVIOUS
    <3> QED
      BY <2>1, <3>1, <3>2, <3>3, SameFrames DEF whole, OnlySent
  <2>3. CASE sent = <<>> /\ stream \in Oversized
    <3>1. PICK tag \in Tags : stream = Wire(1, tag, 48, 80, 0, Zeros(MaxFrameSize - 10))
      BY <2>3 DEF Oversized, DeviceAddress
    <3>2. /\ tag \in Byte /\ 1 \in Byte /\ 48 \in Byte /\ 0 \in Byte /\ 80 \in Nat
          /\ High(High(High(80))) \in Byte
      BY ConstantsAssumption, Numbers
    <3>3. Zeros(MaxFrameSize - 10) \in Bytes /\ MaxFrameSize \in Nat
      BY ConstantsAssumption, ZerosBytes
    <3>4. Framed(stream) /\ Len(stream) \in Nat /\ Len(stream) >= 12 + Len(Zeros(MaxFrameSize - 10))
      BY <3>1, <3>2, <3>3, WireMarked
    <3>5. Len(Zeros(MaxFrameSize - 10)) \in Nat /\ Len(Zeros(MaxFrameSize - 10)) >= MaxFrameSize - 10
      BY <3>3, ZerosBytes
    <3>6. Len(stream) > MaxFrameSize
      BY <3>3, <3>4, <3>5
    <3>7. delivered = <<>>
      BY <2>1, <3>4, <3>6, NoneOfTooLong
    <3> QED
      BY <2>3, <3>7 DEF OnlySent, IsPrefix
  <2>4. ASSUME NEW i \in DOMAIN whole, NEW b \in Noise, stream = ReplaceAt(whole, i, b)
        PROVE  OnlySent
    <3>1. /\ stream = [whole EXCEPT ![i] = b] /\ i \in 1..Len(whole) /\ i \in Int
          /\ whole \in Seq(Byte)
      BY <2>1, <2>4 DEF ReplaceAt, Bytes
    <3>2. /\ Len(stream) <= Len(whole) /\ stream[i] = b
          /\ \A j \in 1..Len(stream) : j # i => stream[j] = whole[j]
      BY <3>1
    <3>3. ~ (/\ whole[i] # START /\ ~ (i > 1 /\ whole[i - 1] = ESCAPE)
             /\ b # whole[i] /\ (whole[i] = ESCAPE \/ b \in {END, ESCAPE}))
      BY <1>1, <2>4, Zenon DEF Misframed, whole
    <3>4. NoticedAt(sent, i, stream[i])
      <4>1. \/ b = whole[i] \/ whole[i] = START
            \/ i > 1 /\ whole[i - 1] = ESCAPE
            \/ whole[i] # ESCAPE /\ b \notin {END, ESCAPE}
        BY <3>3, Zenon
      <4>2. NoticedAt(sent, i, b)
        BY <2>1, <3>1, <4>1, NoticedChange DEF whole
      <4> QED
        BY <3>2, <4>2
    <3>5. /\ Len(stream) <= Len(Wires(sent)) /\ i \in Int
          /\ \A j \in 1..Len(stream) : j # i => stream[j] = Wires(sent)[j]
          /\ i \in 1..Len(stream) => NoticedAt(sent, i, stream[i])
      BY <3>1, <3>2, <3>4 DEF whole
    <3> QED
      BY <2>1, <3>5, SameFrames DEF OnlySent
  <2> QED
    BY <1>1, <2>2, <2>3, <2>4, Zenon DEF IInv, Arrives, whole
<1> QED
  BY <1>1, Invariant, PTL

\* While what comes out is what was sent, a frame is taken for the answer to a
\* read only if it is the device's answer to this read and then means what is
\* in the memory, and for a valve command exactly if it is one, whatever the
\* memory, the tags and the payloads (matches, status_values, valve_command).
THEOREM Understood == Spec => [](OnlySent => Recognized)
<1>1. ASSUME IInv, OnlySent PROVE Recognized
  <2> SUFFICES ASSUME NEW i \in DOMAIN delivered PROVE RecognizedFrame(delivered[i], memory)
    BY DEF Recognized, RecognizedFrame
  <2>1. delivered \in Seq(Frame) /\ memory \in Contents /\ sent \in Seq(Known(memory))
    BY <1>1 DEF IInv, Typed
  <2>2. Len(delivered) <= Len(sent) /\ delivered = SubSeq(sent, 1, Len(delivered))
    <3>1. SubSeq(delivered, 1, Len(delivered)) = delivered
      BY <2>1
    <3>2. /\ Len(delivered) <= Len(sent)
          /\ SubSeq(delivered, 1, Len(delivered)) = SubSeq(sent, 1, Len(delivered))
      BY <1>1 DEF OnlySent, IsPrefix
    <3> QED
      BY <3>1, <3>2
  <2>3. Len(delivered) \in Nat /\ i \in 1..Len(delivered)
    BY <2>1
  <2>4. SubSeq(sent, 1, Len(delivered))[i] = sent[i] /\ sent[i] \in Known(memory)
    BY <2>1, <2>2, <2>3
  <2>5. delivered[i] \in Known(memory)
    BY <2>2, <2>4
  <2> QED
    BY <2>1, <2>5, KnownRecognized
<1> QED
  BY <1>1, Invariant, PTL

\* So no damage but a Misframed change makes an answer or a command be taken for
\* another, or for one to another read (matches, status_values, valve_command).
THEOREM RecognizedDamaged == Spec => [](~ Misframed => Recognized)
  BY SentOnly, Understood, PTL
=============================================================================
