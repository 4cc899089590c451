----------------------------- MODULE RecvProofs -----------------------------
(***************************************************************************)
(* What is received comes out as it was sent, and no byte is counted       *)
(* twice or lost, for any sizes and any stream.                            *)
(***************************************************************************)
EXTENDS RecvPath, SequenceLemmas

-----------------------------------------------------------------------------
\* Sums
IsSum(f, s) == f = [k \in 0..Len(s) |-> IF k = 0 THEN 0 ELSE f[k - 1] + s[k]]

LEMMA SumExists ==
  ASSUME NEW s \in Seq(Nat)
  PROVE  \E f : IsSum(f, s)
<1> DEFINE n == Len(s)
           Step(f, m) == \A i \in 0..m : f[i] = IF i = 0 THEN 0 ELSE f[i - 1] + s[i]
           Good == {m \in 0..n : \E f : f = [i \in 0..m |-> f[i]] /\ Step(f, m)}
<1>1. n \in Nat
  OBVIOUS
<1>2. 0 \in Good
  <2> DEFINE f == [i \in 0..0 |-> 0]
  <2>1. f = [i \in 0..0 |-> f[i]] /\ Step(f, 0) /\ 0 \in 0..n
    BY <1>1
  <2> HIDE DEF f, Step
  <2> QED
    BY <2>1
<1>3. ASSUME NEW k \in 0..(n - 1), k \in Good PROVE k + 1 \in Good
  <2>1. PICK f : f = [i \in 0..k |-> f[i]] /\ Step(f, k)
    BY <1>3
  <2> DEFINE g == [i \in 0..(k + 1) |-> IF i = k + 1 THEN f[k] + s[k + 1] ELSE f[i]]
  <2>2. g = [i \in 0..(k + 1) |-> g[i]]
    OBVIOUS
  <2>3. ASSUME NEW i \in 0..(k + 1) PROVE g[i] = IF i = 0 THEN 0 ELSE g[i - 1] + s[i]
    <3>1. CASE i = k + 1
      <4>1. g[i] = f[k] + s[k + 1] /\ i # 0 /\ i - 1 = k
        BY <3>1
      <4>2. g[k] = f[k]
        <5>1. k \in 0..(k + 1) /\ k # k + 1
          OBVIOUS
        <5> QED
          BY <5>1
      <4> QED
        BY <3>1, <4>1, <4>2
    <3>2. CASE i # k + 1
      <4>1. i \in 0..k
        BY <3>2
      <4>2. f[i] = IF i = 0 THEN 0 ELSE f[i - 1] + s[i]
        BY <2>1, <4>1
      <4>3. g[i] = f[i]
        BY <3>2
      <4>4. ASSUME i # 0 PROVE g[i - 1] = f[i - 1]
        <5>1. i - 1 \in 0..(k + 1) /\ i - 1 # k + 1
          BY <4>1, <4>4
        <5> QED
          BY <5>1
      <4> QED
        BY <4>2, <4>3, <4>4
    <3> QED
      BY <3>1, <3>2
  <2>4. Step(g, k + 1)
    BY <2>3
  <2>5. k + 1 \in 0..n
    BY <1>1
  <2> HIDE DEF g, Step
  <2> QED
    BY <2>2, <2>4, <2>5
<1>4. n \in Good
  <2>1. n \in 0..n
    BY <1>1
  <2> HIDE DEF Good, n
  <2>2. \A k \in 0..n : k \in Good
    BY <1>1, <1>2, <1>3, UpTo
  <2> QED
    BY <2>1, <2>2
<1>5. PICK f : f = [i \in 0..n |-> f[i]] /\ Step(f, n)
  BY <1>4
<1>6. f = [i \in 0..n |-> IF i = 0 THEN 0 ELSE f[i - 1] + s[i]]
  BY <1>5
<1> QED
  BY <1>6 DEF IsSum

\* It depends on no more than the numbers up to there.
LEMMA SumUnique ==
  ASSUME NEW s \in Seq(Nat), NEW t \in Seq(Nat), Len(s) <= Len(t),
         \A i \in 1..Len(s) : s[i] = t[i],
         NEW f, IsSum(f, s), NEW g, IsSum(g, t)
  PROVE  \A i \in 0..Len(s) : f[i] = g[i] /\ f[i] \in Nat
<1> DEFINE n == Len(s)
           Good == {m \in 0..n : f[m] = g[m] /\ f[m] \in Nat}
<1>1. n \in Nat /\ Len(t) \in Nat
  OBVIOUS
<1>2. \A i \in 0..n : f[i] = IF i = 0 THEN 0 ELSE f[i - 1] + s[i]
  BY DEF IsSum
<1>3. \A i \in 0..n : g[i] = IF i = 0 THEN 0 ELSE g[i - 1] + t[i]
  <2>1. \A i \in 0..n : i \in 0..Len(t)
    BY <1>1
  <2>2. \A i \in 0..Len(t) : g[i] = IF i = 0 THEN 0 ELSE g[i - 1] + t[i]
    BY DEF IsSum
  <2> QED
    BY <2>1, <2>2
<1>4. 0 \in Good
  BY <1>1, <1>2, <1>3
<1>5. ASSUME NEW k \in 0..(n - 1), k \in Good PROVE k + 1 \in Good
  <2>1. k + 1 \in 1..n /\ s[k + 1] = t[k + 1] /\ s[k + 1] \in Nat
    BY <1>1
  <2>2. k + 1 # 0 /\ (k + 1) - 1 = k /\ k + 1 \in 0..n
    BY <1>1
  <2>3. f[k + 1] = f[k] + s[k + 1] /\ g[k + 1] = g[k] + t[k + 1]
    BY <1>2, <1>3, <2>2
  <2> QED
    BY <1>5, <2>1, <2>2, <2>3
<1> HIDE DEF Good
<1>6. \A k \in 0..n : k \in Good
  BY <1>1, <1>4, <1>5, UpTo
<1> QED
  BY <1>6 DEF Good

LEMMA SumIs ==
  ASSUME NEW s \in Seq(Nat)
  PROVE  \E f : IsSum(f, s) /\ SumOf(s) = f[Len(s)]
<1>1. SumOf(s) = (CHOOSE f : IsSum(f, s))[Len(s)]
  BY DEF SumOf, IsSum
<1>2. IsSum(CHOOSE f : IsSum(f, s), s)
  BY SumExists
<1> QED
  BY <1>1, <1>2

LEMMA SumNone == SumOf(<<>>) = 0
<1>1. <<>> \in Seq(Nat) /\ Len(<<>>) = 0
  OBVIOUS
<1>2. PICK f : IsSum(f, <<>>) /\ SumOf(<<>>) = f[0]
  BY <1>1, SumIs
<1> QED
  BY <1>1, <1>2 DEF IsSum

LEMMA SumAppend ==
  ASSUME NEW s \in Seq(Nat), NEW e \in Nat
  PROVE  SumOf(s) \in Nat /\ SumOf(Append(s, e)) = SumOf(s) + e
<1> DEFINE t == Append(s, e)
           n == Len(s)
<1>1. /\ t \in Seq(Nat) /\ Len(t) = n + 1 /\ t[n + 1] = e /\ n \in Nat
      /\ \A i \in 1..n : s[i] = t[i]
  BY AppendProperties
<1>2. PICK f : IsSum(f, s) /\ SumOf(s) = f[n]
  BY SumIs
<1>3. PICK g : IsSum(g, t) /\ SumOf(t) = g[n + 1]
  BY <1>1, SumIs
<1>4. f[n] = g[n] /\ f[n] \in Nat
  <2>1. n <= Len(t) /\ n \in 0..n
    BY <1>1
  <2> HIDE DEF t
  <2>2. \A i \in 0..Len(s) : f[i] = g[i] /\ f[i] \in Nat
    BY <1>1, <1>2, <1>3, <2>1, SumUnique
  <2> QED
    BY <2>1, <2>2
<1>5. g[n + 1] = g[n] + t[n + 1]
  <2>1. n + 1 \in 0..Len(t) /\ n + 1 # 0 /\ (n + 1) - 1 = n
    BY <1>1
  <2>2. \A i \in 0..Len(t) : g[i] = IF i = 0 THEN 0 ELSE g[i - 1] + t[i]
    BY <1>3 DEF IsSum
  <2> QED
    BY <2>1, <2>2
<1> QED
  BY <1>1, <1>2, <1>3, <1>4, <1>5

LEMMA SumTail ==
  ASSUME NEW s \in Seq(Nat), s # <<>>
  PROVE  SumOf(s) = Head(s) + SumOf(Tail(s))
<1> DEFINE n == Len(s)
           Upto(k) == SubSeq(s, 1, k)
           From(k) == SubSeq(s, 2, k)
           Good == {k \in 0..(n - 1) : SumOf(Upto(k + 1)) = Head(s) + SumOf(From(k + 1))}
<1>1. n \in Nat \ {0} /\ n - 1 \in Nat /\ Head(s) \in Nat
  OBVIOUS
<1>2. \A k \in 1..n : Upto(k) \in Seq(Nat) /\ From(k) \in Seq(Nat)
  OBVIOUS
<1>3. 0 \in Good
  <2>1. Upto(1) = Append(<<>>, Head(s)) /\ From(1) = <<>>
    <3>1. Len(Upto(1)) = 1 /\ Upto(1)[1] = s[1]
      BY <1>1
    <3>2. Upto(1) = <<s[1]>>
      <4> DEFINE u == Upto(1)
      <4>1. u \in Seq(Nat) /\ Len(u) = 1 /\ u[1] = s[1]
        BY <1>1, <1>2, <3>1
      <4> HIDE DEF u
      <4>2. u = <<s[1]>>
        BY <4>1
      <4> QED
        BY <4>2 DEF u
    <3>3. From(1) = <<>>
      BY <1>1
    <3> QED
      BY <1>1, <3>2, <3>3
  <2>2. SumOf(Upto(1)) = 0 + Head(s)
    <3>1. <<>> \in Seq(Nat)
      OBVIOUS
    <3> QED
      BY <1>1, <2>1, <3>1, SumAppend, SumNone
  <2>3. 0 + 1 = 1 /\ 0 \in 0..(n - 1)
    BY <1>1
  <2> HIDE DEF Upto, From
  <2> QED
    BY <1>1, <2>1, <2>2, <2>3, SumNone
<1>4. ASSUME NEW k \in 0..(n - 2), k \in Good PROVE k + 1 \in Good
  <2> DEFINE e == s[k + 2]
  <2>1. k + 1 \in 1..n /\ k + 1 \in 0..(n - 1) /\ e \in Nat /\ (k + 1) + 1 = k + 2
    BY <1>1
  <2>2. Upto(k + 2) = Append(Upto(k + 1), e) /\ From(k + 2) = Append(From(k + 1), e)
    BY <1>1, <2>1
  <2>3. SumOf(Upto(k + 1)) = Head(s) + SumOf(From(k + 1))
    BY <1>4
  <2> HIDE DEF Upto, From, e
  <2>4. /\ SumOf(Upto(k + 2)) = SumOf(Upto(k + 1)) + e
        /\ SumOf(From(k + 2)) = SumOf(From(k + 1)) + e
        /\ SumOf(From(k + 1)) \in Nat
    BY <1>2, <2>1, <2>2, SumAppend
  <2>5. SumOf(Upto(k + 2)) = Head(s) + SumOf(From(k + 2))
    BY <1>1, <2>1, <2>3, <2>4
  <2> QED
    BY <2>1, <2>5
<1>5. n - 1 \in Good
  <2>1. n - 1 \in 0..(n - 1) /\ (n - 1) - 1 = n - 2
    BY <1>1
  <2> HIDE DEF Good, n
  <2>2. \A k \in 0..((n - 1) - 1) : k \in Good => k + 1 \in Good
    BY <1>4, <2>1
  <2>3. \A k \in 0..(n - 1) : k \in Good
    BY <1>1, <1>3, <2>2, UpTo
  <2> QED
    BY <2>1, <2>3
<1>6. Upto(n) = s /\ From(n) = Tail(s) /\ (n - 1) + 1 = n
  BY <1>1
<1> HIDE DEF Upto, From
<1> QED
  BY <1>5, <1>6

-----------------------------------------------------------------------------
\* The stream
Byte == {b \in (1..Messages) \X Nat : b[2] \in 1..(HeaderSize + sizes[b[1]])}
Slot == Byte \cup {Junk}   \* what can be in a buffer

Sized == sizes \in [1..Messages -> BodySizes]

\* The bytes before the message after the n-th
Before(n) == FlattenSeq([m \in 1..n |-> Frame(m)])
Base(n) == Len(Before(n))

LEMMA FrameTyped ==
  ASSUME Sized, NEW m \in 1..Messages
  PROVE  /\ sizes[m] \in Nat
         /\ Frame(m) \in Seq(Byte) /\ Len(Frame(m)) = HeaderSize + sizes[m]
         /\ \A k \in 1..(HeaderSize + sizes[m]) : Frame(m)[k] = <<m, k>>
<1>1. sizes[m] \in Nat /\ HeaderSize + sizes[m] \in Nat
  <2>1. sizes[m] \in BodySizes
    BY DEF Sized
  <2>2. sizes[m] \in Nat /\ HeaderSize \in Nat
    BY <2>1, StreamConstants
  <2> QED
    BY <2>2
<1>2. ASSUME NEW k \in 1..(HeaderSize + sizes[m]) PROVE <<m, k>> \in Byte
  <2>1. <<m, k>> \in (1..Messages) \X Nat /\ <<m, k>>[1] = m /\ <<m, k>>[2] = k
    BY <1>1, StreamConstants
  <2> QED
    BY <2>1 DEF Byte
<1> HIDE DEF Byte
<1> QED
  BY <1>1, <1>2 DEF Frame

LEMMA FramesTyped ==
  ASSUME Sized, NEW n \in 0..Messages
  PROVE  [m \in 1..n |-> Frame(m)] \in Seq(Seq(Byte))
<1>1. n \in Nat /\ \A m \in 1..n : m \in 1..Messages
  BY StreamConstants
<1>2. \A m \in 1..n : Frame(m) \in Seq(Byte)
  BY <1>1, FrameTyped
<1> QED
  BY <1>1, <1>2

LEMMA BeforeThen ==
  ASSUME Sized, NEW n \in 0..(Messages - 1)
  PROVE  /\ Before(n) \in Seq(Byte) /\ Before(n + 1) \in Seq(Byte)
         /\ Before(n + 1) = Before(n) \o Frame(n + 1)
<1> DEFINE s == [m \in 1..n |-> Frame(m)]
           t == [m \in 1..(n + 1) |-> Frame(m)]
<1>1. n \in Nat /\ n \in 0..Messages /\ n + 1 \in 0..Messages /\ n + 1 \in 1..Messages
  BY StreamConstants
<1>2. s \in Seq(Seq(Byte)) /\ t \in Seq(Seq(Byte)) /\ Frame(n + 1) \in Seq(Byte)
  BY <1>1, FramesTyped, FrameTyped
<1>3. t = Append(s, Frame(n + 1))
  <2>1. Len(s) = n /\ Len(t) = n + 1 /\ \A i \in 1..n : s[i] = Frame(i)
    BY <1>1
  <2>2. \A i \in 1..(n + 1) : t[i] = Frame(i)
    OBVIOUS
  <2> DEFINE e == Frame(n + 1)
  <2>3. e \in Seq(Byte) /\ t[n + 1] = e
    BY <1>1, <1>2, <2>2
  <2> HIDE DEF s, t, e
  <2>4. /\ Append(s, e) \in Seq(Seq(Byte)) /\ Len(Append(s, e)) = n + 1
        /\ \A i \in 1..n : Append(s, e)[i] = s[i]
        /\ Append(s, e)[n + 1] = e
    BY <1>1, <1>2, <2>1, <2>3, AppendProperties
  <2>5. ASSUME NEW i \in 1..(n + 1) PROVE t[i] = Append(s, e)[i]
    <3>1. CASE i = n + 1
      BY <2>3, <2>4, <3>1
    <3>2. CASE i # n + 1
      <4>1. i \in 1..n
        BY <1>1, <3>2
      <4> QED
        BY <2>1, <2>2, <2>4, <4>1
    <3> QED
      BY <3>1, <3>2
  <2>6. t = Append(s, e)
    BY <1>2, <2>1, <2>4, <2>5, SeqEqual
  <2> QED
    BY <2>6 DEF e
<1> HIDE DEF s, t
<1>4. FlattenSeq(t) = FlattenSeq(s) \o Frame(n + 1) /\ FlattenSeq(s) \in Seq(Byte)
  BY <1>2, <1>3, FlattenAppend
<1>5. FlattenSeq(t) \in Seq(Byte)
  BY <1>2, FlattenType
<1> QED
  BY <1>4, <1>5 DEF Before, s, t

LEMMA StreamTyped ==
  ASSUME Sized
  PROVE  /\ Stream \in Seq(Byte) /\ Len(Stream) \in Nat
         /\ Stream = Before(Messages)
         /\ \A n \in 0..Messages : Before(n) \in Seq(Byte) /\ Base(n) \in Nat
         /\ Base(0) = 0
<1>1. ASSUME NEW n \in 0..Messages PROVE Before(n) \in Seq(Byte)
  <2>1. [m \in 1..n |-> Frame(m)] \in Seq(Seq(Byte))
    BY FramesTyped
  <2> HIDE DEF Byte
  <2> QED
    BY <2>1, FlattenType DEF Before
<1>2. Stream = Before(Messages) /\ Messages \in 0..Messages
  BY StreamConstants DEF Stream, Before
<1>3. Before(0) = <<>>
  <2>1. [m \in 1..0 |-> Frame(m)] = <<>>
    OBVIOUS
  <2> QED
    BY <2>1, FlattenNone DEF Before
<1> QED
  BY <1>1, <1>2, <1>3 DEF Base

\* What comes after the first n messages
LEMMA StreamFrom ==
  ASSUME Sized, NEW n \in 0..Messages
  PROVE  \E rest \in Seq(Byte) : Stream = Before(n) \o rest
<1> DEFINE s == [m \in 1..n |-> Frame(m)]
           t == [m \in 1..(Messages - n) |-> Frame(n + m)]
           all == [m \in 1..Messages |-> Frame(m)]
<1>1. n \in Nat /\ Messages \in Nat /\ Messages - n \in Nat /\ Messages \in 0..Messages
  BY StreamConstants
<1>2. s \in Seq(Seq(Byte)) /\ all \in Seq(Seq(Byte))
  BY <1>1, FramesTyped
<1>3. t \in Seq(Seq(Byte))
  <2>1. \A m \in 1..(Messages - n) : n + m \in 1..Messages
    BY <1>1
  <2>2. \A m \in 1..(Messages - n) : Frame(n + m) \in Seq(Byte)
    BY <2>1, FrameTyped
  <2> QED
    BY <1>1, <2>2
<1>4. all = s \o t
  <2>1. /\ Len(s) = n /\ Len(t) = Messages - n /\ Len(all) = Messages
        /\ \A i \in 1..n : s[i] = Frame(i)
        /\ \A i \in 1..(Messages - n) : t[i] = Frame(n + i)
        /\ \A i \in 1..Messages : all[i] = Frame(i)
    BY <1>1
  <2> HIDE DEF s, t, all
  <2>2. /\ s \o t \in Seq(Seq(Byte)) /\ Len(s \o t) = Len(s) + Len(t)
        /\ \A i \in 1..Len(s) : (s \o t)[i] = s[i]
        /\ \A i \in 1..Len(t) : (s \o t)[Len(s) + i] = t[i]
    BY <1>2, <1>3, JoinIs
  <2>3. Len(s \o t) = Messages
    BY <1>1, <2>1, <2>2
  <2>4. ASSUME NEW i \in 1..Messages PROVE all[i] = (s \o t)[i]
    <3>1. CASE i <= n
      BY <1>1, <2>1, <2>2, <3>1
    <3>2. CASE ~(i <= n)
      <4> DEFINE j == i - n
      <4>1. j \in 1..(Messages - n) /\ n + j = i
        BY <1>1, <3>2
      <4>2. (s \o t)[n + j] = Frame(n + j)
        BY <2>1, <2>2, <4>1
      <4> QED
        BY <2>1, <4>1, <4>2
    <3> QED
      BY <3>1, <3>2
  <2> QED
    BY <1>2, <2>1, <2>2, <2>3, <2>4, SeqEqual
<1> HIDE DEF s, t, all
<1>5. FlattenSeq(all) = FlattenSeq(s) \o FlattenSeq(t) /\ FlattenSeq(t) \in Seq(Byte)
  BY <1>2, <1>3, <1>4, FlattenConcat, FlattenType
<1> QED
  BY <1>5 DEF Stream, Before, s, all

\* The message after the n-th
LEMMA NextFrame ==
  ASSUME Sized, NEW n \in 0..(Messages - 1)
  PROVE  /\ Base(n) \in Nat /\ sizes[n + 1] \in Nat /\ n + 1 \in 1..Messages
         /\ Base(n + 1) = Base(n) + HeaderSize + sizes[n + 1]
         /\ Base(n + 1) <= Len(Stream)
         /\ \A k \in 1..(HeaderSize + sizes[n + 1]) : Stream[Base(n) + k] = <<n + 1, k>>
<1>1. /\ n \in Nat /\ n \in 0..Messages /\ n + 1 \in 0..Messages /\ n + 1 \in 1..Messages
      /\ HeaderSize \in Nat
  BY StreamConstants
<1> DEFINE a == Before(n)
           f == Frame(n + 1)
           b == Before(n + 1)
<1>2. /\ f \in Seq(Byte) /\ Len(f) = HeaderSize + sizes[n + 1] /\ sizes[n + 1] \in Nat
      /\ \A k \in 1..(HeaderSize + sizes[n + 1]) : f[k] = <<n + 1, k>>
  BY <1>1, FrameTyped
<1>3. a \in Seq(Byte) /\ b \in Seq(Byte) /\ b = a \o f
  BY BeforeThen
<1>4. PICK rest \in Seq(Byte) : Stream = b \o rest
  BY <1>1, StreamFrom
<1> HIDE DEF a, b, f, Byte
<1>5. /\ Len(a \o f) = Len(a) + Len(f) /\ Len(a) \in Nat
      /\ \A k \in 1..Len(f) : (a \o f)[Len(a) + k] = f[k]
  BY <1>2, <1>3, JoinIs
<1>6. /\ Len(b \o rest) = Len(b) + Len(rest) /\ Len(rest) \in Nat /\ Len(b) \in Nat
      /\ \A i \in 1..Len(b) : (b \o rest)[i] = b[i]
  BY <1>3, <1>4, JoinIs
<1>7. Len(b) = Len(a) + HeaderSize + sizes[n + 1] /\ Len(b) <= Len(Stream)
  <2> DEFINE size == sizes[n + 1]
  <2>1. Len(b) = Len(a) + Len(f) /\ Len(f) = HeaderSize + size /\ size \in Nat
    BY <1>2, <1>3, <1>5
  <2>2. Len(Stream) = Len(b) + Len(rest)
    BY <1>4, <1>6
  <2> HIDE DEF size
  <2>3. Len(b) = Len(a) + HeaderSize + size /\ Len(b) <= Len(Stream)
    BY <1>1, <1>5, <1>6, <2>1, <2>2
  <2> QED
    BY <2>3 DEF size
<1>8. ASSUME NEW k \in 1..(HeaderSize + sizes[n + 1])
      PROVE  Stream[Len(a) + k] = <<n + 1, k>>
  <2>1. Len(a) + k \in 1..Len(b)
    <3> DEFINE size == sizes[n + 1]
    <3>1. /\ size \in Nat /\ Len(b) = Len(a) + HeaderSize + size
          /\ k \in 1..(HeaderSize + size)
      BY <1>2, <1>7
    <3> HIDE DEF size
    <3> QED
      BY <1>1, <1>5, <3>1
  <2>2. Stream[Len(a) + k] = b[Len(a) + k]
    BY <1>4, <1>6, <2>1
  <2>3. b[Len(a) + k] = f[k]
    BY <1>2, <1>3, <1>5
  <2> QED
    BY <1>2, <2>2, <2>3
<1> QED
  BY <1>1, <1>2, <1>5, <1>7, <1>8 DEF Base, a, b

-----------------------------------------------------------------------------
\* The invariant
Msg == {e \in [id : 0..Messages, size : Nat, body : Seq(Slot)] : Len(e.body) = e.size}
Read == [into : {"buf", "msg"}, at : Nat, cap : Nat, msg : Nat]

Typed ==
  /\ Sized
  /\ taken \in 0..Len(Stream)
  /\ reads \in Seq(Read)
  /\ done \in Seq(Nat)
  /\ recvBuf \in [1..RecvBufSize -> Slot]
  /\ recvMsg \in Msg
  /\ recvSize \in Nat /\ offset \in Nat
  /\ delivered \in Seq(Msg)
  /\ straddled \in BOOLEAN
  /\ state \in {"idle", "parse", "closed", "aborted"}
  /\ state = "parse" => recvMsg = None /\ HeaderSize <= recvSize

Lengths == [i \in DOMAIN delivered |-> HeaderSize + delivered[i].size]

Counted ==
  state \in {"idle", "parse"} =>
    SumOf(Lengths) + (IF recvMsg = None THEN 0 ELSE HeaderSize) + recvSize = taken - SumOf(done)

\* The n bytes from at on are those that follow the messages delivered.
InBuffer(at, n) ==
  /\ at + n <= RecvBufSize
  /\ taken = Base(Len(delivered)) + n
  /\ \A k \in 1..n : recvBuf[at + k] = Stream[Base(Len(delivered)) + k]

\* A read is under way, has ended, or its bytes are parsed.
Reading == state = "idle" /\ reads = <<ReadBuf(recvSize)>> /\ done = <<>> /\ InBuffer(0, recvSize)
Arrived == /\ state = "idle" /\ reads = <<>> /\ Len(done) = 1
           /\ InBuffer(0, recvSize + Head(done))
Parsing == state = "parse" /\ reads = <<>> /\ done = <<>> /\ InBuffer(offset, recvSize)

Right ==
  /\ Len(delivered) <= Messages
  /\ \A m \in 1..Len(delivered) :
       delivered[m] = [id |-> m, size |-> sizes[m],
                       body |-> [k \in 1..sizes[m] |-> <<m, HeaderSize + k>>]]

Whole == ~straddled =>
  /\ Right
  /\ ~InBody(taken)
  /\ state \in {"idle", "parse"} => recvMsg = None /\ (Reading \/ Arrived \/ Parsing)

RecvInv == Typed /\ Counted /\ Whole

-----------------------------------------------------------------------------
LEMMA SameStream ==
  ASSUME UNCHANGED sizes
  PROVE  /\ Stream' = Stream /\ Byte' = Byte /\ Slot' = Slot /\ Msg' = Msg
         /\ (Sized' <=> Sized)
BY DEF Stream, Frame, Byte, Slot, Msg, Sized

\* What the buffer holds after a step
LEMMA HeldThen ==
  ASSUME UNCHANGED sizes, NEW at \in Nat, NEW n \in Nat, NEW d \in Nat, Len(delivered') = d,
         at + n <= RecvBufSize, taken' = Base(d) + n,
         \A k \in 1..n : recvBuf'[at + k] = Stream[Base(d) + k]
  PROVE  /\ state' = "idle" /\ reads' = <<ReadBuf(n)>> /\ done' = <<>> /\ recvSize' = n /\ at = 0
              => Reading'
         /\ state' = "idle" /\ reads' = <<>> /\ Len(done') = 1 /\ recvSize' + Head(done') = n /\ at = 0
              => Arrived'
         /\ state' = "parse" /\ reads' = <<>> /\ done' = <<>> /\ recvSize' = n /\ offset' = at
              => Parsing'
<1>1. Base(Len(delivered))' = Base(d) /\ Stream' = Stream
  BY SameStream DEF Base, Before, Frame
<1>2. Reading' <=> /\ state' = "idle" /\ reads' = <<ReadBuf(recvSize')>> /\ done' = <<>>
                   /\ 0 + recvSize' <= RecvBufSize
                   /\ taken' = Base(d) + recvSize'
                   /\ \A k \in 1..recvSize' : recvBuf'[0 + k] = Stream[Base(d) + k]
  BY <1>1 DEF Reading, InBuffer
<1>3. Arrived' <=> /\ state' = "idle" /\ reads' = <<>> /\ Len(done') = 1
                   /\ 0 + (recvSize' + Head(done')) <= RecvBufSize
                   /\ taken' = Base(d) + (recvSize' + Head(done'))
                   /\ \A k \in 1..(recvSize' + Head(done')) : recvBuf'[0 + k] = Stream[Base(d) + k]
  BY <1>1 DEF Arrived, InBuffer
<1>4. Parsing' <=> /\ state' = "parse" /\ reads' = <<>> /\ done' = <<>>
                   /\ offset' + recvSize' <= RecvBufSize
                   /\ taken' = Base(d) + recvSize'
                   /\ \A k \in 1..recvSize' : recvBuf'[offset' + k] = Stream[Base(d) + k]
  BY <1>1 DEF Parsing, InBuffer
<1> QED
  BY <1>2, <1>3, <1>4

LEMMA LengthsAre ==
  ASSUME delivered \in Seq(Msg)
  PROVE  Lengths \in Seq(Nat) /\ SumOf(Lengths) \in Nat
<1>1. \A i \in DOMAIN delivered : delivered[i].size \in Nat /\ HeaderSize + delivered[i].size \in Nat
  BY StreamConstants DEF Msg
<1>2. Lengths \in Seq(Nat)
  BY <1>1 DEF Lengths
<1> QED
  BY <1>2, SumAppend

LEMMA LengthsAppend ==
  ASSUME delivered \in Seq(Msg), NEW e \in Msg, delivered' = Append(delivered, e)
  PROVE  SumOf(Lengths)' = SumOf(Lengths) + (HeaderSize + e.size)
<1> DEFINE a == Append(Lengths, HeaderSize + e.size)
           n == Len(delivered)
<1>1. n \in Nat /\ e.size \in Nat /\ HeaderSize + e.size \in Nat
  BY StreamConstants DEF Msg
<1>2. Lengths \in Seq(Nat) /\ Len(Lengths) = n /\ \A i \in 1..n : Lengths[i] = HeaderSize + delivered[i].size
  BY LengthsAre DEF Lengths
<1>3. /\ delivered' \in Seq(Msg) /\ Len(delivered') = n + 1 /\ delivered'[n + 1] = e
      /\ \A i \in 1..n : delivered'[i] = delivered[i]
  BY AppendProperties
<1>4. /\ a \in Seq(Nat) /\ Len(a) = n + 1 /\ a[n + 1] = HeaderSize + e.size
      /\ \A i \in 1..n : a[i] = Lengths[i]
  BY <1>1, <1>2, AppendProperties
<1>5. DOMAIN delivered' = 1..(n + 1) /\ DOMAIN a = 1..(n + 1)
  BY <1>3, <1>4
<1>6. \A i \in 1..(n + 1) : a[i] = HeaderSize + delivered'[i].size
  <2> SUFFICES ASSUME NEW i \in 1..(n + 1) PROVE a[i] = HeaderSize + delivered'[i].size
    OBVIOUS
  <2>1. CASE i = n + 1
    BY <1>3, <1>4, <2>1
  <2>2. CASE i # n + 1
    <3>1. i \in 1..n
      BY <1>1, <2>2
    <3> QED
      BY <1>2, <1>3, <1>4, <3>1
  <2> QED
    BY <2>1, <2>2
<1>7. Lengths' = [i \in 1..(n + 1) |-> HeaderSize + delivered'[i].size]
  BY <1>5 DEF Lengths
<1>8. a = [i \in 1..(n + 1) |-> a[i]]
  BY <1>4
<1>9. Lengths' = a
  <2> HIDE DEF a
  <2> QED
    BY <1>6, <1>7, <1>8
<1> QED
  BY <1>1, <1>2, <1>9, SumAppend

LEMMA PostReadsThen ==
  ASSUME NEW msg \in Msg, NEW size \in Nat, NEW pushed \in Nat, reads \in Seq(Read),
         PostReads(msg, size, pushed)
  PROVE  /\ reads' \in Seq(Read)
         /\ state' \in {"idle", "aborted"}
         /\ state' = "idle" => size < RecvBufSize
         /\ state' = "idle" /\ msg = None /\ reads = <<>> => reads' = <<ReadBuf(size)>>
<1> DEFINE rest == [into |-> "msg", at |-> size, cap |-> msg.size - size, msg |-> pushed + 1]
           next == (IF msg = None THEN <<>> ELSE <<rest>>) \o <<ReadBuf(size)>>
<1>0. RecvBufSize \in Nat /\ msg.size \in Nat
  BY StreamConstants DEF Msg
<1>1. CASE (msg # None /\ msg.size <= size) \/ RecvBufSize <= size
  BY <1>1 DEF PostReads
<1>2. CASE ~((msg # None /\ msg.size <= size) \/ RecvBufSize <= size)
  <2>1. reads' = reads \o next /\ state' = "idle" /\ size < RecvBufSize
    BY <1>0, <1>2 DEF PostReads
  <2>2. ReadBuf(size) \in Read /\ <<ReadBuf(size)>> \in Seq(Read)
    <3>1. RecvBufSize - size \in Nat
      BY <1>0, <2>1
    <3> QED
      BY <3>1 DEF ReadBuf, Read
  <2>3. CASE msg = None
    <3>1. next = <<ReadBuf(size)>>
      <4> DEFINE r == ReadBuf(size)
      <4>1. <<r>> \in Seq(Read)
        BY <2>2
      <4> HIDE DEF r
      <4>2. <<>> \o <<r>> = <<r>>
        BY <4>1
      <4> QED
        BY <2>3, <4>2 DEF r
    <3> HIDE DEF next
    <3>2. reads \o next \in Seq(Read)
      BY <2>2, <3>1, JoinIs
    <3>3. reads = <<>> => reads \o next = next
      BY <2>2, <3>1
    <3> QED
      BY <2>1, <3>1, <3>2, <3>3
  <2>4. CASE msg # None
    <3>1. msg.size - size \in Nat
      BY <1>0, <1>2, <2>4
    <3>2. <<rest>> \in Seq(Read)
      BY <3>1 DEF Read
    <3> HIDE DEF rest, Read
    <3>3. next \in Seq(Read)
      BY <2>2, <2>4, <3>2, JoinIs
    <3> HIDE DEF next
    <3>4. reads \o next \in Seq(Read)
      BY <3>3, JoinIs
    <3> QED
      BY <2>1, <2>4, <3>4
  <2> QED
    BY <2>3, <2>4
<1> QED
  BY <1>1, <1>2
-----------------------------------------------------------------------------
LEMMA CompleteKeeps ==
  ASSUME RecvInv, NEW n \in 1..Len(Stream), Complete(n)
  PROVE  RecvInv'
<1> DEFINE read == Head(reads)
           s == SubSeq(Stream, taken + 1, taken + n)
<1>1. /\ UNCHANGED <<sizes, recvSize, offset, delivered, state>>
      /\ reads # <<>> /\ n <= read.cap /\ taken + n <= Len(Stream)
      /\ taken' = taken + n /\ reads' = Tail(reads) /\ done' = Append(done, n)
      /\ straddled' = (straddled \/ InBody(taken + n))
      /\ Store(read, s)
  BY DEF Complete
<1>2. Typed /\ Counted /\ Whole
  BY DEF RecvInv
<1>3. Stream \in Seq(Byte) /\ Len(Stream) \in Nat /\ taken \in Nat /\ n \in Nat \ {0}
  BY <1>2, StreamTyped DEF Typed
<1>4. s \in Seq(Byte) /\ Len(s) = n /\ \A i \in 1..n : s[i] = Stream[taken + i]
  <2>1. taken <= taken + n /\ taken + n \in Nat /\ (taken + n) - taken = n
    BY <1>3
  <2> HIDE DEF Byte
  <2> QED
    BY <1>1, <1>3, <2>1, PartIs
<1>5. read \in Read /\ Tail(reads) \in Seq(Read)
  BY <1>1, <1>2 DEF Typed
<1>6. done' \in Seq(Nat) /\ SumOf(done) \in Nat /\ SumOf(done') = SumOf(done) + n
  BY <1>1, <1>2, <1>3, SumAppend DEF Typed
<1> HIDE DEF s, read
<1>7. /\ recvBuf' \in [1..RecvBufSize -> Slot]
      /\ recvMsg' \in Msg
      /\ recvMsg' = None <=> recvMsg = None
  <2>1. \A i \in 1..n : s[i] \in Slot
    BY <1>4 DEF Slot
  <2>2. recvBuf \in [1..RecvBufSize -> Slot] /\ recvMsg \in Msg /\ read.at \in Nat
    BY <1>2, <1>5 DEF Typed, Read
  <2>3. CASE read.into = "buf"
    <3>1. /\ recvBuf' = [i \in DOMAIN recvBuf |->
                            IF i - read.at \in 1..n THEN s[i - read.at] ELSE recvBuf[i]]
          /\ recvMsg' = recvMsg
      BY <1>1, <1>4, <2>3 DEF Store
    <3>2. DOMAIN recvBuf = 1..RecvBufSize
      BY <2>2
    <3> HIDE DEF Slot, Msg
    <3>3. ASSUME NEW i \in 1..RecvBufSize
          PROVE  (IF i - read.at \in 1..n THEN s[i - read.at] ELSE recvBuf[i]) \in Slot
      BY <2>1, <2>2
    <3> QED
      BY <2>2, <3>1, <3>2, <3>3
  <2>4. CASE read.into # "buf" /\ ~(recvMsg # None /\ read.msg = Len(delivered) + 1)
    <3>1. recvMsg' = recvMsg /\ recvBuf' = recvBuf
      BY <1>1, <2>4 DEF Store
    <3> QED
      BY <2>2, <3>1
  <2>5. CASE read.into # "buf" /\ recvMsg # None /\ read.msg = Len(delivered) + 1
    <3> DEFINE body == [i \in DOMAIN recvMsg.body |->
                          IF i - read.at \in 1..n THEN s[i - read.at] ELSE recvMsg.body[i]]
               size == recvMsg.size
    <3>1. recvMsg' = [recvMsg EXCEPT !.body = body] /\ recvBuf' = recvBuf
      BY <1>1, <1>4, <2>5 DEF Store
    <3>2. recvMsg.body \in Seq(Slot) /\ Len(recvMsg.body) = size /\ size \in Nat
      BY <2>2 DEF Msg
    <3>3. DOMAIN recvMsg.body = 1..size
      BY <3>2
    <3>4. \A i \in 1..size : recvMsg.body[i] \in Slot
      BY <3>2, <3>3
    <3>5. \A i \in 1..size : (IF i - read.at \in 1..n THEN s[i - read.at] ELSE recvMsg.body[i]) \in Slot
      BY <2>1, <2>2, <3>2, <3>4
    <3>6. body \in [1..size -> Slot]
      BY <3>3, <3>5
    <3>7. body \in Seq(Slot) /\ Len(body) = size
      <4> HIDE DEF body, size, Slot
      <4> QED
        BY <3>2, <3>6
    <3> HIDE DEF body, size, Slot
    <3>8. recvMsg' \in Msg /\ recvMsg'.size = size
      BY <2>2, <3>1, <3>2, <3>7 DEF Msg, size
    <3>9. recvMsg' # None
      <4>1. SUFFICES ASSUME recvMsg' = None PROVE FALSE
        OBVIOUS
      <4>2. size = 0 /\ recvMsg.id = 0 /\ recvMsg.body = <<>>
        BY <2>2, <3>1, <3>2, <3>8, <4>1 DEF None, Msg
      <4>3. recvMsg = None
        BY <2>2, <4>2 DEF None, Msg, size
      <4> QED
        BY <2>5, <4>3
    <3> QED
      BY <2>2, <2>5, <3>1, <3>8, <3>9
  <2> QED
    BY <2>3, <2>4, <2>5
<1>8. Typed'
  <2>1. Stream' = Stream /\ Slot' = Slot /\ Msg' = Msg /\ Sized' /\ (straddled \/ InBody(taken + n)) \in BOOLEAN
    BY <1>1, <1>2, SameStream DEF Typed, InBody
  <2>2. state' = "parse" => recvMsg' = None /\ HeaderSize <= recvSize'
    BY <1>1, <1>2, <1>7 DEF Typed
  <2>3. delivered' \in Seq(Msg) /\ recvSize' \in Nat /\ offset' \in Nat
        /\ state' \in {"idle", "parse", "closed", "aborted"} /\ taken' \in 0..Len(Stream)
    BY <1>1, <1>2, <1>3 DEF Typed
  <2> QED
    BY <1>1, <1>5, <1>6, <1>7, <2>1, <2>2, <2>3 DEF Typed
<1>9. Counted'
  <2>1. SUFFICES ASSUME state' \in {"idle", "parse"}
                 PROVE  SumOf(Lengths)' + (IF recvMsg' = None THEN 0 ELSE HeaderSize) + recvSize'
                        = taken' - SumOf(done)'
    BY DEF Counted
  <2>2. SumOf(Lengths)' = SumOf(Lengths) /\ SumOf(Lengths) \in Nat
    BY <1>1, <1>2, LengthsAre DEF Lengths, Typed
  <2>3. SumOf(Lengths) + (IF recvMsg = None THEN 0 ELSE HeaderSize) + recvSize = taken - SumOf(done)
    BY <1>1, <1>2, <2>1 DEF Counted
  <2>4. recvSize \in Nat /\ HeaderSize \in Nat
    BY <1>2, StreamConstants DEF Typed
  <2> QED
    BY <1>1, <1>3, <1>6, <1>7, <2>2, <2>3, <2>4
<1>10. Whole'
  <2>1. SUFFICES ASSUME ~straddled'
                 PROVE  /\ Right'
                        /\ ~InBody(taken)'
                        /\ state' \in {"idle", "parse"} =>
                             recvMsg' = None /\ (Reading' \/ Arrived' \/ Parsing')
    BY DEF Whole
  <2>2. ~straddled /\ ~InBody(taken + n) /\ Right
    BY <1>1, <1>2, <2>1 DEF Whole, Typed
  <2>3. ~InBody(taken)'
    <3>1. InBody(taken)' <=> InBody(taken + n)
      BY <1>1, SameStream DEF InBody
    <3> QED
      BY <2>2, <3>1
  <2>4. Right'
    BY <1>1, <2>2 DEF Right
  <2>5. ASSUME state' \in {"idle", "parse"} PROVE recvMsg' = None /\ Arrived'
    <3> DEFINE d == Len(delivered)
               b == Base(d)
               size == recvSize
    <3>1. recvMsg = None /\ Reading
      BY <1>1, <1>2, <2>2, <2>5 DEF Whole, Arrived, Parsing
    <3>2. /\ reads = <<ReadBuf(size)>> /\ done = <<>> /\ state = "idle"
          /\ 0 + size <= RecvBufSize /\ taken = b + size
          /\ \A k \in 1..size : recvBuf[0 + k] = Stream[b + k]
      BY <3>1 DEF Reading, InBuffer
    <3>3. read.into = "buf" /\ read.at = size /\ read.cap = RecvBufSize - size
      BY <3>2 DEF read, ReadBuf
    <3>4. d \in Nat /\ d \in 0..Messages /\ size \in Nat /\ RecvBufSize \in Nat
      BY <1>2, <2>2, StreamConstants DEF Typed, Right
    <3>5. b \in Nat
      BY <1>2, <3>4, StreamTyped DEF Typed
    <3>6. /\ recvBuf' = [i \in DOMAIN recvBuf |->
                            IF i - size \in 1..n THEN s[i - size] ELSE recvBuf[i]]
          /\ DOMAIN recvBuf = 1..RecvBufSize
      BY <1>1, <1>2, <1>4, <3>3 DEF Store, Typed
    <3>7. size + n \in Nat /\ 0 + (size + n) <= RecvBufSize /\ taken' = b + (size + n)
      BY <1>1, <1>3, <3>2, <3>3, <3>4, <3>5
    <3> HIDE DEF b, size
    <3>8. \A k \in 1..(size + n) : recvBuf'[0 + k] = Stream[b + k]
      <4> SUFFICES ASSUME NEW k \in 1..(size + n) PROVE recvBuf'[k] = Stream[b + k]
        OBVIOUS
      <4>1. k \in 1..RecvBufSize /\ k \in Nat
        BY <1>3, <3>4, <3>7
      <4>2. CASE k <= size
        <5>1. k \in 1..size /\ ~(k - size \in 1..n) /\ 0 + k = k
          BY <3>4, <4>1, <4>2
        <5>2. recvBuf'[k] = recvBuf[k]
          BY <3>6, <4>1, <5>1
        <5>3. recvBuf[k] = Stream[b + k]
          BY <3>2, <5>1
        <5> QED
          BY <5>2, <5>3
      <4>3. CASE ~(k <= size)
        <5>1. k - size \in 1..n /\ taken + (k - size) = b + k
          BY <1>3, <3>2, <3>4, <3>5, <4>1, <4>3
        <5>2. recvBuf'[k] = s[k - size]
          BY <3>6, <4>1, <5>1
        <5> QED
          BY <1>4, <5>1, <5>2
      <4> QED
        BY <4>2, <4>3
    <3>9. done' = <<n>> /\ Len(done') = 1 /\ Head(done') = n /\ reads' = <<>>
      BY <1>1, <3>2
    <3>10. Len(delivered') = d /\ recvSize' + Head(done') = size + n /\ state' = "idle" /\ 0 \in Nat
      BY <1>1, <3>2, <3>9 DEF size
    <3>11. Arrived'
      BY <1>1, <3>4, <3>7, <3>8, <3>9, <3>10, HeldThen DEF b
    <3> QED
      BY <1>7, <3>1, <3>11
  <2> QED
    BY <2>3, <2>4, <2>5
<1> QED
  BY <1>8, <1>9, <1>10 DEF RecvInv

LEMMA CompleteWithErrorKeeps ==
  ASSUME RecvInv, CompleteWithError
  PROVE  RecvInv'
<1>1. /\ UNCHANGED <<sizes, taken, recvBuf, recvMsg, recvSize, offset, delivered, straddled, state>>
      /\ reads # <<>> /\ reads' = Tail(reads) /\ done' = Append(done, 0)
  BY DEF CompleteWithError
<1>2. Typed /\ Counted /\ Whole
  BY DEF RecvInv
<1>3. reads' \in Seq(Read)
  BY <1>1, <1>2 DEF Typed
<1>4. done' \in Seq(Nat) /\ SumOf(done) \in Nat /\ SumOf(done') = SumOf(done) + 0
  BY <1>1, <1>2, SumAppend DEF Typed
<1>5. Typed'
  <2>1. Stream' = Stream /\ Slot' = Slot /\ Msg' = Msg /\ Sized'
    BY <1>1, <1>2, SameStream DEF Typed
  <2> QED
    BY <1>1, <1>2, <1>3, <1>4, <2>1 DEF Typed
<1>6. Counted'
  <2>1. Lengths' = Lengths
    BY <1>1 DEF Lengths
  <2>2. SumOf(done') = SumOf(done)
    BY <1>4
  <2> QED
    BY <1>1, <1>2, <2>1, <2>2 DEF Counted
<1>7. Whole'
  <2>1. SUFFICES ASSUME ~straddled'
                 PROVE  /\ Right'
                        /\ ~InBody(taken)'
                        /\ state' \in {"idle", "parse"} =>
                             recvMsg' = None /\ (Reading' \/ Arrived' \/ Parsing')
    BY DEF Whole
  <2>2. ~straddled /\ Right /\ ~InBody(taken)
    BY <1>1, <1>2, <2>1 DEF Whole
  <2>3. Right' /\ ~InBody(taken)'
    BY <1>1, <2>2, SameStream DEF Right, InBody
  <2>4. ASSUME state' \in {"idle", "parse"} PROVE recvMsg' = None /\ Arrived'
    <3> DEFINE d == Len(delivered)
               b == Base(d)
               size == recvSize
    <3>1. recvMsg = None /\ Reading
      BY <1>1, <1>2, <2>2, <2>4 DEF Whole, Arrived, Parsing
    <3>2. /\ reads = <<ReadBuf(size)>> /\ done = <<>> /\ state = "idle"
          /\ 0 + size <= RecvBufSize /\ taken = b + size
          /\ \A k \in 1..size : recvBuf[0 + k] = Stream[b + k]
      BY <3>1 DEF Reading, InBuffer
    <3>3. d \in Nat /\ size \in Nat
      BY <1>2 DEF Typed
    <3>4. done' = <<0>> /\ Len(done') = 1 /\ Head(done') = 0 /\ reads' = <<>>
      BY <1>1, <3>2
    <3>5. Len(delivered') = d /\ recvSize' + Head(done') = size /\ state' = "idle"
      BY <1>1, <3>2, <3>3, <3>4
    <3>6. taken' = b + size /\ \A k \in 1..size : recvBuf'[0 + k] = Stream[b + k]
      BY <1>1, <3>2
    <3> HIDE DEF size
    <3>7. Arrived'
      BY <1>1, <3>2, <3>3, <3>4, <3>5, <3>6, HeldThen DEF b
    <3> QED
      BY <1>1, <3>1, <3>7
  <2> QED
    BY <2>3, <2>4
<1> QED
  BY <1>5, <1>6, <1>7 DEF RecvInv

\* A handler that closes or aborts the session leaves what was delivered.
LEMMA EndsKeep ==
  ASSUME RecvInv, UNCHANGED <<sizes, taken, straddled, recvBuf>>,
         reads' \in Seq(Read), done' \in Seq(Nat), recvMsg' \in Msg, recvSize' \in Nat, offset' \in Nat,
         delivered' \in Seq(Msg), ~straddled => Right',
         state' \in {"closed", "aborted"}
  PROVE  RecvInv'
<1>1. Stream' = Stream /\ Slot' = Slot /\ Msg' = Msg /\ (Sized' <=> Sized)
  BY SameStream
<1>2. Typed'
  BY <1>1 DEF RecvInv, Typed
<1>3. Counted'
  BY DEF Counted
<1>4. InBody(taken)' <=> InBody(taken)
  BY <1>1 DEF InBody
<1>5. Whole'
  BY <1>4 DEF RecvInv, Whole
<1> QED
  BY <1>2, <1>3, <1>5 DEF RecvInv

LEMMA HandleErrorKeeps ==
  ASSUME RecvInv, HandleError
  PROVE  RecvInv'
<1>1. /\ UNCHANGED <<sizes, taken, straddled, reads, recvBuf, recvMsg, recvSize, offset, delivered>>
      /\ done # <<>> /\ done' = Tail(done) /\ state' = "closed"
  BY DEF HandleError, Close
<1>2. done' \in Seq(Nat)
  BY <1>1 DEF RecvInv, Typed
<1>3. ~straddled => Right'
  BY <1>1 DEF RecvInv, Whole, Right
<1> QED
  BY <1>1, <1>2, <1>3, EndsKeep DEF RecvInv, Typed

LEMMA RejectHeaderKeeps ==
  ASSUME RecvInv, RejectHeader
  PROVE  RecvInv'
<1>1. /\ UNCHANGED <<sizes, taken, straddled, reads, done, recvBuf, recvMsg, recvSize, offset, delivered>>
      /\ state' = "closed"
  BY DEF RejectHeader, Close
<1>2. ~straddled => Right'
  BY <1>1 DEF RecvInv, Whole, Right
<1> QED
  BY <1>1, <1>2, EndsKeep DEF RecvInv, Typed
\* No read ends inside a body: none is awaited.
LEMMA HandleBodyKeeps ==
  ASSUME RecvInv, HandleBody
  PROVE  RecvInv'
<1> DEFINE size == recvSize + Head(done)
<1>1. /\ UNCHANGED <<sizes, taken, straddled, recvBuf, offset>>
      /\ state = "idle" /\ done # <<>> /\ recvMsg # None /\ done' = Tail(done)
  BY DEF HandleBody
<1>2. Typed /\ Counted /\ Whole
  BY DEF RecvInv
<1>3. /\ done \in Seq(Nat) /\ done' \in Seq(Nat) /\ Head(done) \in Nat /\ recvSize \in Nat
      /\ size \in Nat /\ recvMsg \in Msg /\ reads \in Seq(Read) /\ delivered \in Seq(Msg)
      /\ recvMsg.size \in Nat
  BY <1>1, <1>2 DEF Typed, Msg
<1>4. SumOf(done) = Head(done) + SumOf(done') /\ SumOf(done') \in Nat
  BY <1>1, <1>3, SumTail, SumAppend
<1>5. straddled
  BY <1>1, <1>2 DEF Whole
<1>6. None \in Msg
  BY StreamConstants DEF None, Msg
<1>7. /\ Stream' = Stream /\ Slot' = Slot /\ Msg' = Msg /\ (Sized' <=> Sized)
      /\ Whole'
  BY <1>1, <1>5, SameStream DEF Whole
<1> DEFINE n == Head(done)
<1>8. SumOf(Lengths) + HeaderSize + recvSize = taken - SumOf(done)
      /\ SumOf(Lengths) \in Nat /\ HeaderSize \in Nat /\ taken \in Nat
  BY <1>1, <1>2, <1>3, LengthsAre, StreamConstants, StreamTyped DEF Counted, Typed
<1>9. CASE size > recvMsg.size /\ Close /\ recvSize' = size /\ UNCHANGED <<recvMsg, delivered, reads>>
  <2>1. state' = "closed" /\ reads' \in Seq(Read) /\ recvMsg' \in Msg /\ recvSize' \in Nat
        /\ delivered' \in Seq(Msg) /\ offset' \in Nat
    BY <1>1, <1>2, <1>3, <1>9 DEF Close, Typed
  <2> QED
    BY <1>1, <1>3, <1>5, <2>1, EndsKeep
<1>10. CASE /\ size = recvMsg.size
            /\ delivered' = Append(delivered, recvMsg) /\ recvMsg' = None /\ recvSize' = SizeAfterBody
            /\ PostReads(None, 0, Len(delivered) + 1)
  <2>1. reads' \in Seq(Read) /\ state' \in {"idle", "aborted"}
    <3>1. Len(delivered) + 1 \in Nat /\ 0 \in Nat
      BY <1>3
    <3> QED
      BY <1>3, <1>6, <1>10, <3>1, PostReadsThen
  <2>2. delivered' \in Seq(Msg) /\ recvSize' = 0 /\ offset' \in Nat
    BY <1>1, <1>2, <1>3, <1>10 DEF SizeAfterBody, Typed
  <2>3. Typed'
    BY <1>1, <1>2, <1>3, <1>6, <1>7, <1>10, <2>1, <2>2 DEF Typed
  <2>4. SumOf(Lengths)' = SumOf(Lengths) + (HeaderSize + recvMsg.size)
    BY <1>3, <1>10, LengthsAppend
  <2>5. Counted'
    <3>1. SumOf(Lengths)' + 0 + recvSize' = taken' - SumOf(done)'
      <4> DEFINE x == SumOf(Lengths)
                 y == SumOf(done)
                 z == SumOf(done')
      <4>1. /\ x + HeaderSize + recvSize = taken - y /\ y = n + z
            /\ {x, z, n, recvSize, HeaderSize, taken} \subseteq Nat
            /\ recvMsg.size = recvSize + n
        BY <1>3, <1>4, <1>8, <1>10
      <4>2. SumOf(Lengths)' = x + (HeaderSize + recvMsg.size) /\ recvSize' = 0 /\ taken' = taken
        BY <1>1, <2>2, <2>4
      <4> HIDE DEF x, y, z, n
      <4>3. x + (HeaderSize + recvMsg.size) + 0 + 0 = taken - z
        BY <4>1
      <4> QED
        BY <4>2, <4>3 DEF z
    <3> QED
      BY <1>10, <3>1 DEF Counted
  <2> QED
    BY <1>7, <2>3, <2>5 DEF RecvInv
<1>11. CASE /\ size < recvMsg.size
            /\ recvSize' = size /\ PostReads(recvMsg, size, Len(delivered))
            /\ UNCHANGED <<recvMsg, delivered>>
  <2>1. reads' \in Seq(Read) /\ state' \in {"idle", "aborted"}
    <3>1. Len(delivered) \in Nat
      BY <1>3
    <3> HIDE DEF size
    <3> QED
      BY <1>3, <1>11, <3>1, PostReadsThen
  <2>2. delivered' \in Seq(Msg) /\ recvSize' \in Nat /\ offset' \in Nat /\ recvMsg' \in Msg
    BY <1>1, <1>2, <1>3, <1>11 DEF Typed
  <2>3. Typed'
    BY <1>1, <1>2, <1>3, <1>7, <2>1, <2>2 DEF Typed
  <2>4. Lengths' = Lengths
    BY <1>11 DEF Lengths
  <2>5. Counted'
    <3>1. SumOf(Lengths)' + HeaderSize + recvSize' = taken' - SumOf(done)'
      <4> DEFINE x == SumOf(Lengths)
                 y == SumOf(done)
                 z == SumOf(done')
      <4>1. /\ x + HeaderSize + recvSize = taken - y /\ y = n + z
            /\ {x, z, n, recvSize, HeaderSize, taken} \subseteq Nat
        BY <1>3, <1>4, <1>8
      <4>2. SumOf(Lengths)' = x /\ recvSize' = recvSize + n /\ taken' = taken
        BY <1>1, <1>11, <2>4
      <4> HIDE DEF x, y, z, n
      <4>3. x + HeaderSize + (recvSize + n) = taken - z
        BY <4>1
      <4> QED
        BY <4>2, <4>3 DEF z
    <3>2. recvMsg' # None
      BY <1>1, <1>11
    <3> QED
      BY <3>1, <3>2 DEF Counted
  <2> QED
    BY <1>7, <2>3, <2>5 DEF RecvInv
<1> QED
  BY <1>9, <1>10, <1>11 DEF HandleBody

LEMMA HandleBufferKeeps ==
  ASSUME RecvInv, HandleBuffer
  PROVE  RecvInv'
<1> DEFINE size == recvSize + Head(done)
<1>1. /\ UNCHANGED <<sizes, taken, straddled, recvBuf, recvMsg, delivered>>
      /\ state = "idle" /\ done # <<>> /\ recvMsg = None /\ done' = Tail(done)
      /\ recvSize' = size /\ offset' = 0
      /\ IF HeaderSize <= size
           THEN state' = "parse" /\ UNCHANGED reads
           ELSE PostReads(None, size, Len(delivered))
  BY DEF HandleBuffer, HeaderReady
<1>2. Typed /\ Counted /\ Whole
  BY DEF RecvInv
<1>3. /\ done \in Seq(Nat) /\ done' \in Seq(Nat) /\ Head(done) \in Nat /\ recvSize \in Nat
      /\ size \in Nat /\ reads \in Seq(Read) /\ delivered \in Seq(Msg) /\ HeaderSize \in Nat
  BY <1>1, <1>2, StreamConstants DEF Typed
<1>4. SumOf(done) = Head(done) + SumOf(done') /\ SumOf(done') \in Nat
  BY <1>1, <1>3, SumTail, SumAppend
<1>5. None \in Msg
  BY StreamConstants DEF None, Msg
<1>6. Stream' = Stream /\ Slot' = Slot /\ Msg' = Msg /\ (Sized' <=> Sized)
  BY <1>1, SameStream
<1>7. /\ HeaderSize <= size => state' = "parse" /\ reads' = reads
      /\ ~(HeaderSize <= size) =>
           /\ reads' \in Seq(Read) /\ state' \in {"idle", "aborted"}
           /\ state' = "idle" /\ reads = <<>> => reads' = <<ReadBuf(size)>>
  <2>1. Len(delivered) \in Nat
    BY <1>3
  <2> HIDE DEF size
  <2>2. ASSUME ~(HeaderSize <= size)
        PROVE  /\ reads' \in Seq(Read) /\ state' \in {"idle", "aborted"}
               /\ state' = "idle" /\ reads = <<>> => reads' = <<ReadBuf(size)>>
    <3>1. PostReads(None, size, Len(delivered))
      BY <1>1, <2>2
    <3> QED
      BY <1>3, <1>5, <2>1, <3>1, PostReadsThen
  <2> QED
    BY <1>1, <2>2
<1>8. Typed'
  <2>1. recvSize' \in Nat /\ offset' \in Nat /\ delivered' \in Seq(Msg) /\ recvMsg' \in Msg
    BY <1>1, <1>2, <1>3, <1>5
  <2>2. /\ reads' \in Seq(Read) /\ state' \in {"idle", "parse", "closed", "aborted"}
        /\ state' = "parse" => recvMsg' = None /\ HeaderSize <= recvSize'
    BY <1>1, <1>3, <1>7
  <2> QED
    BY <1>1, <1>2, <1>3, <1>6, <2>1, <2>2 DEF Typed
<1>9. Counted'
  <2>1. SumOf(Lengths) \in Nat /\ Lengths' = Lengths /\ taken \in Nat
    BY <1>1, <1>2, <1>3, StreamTyped, LengthsAre DEF Lengths, Typed
  <2>2. SumOf(Lengths) + 0 + recvSize = taken - SumOf(done)
    BY <1>1, <1>2 DEF Counted
  <2>3. SumOf(Lengths)' + 0 + recvSize' = taken' - SumOf(done)'
    <3> DEFINE x == SumOf(Lengths)
               y == SumOf(done)
               z == SumOf(done')
               n == Head(done)
    <3>1. /\ x + 0 + recvSize = taken - y /\ y = n + z
          /\ {x, z, n, recvSize, taken} \subseteq Nat
      BY <1>3, <1>4, <2>1, <2>2
    <3>2. SumOf(Lengths)' = x /\ recvSize' = recvSize + n /\ taken' = taken
      BY <1>1, <2>1
    <3> HIDE DEF x, y, z, n
    <3>3. x + 0 + (recvSize + n) = taken - z
      BY <3>1
    <3> QED
      BY <3>2, <3>3 DEF z
  <2> QED
    BY <1>1, <2>3 DEF Counted
<1>10. Whole'
  <2>1. SUFFICES ASSUME ~straddled'
                 PROVE  /\ Right'
                        /\ ~InBody(taken)'
                        /\ state' \in {"idle", "parse"} =>
                             recvMsg' = None /\ (Reading' \/ Arrived' \/ Parsing')
    BY DEF Whole
  <2>2. ~straddled /\ Right /\ ~InBody(taken) /\ Arrived
    BY <1>1, <1>2, <2>1 DEF Whole, Reading, Parsing
  <2>3. Right' /\ ~InBody(taken)'
    BY <1>1, <1>6, <2>2 DEF Right, InBody
  <2>4. ASSUME state' \in {"idle", "parse"} PROVE Reading' \/ Parsing'
    <3> DEFINE d == Len(delivered)
               b == Base(d)
    <3>1. /\ reads = <<>> /\ Len(done) = 1 /\ 0 + size <= RecvBufSize /\ taken = b + size
          /\ \A k \in 1..size : recvBuf[0 + k] = Stream[b + k]
      BY <2>2 DEF Arrived, InBuffer
    <3>2. done' = <<>> /\ d \in Nat /\ Len(delivered') = d /\ 0 \in Nat
      <4>1. Len(done') = 0 /\ done' \in Seq(Nat)
        BY <1>1, <1>3, <3>1
      <4>2. done' = <<>>
        BY <4>1
      <4> QED
        BY <1>1, <1>3, <4>2
    <3>3. taken' = b + size /\ \A k \in 1..size : recvBuf'[0 + k] = Stream[b + k]
      BY <1>1, <3>1
    <3>4. \/ state' = "parse" /\ reads' = <<>>
          \/ state' = "idle" /\ reads' = <<ReadBuf(size)>>
      BY <1>3, <1>7, <2>4, <3>1
    <3>5. recvSize' = size /\ offset' = 0 /\ size \in Nat
      BY <1>1, <1>3
    <3> HIDE DEF size
    <3> QED
      BY <1>1, <3>1, <3>2, <3>3, <3>4, <3>5, HeldThen DEF b
  <2> QED
    BY <1>1, <2>3, <2>4
<1> QED
  BY <1>8, <1>9, <1>10 DEF RecvInv

\* The header at the offset is that of the next message, and the bytes of the
\* buffer end where a message ends or in its header.
LEMMA HeaderRead ==
  ASSUME Typed, Whole, ~straddled, state = "parse"
  PROVE  LET d == Len(delivered) IN
         /\ d \in Nat /\ d \in 0..(Messages - 1) /\ Base(d) \in Nat /\ sizes[d + 1] \in Nat
         /\ reads = <<>> /\ done = <<>>
         /\ offset + recvSize <= RecvBufSize /\ taken = Base(d) + recvSize
         /\ \A k \in 1..recvSize : Cell(offset + k) = Stream[Base(d) + k]
         /\ Cell(offset + 1)[1] = d + 1
         /\ \A n : HeaderSays(n) => n = sizes[d + 1]
         /\ HeaderSize + sizes[d + 1] <= recvSize
<1> DEFINE d == Len(delivered)
           b == Base(d)
<1>1. Parsing /\ Right /\ ~InBody(taken)
  BY DEF Whole, Reading, Arrived
<1>2. /\ reads = <<>> /\ done = <<>> /\ offset + recvSize <= RecvBufSize /\ taken = b + recvSize
      /\ \A k \in 1..recvSize : recvBuf[offset + k] = Stream[b + k]
  BY <1>1 DEF Parsing, InBuffer
<1>3. /\ Sized /\ recvSize \in Nat /\ offset \in Nat /\ HeaderSize \in Nat \ {0} /\ HeaderSize <= recvSize
      /\ taken \in 0..Len(Stream) /\ DOMAIN recvBuf = 1..RecvBufSize /\ RecvBufSize \in Nat
      /\ Messages \in Nat
  BY StreamConstants DEF Typed
<1>4. d \in 0..Messages /\ d \in Nat
  BY <1>1, <1>3 DEF Typed, Right
<1>5. d # Messages
  <2>1. SUFFICES ASSUME d = Messages PROVE FALSE
    OBVIOUS
  <2>2. b = Len(Stream) /\ Len(Stream) \in Nat
    BY <1>3, <2>1, StreamTyped DEF Base
  <2> QED
    BY <1>2, <1>3, <2>2
<1>6. d \in 0..(Messages - 1)
  BY <1>3, <1>4, <1>5
<1> DEFINE size == sizes[d + 1]
<1>7. /\ b \in Nat /\ size \in Nat /\ Base(d + 1) = b + HeaderSize + size /\ d + 1 \in 1..Messages
      /\ Base(d + 1) <= Len(Stream)
      /\ \A k \in 1..(HeaderSize + size) : Stream[b + k] = <<d + 1, k>>
  BY <1>3, <1>6, NextFrame
<1>8. Len(Stream) \in Nat
  BY <1>3, StreamTyped
<1> HIDE DEF d, b, size
<1>9. \A k \in 1..recvSize : Cell(offset + k) = Stream[b + k]
  <2> SUFFICES ASSUME NEW k \in 1..recvSize PROVE Cell(offset + k) = Stream[b + k]
    OBVIOUS
  <2>1. offset + k \in 1..RecvBufSize
    BY <1>2, <1>3
  <2> QED
    BY <1>2, <1>3, <2>1 DEF Cell
<1>10. \A k \in 1..HeaderSize : Cell(offset + k) = <<d + 1, k>>
  <2> SUFFICES ASSUME NEW k \in 1..HeaderSize PROVE Cell(offset + k) = <<d + 1, k>>
    OBVIOUS
  <2>1. k \in 1..recvSize /\ k \in 1..(HeaderSize + size)
    BY <1>3, <1>7
  <2> QED
    BY <1>7, <1>9, <2>1
<1>11. Cell(offset + 1)[1] = d + 1
  <2>1. 1 \in 1..HeaderSize
    BY <1>3
  <2>2. Cell(offset + 1) = <<d + 1, 1>>
    BY <1>10, <2>1
  <2> QED
    BY <2>2
<1>12. ASSUME NEW n, HeaderSays(n) PROVE n = size
  <2> DEFINE m == Cell(offset + 1)[1]
  <2>1. m = d + 1 /\ m > 0
    BY <1>4, <1>11
  <2>2. Cells(offset, HeaderSize) = [k \in 1..HeaderSize |-> <<m, k>>]
    BY <1>10, <2>1 DEF Cells
  <2> HIDE DEF m
  <2>3. n = sizes[m]
    BY <1>12, <2>1, <2>2 DEF HeaderSays, m
  <2> QED
    BY <2>1, <2>3 DEF size
<1>13. HeaderSize + size <= recvSize
  <2>1. SUFFICES ASSUME recvSize < HeaderSize + size PROVE InBody(taken)
    BY <1>1, <1>3, <1>7
  <2> DEFINE k == recvSize + 1
  <2>2. k \in 1..(HeaderSize + size) /\ taken < Len(Stream) /\ taken + 1 = b + k /\ k > HeaderSize
    BY <1>2, <1>3, <1>7, <1>8, <2>1
  <2> HIDE DEF k
  <2>3. Stream[taken + 1] = <<d + 1, k>>
    BY <1>7, <2>2
  <2>4. Stream[taken + 1][2] = k
    BY <2>3
  <2> QED
    BY <2>2, <2>4 DEF InBody
<1> QED
  BY <1>2, <1>4, <1>6, <1>7, <1>9, <1>11, <1>12, <1>13 DEF d, b, size

LEMMA WholeMessageKeeps ==
  ASSUME RecvInv, NEW n \in BodySizes, WholeMessage(n)
  PROVE  RecvInv'
<1> DEFINE d == Len(delivered)
           b == Base(d)
           rest == recvSize - HeaderSize - n
           end == offset + HeaderSize + n
           e == [id |-> Cell(offset + 1)[1], size |-> n, body |-> Cells(offset + HeaderSize, n)]
<1>1. /\ UNCHANGED <<sizes, taken, straddled, done, recvMsg>>
      /\ state = "parse" /\ HeaderSays(n) /\ recvSize - HeaderSize >= n
      /\ delivered' = Append(delivered, e) /\ recvSize' = rest
      /\ IF rest < HeaderSize
           THEN recvBuf' = Moved(end, rest) /\ offset' = 0 /\ PostReads(None, rest, Len(delivered) + 1)
           ELSE offset' = end /\ UNCHANGED <<recvBuf, reads, state>>
  BY DEF WholeMessage, WholeBody
<1>2. Typed /\ Counted /\ Whole
  BY DEF RecvInv
<1>3. /\ n \in Nat /\ recvSize \in Nat /\ offset \in Nat /\ HeaderSize \in Nat \ {0}
      /\ rest \in Nat /\ end \in Nat /\ d \in Nat /\ recvMsg = None /\ RecvBufSize \in Nat
      /\ reads \in Seq(Read) /\ delivered \in Seq(Msg)
  BY <1>1, <1>2, StreamConstants DEF Typed
<1>4. \A i : Cell(i) \in Slot
  BY <1>2 DEF Cell, Typed, Slot
<1>5. e \in Msg
  <2> DEFINE body == Cells(offset + HeaderSize, n)
  <2>1. Cell(offset + 1)[1] \in 0..Messages
    <3>1. Junk[1] = 0 /\ 0 \in 0..Messages
      BY StreamConstants DEF Junk
    <3>2. \A x \in Byte : x[1] \in 0..Messages
      BY StreamConstants DEF Byte
    <3> QED
      BY <1>4, <3>1, <3>2 DEF Slot
  <2>2. body = [i \in 1..n |-> Cell(offset + HeaderSize + i)]
    BY DEF Cells
  <2> HIDE DEF Slot
  <2>3. body \in Seq(Slot) /\ Len(body) = n
    <3>1. body \in [1..n -> Slot]
      BY <1>4, <2>2
    <3> HIDE DEF body
    <3> QED
      BY <1>3, <3>1
  <2> HIDE DEF body
  <2> QED
    BY <1>3, <2>1, <2>3 DEF Msg, body
<1> HIDE DEF d, b, rest, end, e
<1>6. /\ Stream' = Stream /\ Slot' = Slot /\ Msg' = Msg /\ (Sized' <=> Sized)
      /\ delivered' \in Seq(Msg) /\ Len(delivered') = d + 1 /\ delivered'[d + 1] = e
      /\ \A i \in 1..d : delivered'[i] = delivered[i]
  BY <1>1, <1>3, <1>5, SameStream, AppendProperties DEF d
<1>7. rest < HeaderSize =>
        /\ reads' \in Seq(Read) /\ state' \in {"idle", "aborted"}
        /\ state' = "idle" /\ reads = <<>> => reads' = <<ReadBuf(rest)>>
  <2> SUFFICES ASSUME rest < HeaderSize
               PROVE  /\ reads' \in Seq(Read) /\ state' \in {"idle", "aborted"}
                      /\ state' = "idle" /\ reads = <<>> => reads' = <<ReadBuf(rest)>>
    OBVIOUS
  <2>1. None \in Msg /\ Len(delivered) + 1 \in Nat
    BY <1>3, StreamConstants DEF None, Msg
  <2>2. PostReads(None, rest, Len(delivered) + 1)
    BY <1>1
  <2> QED
    BY <1>3, <2>1, <2>2, PostReadsThen
<1>8. Typed'
  <2>1. recvBuf' \in [1..RecvBufSize -> Slot]
    <3>1. CASE rest < HeaderSize
      <4>1. recvBuf' = [i \in DOMAIN recvBuf |-> IF i <= rest THEN Cell(end + i) ELSE recvBuf[i]]
        BY <1>1, <3>1 DEF Moved
      <4>2. recvBuf \in [1..RecvBufSize -> Slot]
        BY <1>2 DEF Typed
      <4> HIDE DEF Slot
      <4> QED
        BY <1>4, <4>1, <4>2
    <3>2. CASE ~(rest < HeaderSize)
      BY <1>1, <1>2, <3>2 DEF Typed
    <3> QED
      BY <3>1, <3>2
  <2>2. /\ reads' \in Seq(Read) /\ state' \in {"idle", "parse", "closed", "aborted"}
        /\ offset' \in Nat /\ recvSize' \in Nat
        /\ state' = "parse" => recvMsg' = None /\ HeaderSize <= recvSize'
    BY <1>1, <1>3, <1>7
  <2> QED
    BY <1>1, <1>2, <1>6, <2>1, <2>2 DEF Typed
<1>9. Counted'
  <2> DEFINE x == SumOf(Lengths)
             y == SumOf(done)
  <2>1. x \in Nat /\ y \in Nat /\ taken \in Nat
    BY <1>2, <1>3, SumAppend, LengthsAre, StreamTyped DEF Typed
  <2>2. x + 0 + recvSize = taken - y
    BY <1>1, <1>2, <1>3 DEF Counted
  <2>3. SumOf(Lengths)' = x + (HeaderSize + n)
    <3>1. e.size = n
      BY DEF e
    <3> QED
      BY <1>1, <1>3, <1>5, <3>1, LengthsAppend
  <2>4. taken' = taken /\ SumOf(done)' = y /\ recvSize' = recvSize - HeaderSize - n /\ recvMsg' = None
    BY <1>1, <1>3 DEF rest
  <2> HIDE DEF x, y
  <2>5. x + (HeaderSize + n) + 0 + (recvSize - HeaderSize - n) = taken - y
    BY <1>3, <2>1, <2>2
  <2> QED
    BY <2>3, <2>4, <2>5 DEF Counted
<1>10. Whole'
  <2>1. SUFFICES ASSUME ~straddled'
                 PROVE  /\ Right'
                        /\ ~InBody(taken)'
                        /\ state' \in {"idle", "parse"} =>
                             recvMsg' = None /\ (Reading' \/ Arrived' \/ Parsing')
    BY DEF Whole
  <2>2. ~straddled /\ Right /\ ~InBody(taken)
    BY <1>1, <1>2, <2>1 DEF Whole
  <2>3. ~InBody(taken)'
    BY <1>1, <1>6, <2>2 DEF InBody
  <2>4. /\ d \in 0..(Messages - 1) /\ b \in Nat /\ sizes[d + 1] \in Nat
        /\ reads = <<>> /\ done = <<>>
        /\ offset + recvSize <= RecvBufSize /\ taken = b + recvSize
        /\ \A k \in 1..recvSize : Cell(offset + k) = Stream[b + k]
        /\ Cell(offset + 1)[1] = d + 1
        /\ n = sizes[d + 1]
    BY <1>1, <1>2, <2>2, HeaderRead DEF d, b
  <2>5. /\ Base(d + 1) = b + HeaderSize + n /\ d + 1 \in Nat /\ d + 1 <= Messages
        /\ \A k \in 1..(HeaderSize + n) : Stream[b + k] = <<d + 1, k>>
    <3> DEFINE size == sizes[d + 1]
    <3>1. /\ Base(d + 1) = b + HeaderSize + size
          /\ \A k \in 1..(HeaderSize + size) : Stream[b + k] = <<d + 1, k>>
      BY <1>2, <2>4, NextFrame DEF b, Typed
    <3>2. size = n
      BY <2>4
    <3> HIDE DEF size
    <3>3. d + 1 \in Nat /\ d + 1 <= Messages
      BY <1>3, <2>4, StreamConstants
    <3> QED
      BY <3>1, <3>2, <3>3
  <2>6. e = [id |-> d + 1, size |-> sizes[d + 1],
             body |-> [k \in 1..sizes[d + 1] |-> <<d + 1, HeaderSize + k>>]]
    <3>1. ASSUME NEW k \in 1..n PROVE Cell(offset + HeaderSize + k) = <<d + 1, HeaderSize + k>>
      <4> DEFINE j == HeaderSize + k
      <4>1. j \in 1..recvSize /\ j \in 1..(HeaderSize + n) /\ offset + j = offset + HeaderSize + k
        BY <1>1, <1>3
      <4> HIDE DEF j
      <4>2. Cell(offset + j) = <<d + 1, j>>
        BY <2>4, <2>5, <4>1
      <4> QED
        BY <4>1, <4>2 DEF j
    <3>2. Cells(offset + HeaderSize, n) = [k \in 1..n |-> <<d + 1, HeaderSize + k>>]
      BY <3>1 DEF Cells
    <3> QED
      BY <2>4, <3>2 DEF e
  <2>7. Right'
    <3>1. Len(delivered') <= Messages
      BY <1>6, <2>5
    <3>2. ASSUME NEW m \in 1..(d + 1)
          PROVE  delivered'[m] = [id |-> m, size |-> sizes[m],
                                  body |-> [k \in 1..sizes[m] |-> <<m, HeaderSize + k>>]]
      <4>1. CASE m = d + 1
        BY <1>6, <2>6, <4>1
      <4>2. CASE m # d + 1
        <5>1. m \in 1..d
          BY <1>3, <4>2
        <5> QED
          BY <1>6, <2>2, <5>1 DEF Right, d
      <4> QED
        BY <4>1, <4>2
    <3> QED
      BY <1>1, <1>6, <3>1, <3>2 DEF Right
  <2>8. \A k \in 1..rest : Cell(end + k) = Stream[Base(d + 1) + k]
    <3> SUFFICES ASSUME NEW k \in 1..rest PROVE Cell(end + k) = Stream[Base(d + 1) + k]
      OBVIOUS
    <3> DEFINE j == HeaderSize + n + k
    <3>1. j \in 1..recvSize /\ offset + j = end + k /\ b + j = Base(d + 1) + k
      <4>1. Base(d + 1) = b + HeaderSize + n /\ b \in Nat
        BY <2>4, <2>5
      <4> QED
        BY <1>3, <4>1 DEF rest, end
    <3> HIDE DEF j
    <3> QED
      BY <2>4, <3>1
  <2>9. taken' = Base(d + 1) + rest /\ end + rest <= RecvBufSize /\ rest <= RecvBufSize /\ DOMAIN recvBuf = 1..RecvBufSize
    <3>1. /\ Base(d + 1) = b + HeaderSize + n /\ b \in Nat
          /\ taken' = b + recvSize /\ offset + recvSize <= RecvBufSize
      BY <1>1, <2>4, <2>5
    <3>2. DOMAIN recvBuf = 1..RecvBufSize
      BY <1>2 DEF Typed
    <3> QED
      BY <1>3, <3>1, <3>2 DEF rest, end
  <2>10. ASSUME state' \in {"idle", "parse"} PROVE Reading' \/ Parsing'
    <3>1. CASE rest < HeaderSize
      <4>1. \A k \in 1..rest : recvBuf'[0 + k] = Stream[Base(d + 1) + k]
        <5> SUFFICES ASSUME NEW k \in 1..rest PROVE recvBuf'[k] = Stream[Base(d + 1) + k]
          OBVIOUS
        <5>1. k \in 1..RecvBufSize /\ k <= rest
          BY <1>3, <2>9
        <5>2. recvBuf' = [i \in DOMAIN recvBuf |-> IF i <= rest THEN Cell(end + i) ELSE recvBuf[i]]
          BY <1>1, <3>1 DEF Moved
        <5>3. recvBuf'[k] = Cell(end + k)
          BY <2>9, <5>1, <5>2
        <5> QED
          BY <2>8, <5>3
      <4>2. state' = "idle" /\ reads' = <<ReadBuf(rest)>> /\ done' = <<>> /\ recvSize' = rest
        BY <1>1, <1>7, <2>4, <2>10, <3>1
      <4>3. 0 + rest <= RecvBufSize /\ 0 \in Nat
        BY <1>3, <2>9
      <4> QED
        BY <1>1, <1>3, <1>6, <2>5, <2>9, <4>1, <4>2, <4>3, HeldThen
    <3>2. CASE ~(rest < HeaderSize)
      <4>1. /\ state' = "parse" /\ reads' = <<>> /\ done' = <<>> /\ recvSize' = rest /\ offset' = end
            /\ recvBuf' = recvBuf
        BY <1>1, <2>4, <3>2
      <4>2. \A k \in 1..rest : recvBuf'[end + k] = Stream[Base(d + 1) + k]
        <5> SUFFICES ASSUME NEW k \in 1..rest PROVE recvBuf[end + k] = Stream[Base(d + 1) + k]
          BY <4>1
        <5>1. end + k \in 1..RecvBufSize
          BY <1>3, <2>9
        <5>2. recvBuf[end + k] = Cell(end + k)
          BY <2>9, <5>1 DEF Cell
        <5> QED
          BY <2>8, <5>2
      <4> QED
        BY <1>1, <1>3, <1>6, <2>5, <2>9, <4>1, <4>2, HeldThen
    <3> QED
      BY <3>1, <3>2
  <2> QED
    BY <1>1, <1>3, <2>3, <2>7, <2>10
<1> QED
  BY <1>8, <1>9, <1>10 DEF RecvInv

\* It is awaited only when a read ended inside its body.
LEMMA PartOfMessageKeeps ==
  ASSUME RecvInv, NEW n \in BodySizes, PartOfMessage(n)
  PROVE  RecvInv'
<1> DEFINE have == recvSize - HeaderSize
           body == [i \in 1..n |-> IF i <= have THEN Cell(offset + HeaderSize + i) ELSE Junk]
           e == [id |-> Cell(offset + 1)[1], size |-> n, body |-> body]
<1>1. /\ UNCHANGED <<sizes, taken, straddled, done, recvBuf, delivered>>
      /\ state = "parse" /\ HeaderSays(n) /\ ~(recvSize - HeaderSize >= n)
      /\ recvMsg' = e /\ recvSize' = have /\ offset' = 0
      /\ PostReads(e, have, Len(delivered))
  BY DEF PartOfMessage, WholeBody
<1>2. Typed /\ Counted /\ Whole
  BY DEF RecvInv
<1>3. /\ n \in Nat /\ recvSize \in Nat /\ offset \in Nat /\ HeaderSize \in Nat \ {0}
      /\ have \in Nat /\ have < n /\ recvMsg = None
      /\ reads \in Seq(Read) /\ delivered \in Seq(Msg) /\ Len(delivered) \in Nat
  BY <1>1, <1>2, StreamConstants DEF Typed
<1>4. \A i : Cell(i) \in Slot
  BY <1>2 DEF Cell, Typed, Slot
<1>5. e \in Msg
  <2>1. Cell(offset + 1)[1] \in 0..Messages
    <3>1. Junk[1] = 0 /\ 0 \in 0..Messages
      BY StreamConstants DEF Junk
    <3>2. \A x \in Byte : x[1] \in 0..Messages
      BY StreamConstants DEF Byte
    <3> QED
      BY <1>4, <3>1, <3>2 DEF Slot
  <2>2. Junk \in Slot
    BY DEF Slot
  <2> HIDE DEF Slot
  <2>3. body \in Seq(Slot) /\ Len(body) = n
    <3>1. body \in [1..n -> Slot]
      BY <1>4, <2>2
    <3> HIDE DEF body
    <3> QED
      BY <1>3, <3>1
  <2> HIDE DEF body
  <2> QED
    BY <1>3, <2>1, <2>3 DEF Msg
<1>6. e # None
  BY <1>3 DEF None
<1> HIDE DEF have, body, e
<1>7. straddled
  <2>1. SUFFICES ASSUME ~straddled PROVE FALSE
    OBVIOUS
  <2> DEFINE size == sizes[Len(delivered) + 1]
  <2>2. size \in Nat /\ n = size /\ HeaderSize + size <= recvSize
    BY <1>1, <1>2, <2>1, HeaderRead
  <2> HIDE DEF size
  <2> QED
    BY <1>1, <1>3, <2>2
<1>8. reads' \in Seq(Read) /\ state' \in {"idle", "aborted"}
  BY <1>1, <1>3, <1>5, PostReadsThen
<1>9. Typed'
  <2>1. /\ Stream' = Stream /\ Slot' = Slot /\ Msg' = Msg /\ (Sized' <=> Sized)
    BY <1>1, SameStream
  <2>2. recvSize' \in Nat /\ offset' \in Nat /\ recvMsg' \in Msg /\ state' # "parse"
    BY <1>1, <1>3, <1>5, <1>8
  <2> QED
    BY <1>1, <1>2, <1>8, <2>1, <2>2 DEF Typed
<1>10. Counted'
  <2> DEFINE x == SumOf(Lengths)
             y == SumOf(done)
  <2>1. x \in Nat /\ y \in Nat /\ taken \in Nat
    BY <1>2, <1>3, SumAppend, LengthsAre, StreamTyped DEF Typed
  <2>2. x + 0 + recvSize = taken - y
    BY <1>1, <1>2, <1>3 DEF Counted
  <2>3. /\ SumOf(Lengths)' = x /\ taken' = taken /\ SumOf(done)' = y
        /\ recvSize' = recvSize - HeaderSize /\ recvMsg' # None
    BY <1>1, <1>6 DEF Lengths, have
  <2> HIDE DEF x, y
  <2>4. x + HeaderSize + (recvSize - HeaderSize) = taken - y
    BY <1>3, <2>1, <2>2
  <2> QED
    BY <2>3, <2>4 DEF Counted
<1>11. Whole'
  BY <1>1, <1>7 DEF Whole
<1> QED
  BY <1>9, <1>10, <1>11 DEF RecvInv

LEMMA InitRecv == Init => RecvInv
<1> SUFFICES ASSUME Init PROVE RecvInv
  OBVIOUS
<1>1. /\ sizes \in [1..Messages -> BodySizes] /\ taken = 0 /\ reads = <<ReadBuf(0)>> /\ done = <<>>
      /\ recvBuf = [i \in 1..RecvBufSize |-> Junk] /\ recvMsg = None /\ recvSize = 0 /\ offset = 0
      /\ delivered = <<>> /\ straddled = FALSE /\ state = "idle"
  BY DEF Init
<1>2. Sized /\ Len(Stream) \in Nat /\ Base(0) = 0 /\ HeaderSize \in Nat \ {0}
      /\ RecvBufSize \in Nat /\ Messages \in Nat
  BY <1>1, StreamTyped, StreamConstants DEF Sized
<1>3. Typed
  <2>1. recvBuf \in [1..RecvBufSize -> Slot]
    BY <1>1 DEF Slot
  <2>2. None \in Msg
    BY <1>2 DEF None, Msg
  <2>3. reads \in Seq(Read)
    <3>1. ReadBuf(0) \in Read
      BY <1>2 DEF ReadBuf, Read
    <3> QED
      BY <1>1, <3>1
  <2>4. done \in Seq(Nat) /\ delivered \in Seq(Msg) /\ taken \in 0..Len(Stream)
    BY <1>1, <1>2
  <2> QED
    BY <1>1, <1>2, <2>1, <2>2, <2>3, <2>4 DEF Typed
<1>4. Counted
  <2>1. Lengths = <<>>
    BY <1>1 DEF Lengths
  <2> QED
    BY <1>1, <2>1, SumNone DEF Counted
<1>5. ~InBody(taken)
  <2>1. SUFFICES ASSUME 0 < Len(Stream), Stream[0 + 1][2] > HeaderSize PROVE FALSE
    BY <1>1 DEF InBody
  <2>2. CASE Messages = 0
    <3>1. Len(Stream) = 0
      BY <1>2, <2>2, StreamTyped DEF Base
    <3> QED
      BY <2>1, <3>1
  <2>3. CASE Messages # 0
    <3>1. 0 \in 0..(Messages - 1) /\ 0 + 1 = 1
      BY <1>2, <2>3
    <3>2. /\ sizes[1] \in Nat
          /\ \A k \in 1..(HeaderSize + sizes[1]) : Stream[0 + k] = <<1, k>>
      BY <1>2, <3>1, NextFrame
    <3>3. 1 \in 1..(HeaderSize + sizes[1])
      BY <1>2, <3>2
    <3>4. Stream[0 + 1] = <<1, 1>>
      BY <3>2, <3>3
    <3> QED
      BY <1>2, <2>1, <3>4
  <2> QED
    BY <2>2, <2>3
<1>6. Right
  BY <1>1, <1>2 DEF Right
<1>7. Reading
  BY <1>1, <1>2 DEF Reading, InBuffer
<1> QED
  BY <1>1, <1>3, <1>4, <1>5, <1>6, <1>7 DEF RecvInv, Whole

LEMMA NextRecv == RecvInv /\ [Next]_vars => RecvInv'
<1> SUFFICES ASSUME RecvInv, [Next]_vars PROVE RecvInv'
  OBVIOUS
<1>1. CASE \E n \in 1..Len(Stream) : Complete(n)
  BY <1>1, CompleteKeeps
<1>2. CASE CompleteWithError
  BY <1>2, CompleteWithErrorKeeps
<1>3. CASE HandleError
  BY <1>3, HandleErrorKeeps
<1>4. CASE HandleBody
  BY <1>4, HandleBodyKeeps
<1>5. CASE HandleBuffer
  BY <1>5, HandleBufferKeeps
<1>6. CASE RejectHeader
  BY <1>6, RejectHeaderKeeps
<1>7. CASE \E n \in BodySizes : WholeMessage(n)
  BY <1>7, WholeMessageKeeps
<1>8. CASE \E n \in BodySizes : PartOfMessage(n)
  BY <1>8, PartOfMessageKeeps
<1>9. CASE UNCHANGED vars
  <2>1. Stream' = Stream /\ Slot' = Slot /\ Msg' = Msg /\ (Sized' <=> Sized)
    BY <1>9, SameStream DEF vars
  <2>2. Typed'
    BY <1>9, <2>1 DEF vars, RecvInv, Typed
  <2>3. Counted'
    BY <1>9 DEF vars, RecvInv, Counted, Lengths
  <2>4. Whole'
    BY <1>9 DEF vars, RecvInv, Whole, Right, InBody, Stream, Frame, Reading, Arrived, Parsing, InBuffer,
                Base, Before
  <2> QED
    BY <2>2, <2>3, <2>4 DEF RecvInv
<1> QED
  BY <1>1, <1>2, <1>3, <1>4, <1>5, <1>6, <1>7, <1>8, <1>9 DEF Next

\* However the stream is cut into reads, if no read ends inside a body, the
\* messages given to msg_push() by _handle_read() and _parse_msg() are those the peer sent, in order and
\* with their bytes.
THEOREM DeliveredIntactCorrect == Spec => []DeliveredIntact
<1>1. RecvInv => DeliveredIntact
  BY DEF RecvInv, Whole, Right, DeliveredIntact
<1> QED
  BY <1>1, InitRecv, NextRecv, PTL DEF Spec

\* Wherever reads end, every byte that a handler of cnet_session was told of
\* is counted once: for a message delivered, for the one awaited, or as one
\* still in the buffer; the fields keep their types.
THEOREM AccountedCorrect == Spec => []Accounted
<1>1. RecvInv => Accounted
  <2> SUFFICES ASSUME RecvInv PROVE Accounted
    OBVIOUS
  <2>1. Typed /\ Counted /\ Whole
    BY DEF RecvInv
  <2>2. TypeOK
    <3>1. \A i \in 1..RecvBufSize : IsByte(recvBuf[i])
      <4>1. \A x \in Byte : x[1] \in 1..Messages /\ x[2] \in 1..(HeaderSize + sizes[x[1]])
        BY DEF Byte
      <4>2. \A x \in Byte : IsByte(x)
        BY <4>1 DEF IsByte
      <4> QED
        BY <2>1, <4>2 DEF Typed, Slot, IsByte
    <3>2. DOMAIN recvMsg.body = 1..recvMsg.size
      <4>1. recvMsg.body \in Seq(Slot) /\ Len(recvMsg.body) = recvMsg.size
        BY <2>1 DEF Typed, Msg
      <4> QED
        BY <4>1
    <3> QED
      BY <2>1, <3>1, <3>2 DEF Typed, TypeOK, Read
  <2>3. OneRead
    <3>1. SUFFICES ASSUME ~straddled, state \in {"idle", "parse"}
                   PROVE  Len(reads) + Len(done) = IF state = "idle" THEN 1 ELSE 0
      BY DEF OneRead
    <3>2. Reading \/ Arrived \/ Parsing
      BY <2>1, <3>1 DEF Whole
    <3>3. Len(<<>>) = 0 /\ Len(<<ReadBuf(recvSize)>>) = 1
      OBVIOUS
    <3>4. CASE Reading
      BY <3>3, <3>4 DEF Reading
    <3>5. CASE Arrived
      BY <3>3, <3>5 DEF Arrived
    <3>6. CASE Parsing
      BY <3>3, <3>6 DEF Parsing
    <3> QED
      BY <3>2, <3>4, <3>5, <3>6
  <2> QED
    BY <2>1, <2>2, <2>3 DEF Accounted, Counted, Lengths
<1> QED
  BY <1>1, InitRecv, NextRecv, PTL DEF Spec
=============================================================================
