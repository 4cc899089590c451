--------------------------- MODULE SequenceLemmas ---------------------------
(***************************************************************************)
(* What the proofs of several components rest on: induction over the       *)
(* numbers, loops as functions of a count, what FlattenSeq() of the        *)
(* community modules makes of a sequence of sequences (which is how the    *)
(* models read a byte stream off its frames), the sequences that links     *)
(* from node to node make (which is how the code keeps its lists), and     *)
(* sums over a finite set, which grow by what an element adds (which is    *)
(* how the pool counts what it holds).                                     *)
(*                                                                         *)
(* The induction is over the least element of a set of counterexamples:    *)
(* the induction theorems of the library take an operator, which no        *)
(* installed prover can instantiate.                                       *)
(***************************************************************************)
EXTENDS Links, Integers, Sequences, SequencesExt, SequenceTheorems,
        FiniteSetTheorems, FunctionTheorems, TLAPS

W == INSTANCE WellFoundedInduction

-----------------------------------------------------------------------------
LEMMA LeastNumber ==
  ASSUME NEW T, T \subseteq Nat, T # {}
  PROVE  \E m \in T : \A k \in T : m <= k
<1> DEFINE R == {ss \in Nat \X Nat : ss[1] < ss[2]}
<1>1. W!IsWellFoundedOn(R, Nat)
  BY W!NatLessThanWellFounded DEF W!OpToRel
<1> HIDE DEF R
<1>2. PICK m \in T : \A k \in T : ~(<<k, m>> \in R)
  BY <1>1, W!WFMin, Zenon
<1>3. ASSUME NEW k \in T PROVE m <= k
  <2>1. k \in Nat /\ m \in Nat /\ <<k, m>> \in Nat \X Nat
    OBVIOUS
  <2>2. ~(<<k, m>> \in R)
    BY <1>2
  <2>3. ~(k < m)
    BY <2>1, <2>2 DEF R
  <2> QED
    BY <2>1, <2>3
<1> QED
  BY <1>3

\* Induction up to n, over membership in a set
LEMMA UpTo ==
  ASSUME NEW n \in Nat, NEW Good, 0 \in Good,
         \A k \in 0..(n - 1) : k \in Good => k + 1 \in Good
  PROVE  \A k \in 0..n : k \in Good
<1> DEFINE Bad == {k \in 0..n : k \notin Good}
<1> SUFFICES ASSUME Bad # {} PROVE FALSE
  OBVIOUS
<1>1. PICK m \in Bad : \A k \in Bad : m <= k
  <2> Bad \subseteq Nat
    OBVIOUS
  <2> QED
    BY LeastNumber
<1>2. m \in 1..n
  OBVIOUS
<1>3. m - 1 \in Good
  BY <1>1, <1>2
<1> QED
  BY <1>2, <1>3

\* A loop whose rounds are counted, and do different things, is a function of
\* the count.
IsLoop(f, N, X, x, step) ==
    f \in [0..N -> X] /\ f[0] = x /\ \A n \in 1..N : f[n] = step[<<n, f[n - 1]>>]

\* A round that keeps to a set can be repeated any number of times.
LEMMA LoopsExist ==
  ASSUME NEW N \in Nat, NEW X, NEW x \in X, NEW step \in [Nat \X X -> X]
  PROVE  \E f : IsLoop(f, N, X, x, step)
<1> DEFINE Runs(f, m) == f[0] = x /\ \A n \in 1..m : f[n] = step[<<n, f[n - 1]>>]
           Good == {m \in Nat : \E f \in [0..m -> X] : Runs(f, m)}
<1>1. 0 \in Good
  <2>1. [n \in 0..0 |-> x] \in [0..0 -> X] /\ Runs([n \in 0..0 |-> x], 0)
    OBVIOUS
  <2> QED
    BY <2>1
<1>2. ASSUME NEW m \in Nat, m \in Good PROVE m + 1 \in Good
  <2>1. PICK f \in [0..m -> X] : Runs(f, m)
    BY <1>2
  <2>2. PICK g : g = [n \in 0..(m + 1) |-> IF n = m + 1 THEN step[<<m + 1, f[m]>>] ELSE f[n]]
    OBVIOUS
  <2>3. g \in [0..(m + 1) -> X]
    <3>1. m \in 0..m /\ m + 1 \in Nat /\ f[m] \in X
      OBVIOUS
    <3>2. step[<<m + 1, f[m]>>] \in X
      BY <3>1
    <3>3. \A n \in 0..(m + 1) : n # m + 1 => n \in 0..m
      OBVIOUS
    <3> QED
      BY <2>2, <3>2, <3>3
  <2>4. Runs(g, m + 1)
    <3>1. g[0] = x
      BY <2>1, <2>2
    <3>2. ASSUME NEW n \in 1..(m + 1) PROVE g[n] = step[<<n, g[n - 1]>>]
      <4>1. n - 1 \in 0..m /\ n - 1 # m + 1 /\ g[n - 1] = f[n - 1]
        BY <2>2
      <4>2. CASE n = m + 1
        <5>1. g[m + 1] = step[<<m + 1, f[m]>>] /\ n - 1 = m
          BY <2>2, <4>2
        <5> QED
          BY <4>1, <4>2, <5>1
      <4>3. CASE n # m + 1
        <5>1. n \in 1..m /\ g[n] = f[n]
          BY <2>2, <4>3
        <5> QED
          BY <2>1, <4>1, <5>1
      <4> QED
        BY <4>2, <4>3
    <3> QED
      BY <3>1, <3>2
  <2> QED
    BY <2>3, <2>4
<1>3. N \in Good
  <2> HIDE DEF Good
  <2> PICK G : G = Good
    OBVIOUS
  <2>1. 0 \in G /\ \A k \in 0..(N - 1) : k \in G => k + 1 \in G
    BY <1>1, <1>2
  <2>2. \A k \in 0..N : k \in G
    BY <2>1, UpTo
  <2> QED
    BY <2>2
<1> QED
  BY <1>3 DEF IsLoop

-----------------------------------------------------------------------------
LEMMA PartIs ==
  ASSUME NEW S, NEW s \in Seq(S), NEW m \in Nat, NEW n \in Nat, m <= n, n <= Len(s)
  PROVE  /\ SubSeq(s, m + 1, n) \in Seq(S)
         /\ Len(SubSeq(s, m + 1, n)) = n - m
         /\ \A i \in 1..(n - m) : SubSeq(s, m + 1, n)[i] = s[m + i]
OBVIOUS

LEMMA AllButFirst ==
  ASSUME NEW S, NEW s \in Seq(S), s # <<>>
  PROVE  /\ SubSeq(s, 2, Len(s)) \in Seq(S)
         /\ Len(SubSeq(s, 2, Len(s))) = Len(s) - 1
         /\ \A i \in 1..(Len(s) - 1) : SubSeq(s, 2, Len(s))[i] = s[1 + i]
<1> DEFINE m == 1
<1>1. m \in Nat /\ Len(s) \in Nat /\ m <= Len(s)
  OBVIOUS
<1> HIDE DEF m
<1>2. /\ SubSeq(s, m + 1, Len(s)) \in Seq(S)
      /\ Len(SubSeq(s, m + 1, Len(s))) = Len(s) - m
      /\ \A i \in 1..(Len(s) - m) : SubSeq(s, m + 1, Len(s))[i] = s[m + i]
  BY <1>1, PartIs
<1>3. m = 1 /\ m + 1 = 2
  BY DEF m
<1> QED
  BY <1>2, <1>3

LEMMA JoinIs ==
  ASSUME NEW S, NEW s \in Seq(S), NEW t \in Seq(S)
  PROVE  /\ s \o t \in Seq(S)
         /\ Len(s) \in Nat /\ Len(t) \in Nat
         /\ Len(s \o t) = Len(s) + Len(t)
         /\ \A i \in 1..Len(s) : (s \o t)[i] = s[i]
         /\ \A i \in 1..Len(t) : (s \o t)[Len(s) + i] = t[i]
OBVIOUS

\* Two parts next to each other
LEMMA PartsJoin ==
  ASSUME NEW S, NEW s \in Seq(S), NEW l \in Nat, NEW m \in Nat, NEW n \in Nat,
         l <= m, m <= n, n <= Len(s)
  PROVE  SubSeq(s, l + 1, m) \o SubSeq(s, m + 1, n) = SubSeq(s, l + 1, n)
<1> DEFINE a == SubSeq(s, l + 1, m)
           b == SubSeq(s, m + 1, n)
           c == SubSeq(s, l + 1, n)
<1>1. a \in Seq(S) /\ Len(a) = m - l /\ \A i \in 1..(m - l) : a[i] = s[l + i]
  BY PartIs
<1>2. b \in Seq(S) /\ Len(b) = n - m /\ \A i \in 1..(n - m) : b[i] = s[m + i]
  BY PartIs
<1>3. c \in Seq(S) /\ Len(c) = n - l /\ \A i \in 1..(n - l) : c[i] = s[l + i]
  BY PartIs
<1> HIDE DEF a, b, c
<1>4. /\ a \o b \in Seq(S) /\ Len(a \o b) = n - l
      /\ \A i \in 1..(m - l) : (a \o b)[i] = a[i]
      /\ \A i \in 1..(n - m) : (a \o b)[m - l + i] = b[i]
  <2>1. /\ a \o b \in Seq(S) /\ Len(a \o b) = Len(a) + Len(b)
        /\ \A i \in 1..Len(a) : (a \o b)[i] = a[i]
        /\ \A i \in 1..Len(b) : (a \o b)[Len(a) + i] = b[i]
    <3>1. a \in Seq(S) /\ b \in Seq(S)
      BY <1>1, <1>2
    <3> QED
      BY <3>1
  <2>2. Len(a) = m - l /\ Len(b) = n - m /\ m - l + (n - m) = n - l
    BY <1>1, <1>2
  <2> QED
    BY <2>1, <2>2
<1>5. ASSUME NEW i \in 1..(n - l) PROVE (a \o b)[i] = c[i]
  <2>1. CASE i <= m - l
    BY <1>1, <1>3, <1>4, <2>1
  <2>2. CASE i > m - l
    <3> DEFINE j == i - (m - l)
    <3>1. j \in 1..(n - m) /\ m - l + j = i /\ m + j = l + i
      BY <2>2
    <3>2. (a \o b)[m - l + j] = b[j] /\ b[j] = s[m + j] /\ c[i] = s[l + i]
      BY <1>2, <1>3, <1>4, <3>1
    <3> QED
      BY <3>1, <3>2
  <2>3. i <= m - l \/ i > m - l
    OBVIOUS
  <2> QED
    BY <2>1, <2>2, <2>3, Zenon
<1>6. a \o b = c
  BY <1>3, <1>4, <1>5, SeqEqual
<1> QED
  BY <1>6 DEF a, b, c

-----------------------------------------------------------------------------
\* f[i] is the concatenation of the first i sequences.
IsFlat(f, s) == f = [i \in 1..Len(s) |-> IF i = 1 THEN s[i] ELSE f[i - 1] \o s[i]]

LEMMA FlatExists ==
  ASSUME NEW S, NEW s \in Seq(Seq(S))
  PROVE  \E f : IsFlat(f, s)
<1> DEFINE n == Len(s)
           Step(f, m) == \A i \in 1..m : f[i] = IF i = 1 THEN s[i] ELSE f[i - 1] \o s[i]
           Good == {m \in 0..n : \E f : f = [i \in 1..m |-> f[i]] /\ Step(f, m)}
<1>1. n \in Nat
  OBVIOUS
<1>2. 0 \in Good
  <2> DEFINE f == [i \in 1..0 |-> i]
  <2>1. f = [i \in 1..0 |-> f[i]] /\ Step(f, 0) /\ 0 \in 0..n
    BY <1>1
  <2> HIDE DEF f, Step
  <2> QED
    BY <2>1
<1>3. ASSUME NEW k \in 0..(n - 1), k \in Good PROVE k + 1 \in Good
  <2>1. PICK f : f = [i \in 1..k |-> f[i]] /\ Step(f, k)
    BY <1>3
  <2> DEFINE g == [i \in 1..(k + 1) |->
                     IF i = k + 1 THEN (IF i = 1 THEN s[i] ELSE f[i - 1] \o s[i]) ELSE f[i]]
  <2>2. g = [i \in 1..(k + 1) |-> g[i]]
    OBVIOUS
  <2>3. ASSUME NEW i \in 1..(k + 1) PROVE g[i] = IF i = 1 THEN s[i] ELSE g[i - 1] \o s[i]
    <3>1. CASE i = k + 1
      <4>1. g[i] = IF i = 1 THEN s[i] ELSE f[i - 1] \o s[i]
        BY <3>1
      <4>2. CASE i = 1
        BY <4>1, <4>2
      <4>3. CASE i # 1
        <5>1. i - 1 \in 1..(k + 1) /\ i - 1 # k + 1
          BY <3>1, <4>3
        <5>2. g[i - 1] = f[i - 1]
          BY <5>1
        <5> QED
          BY <4>1, <4>3, <5>2
      <4> QED
        BY <4>2, <4>3
    <3>2. CASE i # k + 1
      <4>1. i \in 1..k
        BY <3>2
      <4>2. f[i] = IF i = 1 THEN s[i] ELSE f[i - 1] \o s[i]
        BY <2>1, <4>1
      <4>3. g[i] = f[i]
        BY <3>2
      <4>4. i # 1 => g[i - 1] = f[i - 1]
        <5> SUFFICES ASSUME i # 1 PROVE g[i - 1] = f[i - 1]
          OBVIOUS
        <5>1. i - 1 \in 1..(k + 1) /\ i - 1 # k + 1
          BY <4>1
        <5> QED
          BY <5>1
      <4> QED
        BY <4>2, <4>3, <4>4
    <3> QED
      BY <3>1, <3>2
  <2>4. Step(g, k + 1)
    BY <2>3
  <2>5. k + 1 \in 0..n
    BY <1>1
  <2> HIDE DEF g, Step
  <2> QED
    BY <2>2, <2>4, <2>5
<1>4. n \in Good
  <2>1. n \in 0..n
    BY <1>1
  <2> HIDE DEF Good, n
  <2>2. \A k \in 0..n : k \in Good
    BY <1>1, <1>2, <1>3, UpTo
  <2> QED
    BY <2>1, <2>2
<1>5. PICK f : f = [i \in 1..n |-> f[i]] /\ Step(f, n)
  BY <1>4
<1>6. f = [i \in 1..n |-> IF i = 1 THEN s[i] ELSE f[i - 1] \o s[i]]
  BY <1>5
<1> QED
  BY <1>6 DEF IsFlat

\* It depends on no more than those i sequences.
LEMMA FlatUnique ==
  ASSUME NEW S, NEW s \in Seq(Seq(S)), NEW t \in Seq(Seq(S)), Len(s) <= Len(t),
         \A i \in 1..Len(s) : s[i] = t[i],
         NEW f, IsFlat(f, s), NEW g, IsFlat(g, t)
  PROVE  \A i \in 1..Len(s) : f[i] = g[i] /\ f[i] \in Seq(S)
<1> DEFINE n == Len(s)
           Good == {m \in 0..n : m = 0 \/ (f[m] = g[m] /\ f[m] \in Seq(S))}
<1>1. n \in Nat /\ Len(t) \in Nat
  OBVIOUS
<1>2. \A i \in 1..n : f[i] = IF i = 1 THEN s[i] ELSE f[i - 1] \o s[i]
  BY DEF IsFlat
<1>3. \A i \in 1..n : g[i] = IF i = 1 THEN t[i] ELSE g[i - 1] \o t[i]
  <2>1. \A i \in 1..n : i \in 1..Len(t)
    BY <1>1
  <2>2. \A i \in 1..Len(t) : g[i] = IF i = 1 THEN t[i] ELSE g[i - 1] \o t[i]
    BY DEF IsFlat
  <2> QED
    BY <2>1, <2>2
<1>4. 0 \in Good
  OBVIOUS
<1>5. ASSUME NEW k \in 0..(n - 1), k \in Good PROVE k + 1 \in Good
  <2>1. k + 1 \in 1..n /\ s[k + 1] = t[k + 1] /\ s[k + 1] \in Seq(S)
    BY <1>1
  <2>2. CASE k = 0
    <3>1. f[1] = s[1] /\ g[1] = t[1]
      BY <1>2, <1>3, <2>1, <2>2
    <3> QED
      BY <2>1, <2>2, <3>1
  <2>3. CASE k # 0
    <3>1. f[k] = g[k] /\ f[k] \in Seq(S)
      BY <1>5, <2>3
    <3>2. f[k + 1] = f[k] \o s[k + 1] /\ g[k + 1] = g[k] \o t[k + 1]
      <4>1. k + 1 # 1 /\ (k + 1) - 1 = k
        BY <2>3
      <4> QED
        BY <1>2, <1>3, <2>1, <4>1
    <3>3. f[k + 1] \in Seq(S)
      BY <2>1, <3>1, <3>2
    <3>4. k + 1 \in 0..n
      BY <2>1
    <3> QED
      BY <3>1, <3>2, <3>3, <3>4, <2>1
  <2> QED
    BY <2>2, <2>3
<1>6. \A k \in 0..n : k \in Good
  <2> HIDE DEF Good
  <2> QED
    BY <1>1, <1>4, <1>5, UpTo
<1>7. ASSUME NEW i \in 1..n PROVE f[i] = g[i] /\ f[i] \in Seq(S)
  <2>1. i \in 0..n /\ i # 0
    BY <1>1
  <2> QED
    BY <1>6, <2>1
<1> QED
  BY <1>7

LEMMA FlatIs ==
  ASSUME NEW S, NEW s \in Seq(Seq(S)), s # <<>>
  PROVE  \E f : IsFlat(f, s) /\ FlattenSeq(s) = f[Len(s)]
<1>1. FlattenSeq(s) = (CHOOSE f : IsFlat(f, s))[Len(s)]
  BY DEF FlattenSeq, IsFlat
<1>2. IsFlat(CHOOSE f : IsFlat(f, s), s)
  BY FlatExists
<1> QED
  BY <1>1, <1>2

LEMMA FlattenNone == FlattenSeq(<<>>) = <<>>
BY DEF FlattenSeq

LEMMA FlattenAppend ==
  ASSUME NEW S, NEW s \in Seq(Seq(S)), NEW e \in Seq(S)
  PROVE  /\ FlattenSeq(s) \in Seq(S)
         /\ FlattenSeq(Append(s, e)) = FlattenSeq(s) \o e
<1> DEFINE t == Append(s, e)
           n == Len(s)
<1>1. /\ t \in Seq(Seq(S)) /\ Len(t) = n + 1 /\ t # <<>>
      /\ t[n + 1] = e /\ n \in Nat
      /\ \A i \in 1..n : s[i] = t[i]
  BY AppendProperties
<1>2. PICK g : IsFlat(g, t) /\ FlattenSeq(t) = g[n + 1]
  BY <1>1, FlatIs
<1>3. g[n + 1] = IF n + 1 = 1 THEN e ELSE g[n] \o e
  <2>1. n + 1 \in 1..Len(t) /\ (n + 1) - 1 = n
    BY <1>1
  <2>2. \A i \in 1..Len(t) : g[i] = IF i = 1 THEN t[i] ELSE g[i - 1] \o t[i]
    BY <1>2 DEF IsFlat
  <2> QED
    BY <1>1, <2>1, <2>2
<1>4. CASE s = <<>>
  <2>1. n = 0
    BY <1>4
  <2>2. FlattenSeq(s) = <<>>
    BY <1>4, FlattenNone
  <2>3. <<>> \in Seq(S) /\ <<>> \o e = e
    OBVIOUS
  <2> QED
    BY <1>1, <1>2, <1>3, <2>1, <2>2, <2>3
<1>5. CASE s # <<>>
  <2>1. n # 0 /\ n \in 1..n
    BY <1>1, <1>5
  <2>2. PICK f : IsFlat(f, s) /\ FlattenSeq(s) = f[n]
    BY <1>5, FlatIs
  <2>3. f[n] = g[n] /\ f[n] \in Seq(S)
    <3>1. /\ t \in Seq(Seq(S)) /\ Len(s) <= Len(t) /\ \A i \in 1..Len(s) : s[i] = t[i]
          /\ IsFlat(f, s) /\ IsFlat(g, t)
      BY <1>1, <1>2, <2>2
    <3> HIDE DEF t, n
    <3>2. \A i \in 1..Len(s) : f[i] = g[i] /\ f[i] \in Seq(S)
      BY <3>1, FlatUnique, Zenon
    <3>3. \A i \in 1..n : f[i] = g[i] /\ f[i] \in Seq(S)
      BY <3>2 DEF n
    <3> QED
      BY <2>1, <3>3
  <2> QED
    BY <1>1, <1>2, <1>3, <2>1, <2>2, <2>3
<1> QED
  BY <1>4, <1>5

Associate(x, y, z) == (x \o y) \o z = x \o (y \o z)

LEMMA Associative == ASSUME NEW S PROVE \A x, y, z \in Seq(S) : Associate(x, y, z)
BY ConcatAssociative DEF Associate

LEMMA FlattenConcat ==
  ASSUME NEW S, NEW s \in Seq(Seq(S)), NEW t \in Seq(Seq(S))
  PROVE  FlattenSeq(s \o t) = FlattenSeq(s) \o FlattenSeq(t)
<1> DEFINE Part(k) == SubSeq(t, 1, k)
           n == Len(t)
           Good == {k \in 0..n : FlattenSeq(s \o Part(k)) = FlattenSeq(s) \o FlattenSeq(Part(k))}
<1>1. n \in Nat /\ \A k \in 0..n : Part(k) \in Seq(Seq(S))
  OBVIOUS
<1>2. 0 \in Good
  <2>1. Part(0) = <<>> /\ s \o Part(0) = s
    OBVIOUS
  <2>2. FlattenSeq(s) \in Seq(S)
    <3>1. <<>> \in Seq(S)
      OBVIOUS
    <3> QED
      BY <3>1, FlattenAppend
  <2>3. FlattenSeq(s) \o <<>> = FlattenSeq(s)
    BY <2>2
  <2>4. 0 \in 0..n
    BY <1>1
  <2> HIDE DEF Part
  <2> QED
    BY <2>1, <2>3, <2>4, FlattenNone
<1>3. ASSUME NEW k \in 0..(n - 1), k \in Good PROVE k + 1 \in Good
  <2> DEFINE e == t[k + 1]
             a == s \o Part(k)
  <2>1. k \in 0..n /\ k + 1 \in 0..n /\ e \in Seq(S)
    BY <1>1
  <2>2. Part(k + 1) = Append(Part(k), e)
    BY <1>1, <2>1
  <2>3. s \o Part(k + 1) = Append(a, e)
    <3> DEFINE p == Part(k)
    <3>1. p \in Seq(Seq(S)) /\ e \in Seq(S)
      BY <1>1, <2>1
    <3> HIDE DEF p, e
    <3>2. s \o Append(p, e) = Append(s \o p, e)
      BY <3>1
    <3> QED
      BY <2>2, <3>2 DEF p
  <2>4. a \in Seq(Seq(S)) /\ Part(k) \in Seq(Seq(S))
    BY <1>1, <2>1
  <2>5. FlattenSeq(a) = FlattenSeq(s) \o FlattenSeq(Part(k))
    BY <1>3
  <2> HIDE DEF a, e, Part
  <2>6. FlattenSeq(Append(a, e)) = FlattenSeq(a) \o e
    BY <2>1, <2>4, FlattenAppend
  <2>7. /\ FlattenSeq(Append(Part(k), e)) = FlattenSeq(Part(k)) \o e
        /\ FlattenSeq(Part(k)) \in Seq(S) /\ FlattenSeq(s) \in Seq(S)
    BY <2>1, <2>4, FlattenAppend
  <2>8. (FlattenSeq(s) \o FlattenSeq(Part(k))) \o e = FlattenSeq(s) \o (FlattenSeq(Part(k)) \o e)
    <3>1. Associate(FlattenSeq(s), FlattenSeq(Part(k)), e)
      BY <2>1, <2>7, Associative
    <3> QED
      BY <3>1 DEF Associate
  <2> QED
    BY <2>1, <2>2, <2>3, <2>5, <2>6, <2>7, <2>8
<1>4. n \in Good
  <2>1. n \in 0..n
    BY <1>1
  <2> HIDE DEF Good, n
  <2>2. \A k \in 0..n : k \in Good
    BY <1>1, <1>2, <1>3, UpTo
  <2> QED
    BY <2>1, <2>2
<1>5. Part(n) = t
  OBVIOUS
<1> HIDE DEF Part
<1> QED
  BY <1>4, <1>5

LEMMA FlattenType ==
  ASSUME NEW S, NEW s \in Seq(Seq(S))
  PROVE  FlattenSeq(s) \in Seq(S)
<1>1. <<>> \in Seq(S)
  OBVIOUS
<1> QED
  BY <1>1, FlattenAppend

LEMMA FlattenOne ==
  ASSUME NEW S, NEW e \in Seq(S)
  PROVE  FlattenSeq(<<e>>) = e
<1>1. <<e>> = Append(<<>>, e) /\ <<>> \in Seq(Seq(S))
  OBVIOUS
<1>2. FlattenSeq(<<e>>) = FlattenSeq(<<>>) \o e
  BY <1>1, FlattenAppend
<1> QED
  BY <1>2, FlattenNone

-----------------------------------------------------------------------------
\* The sequence c is what the links make of nodes of S, from p on.
IsChain(S, nil, links, p, c) ==
    /\ c \in Seq(S)
    /\ \A i, j \in 1..Len(c) : c[i] = c[j] => i = j
    /\ p = IF c = <<>> THEN nil ELSE c[1]
    /\ \A i \in 1..Len(c) : links[c[i]] = IF i < Len(c) THEN c[i + 1] ELSE nil

LastOf(nil, c) == IF c = <<>> THEN nil ELSE c[Len(c)]
In(c) == {c[i] : i \in 1..Len(c)}

-----------------------------------------------------------------------------
\* Chains of any nodes S, whatever the links are; nil stands for the end of one.

LEMMA ChainLength ==
  ASSUME NEW S, IsFiniteSet(S), NEW c \in Seq(S), \A i, j \in 1..Len(c) : c[i] = c[j] => i = j
  PROVE  Len(c) <= Cardinality(S) /\ Cardinality(S) \in Nat
<1>1. c \in Injection(1..Len(c), S)
  BY DEF Injection, IsInjective
<1>2. /\ IsFiniteSet(1..Len(c)) /\ Cardinality(1..Len(c)) <= Cardinality(S)
  BY <1>1, FS_Injection
<1>3. Cardinality(1..Len(c)) = Len(c)
  <2>1. Len(c) \in Nat /\ Len(c) \in Int /\ 1 \in Int
    OBVIOUS
  <2>2. Cardinality(1..Len(c)) = IF 1 > Len(c) THEN 0 ELSE Len(c) - 1 + 1
    BY <2>1, FS_Interval
  <2> QED
    BY <2>1, <2>2
<1> QED
  BY <1>2, <1>3, FS_CardinalityType

LEMMA Followed ==
  ASSUME NEW S, NEW nil, nil \notin S, NEW links, NEW p, NEW c, IsChain(S, nil, links, p, c),
         NEW n \in Nat, Len(c) <= n
  PROVE  Follow(links, nil, p, n) = [i \in 1..n |-> IF i <= Len(c) THEN c[i] ELSE nil]
<1> DEFINE Step(f, i) == IF i = 1 THEN p
                         ELSE IF f[i - 1] = nil THEN nil ELSE links[f[i - 1]]
           Walks(f) == f = [i \in 1..n |-> Step(f, i)]
           g == [i \in 1..n |-> IF i <= Len(c) THEN c[i] ELSE nil]
<1>1. /\ c \in Seq(S) /\ Len(c) \in Nat /\ n \in Nat /\ Len(c) <= n
      /\ \A i \in 1..Len(c) : c[i] \in S /\ c[i] # nil
  BY DEF IsChain
<1>2. Walks(g)
  <2>1. ASSUME NEW i \in 1..n PROVE g[i] = Step(g, i)
    <3>1. CASE i = 1
      <4>1. CASE c = <<>>
        BY <3>1, <4>1 DEF IsChain
      <4>2. CASE c # <<>>
        <5> 1 <= Len(c)
          BY <1>1, <4>2
        <5> QED
          BY <3>1, <4>2 DEF IsChain
      <4> QED
        BY <4>1, <4>2
    <3>2. CASE i # 1
      <4>1. i - 1 \in 1..n /\ g[i - 1] = IF i - 1 <= Len(c) THEN c[i - 1] ELSE nil
        BY <1>1, <3>2
      <4>2. CASE i - 1 > Len(c)
        BY <1>1, <3>2, <4>1, <4>2
      <4>3. CASE i - 1 <= Len(c)
        <5>1. i - 1 \in 1..Len(c) /\ g[i - 1] = c[i - 1]
          BY <1>1, <4>1, <4>3
        <5>2. links[c[i - 1]] = IF i - 1 < Len(c) THEN c[i] ELSE nil
          <6> DEFINE k == i - 1
          <6>1. k \in 1..Len(c) /\ k + 1 = i
            BY <5>1
          <6> HIDE DEF k
          <6>2. links[c[k]] = IF k < Len(c) THEN c[k + 1] ELSE nil
            BY <6>1 DEF IsChain
          <6> QED
            BY <6>1, <6>2 DEF k
        <5>3. Step(g, i) = links[c[i - 1]]
          BY <1>1, <3>2, <5>1
        <5>4. i <= Len(c) <=> i - 1 < Len(c)
          BY <1>1
        <5> QED
          BY <5>2, <5>3, <5>4
      <4> QED
        BY <1>1, <4>2, <4>3
    <3> QED
      BY <3>1, <3>2
  <2> QED
    BY <2>1
<1>3. ASSUME NEW f, Walks(f) PROVE f = g
  <2> DEFINE Good == {k \in 0..n : k > 0 => f[k] = g[k]}
  <2> HIDE DEF g
  <2>1. \A i \in 1..n : f[i] = Step(f, i) /\ g[i] = Step(g, i)
    BY <1>2, <1>3
  <2>2. ASSUME NEW k \in 0..(n - 1), k \in Good PROVE k + 1 \in Good
    <3>1. k + 1 \in 1..n /\ k + 1 - 1 = k
      BY <1>1
    <3>2. f[k + 1] = Step(f, k + 1) /\ g[k + 1] = Step(g, k + 1)
      BY <2>1, <3>1
    <3>3. CASE k = 0
      BY <3>1, <3>2, <3>3
    <3>4. CASE k > 0
      <4> f[k] = g[k] /\ k + 1 # 1
        BY <2>2, <3>4
      <4> QED
        BY <3>1, <3>2
    <3> QED
      BY <3>3, <3>4
  <2>3. \A k \in 0..n : k \in Good
    <3> HIDE DEF Good
    <3>1. 0 \in Good
      BY <1>1 DEF Good
    <3> QED
      BY <1>1, <2>2, <3>1, UpTo
  <2>4. \A k \in 1..n : f[k] = g[k]
    BY <2>3
  <2>5. f = [i \in 1..n |-> f[i]] /\ g = [i \in 1..n |-> g[i]]
    BY <1>3 DEF g
  <2> QED
    BY <2>4, <2>5
<1>4. (CHOOSE f : Walks(f)) = g
  <2> HIDE DEF Walks, g
  <2> QED
    BY <1>2, <1>3
<1> QED
  BY <1>4, Zenon DEF Follow

LEMMA NoChain == \A S, nil, links : IsChain(S, nil, links, nil, <<>>)
BY DEF IsChain

LEMMA ChainKept ==
  ASSUME NEW S, NEW nil, nil \notin S, NEW links, NEW others, NEW p, NEW c, IsChain(S, nil, links, p, c),
         \A m \in In(c) : others[m] = links[m]
  PROVE  IsChain(S, nil, others, p, c)
BY DEF IsChain, In

LEMMA ChainEnds ==
  ASSUME NEW S, NEW nil, nil \notin S, NEW links, NEW p, NEW c, IsChain(S, nil, links, p, c)
  PROVE  /\ In(c) \subseteq S
         /\ p = nil <=> c = <<>>
         /\ LastOf(nil, c) = nil <=> c = <<>>
         /\ c # <<>> => p \in In(c) /\ LastOf(nil, c) \in In(c) /\ links[LastOf(nil, c)] = nil
<1>1. c \in Seq(S) /\ Len(c) \in Nat /\ \A i \in 1..Len(c) : c[i] \in S
  BY DEF IsChain
<1>2. c # <<>> => 1 \in 1..Len(c) /\ Len(c) \in 1..Len(c)
  BY <1>1
<1> QED
  BY <1>1, <1>2 DEF IsChain, In, LastOf

LEMMA ChainShrinks ==
  ASSUME NEW S, NEW nil, nil \notin S, NEW links, NEW p, NEW c, IsChain(S, nil, links, p, c), p # nil
  PROVE  /\ IsChain(S, nil, links, links[p], Tail(c))
         /\ In(Tail(c)) = In(c) \ {p} /\ p \in In(c)
         /\ LastOf(nil, Tail(c)) = IF links[p] = nil THEN nil ELSE LastOf(nil, c)
<1> DEFINE d == Tail(c)
<1>1. /\ c \in Seq(S) /\ Len(c) \in Nat /\ c # <<>> /\ p = c[1]
      /\ \A i \in 1..Len(c) : c[i] \in S /\ c[i] # nil
  BY DEF IsChain
<1>2. d \in Seq(S) /\ Len(d) = Len(c) - 1 /\ \A i \in 1..(Len(c) - 1) : d[i] = c[i + 1]
  BY <1>1
<1> HIDE DEF d
<1>3. ASSUME NEW i \in 1..Len(d), NEW j \in 1..Len(d), d[i] = d[j] PROVE i = j
  <2>1. i + 1 \in 1..Len(c) /\ j + 1 \in 1..Len(c) /\ c[i + 1] = c[j + 1]
    BY <1>1, <1>2, <1>3
  <2>2. i + 1 = j + 1
    BY <2>1 DEF IsChain
  <2> QED
    BY <2>2
<1>4. ASSUME NEW i \in 1..Len(d)
      PROVE  links[d[i]] = IF i < Len(d) THEN d[i + 1] ELSE nil
  <2> DEFINE k == i + 1
  <2>1. k \in 1..Len(c) /\ d[i] = c[k] /\ (i < Len(d) <=> k < Len(c))
        /\ (i < Len(d) => d[i + 1] = c[k + 1])
    BY <1>1, <1>2
  <2> HIDE DEF k
  <2>2. links[c[k]] = IF k < Len(c) THEN c[k + 1] ELSE nil
    BY <2>1 DEF IsChain
  <2> QED
    BY <2>1, <2>2
<1>5. links[p] = IF d = <<>> THEN nil ELSE d[1]
  <2>1. 1 \in 1..Len(c) /\ (d = <<>> <=> ~(1 < Len(c)))
    BY <1>1, <1>2
  <2>2. links[c[1]] = IF 1 < Len(c) THEN c[1 + 1] ELSE nil
    BY <2>1 DEF IsChain
  <2>3. 1 < Len(c) => d[1] = c[1 + 1]
    BY <1>1, <1>2
  <2> QED
    BY <1>1, <2>1, <2>2, <2>3
<1>6. In(d) = In(c) \ {p} /\ p \in In(c)
  <2>1. 1 \in 1..Len(c)
    BY <1>1
  <2>2. \A i \in 1..Len(c) : i # 1 => c[i] # p /\ i - 1 \in 1..Len(d) /\ d[i - 1] = c[i]
    BY <1>1, <1>2, <2>1 DEF IsChain
  <2>3. \A i \in 1..Len(d) : i + 1 \in 1..Len(c) /\ d[i] = c[i + 1] /\ i + 1 # 1
    BY <1>1, <1>2
  <2>4. \A x \in In(d) : x \in In(c) /\ x # p
    BY <2>2, <2>3 DEF In
  <2>5. \A x \in In(c) : x # p => x \in In(d)
    BY <1>1, <2>2 DEF In
  <2>6. p \in In(c)
    BY <1>1, <2>1 DEF In
  <2> QED
    BY <2>4, <2>5, <2>6
<1>7. LastOf(nil, d) = IF links[p] = nil THEN nil ELSE LastOf(nil, c)
  <2>1. CASE d = <<>>
    BY <1>5, <2>1 DEF LastOf
  <2>2. CASE d # <<>>
    <3>1. Len(d) \in 1..Len(d) /\ 1 \in 1..Len(d) /\ Len(d) \in 1..(Len(c) - 1) /\ Len(d) + 1 = Len(c)
      BY <1>1, <1>2, <2>2
    <3>2. d[Len(d)] = c[Len(c)]
      BY <1>2, <3>1
    <3>3. d[1] # nil
      BY <1>1, <1>2, <3>1
    <3> QED
      BY <1>1, <1>5, <2>2, <3>2, <3>3 DEF LastOf
  <2> QED
    BY <2>1, <2>2
<1> QED
  BY <1>2, <1>3, <1>4, <1>5, <1>6, <1>7 DEF IsChain, d

LEMMA ChainPushes ==
  ASSUME NEW S, NEW nil, nil \notin S, NEW links, NEW others, NEW p, NEW c,
         IsChain(S, nil, links, p, c), NEW m \in S, m \notin In(c),
         others[m] = p, \A x \in In(c) : others[x] = links[x]
  PROVE  /\ IsChain(S, nil, others, m, <<m>> \o c)
         /\ In(<<m>> \o c) = In(c) \union {m}
<1> DEFINE d == <<m>> \o c
<1>1. /\ c \in Seq(S) /\ Len(c) \in Nat /\ p = IF c = <<>> THEN nil ELSE c[1]
      /\ \A i \in 1..Len(c) : c[i] \in S /\ c[i] # m /\ others[c[i]] = links[c[i]]
  BY DEF IsChain, In
<1>2. /\ d \in Seq(S) /\ Len(d) = Len(c) + 1 /\ d[1] = m /\ d # <<>>
      /\ \A i \in 2..Len(d) : d[i] = c[i - 1]
  <2>1. <<m>> \in Seq(S) /\ Len(<<m>>) = 1
    OBVIOUS
  <2>2. /\ d \in Seq(S) /\ Len(d) = 1 + Len(c)
        /\ \A i \in 1..(1 + Len(c)) : d[i] = IF i <= 1 THEN <<m>>[i] ELSE c[i - 1]
    BY <1>1, <2>1, ConcatProperties
  <2> HIDE DEF d
  <2>3. d[1] = m /\ d # <<>>
    BY <1>1, <2>2
  <2> QED
    BY <1>1, <2>2, <2>3
<1> HIDE DEF d
<1>3. ASSUME NEW i \in 1..Len(d), NEW j \in 1..Len(d), d[i] = d[j] PROVE i = j
  <2>1. CASE i = 1 /\ j = 1
    BY <2>1
  <2>2. CASE i = 1 /\ j # 1
    <3> j - 1 \in 1..Len(c) /\ d[j] = c[j - 1]
      BY <1>1, <1>2, <2>2
    <3> QED
      BY <1>1, <1>2, <1>3, <2>2
  <2>3. CASE i # 1 /\ j = 1
    <3> i - 1 \in 1..Len(c) /\ d[i] = c[i - 1]
      BY <1>1, <1>2, <2>3
    <3> QED
      BY <1>1, <1>2, <1>3, <2>3
  <2>4. CASE i # 1 /\ j # 1
    <3>1. i - 1 \in 1..Len(c) /\ j - 1 \in 1..Len(c) /\ c[i - 1] = c[j - 1]
      BY <1>1, <1>2, <1>3, <2>4
    <3>2. i - 1 = j - 1
      BY <3>1 DEF IsChain
    <3> QED
      BY <3>2
  <2> QED
    BY <2>1, <2>2, <2>3, <2>4
<1>4. ASSUME NEW i \in 1..Len(d)
      PROVE  others[d[i]] = IF i < Len(d) THEN d[i + 1] ELSE nil
  <2>1. CASE i = 1
    <3>1. CASE c = <<>>
      BY <1>1, <1>2, <2>1, <3>1
    <3>2. CASE c # <<>>
      <4> 2 \in 2..Len(d) /\ 1 < Len(d) /\ 2 - 1 = 1
        BY <1>1, <1>2, <3>2
      <4> d[2] = c[1]
        BY <1>2
      <4> QED
        BY <1>1, <1>2, <2>1, <3>2
    <3> QED
      BY <3>1, <3>2
  <2>2. CASE i # 1
    <3>1. PICK j : j = i - 1
      OBVIOUS
    <3>2. j \in 1..Len(c) /\ i \in 2..Len(d) /\ j + 1 = i /\ d[i] = c[j]
      BY <1>1, <1>2, <2>2, <3>1
    <3>3. links[c[j]] = IF j < Len(c) THEN c[j + 1] ELSE nil
      BY <3>2 DEF IsChain
    <3>4. j < Len(c) => d[i + 1] = c[j + 1]
      <4> SUFFICES ASSUME j < Len(c) PROVE d[i + 1] = c[j + 1]
        OBVIOUS
      <4> i + 1 \in 2..Len(d) /\ i + 1 - 1 = j + 1
        BY <1>1, <1>2, <3>2
      <4> QED
        BY <1>2
    <3> QED
      BY <1>1, <1>2, <3>2, <3>3, <3>4
  <2> QED
    BY <2>1, <2>2
<1>5. In(d) = In(c) \union {m}
  <2>1. \A x \in In(d) : x \in In(c) \union {m}
    <3> SUFFICES ASSUME NEW i \in 1..Len(d) PROVE d[i] \in In(c) \union {m}
      BY DEF In
    <3>1. CASE i = 1
      BY <1>2, <3>1
    <3>2. CASE i # 1
      <4> i - 1 \in 1..Len(c) /\ d[i] = c[i - 1]
        BY <1>1, <1>2, <3>2
      <4> QED
        BY DEF In
    <3> QED
      BY <3>1, <3>2
  <2>2. ASSUME NEW i \in 1..Len(c) PROVE c[i] \in In(d)
    <3>1. PICK j : j = i + 1
      OBVIOUS
    <3>2. j \in 2..Len(d) /\ j \in 1..Len(d) /\ j - 1 = i
      BY <1>1, <1>2, <3>1
    <3>3. d[j] = c[i]
      BY <1>2, <3>2
    <3> QED
      BY <3>2, <3>3 DEF In
  <2>3. m \in In(d)
    <3> 1 \in 1..Len(d)
      BY <1>1, <1>2
    <3> QED
      BY <1>2 DEF In
  <2>4. \A x \in In(c) : x \in In(d)
    BY <2>2 DEF In
  <2> QED
    BY <2>1, <2>3, <2>4
<1> QED
  BY <1>2, <1>3, <1>4, <1>5 DEF IsChain, d

-----------------------------------------------------------------------------
\* Sums over a finite set.

\* f gives the sum of w over each subset of S.
Sums(w, S, f) ==
    f = [s \in SUBSET S |-> IF s = {} THEN 0
                            ELSE LET x == CHOOSE x \in s : TRUE IN w[x] + f[s \ {x}]]

\* SumFunction() of the community modules
LEMMA SumFunctionIs ==
  ASSUME NEW w
  PROVE  SumFunction(w) = (CHOOSE f : Sums(w, DOMAIN w, f))[DOMAIN w]
BY Zenon DEF SumFunction, SumFunctionOnSet, FoldFunctionOnSet, MapThenFoldSet, Sums

\* A set without its chosen element
LEMMA OneLess ==
  ASSUME NEW s, IsFiniteSet(s), NEW x \in s
  PROVE  /\ IsFiniteSet(s \ {x}) /\ s # {}
         /\ Cardinality(s) \in Nat \ {0} /\ Cardinality(s \ {x}) = Cardinality(s) - 1
<1>1. IsFiniteSet(s \ {x}) /\ Cardinality(s \ {x}) = Cardinality(s) - 1
  BY FS_RemoveElement
<1>2. Cardinality(s) \in Nat /\ Cardinality(s) # 0
  BY FS_CardinalityType, FS_EmptySet
<1> QED
  BY <1>1, <1>2

\* Such a function exists.
LEMMA SumsExist ==
  ASSUME NEW w, NEW S, IsFiniteSet(S)
  PROVE  \E f : Sums(w, S, f)
<1> DEFINE n == Cardinality(S)
           Pick(s) == CHOOSE x \in s : TRUE
           Step(f, s) == IF s = {} THEN 0 ELSE w[Pick(s)] + f[s \ {Pick(s)}]
           Good == {k \in 0..n : \E f : \A s \in SUBSET S : Cardinality(s) <= k => f[s] = Step(f, s)}
<1>1. n \in Nat /\ \A s \in SUBSET S : IsFiniteSet(s) /\ Cardinality(s) \in Nat /\ Cardinality(s) <= n
  <2> SUFFICES ASSUME NEW s \in SUBSET S
               PROVE  n \in Nat /\ IsFiniteSet(s) /\ Cardinality(s) \in Nat /\ Cardinality(s) <= n
    BY FS_CardinalityType
  <2> QED
    BY FS_CardinalityType, FS_Subset
<1>2. \A s : s # {} => Pick(s) \in s
  OBVIOUS
<1>3. 0 \in Good
  <2> DEFINE f == [s \in SUBSET S |-> 0]
  <2>1. ASSUME NEW s \in SUBSET S, Cardinality(s) <= 0 PROVE f[s] = Step(f, s)
    <3>1. s = {}
      BY <1>1, <2>1, FS_EmptySet
    <3> QED
      BY <3>1
  <2> HIDE DEF f, Step
  <2> QED
    BY <1>1, <2>1
<1>4. ASSUME NEW k \in 0..(n - 1), k \in Good PROVE k + 1 \in Good
  <2>1. PICK f : \A s \in SUBSET S : Cardinality(s) <= k => f[s] = Step(f, s)
    BY <1>4
  <2> DEFINE g == [s \in SUBSET S |-> IF Cardinality(s) = k + 1 THEN Step(f, s) ELSE f[s]]
  <2>2. ASSUME NEW s \in SUBSET S, Cardinality(s) <= k + 1 PROVE g[s] = Step(g, s)
    <3>1. g[s] = Step(f, s)
      <4> HIDE DEF Step
      <4>1. PICK v, n1 : v = Step(f, s) /\ n1 = Cardinality(s) /\ n1 \in Nat /\ n1 <= k + 1
        BY <1>1, <2>2
      <4>2. n1 <= k => f[s] = v
        BY <2>1, <4>1
      <4>3. g[s] = IF n1 = k + 1 THEN v ELSE f[s]
        BY <4>1
      <4> QED
        BY <4>1, <4>2, <4>3
    <3>2. CASE s = {}
      BY <3>1, <3>2
    <3>3. CASE s # {}
      <4>1. PICK x, t : x = Pick(s) /\ x \in s /\ t = s \ {x}
        BY <1>2, <3>3
      <4>2. Cardinality(t) = Cardinality(s) - 1 /\ t \in SUBSET S
        BY <1>1, <4>1, OneLess
      <4>3. g[t] = f[t]
        BY <1>1, <2>2, <4>2
      <4> QED
        BY <3>1, <3>3, <4>1, <4>3
    <3> QED
      BY <3>2, <3>3
  <2>3. k + 1 \in 0..n
    BY <1>1
  <2> HIDE DEF g, Step
  <2> QED
    BY <2>2, <2>3
<1>5. n \in Good
  <2>1. n \in 0..n
    BY <1>1
  <2> HIDE DEF n, Good
  <2>2. \A k \in 0..n : k \in Good
    BY <1>1, <1>3, <1>4, UpTo
  <2> QED
    BY <2>1, <2>2
<1>6. PICK f : \A s \in SUBSET S : f[s] = Step(f, s)
  BY <1>1, <1>5
<1> DEFINE g == [s \in SUBSET S |-> f[s]]
<1>7. ASSUME NEW s \in SUBSET S PROVE g[s] = Step(g, s)
  <2>1. CASE s = {}
    BY <1>6, <2>1
  <2>2. CASE s # {}
    <3>1. s \ {Pick(s)} \in SUBSET S
      OBVIOUS
    <3> QED
      BY <1>6, <2>2, <3>1
  <2> QED
    BY <2>1, <2>2
<1>8. g = [s \in SUBSET S |-> Step(g, s)]
  <2> HIDE DEF Step
  <2> QED
    BY <1>7
<1>9. Sums(w, S, g)
  <2> HIDE DEF g
  <2> QED
    BY <1>8 DEF Sums
<1> QED
  BY <1>9

\* What is added depends on the elements only.
LEMMA SumsUnique ==
  ASSUME NEW w, NEW S, NEW f, Sums(w, S, f), NEW v, NEW T, NEW g, Sums(v, T, g),
         NEW U, IsFiniteSet(U), U \subseteq S, U \subseteq T, \A x \in U : w[x] = v[x]
  PROVE  f[U] = g[U]
<1> DEFINE n == Cardinality(U)
           Good == {k \in 0..n : \A s \in SUBSET U : Cardinality(s) = k => f[s] = g[s]}
<1>1. n \in Nat /\ \A s \in SUBSET U : IsFiniteSet(s)
  BY FS_CardinalityType, FS_Subset
<1>2. ASSUME NEW s \in SUBSET U, s # {}
      PROVE  \E x \in s : f[s] = w[x] + f[s \ {x}] /\ g[s] = v[x] + g[s \ {x}]
  <2>1. PICK x : x = CHOOSE y \in s : TRUE
    OBVIOUS
  <2>2. x \in s
    BY <1>2, <2>1
  <2>3. s \in SUBSET S /\ s \in SUBSET T
    OBVIOUS
  <2>4. f[s] = w[x] + f[s \ {x}] /\ g[s] = v[x] + g[s \ {x}]
    BY <1>2, <2>1, <2>3 DEF Sums
  <2> QED
    BY <2>2, <2>4
<1>3. f[{}] = 0 /\ g[{}] = 0
  <2> {} \in SUBSET S /\ {} \in SUBSET T
    OBVIOUS
  <2> QED
    BY DEF Sums
<1>4. 0 \in Good
  <2>1. \A s \in SUBSET U : Cardinality(s) = 0 => s = {}
    BY <1>1, FS_EmptySet
  <2> QED
    BY <1>1, <1>3, <2>1
<1>5. ASSUME NEW k \in 0..(n - 1), k \in Good PROVE k + 1 \in Good
  <2>1. ASSUME NEW s \in SUBSET U, Cardinality(s) = k + 1 PROVE f[s] = g[s]
    <3>1. s # {}
      BY <2>1, FS_EmptySet
    <3>2. PICK x \in s : f[s] = w[x] + f[s \ {x}] /\ g[s] = v[x] + g[s \ {x}]
      BY <1>2, <3>1
    <3>3. Cardinality(s \ {x}) = Cardinality(s) - 1
      BY <1>1, OneLess
    <3>4. Cardinality(s \ {x}) = k /\ s \ {x} \in SUBSET U
      BY <2>1, <3>3
    <3>5. f[s \ {x}] = g[s \ {x}] /\ w[x] = v[x]
      BY <1>5, <3>4
    <3> QED
      BY <3>2, <3>5
  <2>2. k + 1 \in 0..n
    BY <1>1
  <2> QED
    BY <2>1, <2>2
<1>6. n \in 0..n /\ U \in SUBSET U
  BY <1>1
<1>7. \A k \in 0..n : k \in Good
  <2> HIDE DEF n, Good
  <2> QED
    BY <1>1, <1>4, <1>5, UpTo
<1> QED
  BY <1>6, <1>7

\* Any element may be added last.
LEMMA SumsSplit ==
  ASSUME NEW w, NEW S, NEW f, Sums(w, S, f), IsFiniteSet(S), \A x \in S : w[x] \in Int
  PROVE  /\ f[{}] = 0
         /\ \A s \in SUBSET S : f[s] \in Int /\ \A y \in s : f[s] = w[y] + f[s \ {y}]
<1> DEFINE n == Cardinality(S)
           Split(s) == f[s] \in Int /\ \A y \in s : f[s] = w[y] + f[s \ {y}]
           Good == {k \in 0..n : \A s \in SUBSET S : Cardinality(s) <= k => Split(s)}
<1>1. n \in Nat /\ \A s \in SUBSET S : IsFiniteSet(s) /\ Cardinality(s) \in 0..n
  <2>1. n \in Nat
    BY FS_CardinalityType
  <2>2. ASSUME NEW s \in SUBSET S PROVE IsFiniteSet(s) /\ Cardinality(s) \in 0..n
    <3>1. IsFiniteSet(s) /\ Cardinality(s) <= n
      BY FS_Subset
    <3>2. Cardinality(s) \in Nat
      BY <3>1, FS_CardinalityType
    <3> QED
      BY <2>1, <3>1, <3>2
  <2> QED
    BY <2>1, <2>2
<1>2. ASSUME NEW s \in SUBSET S, s # {} PROVE \E x \in s : f[s] = w[x] + f[s \ {x}]
  <2>1. PICK x : x = CHOOSE y \in s : TRUE
    OBVIOUS
  <2>2. x \in s
    BY <1>2, <2>1
  <2>3. f[s] = w[x] + f[s \ {x}]
    BY <1>2, <2>1 DEF Sums
  <2> QED
    BY <2>2, <2>3
<1>3. f[{}] = 0
  <2> {} \in SUBSET S
    OBVIOUS
  <2> QED
    BY DEF Sums
<1>4. 0 \in Good
  <2>1. \A s \in SUBSET S : Cardinality(s) <= 0 => s = {}
    BY <1>1, FS_EmptySet
  <2>2. Split({})
    BY <1>3
  <2> HIDE DEF Split
  <2> QED
    BY <1>1, <2>1, <2>2
<1>5. ASSUME NEW k \in 0..(n - 1), k \in Good PROVE k + 1 \in Good
  <2>1. \A s \in SUBSET S : Cardinality(s) <= k => Split(s)
    BY <1>5
  <2>2. ASSUME NEW s \in SUBSET S, Cardinality(s) = k + 1 PROVE Split(s)
    <3>1. s # {}
      BY <2>2, FS_EmptySet
    <3>2. PICK x \in s : f[s] = w[x] + f[s \ {x}]
      BY <1>2, <3>1
    <3>3. ASSUME NEW y \in s PROVE s \ {y} \in SUBSET S /\ Cardinality(s \ {y}) = k /\ Split(s \ {y})
      <4>1. Cardinality(s \ {y}) = Cardinality(s) - 1 /\ s \ {y} \in SUBSET S
        BY <1>1, OneLess
      <4>2. Cardinality(s \ {y}) = k
        BY <2>2, <4>1
      <4> HIDE DEF Split
      <4> QED
        BY <2>1, <4>1, <4>2
    <3>4. f[s \ {x}] \in Int /\ w[x] \in Int /\ f[s] \in Int
      <4>1. x \in S
        OBVIOUS
      <4>2. PICK a : a = f[s \ {x}] /\ a \in Int
        BY <3>3
      <4> QED
        BY <3>2, <4>1, <4>2
    <3>5. ASSUME NEW y \in s, y # x PROVE f[s] = w[y] + f[s \ {y}]
      <4>1. PICK t, u, z : t = s \ {x} /\ u = s \ {y} /\ z = t \ {y} /\ z = u \ {x} /\ y \in t /\ x \in u
        <5>3. y \in s \ {x} /\ x \in s \ {y}
          BY <3>2, <3>5
        <5>1. PICK t, u : t = s \ {x} /\ u = s \ {y} /\ y \in t /\ x \in u
          BY <5>3, Zenon
        <5>2. t \ {y} = u \ {x}
          BY <5>1
        <5> QED
          BY <5>1, <5>2
      <4>2. Split(t) /\ Split(u)
        BY <3>3, <4>1
      <4>3. f[t] = w[y] + f[z] /\ f[u] = w[x] + f[z]
        BY <4>1, <4>2
      <4>4. z \in SUBSET S /\ Cardinality(z) <= k
        <5>1. t \in SUBSET S /\ Cardinality(t) = k
          BY <3>3, <4>1
        <5>2. Cardinality(t) \in Nat \ {0} /\ Cardinality(z) = Cardinality(t) - 1
          BY <1>1, <4>1, <5>1, OneLess
        <5> QED
          BY <4>1, <5>1, <5>2
      <4>5. w[x] \in Int /\ w[y] \in Int /\ f[t] \in Int /\ f[u] \in Int
        BY <4>2, <3>4
      <4>6. f[z] \in Int
        BY <2>1, <4>4
      <4>7. f[s] = w[x] + f[t]
        BY <3>2, <4>1
      <4>8. f[s] = w[y] + f[u]
        BY <4>3, <4>5, <4>6, <4>7
      <4> QED
        BY <4>1, <4>8
    <3> QED
      BY <3>2, <3>4, <3>5
  <2>3. k + 1 \in 0..n
    BY <1>1
  <2> HIDE DEF Split
  <2>4. ASSUME NEW s \in SUBSET S, Cardinality(s) <= k + 1 PROVE Split(s)
    <3>1. Cardinality(s) <= k \/ Cardinality(s) = k + 1
      BY <1>1, <2>4
    <3> QED
      BY <2>1, <2>2, <3>1
  <2> QED
    BY <2>3, <2>4
<1>6. \A k \in 0..n : k \in Good
  <2> HIDE DEF n, Good
  <2> QED
    BY <1>1, <1>4, <1>5, UpTo
<1>7. ASSUME NEW s \in SUBSET S PROVE Split(s)
  <2> HIDE DEF n, Split
  <2> QED
    BY <1>1, <1>6
<1> QED
  BY <1>3, <1>7

\* What SumFunction() is for a finite set
LEMMA SumFound ==
  ASSUME NEW S, IsFiniteSet(S), NEW w \in [S -> Int]
  PROVE  \E f : Sums(w, S, f) /\ SumFunction(w) = f[S] /\ f[S] \in Int
<1>1. Sums(w, S, CHOOSE f : Sums(w, S, f))
  BY SumsExist
<1>2. DOMAIN w = S
  OBVIOUS
<1>3. PICK f : Sums(w, S, f) /\ SumFunction(w) = f[S]
  BY <1>1, <1>2, SumFunctionIs
<1>4. f[S] \in Int
  BY <1>3, SumsSplit
<1> QED
  BY <1>3, <1>4

\* A sum is a number,
LEMMA SumType == \A S, w : IsFiniteSet(S) /\ w \in [S -> Int] => SumFunction(w) \in Int
BY SumFound

\* v is w, on S, and k at x.
Widens(v, w, S, x, k) ==
    v \in [S \union {x} -> Int] /\ v[x] = k /\ \A y \in S : v[y] = w[y]

\* What is summed grows by an element.
LEMMA SumAdds ==
  ASSUME NEW S, IsFiniteSet(S), NEW x, x \notin S, NEW w \in [S -> Int], NEW k \in Int,
         NEW v, Widens(v, w, S, x, k)
  PROVE  SumFunction(v) = SumFunction(w) + k
<1>1. PICK f : Sums(w, S, f) /\ SumFunction(w) = f[S] /\ f[S] \in Int
  BY SumFound
<1>2. v \in [S \union {x} -> Int] /\ v[x] = k /\ \A y \in S : v[y] = w[y]
  BY DEF Widens
<1> QED
  <2>1. PICK T : T = S \union {x} /\ IsFiniteSet(T)
    BY FS_AddElement
  <2>2. PICK g : Sums(v, T, g) /\ SumFunction(v) = g[T]
    BY <1>2, <2>1, SumFound
  <2>3. \A y \in T : v[y] \in Int
    BY <1>2, <2>1
  <2>4. g[T] = v[x] + g[T \ {x}]
    BY <2>1, <2>2, <2>3, SumsSplit
  <2>5. T \ {x} = S /\ S \subseteq T
    BY <2>1
  <2>6. g[S] = f[S]
    BY <1>1, <1>2, <2>2, <2>5, SumsUnique
  <2>7. g[T] = k + g[S]
    BY <1>2, <2>4, <2>5
  <2> QED
    BY <1>1, <2>2, <2>6, <2>7

\* and 0 where nothing is summed.
LEMMA SumOfNone == \A w \in [{} -> Int] : SumFunction(w) = 0
<1> SUFFICES ASSUME NEW w \in [{} -> Int] PROVE SumFunction(w) = 0
  OBVIOUS
<1>1. IsFiniteSet({})
  BY FS_EmptySet
<1>2. PICK f : Sums(w, {}, f) /\ SumFunction(w) = f[{}]
  BY <1>1, SumFound
<1>3. {} \in SUBSET {}
  OBVIOUS
<1> QED
  BY <1>2, <1>3 DEF Sums
=============================================================================
