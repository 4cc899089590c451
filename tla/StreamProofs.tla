---------------------------- MODULE StreamProofs ----------------------------
(***************************************************************************)
(* Proofs about two streams that one side writes and another reads: the    *)
(* items of the log (AsyncLog) and the encrypted bytes (StreamCipher).     *)
(*                                                                         *)
(* For any number of producers and items, the items reach the file in      *)
(* order, and none appended before destroy() is left behind.               *)
(*                                                                         *)
(* For any keys and any bytes, what was encrypted is what is decrypted,    *)
(* however the stream is cut.  Both sides walk through the same states of  *)
(* the key stream, whatever the bytes are (KeyStream); process() mixes     *)
(* each byte with the next, and mixing twice gives the byte back.          *)
(***************************************************************************)
EXTENDS AsyncLog, StreamCipher, SequenceLemmas

\* The items in the order of the three places they pass through
Order == (written \o hand) \o items = [i \in 1..appended |-> i]

\* The worker takes an item only when there is one: nobody else takes any.
Taker == worker = "pop" => items # <<>>

\* destroy() is what stops the worker, and counts what was appended before.
StopOrder ==
  /\ stoped <=> destroyer # "idle"
  /\ worker = "exit" => stoped
  /\ destroyer = "done" => worker = "exit"
  /\ atStop <= appended

\* What the worker leaves when it ends was appended after its last look.
Left == worker = "exit" => atStop <= Len(written) /\ (items # <<>> => late)

IInv == TypeOK /\ Order /\ Taker /\ StopOrder /\ Left

-----------------------------------------------------------------------------
\* What an append, a pop and a write do to the three sequences together
LEMMA NumbersAppend ==
  ASSUME NEW s \in Seq(Nat), NEW n \in Nat, s = [i \in 1..n |-> i]
  PROVE  Append(s, n + 1) = [i \in 1..(n + 1) |-> i]
<1>1. Len(s) = n
  BY LenProperties
<1>2. /\ Append(s, n + 1) \in Seq(Nat)
      /\ Len(Append(s, n + 1)) = n + 1
      /\ \A i \in 1..n : Append(s, n + 1)[i] = i
      /\ Append(s, n + 1)[n + 1] = n + 1
  BY <1>1, AppendProperties
<1>. DEFINE t == Append(s, n + 1)
<1>3. t \in [1..(n + 1) -> Nat]
  BY <1>2, LenProperties
<1>4. \A i \in 1..(n + 1) : t[i] = i
  BY <1>2
<1>. QED BY <1>3, <1>4

LEMMA AppendBehind ==
  ASSUME NEW a \in Seq(Nat), NEW b \in Seq(Nat), NEW x \in Nat
  PROVE  a \o Append(b, x) = Append(a \o b, x)
<1>1. a \o b \in Seq(Nat) /\ <<x>> \in Seq(Nat)
  BY ConcatProperties
<1>2. Append(b, x) = b \o <<x>> /\ Append(a \o b, x) = (a \o b) \o <<x>>
  BY <1>1, AppendIsConcat
<1>. QED BY <1>1, <1>2, ConcatAssociative

LEMMA HeadThenTail ==
  ASSUME NEW b \in Seq(Nat), b # <<>>
  PROVE  <<Head(b)>> \o Tail(b) = b
<1>. DEFINE t == Tail(b)
            h == <<Head(b)>>
<1>1. /\ Head(b) \in Nat /\ t \in Seq(Nat) /\ Len(t) = Len(b) - 1
      /\ \A i \in 1..Len(t) : t[i] = b[i + 1]
  BY HeadTailProperties
<1>2. h \in Seq(Nat) /\ Len(h) = 1 /\ h[1] = b[1]
  BY <1>1
<1>3. Len(b) \in Nat /\ Len(t) \in Nat
  BY <1>1, LenProperties
<1>. HIDE DEF t, h
<1>4. /\ h \o t \in Seq(Nat) /\ Len(h \o t) = Len(h) + Len(t)
      /\ \A i \in 1..(Len(h) + Len(t)) :
           (h \o t)[i] = IF i <= Len(h) THEN h[i] ELSE t[i - Len(h)]
  <2>1. h \in Seq(Nat) /\ t \in Seq(Nat)
    BY <1>1, <1>2
  <2>. QED BY ONLY <2>1, ConcatProperties
<1>5. Len(h) + Len(t) = Len(b)
  BY <1>1, <1>2, <1>3
<1>6. ASSUME NEW i \in 1..Len(b) PROVE (h \o t)[i] = b[i]
  <2>1. (h \o t)[i] = IF i <= 1 THEN h[i] ELSE t[i - 1]
    BY ONLY <1>2, <1>4, <1>5, i \in 1..Len(b)
  <2>2. CASE i = 1
    BY <1>2, <2>1, <2>2
  <2>3. CASE i # 1
    <3>1. i - 1 \in 1..Len(t) /\ (i - 1) + 1 = i /\ ~(i <= 1)
      BY <1>1, <1>3, <2>3
    <3>2. t[i - 1] = b[(i - 1) + 1]
      BY <1>1, <3>1
    <3>. QED BY <2>1, <3>1, <3>2
  <2>. QED BY <2>2, <2>3
<1>7. h \o t = b
  BY <1>4, <1>5, <1>6, SeqEqual
<1>. QED BY <1>7 DEF h, t

-----------------------------------------------------------------------------
LEMMA InitHolds == Init => IInv
<1>. SUFFICES ASSUME Init PROVE IInv
  OBVIOUS
<1>. USE DEF Init
<1>1. TypeOK
  BY DEF TypeOK
<1>2. Order
  <2>1. (<<>> \o <<>>) \o <<>> = <<>>
    BY EmptySeq, ConcatEmptySeq
  <2>. QED BY <2>1 DEF Order
<1>. QED BY <1>1, <1>2 DEF IInv, Taker, StopOrder, Left

LEMMA StepHolds == IInv /\ [Next]_vars => IInv'
<1>. SUFFICES ASSUME IInv, [Next]_vars PROVE IInv'
  OBVIOUS
<1>. USE DEF IInv, TypeOK, Order, Taker, StopOrder, Left, stops, workers, history, Go
<1>1. ASSUME NEW p \in Producers, Call(p) PROVE IInv'
  BY <1>1 DEF Call
<1>2. ASSUME NEW p \in Producers, PushItem(p) PROVE IInv'
  <2>. DEFINE a == written \o hand
  <2>1. a \in Seq(Nat) /\ a \o items \in Seq(Nat)
    BY ConcatProperties
  <2>2. items' = Append(items, appended + 1) /\ appended' = appended + 1
    BY <1>2 DEF PushItem
  <2>0. items \in Seq(Nat) /\ appended \in Nat /\ appended + 1 \in Nat
    OBVIOUS
  <2>3. items' \in Seq(Nat) /\ items' # <<>>
    BY ONLY <2>0, <2>2, AppendProperties
  <2>4. a \o items' = [i \in 1..(appended + 1) |-> i]
    <3>1. a \o items = [i \in 1..appended |-> i]
      OBVIOUS
    <3>. HIDE DEF a
    <3>2. a \o items' = Append(a \o items, appended + 1)
      BY <2>0, <2>1, <2>2, AppendBehind
    <3>3. Append(a \o items, appended + 1) = [i \in 1..(appended + 1) |-> i]
      BY <2>0, <2>1, <3>1, NumbersAppend
    <3>. QED BY <3>2, <3>3
  <2>5. Order'
    BY <2>2, <2>4, <1>2 DEF PushItem
  <2>6. TypeOK'
    BY <1>2, <2>2, <2>3 DEF PushItem
  <2>7. Taker'
    BY <2>3
  <2>8. StopOrder'
    BY <1>2, <2>0, <2>2 DEF PushItem
  <2>9. Left'
    BY <1>2 DEF PushItem
  <2>. QED BY <2>5, <2>6, <2>7, <2>8, <2>9
<1>3. ASSUME NEW p \in Producers, AppendFails(p) \/ UseFreedBuffer(p) PROVE IInv'
  <2>1. CASE AppendFails(p)
    BY <2>1 DEF AppendFails
  <2>2. CASE UseFreedBuffer(p)
    BY <2>2 DEF UseFreedBuffer
  <2>. QED BY <1>3, <2>1, <2>2
<1>4. ASSUME NEW p \in Producers, Notify(p) PROVE IInv'
  BY <1>4 DEF Notify, Notified
<1>5. CASE Outer
  <2>1. CASE GoesOn
    BY <1>5, <2>1 DEF Outer
  <2>2. CASE ~GoesOn
    <3>1. stoped /\ items = <<>> /\ hand = <<>>
      BY <1>5, <2>2 DEF GoesOn, Outer
    <3>2. written = [i \in 1..appended |-> i]
      BY <3>1, ConcatEmptySeq
    <3>3. Len(written) = appended
      BY <3>2, LenProperties
    <3>. QED BY <1>5, <2>2, <3>1, <3>3 DEF Outer
  <2>. QED BY <2>1, <2>2
<1>6. CASE CheckFails
  BY <1>6 DEF CheckFails
<1>7. CASE FallAsleep
  BY <1>7 DEF FallAsleep
<1>8. CASE Check
  BY <1>8 DEF Check
<1>9. CASE Inner
  BY <1>9 DEF Inner
<1>10. CASE Pop
  <2>1. hand = <<>> /\ items # <<>> /\ hand' = <<Head(items)>> /\ items' = Tail(items)
    BY <1>10 DEF Pop, Taken
  <2>2. Head(items) \in Nat /\ items' \in Seq(Nat) /\ hand' \in Seq(Nat) /\ hand' # <<>>
    BY <2>1, HeadTailProperties
  <2>3. written \o (hand' \o items') = written \o items
    BY <2>1, HeadThenTail
  <2>4. (written \o hand') \o items' = (written \o hand) \o items
    <3>1. written \in Seq(Nat) /\ written \o hand = written
      BY <2>1, ConcatEmptySeq
    <3>2. (written \o hand') \o items' = written \o (hand' \o items')
      BY ONLY <2>2, <3>1, ConcatAssociative
    <3>. QED BY <2>3, <3>1, <3>2
  <2>5. Order'
    BY <2>4, <1>10 DEF Pop
  <2>. QED BY <1>10, <2>2, <2>5 DEF Pop
<1>11. CASE Write
  <2>1. written' = written \o hand /\ hand' = <<>> /\ written' \in Seq(Nat)
    BY <1>11, ConcatProperties DEF Write
  <2>2. written' \o hand' = written \o hand
    BY <2>1, ConcatEmptySeq
  <2>. QED BY <1>11, <2>1, <2>2 DEF Write
<1>12. CASE WakeUp
  BY <1>12 DEF WakeUp
<1>13. CASE Stop
  BY <1>13 DEF Stop
<1>14. CASE NotifyAll
  BY <1>14 DEF NotifyAll, Notified
<1>15. CASE Finish
  BY <1>15 DEF Finish, Joined
<1>16. CASE UNCHANGED vars
  BY <1>16 DEF vars
<1>. QED
  BY <1>1, <1>2, <1>3, <1>4, <1>5, <1>6, <1>7, <1>8, <1>9, <1>10, <1>11, <1>12,
     <1>13, <1>14, <1>15, <1>16 DEF Next, Worker, Producer

LEMMA IInvHolds == Spec => []IInv
BY InitHolds, StepHolds, PTL DEF Spec

-----------------------------------------------------------------------------
\* Each item is in one place, and the places hold them in the order of their
\* appending, whatever the producers and the worker do between their locks
\* (append_fix(), append_var(), _work_pthread()).
THEOREM InOrderCorrect == Spec => []InOrder
<1>1. IInv => InOrder
  BY DEF IInv, Order, InOrder
<1>. QED BY <1>1, IInvHolds, PTL

\* All that was appended before destroy() is in the file when the worker has
\* ended or destroy() returned.
THEOREM WrittenAtStopCorrect == Spec => []WrittenAtStop
<1>1. IInv => WrittenAtStop
  BY DEF IInv, StopOrder, Left, WrittenAtStop
<1>. QED BY <1>1, IInvHolds, PTL

-----------------------------------------------------------------------------
(* The cipher                                                              *)

USE CipherAssumption, XorAssumption

\* The states of a cRC4
Rc4 == [data : [Bytes -> Bytes], x : Bytes, y : Bytes]

-----------------------------------------------------------------------------
LEMMA BytesAre == \A b \in Bytes : b \in Nat
BY DEF Bytes

\* Places are counted around.
LEMMA Around == \A n \in Nat : n % DataSize \in Bytes
BY DEF Bytes

LEMMA SwappedIs ==
  ASSUME NEW data \in [Bytes -> Bytes], NEW i \in Bytes, NEW j \in Bytes
  PROVE  Swapped(data, i, j) \in [Bytes -> Bytes]
BY DEF Swapped

\* A byte leaves the key stream in a state, and is mixed with a byte.
LEMMA SteppedIs ==
  ASSUME NEW r \in Rc4
  PROVE  Stepped(r) \in Rc4 /\ KeyByte(r) \in Bytes
<1>1. /\ r.data \in [Bytes -> Bytes] /\ r.x \in Bytes /\ r.y \in Bytes
      /\ \A b \in Bytes : b \in Nat
  BY BytesAre DEF Rc4
<1>2. PICK i : i = (r.x + 1) % DataSize
  OBVIOUS
<1>3. i \in Bytes
  <2>1. r.x + 1 \in Nat
    BY <1>1
  <2> QED
    BY <1>2, <2>1, Around
<1>4. PICK j : j = (r.y + r.data[i]) % DataSize
  OBVIOUS
<1>5. j \in Bytes
  <2>1. r.data[i] \in Nat /\ r.y \in Nat
    BY <1>1, <1>3
  <2>2. r.y + r.data[i] \in Nat
    BY <2>1
  <2> QED
    BY <1>4, <2>2, Around
<1>6. Stepped(r) = [data |-> Swapped(r.data, i, j), x |-> i, y |-> j]
  BY <1>2, <1>4 DEF Stepped
<1>7. KeyByte(r) \in Bytes
  <2>1. r.data[r.x] \in Nat /\ r.data[r.y] \in Nat
    BY <1>1
  <2>2. r.data[r.x] + r.data[r.y] \in Nat
    BY <2>1
  <2>3. (r.data[r.x] + r.data[r.y]) % DataSize \in Bytes
    BY <2>2, Around
  <2> QED
    BY <1>1, <2>3 DEF KeyByte
<1> QED
  BY <1>1, <1>3, <1>5, <1>6, <1>7, SwappedIs DEF Rc4

\* What set_key() is in the middle of
Mixing == [data : [Bytes -> Bytes], y : Bytes]

LEMMA MixedIs ==
  ASSUME NEW key \in Seq(Bytes) \ {<<>>}, NEW s \in Mixing, NEW i \in Bytes
  PROVE  Mixed(s, i, key) \in Mixing
<1>1. s.data \in [Bytes -> Bytes] /\ s.y \in Bytes /\ \A b \in Bytes : b \in Nat
  BY BytesAre DEF Mixing
<1>2. PICK l : l = Len(key) /\ l \in Nat /\ l > 0
  BY EmptySeq
<1>3. PICK a : a = i % l /\ a \in 0..(l - 1)
  BY <1>1, <1>2
<1>4. key[a + 1] \in Bytes
  BY <1>2, <1>3, ElementOfSeq
<1>5. PICK j : j = (s.y + s.data[i] + key[a + 1]) % DataSize
  OBVIOUS
<1>6. j \in Bytes
  <2>1. s.y \in Nat /\ s.data[i] \in Nat /\ key[a + 1] \in Nat
    BY <1>1, <1>4
  <2>2. s.y + s.data[i] + key[a + 1] \in Nat
    BY <2>1
  <2> QED
    BY <1>5, <2>2, Around
<1>7. Mixed(s, i, key) = [data |-> Swapped(s.data, i, j), y |-> j]
  BY <1>2, <1>3, <1>5 DEF Mixed
<1> QED
  BY <1>1, <1>6, <1>7, SwappedIs DEF Mixing

MixWalk(f, key) ==
    f = [n \in 0..DataSize |-> IF n = 0 THEN [data |-> [i \in Bytes |-> i], y |-> 0]
                               ELSE Mixed(f[n - 1], n - 1, key)]

LEMMA MixWalks ==
  ASSUME NEW key
  PROVE  WithKey(key) = [data |-> (CHOOSE f : MixWalk(f, key))[DataSize].data, x |-> 0, y |-> 0]
BY DEF WithKey, MixWalk

\* set_key() leaves the key stream in a state.
LEMMA WithKeyIs ==
  ASSUME NEW key \in Seq(Bytes) \ {<<>>}
  PROVE  WithKey(key) \in Rc4
<1> PICK D : D = DataSize
  OBVIOUS
<1> PICK first : first = [data |-> [i \in Bytes |-> i], y |-> 0]
  OBVIOUS
<1>1. D \in Nat /\ D > 0 /\ 0 \in Bytes /\ \A n \in 1..D : n - 1 \in Bytes
  BY DEF Bytes
<1>2. first \in Mixing
  BY <1>1 DEF Mixing
<1> DEFINE next(z) == IF z[1] \in 1..D THEN Mixed(z[2], z[1] - 1, key) ELSE first
           step == [z \in Nat \X Mixing |-> next(z)]
<1>3. step \in [Nat \X Mixing -> Mixing]
  <2>1. ASSUME NEW z \in Nat \X Mixing PROVE next(z) \in Mixing
    <3>1. CASE z[1] \in 1..D
      <4>1. z[2] \in Mixing /\ z[1] - 1 \in Bytes
        BY <1>1, <3>1
      <4>2. Mixed(z[2], z[1] - 1, key) \in Mixing
        BY <4>1, MixedIs
      <4> QED
        BY <3>1, <4>2
    <3>2. CASE z[1] \notin 1..D
      BY <1>2, <3>2
    <3> QED
      BY <3>1, <3>2
  <2> HIDE DEF next
  <2> QED
    BY <2>1
<1>4. \E f : IsLoop(f, D, Mixing, first, step)
  <2> HIDE DEF step
  <2> QED
    BY <1>1, <1>2, <1>3, LoopsExist
<1>5. PICK f : IsLoop(f, D, Mixing, first, step)
  BY <1>4
<1>6. f \in [0..D -> Mixing] /\ f[0] = first /\ \A n \in 1..D : f[n] = step[<<n, f[n - 1]>>]
  <2> HIDE DEF step
  <2> QED
    BY <1>5 DEF IsLoop
<1>7. ASSUME NEW n \in 1..D PROVE f[n] = Mixed(f[n - 1], n - 1, key)
  <2>1. n - 1 \in 0..D /\ n \in Nat
    BY <1>1
  <2>2. <<n, f[n - 1]>> \in Nat \X Mixing
    BY <1>6, <2>1
  <2>3. step[<<n, f[n - 1]>>] = next(<<n, f[n - 1]>>)
    <3> HIDE DEF next
    <3> QED
      BY <2>2
  <2>4. next(<<n, f[n - 1]>>) = Mixed(f[n - 1], n - 1, key)
    OBVIOUS
  <2> HIDE DEF step, next
  <2> QED
    BY <1>6, <2>3, <2>4
<1>8. f = [n \in 0..D |-> IF n = 0 THEN first ELSE Mixed(f[n - 1], n - 1, key)]
  <2>1. f = [n \in 0..D |-> f[n]]
    BY <1>6
  <2>2. ASSUME NEW n \in 0..D PROVE f[n] = IF n = 0 THEN first ELSE Mixed(f[n - 1], n - 1, key)
    <3>1. n # 0 => n \in 1..D
      BY <1>1
    <3> QED
      BY <1>6, <1>7, <3>1
  <2> QED
    BY <2>1, <2>2
<1>9. \E g : MixWalk(g, key)
  <2>1. MixWalk(f, key)
    BY <1>8 DEF MixWalk
  <2> QED
    BY <2>1
<1>10. PICK g : MixWalk(g, key) /\ WithKey(key) = [data |-> g[D].data, x |-> 0, y |-> 0]
  BY <1>9, MixWalks
<1>11. \A n \in 0..D : g[n] = IF n = 0 THEN first ELSE Mixed(g[n - 1], n - 1, key)
  BY <1>10 DEF MixWalk
<1> DEFINE Good == {n \in 0..D : g[n] \in Mixing}
<1>12. 0 \in Good
  BY <1>1, <1>2, <1>11
<1>13. ASSUME NEW n \in 0..(D - 1), n \in Good PROVE n + 1 \in Good
  <2>1. n + 1 \in 0..D /\ n + 1 # 0 /\ (n + 1) - 1 = n /\ n \in Bytes
    BY <1>1 DEF Bytes
  <2>2. g[n + 1] = Mixed(g[n], n, key)
    BY <1>11, <2>1
  <2>3. g[n] \in Mixing
    BY <1>13
  <2> QED
    BY <2>1, <2>2, <2>3, MixedIs
<1>14. g[D] \in Mixing
  <2> PICK G : G = Good
    OBVIOUS
  <2>1. 0 \in G /\ \A n \in 0..(D - 1) : n \in G => n + 1 \in G
    BY <1>12, <1>13
  <2>2. \A n \in 0..D : n \in G
    <3> HIDE DEF Good
    <3> QED
      BY <1>1, <2>1, UpTo
  <2> QED
    BY <1>1, <2>2
<1> QED
  BY <1>1, <1>10, <1>14 DEF Rc4, Mixing

-----------------------------------------------------------------------------
\* The states the key stream goes through, whatever the bytes are
KeyStream(g, N, r) ==
    /\ \A n \in 0..N : g[n] \in Rc4
    /\ g[0] = r /\ \A n \in 1..N : g[n] = Stepped(g[n - 1])

LEMMA KeyStreamExists ==
  ASSUME NEW r \in Rc4, NEW N \in Nat
  PROVE  \E g : KeyStream(g, N, r)
<1> DEFINE step == [z \in Nat \X Rc4 |-> Stepped(z[2])]
<1>1. step \in [Nat \X Rc4 -> Rc4]
  BY SteppedIs
<1>2. \E g : IsLoop(g, N, Rc4, r, step)
  <2> HIDE DEF step
  <2> QED
    BY <1>1, LoopsExist
<1>3. PICK g : IsLoop(g, N, Rc4, r, step)
  BY <1>2
<1>4. g \in [0..N -> Rc4] /\ g[0] = r /\ \A n \in 1..N : g[n] = step[<<n, g[n - 1]>>]
  <2> HIDE DEF step
  <2> QED
    BY <1>3 DEF IsLoop
<1>5. ASSUME NEW n \in 1..N PROVE g[n] = Stepped(g[n - 1])
  <2>1. n - 1 \in 0..N /\ n \in Nat
    OBVIOUS
  <2>2. <<n, g[n - 1]>> \in Nat \X Rc4
    BY <1>4, <2>1
  <2>3. step[<<n, g[n - 1]>>] = Stepped(g[n - 1])
    BY <2>2
  <2> HIDE DEF step
  <2> QED
    BY <1>4, <2>3
<1> QED
  BY <1>4, <1>5 DEF KeyStream

\* It can be entered anywhere.
From(g, m, k) == [n \in 0..k |-> g[m + n]]

LEMMA KeyStreamFrom ==
  ASSUME NEW r, NEW m \in Nat, NEW k \in Nat, NEW N \in Nat, m + k <= N, NEW g, KeyStream(g, N, r)
  PROVE  KeyStream(From(g, m, k), k, g[m]) /\ KeyStream(g, m, r)
<1>1. (\A n \in 0..N : g[n] \in Rc4) /\ g[0] = r /\ \A n \in 1..N : g[n] = Stepped(g[n - 1])
  BY DEF KeyStream
<1>2. PICK h : h = From(g, m, k)
  OBVIOUS
<1>3. \A n \in 0..k : h[n] = g[m + n] /\ m + n \in 0..N
  BY <1>2 DEF From
<1>4. \A n \in 0..k : h[n] \in Rc4
  BY <1>1, <1>3
<1>5. h[0] = g[m]
  BY <1>3
<1>6. ASSUME NEW n \in 1..k PROVE h[n] = Stepped(h[n - 1])
  <2>1. /\ n \in 0..k /\ n - 1 \in 0..k /\ m + n \in 1..N
        /\ m + (n - 1) = (m + n) - 1
    OBVIOUS
  <2>2. h[n] = g[m + n] /\ h[n - 1] = g[(m + n) - 1]
    BY <1>3, <2>1
  <2> QED
    BY <1>1, <2>1, <2>2
<1>7. KeyStream(g, m, r)
  BY <1>1 DEF KeyStream
<1> QED
  BY <1>7, <1>2, <1>4, <1>5, <1>6 DEF KeyStream


\* A byte mixed twice with the same is itself.
Masked(bytes, g, n) == [i \in 1..n |-> XorByte(bytes[i], KeyByte(g[i]))]

LEMMA MaskedIs ==
  ASSUME NEW bytes \in Seq(Bytes), NEW n \in Nat, n <= Len(bytes), NEW g, \A i \in 0..n : g[i] \in Rc4
  PROVE  /\ Masked(bytes, g, n) \in Seq(Bytes) /\ Len(Masked(bytes, g, n)) = n
         /\ \A i \in 1..n : Masked(bytes, g, n)[i] = XorByte(bytes[i], KeyByte(g[i]))
         /\ \A i \in 1..n : XorByte(Masked(bytes, g, n)[i], KeyByte(g[i])) = bytes[i]
<1>1. ASSUME NEW i \in 1..n
      PROVE  /\ XorByte(bytes[i], KeyByte(g[i])) \in Bytes
             /\ XorByte(XorByte(bytes[i], KeyByte(g[i])), KeyByte(g[i])) = bytes[i]
  <2>1. i \in 0..n /\ i \in 1..Len(bytes)
    OBVIOUS
  <2>2. bytes[i] \in Bytes
    BY <2>1, ElementOfSeq
  <2>3. KeyByte(g[i]) \in Bytes
    BY <2>1, SteppedIs
  <2> QED
    BY <2>2, <2>3, XorAssumption
<1>2. PICK m : m = Masked(bytes, g, n)
  OBVIOUS
<1>3. m = [i \in 1..n |-> XorByte(bytes[i], KeyByte(g[i]))]
  BY <1>2 DEF Masked
<1>4. m \in [1..n -> Bytes]
  BY <1>1, <1>3
<1>5. m \in Seq(Bytes) /\ Len(m) = n
  <2>1. m \in Seq(Bytes)
    BY <1>4, SeqDef
  <2>2. DOMAIN m = 1..n
    BY <1>4
  <2> QED
    BY <2>1, <2>2, LenProperties
<1>6. \A i \in 1..n : m[i] = XorByte(bytes[i], KeyByte(g[i]))
  BY <1>3
<1> QED
  BY <1>1, <1>2, <1>5, <1>6

ByteWalk(f, r, bytes) ==
    f = [n \in 0..Len(bytes) |-> IF n = 0 THEN [rc4 |-> r, out |-> <<>>] ELSE OneByte(f[n - 1], bytes[n])]

LEMMA ByteWalks ==
  ASSUME NEW r, NEW bytes
  PROVE  Processed(r, bytes) = (CHOOSE f : ByteWalk(f, r, bytes))[Len(bytes)]
BY DEF Processed, ByteWalk, Places

\* process() mixes each byte with the next of the key stream.
LEMMA ProcessedIs ==
  ASSUME NEW bytes \in Seq(Bytes), NEW r, NEW g, KeyStream(g, Len(bytes), r)
  PROVE  Processed(r, bytes) = [rc4 |-> g[Len(bytes)], out |-> Masked(bytes, g, Len(bytes))]
<1>1. PICK l : l = Len(bytes) /\ l \in Nat
  BY LenProperties
<1>2. (\A n \in 0..l : g[n] \in Rc4) /\ g[0] = r /\ \A n \in 1..l : g[n] = Stepped(g[n - 1])
  BY <1>1 DEF KeyStream
<1> DEFINE then(n) == [rc4 |-> g[n], out |-> Masked(bytes, g, n)]
<1>3. then(0) = [rc4 |-> r, out |-> <<>>]
  <2>1. Masked(bytes, g, 0) \in Seq(Bytes) /\ Len(Masked(bytes, g, 0)) = 0
    BY <1>1, <1>2, MaskedIs
  <2>2. Masked(bytes, g, 0) = <<>>
    BY <2>1, EmptySeq
  <2> QED
    BY <1>2, <2>2
<1>4. ASSUME NEW n \in 1..l PROVE then(n) = OneByte(then(n - 1), bytes[n])
  <2>1. /\ n - 1 \in Nat /\ n \in Nat /\ n - 1 <= l /\ n <= l /\ n - 1 \in 0..l
        /\ (n - 1) + 1 = n
    BY <1>1
  <2>2. PICK a, b, x : a = Masked(bytes, g, n - 1) /\ b = Masked(bytes, g, n) /\ x = XorByte(bytes[n], KeyByte(g[n]))
    OBVIOUS
  <2>3. /\ a \in Seq(Bytes) /\ Len(a) = n - 1
        /\ \A i \in 1..(n - 1) : a[i] = XorByte(bytes[i], KeyByte(g[i]))
    <3>1. \A i \in 0..(n - 1) : i \in 0..l
      BY <1>1, <2>1
    <3>2. \A i \in 0..(n - 1) : g[i] \in Rc4
      BY <1>2, <3>1
    <3> QED
      BY <1>1, <2>1, <2>2, <3>2, MaskedIs
  <2>4. /\ b \in Seq(Bytes) /\ Len(b) = n
        /\ \A i \in 1..n : b[i] = XorByte(bytes[i], KeyByte(g[i]))
    <3>1. \A i \in 0..n : i \in 0..l
      BY <1>1, <2>1
    <3>2. \A i \in 0..n : g[i] \in Rc4
      BY <1>2, <3>1
    <3> QED
      BY <1>1, <2>1, <2>2, <3>2, MaskedIs
  <2>5. x \in Bytes
    <3>1. b[n] = x /\ n \in 1..Len(b)
      BY <2>1, <2>2, <2>4
    <3> QED
      BY <2>4, <3>1, ElementOfSeq
  <2>6. b = Append(a, x)
    <3>1. /\ Append(a, x) \in Seq(Bytes) /\ Len(Append(a, x)) = n
          /\ \A i \in 1..(n - 1) : Append(a, x)[i] = a[i]
          /\ Append(a, x)[n] = x
      BY <2>1, <2>3, <2>5, AppendProperties
    <3>2. ASSUME NEW i \in 1..n PROVE b[i] = Append(a, x)[i]
      <4>1. CASE i = n
        BY <2>2, <2>4, <3>1, <4>1
      <4>2. CASE i # n
        <5>1. i \in 1..(n - 1)
          BY <2>1, <4>2
        <5> QED
          BY <2>3, <2>4, <3>1, <5>1
      <4> QED
        BY <4>1, <4>2
    <3> QED
      BY <2>4, <3>1, <3>2, SeqEqual
  <2>7. g[n] = Stepped(g[n - 1])
    BY <1>2
  <2> QED
    BY <2>2, <2>6, <2>7 DEF OneByte
<1> HIDE DEF then
<1>5. PICK h : h = [n \in 0..l |-> then(n)]
  OBVIOUS
<1>6. ByteWalk(h, r, bytes)
  <2>1. ASSUME NEW n \in 0..l
        PROVE  then(n) = IF n = 0 THEN [rc4 |-> r, out |-> <<>>] ELSE OneByte(h[n - 1], bytes[n])
    <3>1. CASE n = 0
      BY <1>3, <3>1
    <3>2. CASE n # 0
      <4>1. n \in 1..l /\ n - 1 \in 0..l
        BY <1>1, <3>2
      <4>2. h[n - 1] = then(n - 1)
        BY <1>5, <4>1
      <4> QED
        BY <1>4, <3>2, <4>1, <4>2
    <3> QED
      BY <3>1, <3>2
  <2>2. h = [n \in 0..l |-> IF n = 0 THEN [rc4 |-> r, out |-> <<>>] ELSE OneByte(h[n - 1], bytes[n])]
    BY <1>5, <2>1
  <2> QED
    BY <1>1, <2>2 DEF ByteWalk
<1>7. PICK f : ByteWalk(f, r, bytes) /\ Processed(r, bytes) = f[l]
  <2>1. \E f : ByteWalk(f, r, bytes)
    BY <1>6
  <2> QED
    BY <1>1, <2>1, ByteWalks
<1>8. \A n \in 0..l : f[n] = IF n = 0 THEN [rc4 |-> r, out |-> <<>>] ELSE OneByte(f[n - 1], bytes[n])
  BY <1>1, <1>7 DEF ByteWalk
<1>9. f[l] = then(l)
  <2> PICK G : G = {n \in 0..l : f[n] = then(n)}
    OBVIOUS
  <2>1. 0 \in G
    BY <1>1, <1>3, <1>8
  <2>2. ASSUME NEW n \in 0..(l - 1), n \in G PROVE n + 1 \in G
    <3>1. n + 1 \in 0..l /\ n + 1 \in 1..l /\ n + 1 # 0 /\ (n + 1) - 1 = n
      BY <1>1
    <3>2. f[n + 1] = OneByte(f[n], bytes[n + 1]) /\ f[n] = then(n)
      BY <1>8, <2>2, <3>1
    <3>3. then(n + 1) = OneByte(then(n), bytes[n + 1])
      BY <1>4, <3>1
    <3> QED
      BY <3>1, <3>2, <3>3
  <2>3. \A n \in 0..l : n \in G
    BY <1>1, <2>1, <2>2, UpTo
  <2> QED
    BY <1>1, <2>3
<1> QED
  BY <1>1, <1>7, <1>9 DEF then

-----------------------------------------------------------------------------
(* Decrypting what is under way gives what has not been read, and brings   *)
(* that side to the place of the other.                                    *)
Deciphers(d, u, e, rest) == Processed(d, u) = [rc4 |-> e, out |-> rest]

CipherInv ==
    /\ decrypting \in Rc4
    /\ under \in Seq(Bytes) /\ plain \in Seq(Bytes) /\ read \in Seq(Bytes)
    /\ \E rest \in Seq(Bytes) : Deciphers(decrypting, under, encrypting, rest) /\ read \o rest = plain

\* Nothing is done of no bytes.
LEMMA NothingDone ==
  ASSUME NEW d \in Rc4
  PROVE  Deciphers(d, <<>>, d, <<>>)
<1>1. \E g : KeyStream(g, 0, d)
  BY KeyStreamExists
<1>2. PICK g : KeyStream(g, 0, d)
  BY <1>1
<1>3. g[0] = d /\ \A i \in 0..0 : g[i] \in Rc4
  BY <1>2 DEF KeyStream
<1>4. <<>> \in Seq(Bytes) /\ Len(<<>>) = 0
  BY EmptySeq
<1>5. Processed(d, <<>>) = [rc4 |-> g[0], out |-> Masked(<<>>, g, 0)]
  BY <1>2, <1>4, ProcessedIs
<1>6. Masked(<<>>, g, 0) \in Seq(Bytes) /\ Len(Masked(<<>>, g, 0)) = 0
  <2> PICK z : z = <<>>
    OBVIOUS
  <2>1. z \in Seq(Bytes) /\ 0 \in Nat /\ 0 <= Len(z)
    BY <1>4
  <2>2. Masked(z, g, 0) \in Seq(Bytes) /\ Len(Masked(z, g, 0)) = 0
    BY <1>3, <2>1, MaskedIs
  <2> QED
    BY <2>2
<1>7. Masked(<<>>, g, 0) = <<>>
  BY <1>6, EmptySeq
<1> QED
  BY <1>3, <1>5, <1>7 DEF Deciphers

\* encrypt() goes on where the decrypting side will be.
LEMMA EncryptedIs ==
  ASSUME NEW d \in Rc4, NEW u \in Seq(Bytes), NEW e, NEW rest \in Seq(Bytes), Deciphers(d, u, e, rest),
         NEW bytes \in Seq(Bytes), NEW p, p = Processed(e, bytes)
  PROVE  /\ p.out \in Seq(Bytes)
         /\ Deciphers(d, u \o p.out, p.rc4, rest \o bytes)
<1>1. PICK m, k : m = Len(u) /\ m \in Nat /\ k = Len(bytes) /\ k \in Nat
  BY LenProperties
<1>2. \E g : KeyStream(g, m + k, d)
  BY <1>1, KeyStreamExists
<1>3. PICK g : KeyStream(g, m + k, d)
  BY <1>2
<1>4. \A n \in 0..(m + k) : g[n] \in Rc4
  BY <1>3 DEF KeyStream
<1>5. PICK h : h = From(g, m, k)
  OBVIOUS
<1>6. KeyStream(h, k, g[m]) /\ KeyStream(g, m, d)
  BY <1>1, <1>3, <1>5, KeyStreamFrom
<1>7. \A n \in 0..k : h[n] = g[m + n] /\ h[n] \in Rc4
  BY <1>1, <1>4, <1>5 DEF From
<1>8. e = g[m] /\ rest = Masked(u, g, m)
  <2>1. Processed(d, u) = [rc4 |-> g[m], out |-> Masked(u, g, m)]
    BY <1>1, <1>6, ProcessedIs
  <2>2. Processed(d, u) = [rc4 |-> e, out |-> rest]
    BY DEF Deciphers
  <2> QED
    BY <2>1, <2>2
<1>9. p = [rc4 |-> h[k], out |-> Masked(bytes, h, k)]
  BY <1>1, <1>6, <1>8, ProcessedIs
<1>10. PICK o : o = p.out /\ o = Masked(bytes, h, k)
  BY <1>9
<1>11. /\ o \in Seq(Bytes) /\ Len(o) = k
       /\ \A i \in 1..k : XorByte(o[i], KeyByte(h[i])) = bytes[i]
  BY <1>1, <1>7, <1>10, MaskedIs
<1>12. PICK v : v = u \o o
  OBVIOUS
<1>13. /\ v \in Seq(Bytes) /\ Len(v) = m + k
       /\ \A i \in 1..(m + k) : v[i] = IF i <= m THEN u[i] ELSE o[i - m]
  <2>1. /\ u \o o \in Seq(Bytes) /\ Len(u \o o) = Len(u) + Len(o)
        /\ \A i \in 1 .. Len(u) + Len(o) : (u \o o)[i] = IF i <= Len(u) THEN u[i] ELSE o[i - Len(u)]
    BY <1>11, ConcatProperties
  <2> QED
    BY <1>1, <1>11, <1>12, <2>1
<1>14. Processed(d, v) = [rc4 |-> g[m + k], out |-> Masked(v, g, m + k)]
  BY <1>3, <1>13, ProcessedIs
<1>15. PICK w : w = Masked(v, g, m + k)
  OBVIOUS
<1>16. /\ w \in Seq(Bytes) /\ Len(w) = m + k
       /\ \A i \in 1..(m + k) : w[i] = XorByte(v[i], KeyByte(g[i]))
  BY <1>1, <1>4, <1>13, <1>15, MaskedIs
<1>17. /\ Len(rest) = m
       /\ \A i \in 1..m : rest[i] = XorByte(u[i], KeyByte(g[i]))
  <2>1. \A i \in 0..m : i \in 0..(m + k)
    BY <1>1
  <2>2. \A i \in 0..m : g[i] \in Rc4
    BY <1>4, <2>1
  <2> QED
    BY <1>1, <1>8, <2>2, MaskedIs
<1>18. /\ rest \o bytes \in Seq(Bytes) /\ Len(rest \o bytes) = m + k
       /\ \A i \in 1..(m + k) : (rest \o bytes)[i] = IF i <= m THEN rest[i] ELSE bytes[i - m]
  <2>1. /\ rest \o bytes \in Seq(Bytes) /\ Len(rest \o bytes) = Len(rest) + Len(bytes)
        /\ \A i \in 1 .. Len(rest) + Len(bytes) :
             (rest \o bytes)[i] = IF i <= Len(rest) THEN rest[i] ELSE bytes[i - Len(rest)]
    BY ConcatProperties
  <2> QED
    BY <1>1, <1>17, <2>1
<1>19. ASSUME NEW i \in 1..(m + k) PROVE w[i] = (rest \o bytes)[i]
  <2>1. CASE i <= m
    <3>1. i \in 1..m
      BY <1>1, <2>1
    <3>2. v[i] = u[i] /\ w[i] = XorByte(v[i], KeyByte(g[i]))
      BY <1>13, <1>16, <2>1
    <3>3. rest[i] = XorByte(u[i], KeyByte(g[i]))
      BY <1>17, <3>1
    <3>4. (rest \o bytes)[i] = rest[i]
      BY <1>18, <2>1
    <3> QED
      BY <3>2, <3>3, <3>4
  <2>2. CASE ~(i <= m)
    <3>1. i - m \in 1..k /\ i - m \in 0..k /\ m + (i - m) = i
      BY <1>1, <2>2
    <3>2. h[i - m] = g[i]
      BY <1>7, <3>1
    <3>3. XorByte(o[i - m], KeyByte(g[i])) = bytes[i - m]
      BY <1>11, <3>1, <3>2
    <3> QED
      BY <1>13, <1>16, <1>18, <2>2, <3>3
  <2> QED
    BY <2>1, <2>2
<1>20. w = rest \o bytes
  BY <1>16, <1>18, <1>19, SeqEqual
<1>21. p.rc4 = g[m + k]
  BY <1>1, <1>7, <1>9
<1> QED
  BY <1>10, <1>11, <1>12, <1>14, <1>15, <1>20, <1>21 DEF Deciphers

Decrypted(p, u, n, e, rest) ==
    LET under2 == SubSeq(u, n + 1, Len(u))
    IN  /\ p.rc4 \in Rc4 /\ p.out \in Seq(Bytes) /\ under2 \in Seq(Bytes)
        /\ \E left \in Seq(Bytes) : Deciphers(p.rc4, under2, e, left) /\ p.out \o left = rest

\* decrypt() of the next bytes leaves the others as they would have been read.
LEMMA DecryptedIs ==
  ASSUME NEW d \in Rc4, NEW u \in Seq(Bytes), NEW e, NEW rest \in Seq(Bytes), Deciphers(d, u, e, rest),
         NEW n \in Nat, n <= Len(u), NEW p, p = Processed(d, SubSeq(u, 1, n))
  PROVE  Decrypted(p, u, n, e, rest)
<1>1. PICK m, k : m = Len(u) /\ m \in Nat /\ k = m - n /\ k \in Nat /\ n + k = m
  <2>1. Len(u) \in Nat
    BY LenProperties
  <2>2. Len(u) - n \in Nat /\ n + (Len(u) - n) = Len(u)
    BY <2>1
  <2> QED
    BY <2>1, <2>2
<1>2. \E g : KeyStream(g, m, d)
  BY <1>1, KeyStreamExists
<1>3. PICK g : KeyStream(g, m, d)
  BY <1>2
<1>4. \A i \in 0..m : g[i] \in Rc4
  BY <1>3 DEF KeyStream
<1>5. PICK h : h = From(g, n, k)
  OBVIOUS
<1>6. KeyStream(h, k, g[n]) /\ KeyStream(g, n, d)
  BY <1>1, <1>3, <1>5, KeyStreamFrom
<1>7. \A i \in 0..k : h[i] = g[n + i] /\ h[i] \in Rc4
  BY <1>1, <1>4, <1>5 DEF From
<1>8. e = g[m] /\ rest = Masked(u, g, m)
  <2>1. Processed(d, u) = [rc4 |-> g[m], out |-> Masked(u, g, m)]
    BY <1>1, <1>3, ProcessedIs
  <2>2. Processed(d, u) = [rc4 |-> e, out |-> rest]
    BY DEF Deciphers
  <2> QED
    BY <2>1, <2>2
<1>9. Len(rest) = m /\ \A i \in 1..m : rest[i] = XorByte(u[i], KeyByte(g[i]))
  BY <1>1, <1>4, <1>8, MaskedIs
<1>10. PICK a, b : a = SubSeq(u, 1, n) /\ b = SubSeq(u, n + 1, Len(u))
  OBVIOUS
<1>11. a \in Seq(Bytes) /\ Len(a) = n /\ \A i \in 1..n : a[i] = u[i]
  <2>1. /\ SubSeq(u, 0 + 1, n) \in Seq(Bytes) /\ Len(SubSeq(u, 0 + 1, n)) = n - 0
        /\ \A i \in 1..(n - 0) : SubSeq(u, 0 + 1, n)[i] = u[0 + i]
    BY <1>1, PartIs
  <2> QED
    BY <1>10, <2>1
<1>12. b \in Seq(Bytes) /\ Len(b) = k /\ \A i \in 1..k : b[i] = u[n + i]
  <2>1. /\ SubSeq(u, n + 1, m) \in Seq(Bytes) /\ Len(SubSeq(u, n + 1, m)) = m - n
        /\ \A i \in 1..(m - n) : SubSeq(u, n + 1, m)[i] = u[n + i]
    BY <1>1, PartIs
  <2> QED
    BY <1>1, <1>10, <2>1
<1>13. p = [rc4 |-> g[n], out |-> Masked(a, g, n)]
  <2>1. a \in Seq(Bytes) /\ Len(a) = n
    BY <1>11
  <2>2. KeyStream(g, Len(a), d)
    BY <1>6, <2>1
  <2>3. Processed(d, a) = [rc4 |-> g[Len(a)], out |-> Masked(a, g, Len(a))]
    BY <2>1, <2>2, ProcessedIs
  <2> QED
    BY <1>10, <2>1, <2>3
<1>14. PICK o : o = p.out /\ o = Masked(a, g, n)
  BY <1>13
<1>15. o \in Seq(Bytes) /\ Len(o) = n /\ \A i \in 1..n : o[i] = XorByte(a[i], KeyByte(g[i]))
  <2>1. \A i \in 0..n : i \in 0..m
    BY <1>1
  <2>2. \A i \in 0..n : g[i] \in Rc4
    BY <1>4, <2>1
  <2> QED
    BY <1>11, <1>14, <2>2, MaskedIs
<1>16. Processed(g[n], b) = [rc4 |-> h[k], out |-> Masked(b, h, k)]
  BY <1>6, <1>12, ProcessedIs
<1>17. PICK l : l = Masked(b, h, k)
  OBVIOUS
<1>18. l \in Seq(Bytes) /\ Len(l) = k /\ \A i \in 1..k : l[i] = XorByte(b[i], KeyByte(h[i]))
  <2>1. k <= Len(b) /\ \A i \in 0..k : h[i] \in Rc4
    BY <1>1, <1>7, <1>12
  <2>2. b \in Seq(Bytes) /\ k \in Nat
    BY <1>1, <1>12
  <2>3. /\ Masked(b, h, k) \in Seq(Bytes) /\ Len(Masked(b, h, k)) = k
        /\ \A i \in 1..k : Masked(b, h, k)[i] = XorByte(b[i], KeyByte(h[i]))
    BY <2>1, <2>2, MaskedIs
  <2> QED
    BY <1>17, <2>3
<1>19. /\ o \o l \in Seq(Bytes) /\ Len(o \o l) = m
       /\ \A i \in 1..m : (o \o l)[i] = IF i <= n THEN o[i] ELSE l[i - n]
  BY <1>1, <1>15, <1>18, ConcatProperties
<1>20. ASSUME NEW i \in 1..m PROVE (o \o l)[i] = rest[i]
  <2>1. CASE i <= n
    <3>1. i \in 1..n
      BY <2>1
    <3> QED
      BY <1>9, <1>11, <1>15, <1>19, <2>1, <3>1
  <2>2. CASE ~(i <= n)
    <3>1. i - n \in 1..k /\ i - n \in 0..k /\ n + (i - n) = i
      BY <1>1, <2>2
    <3>2. h[i - n] = g[i] /\ b[i - n] = u[i]
      BY <1>7, <1>12, <3>1
    <3>3. l[i - n] = XorByte(u[i], KeyByte(g[i]))
      BY <1>18, <3>1, <3>2
    <3> QED
      BY <1>9, <1>19, <2>2, <3>3
  <2> QED
    BY <2>1, <2>2
<1>21. o \o l = rest
  BY <1>9, <1>19, <1>20, SeqEqual
<1>22. h[k] = e /\ g[n] \in Rc4
  BY <1>1, <1>4, <1>7, <1>8
<1>23. p.rc4 = g[n]
  BY <1>13
<1>24. Deciphers(p.rc4, b, e, l)
  BY <1>16, <1>17, <1>22, <1>23 DEF Deciphers
<1> QED
  BY <1>10, <1>12, <1>14, <1>15, <1>18, <1>21, <1>22, <1>23, <1>24 DEF Decrypted

LEMMA CipherStarts == CipherInit => CipherInv
<1> SUFFICES ASSUME CipherInit PROVE CipherInv
  OBVIOUS
<1>1. PICK key \in KeyTexts : encrypting = WithKey(key) /\ decrypting = WithKey(key)
  BY DEF CipherInit
<1>2. decrypting \in Rc4 /\ encrypting = decrypting
  BY <1>1, WithKeyIs
<1>3. plain = <<>> /\ under = <<>> /\ read = <<>> /\ <<>> \in Seq(Bytes) /\ <<>> \o <<>> = <<>>
  BY DEF CipherInit
<1>4. Deciphers(decrypting, under, encrypting, <<>>)
  BY <1>2, <1>3, NothingDone
<1> QED
  BY <1>2, <1>3, <1>4 DEF CipherInv

LEMMA CipherSteps == CipherInv /\ [CipherNext]_cipherVars => CipherInv'
<1> SUFFICES ASSUME CipherInv, [CipherNext]_cipherVars PROVE CipherInv'
  OBVIOUS
<1>1. PICK rest \in Seq(Bytes) : Deciphers(decrypting, under, encrypting, rest) /\ read \o rest = plain
  BY DEF CipherInv
<1>2. /\ decrypting \in Rc4
      /\ under \in Seq(Bytes) /\ plain \in Seq(Bytes) /\ read \in Seq(Bytes)
  BY DEF CipherInv
<1>3. ASSUME NEW key \in KeyTexts, SetKeys(key) PROVE CipherInv'
  <2>1. decrypting' = WithKey(key) /\ encrypting' = decrypting'
    BY <1>3 DEF SetKeys
  <2>2. decrypting' \in Rc4
    BY <2>1, WithKeyIs
  <2>3. plain' = <<>> /\ under' = <<>> /\ read' = <<>> /\ <<>> \in Seq(Bytes) /\ <<>> \o <<>> = <<>>
    BY <1>3 DEF SetKeys
  <2>4. Deciphers(decrypting', under', encrypting', <<>>)
    BY <2>1, <2>2, <2>3, NothingDone
  <2> QED
    BY <2>2, <2>3, <2>4 DEF CipherInv
<1>4. ASSUME NEW bytes \in Seq(Bytes), Encrypt(bytes) PROVE CipherInv'
  <2>1. PICK p : p = Processed(encrypting, bytes)
    OBVIOUS
  <2>2. /\ encrypting' = p.rc4 /\ under' = under \o p.out /\ plain' = plain \o bytes
        /\ decrypting' = decrypting /\ read' = read
    BY <1>4, <2>1 DEF Encrypt
  <2>3. p.out \in Seq(Bytes) /\ Deciphers(decrypting, under \o p.out, p.rc4, rest \o bytes)
    BY <1>1, <1>2, <2>1, EncryptedIs
  <2>4. /\ under \o p.out \in Seq(Bytes) /\ plain \o bytes \in Seq(Bytes) /\ rest \o bytes \in Seq(Bytes)
        /\ (read \o rest) \o bytes = read \o (rest \o bytes)
    <3>1. p.out \in Seq(Bytes)
      BY <2>3
    <3>2. /\ under \o p.out \in Seq(Bytes) /\ plain \o bytes \in Seq(Bytes)
          /\ rest \o bytes \in Seq(Bytes)
      BY <1>2, <3>1, ConcatProperties
    <3>3. Associate(read, rest, bytes)
      BY <1>2, Associative
    <3> QED
      BY <3>2, <3>3 DEF Associate
  <2>5. Deciphers(decrypting', under', encrypting', rest \o bytes)
    BY <2>2, <2>3
  <2> QED
    BY <1>1, <1>2, <2>2, <2>4, <2>5 DEF CipherInv
<1>5. ASSUME NEW n \in Nat, Decrypt(n) PROVE CipherInv'
  <2>1. PICK p : p = Processed(decrypting, SubSeq(under, 1, n))
    OBVIOUS
  <2>2. /\ n <= Len(under) /\ decrypting' = p.rc4 /\ read' = read \o p.out
        /\ under' = SubSeq(under, n + 1, Len(under))
        /\ encrypting' = encrypting /\ plain' = plain
    BY <1>5, <2>1 DEF Decrypt
  <2>3. /\ p.rc4 \in Rc4 /\ p.out \in Seq(Bytes) /\ SubSeq(under, n + 1, Len(under)) \in Seq(Bytes)
        /\ \E left \in Seq(Bytes) : /\ Deciphers(p.rc4, SubSeq(under, n + 1, Len(under)), encrypting, left)
                                    /\ p.out \o left = rest
    <3>1. Decrypted(p, under, n, encrypting, rest)
      BY <1>1, <1>2, <2>1, <2>2, DecryptedIs
    <3> QED
      BY <3>1 DEF Decrypted
  <2>4. PICK left \in Seq(Bytes) : /\ Deciphers(decrypting', under', encrypting', left)
                                   /\ p.out \o left = rest
    BY <2>2, <2>3
  <2>5. /\ read \o p.out \in Seq(Bytes)
        /\ (read \o p.out) \o left = read \o (p.out \o left)
    <3>1. read \in Seq(Bytes) /\ p.out \in Seq(Bytes)
      BY <1>2, <2>3
    <3>2. read \o p.out \in Seq(Bytes)
      BY <3>1, ConcatProperties
    <3>3. left \in Seq(Bytes)
      BY <2>4
    <3>4. (read \o p.out) \o left = read \o (p.out \o left)
      <4>1. Associate(read, p.out, left)
        BY <3>1, <3>3, Associative
      <4> QED
        BY <4>1 DEF Associate
    <3> QED
      BY <3>2, <3>4
  <2> QED
    BY <1>1, <1>2, <2>2, <2>3, <2>4, <2>5 DEF CipherInv
<1>6. CASE UNCHANGED cipherVars
  BY <1>6 DEF CipherInv, cipherVars
<1>7. CASE CipherNext
  <2>1. \A n \in 1..MaxPiece : n \in Nat /\ [1..n -> Bytes] \subseteq Seq(Bytes)
    BY SeqDef
  <2> QED
    BY <1>3, <1>4, <1>5, <1>7, <2>1 DEF CipherNext
<1> QED
  BY <1>6, <1>7

(* What one side encrypted the other reads, whatever the key, however the  *)
(* stream is cut into calls of encrypt() and decrypt(), and however often  *)
(* both set another key between two streams.                               *)
THEOREM DecipheredCorrect ==
  CipherSpec => []Deciphered
<1>1. CipherInv => Deciphered
  <2> SUFFICES ASSUME CipherInv PROVE Deciphered
    OBVIOUS
  <2>1. PICK rest \in Seq(Bytes) : Deciphers(decrypting, under, encrypting, rest) /\ read \o rest = plain
    BY DEF CipherInv
  <2>2. Processed(decrypting, under).out = rest
    BY <2>1 DEF Deciphers
  <2>3. ASSUME under = <<>> PROVE decrypting = encrypting
    <3>1. decrypting \in Rc4
      BY DEF CipherInv
    <3>2. Deciphers(decrypting, <<>>, decrypting, <<>>)
      BY <3>1, NothingDone
    <3>3. [rc4 |-> decrypting, out |-> <<>>] = [rc4 |-> encrypting, out |-> rest]
      BY <2>1, <2>3, <3>2 DEF Deciphers
    <3> QED
      BY <3>3
  <2> QED
    BY <2>1, <2>2, <2>3 DEF Deciphered
<1> QED
  BY <1>1, CipherStarts, CipherSteps, PTL DEF CipherSpec
=============================================================================
