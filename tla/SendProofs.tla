----------------------------- MODULE SendProofs -----------------------------
(***************************************************************************)
(* Two properties of sending, for any sizes of buffers and messages and    *)
(* any number of calls.                                                    *)
(*                                                                         *)
(* Bytes handed to send_msg() never lie there without a write under way    *)
(* that takes them, but for the calls that come between the last look of   *)
(* _handle_write() and its clearing of m_writeing_atomic.                  *)
(*                                                                         *)
(* They leave the socket as the calls handed them over, unless one of the  *)
(* code's mistakes with a header has happened.  This rests on lemmas about *)
(* the bytes of messages, whole and cut, in the queue.                     *)
(***************************************************************************)
EXTENDS SendPath, SequenceLemmas

Empty == sendBuf = <<>> /\ sending = <<>> /\ sent = 0 /\ waiting = <<>>

\* The flag is set while a write or its handler is under way.
FlagTells ==
  /\ io \in {"none", "posted", "settling"}
  /\ writing = (io # "none")

\* From the handler's last look on there is nothing to send, unless a call
\* came too late for it; that a connection has ended leaves bytes behind.
NothingLeft == /\ io = "none" /\ open /\ ~overtaken => Empty
               /\ io = "settling" /\ ~overtaken => Empty

AwakeInv == FlagTells /\ NothingLeft

-----------------------------------------------------------------------------
\* What fits is not more than what there is to append.
LEMMA MinIs ==
  ASSUME NEW a \in Int, NEW b \in Int PROVE Min({a, b}) = IF a <= b THEN a ELSE b
<1>1. \E x \in {a, b} : \A y \in {a, b} : x =< y
  OBVIOUS
<1>2. Min({a, b}) \in {a, b} /\ \A y \in {a, b} : Min({a, b}) =< y
  BY <1>1 DEF Min
<1> QED
  BY <1>2

\* Taking back a message from an empty buffer leaves it empty.
LEMMA TakenBack ==
  ASSUME NEW c, NEW size \in Nat, sendBuf = <<>>, TakeBack(c, size)
  PROVE  sendBuf' = <<>>
<1> DEFINE head == SubSeq(Frame(c, size), 1, HeadFits)
           body == SubSeq(Frame(c, size), HeaderSize + 1, HeaderSize + BodyFits(size))
           buf  == Appended(c, size)
<1>1. HeaderSize = 6 /\ Room \in Nat /\ Room >= HeaderSize
  BY SendConstants DEF HeaderSize, Room
<1>2. HeadFits \in Nat /\ HeadFits <= HeaderSize /\ HeadFits <= Room
  <2>1. /\ Min({Room, HeaderSize}) \in {Room, HeaderSize}
        /\ Min({Room, HeaderSize}) <= HeaderSize
    BY <1>1, MinIs
  <2> QED
    BY <1>1, <2>1 DEF HeadFits
<1>3. BodyFits(size) \in Nat /\ BodyFits(size) <= size
  <2>1. Room - HeadFits \in Nat
    BY <1>1, <1>2
  <2>2. /\ Min({Room - HeadFits, size}) \in {Room - HeadFits, size}
        /\ Min({Room - HeadFits, size}) <= size
    BY <2>1, MinIs
  <2> QED
    BY <2>1, <2>2 DEF BodyFits
<1>4. Frame(c, size) \in Seq({c} \X Nat) /\ Len(Frame(c, size)) = HeaderSize + size
  BY <1>1 DEF Frame
<1>5. head \in Seq({c} \X Nat) /\ Len(head) = HeadFits
  BY <1>1, <1>2, <1>4
<1>6. body \in Seq({c} \X Nat) /\ Len(body) = BodyFits(size)
  BY <1>1, <1>3, <1>4
<1>7. buf = head \o body
  BY <1>5, <1>6 DEF Appended
<1>8. buf \in Seq({c} \X Nat) /\ Len(buf) = HeadFits + BodyFits(size)
  BY <1>5, <1>6, <1>7
<1> HIDE DEF buf
<1>9. sendBuf' = SubSeq(buf, 1, Len(buf) - HeaderSize - BodyFits(size))
  BY DEF TakeBack, buf
<1>10. Len(buf) - HeaderSize - BodyFits(size) <= 0
  BY <1>1, <1>2, <1>3, <1>8
<1> QED
  BY <1>1, <1>3, <1>8, <1>9, <1>10

\* A call starts the write, or comes while one is under way, or leaves the
\* buffers as they are.
LEMMA SendKeeps ==
  ASSUME AwakeInv, NEW size \in BodySizes, SendMsg(size) PROVE AwakeInv'
<1> USE DEF AwakeInv, FlagTells, NothingLeft, Empty
<1> DEFINE c == calls + 1
<1>1. open /\ size \in Nat
  BY SendConstants DEF SendMsg
<1>2. ASSUME NEW buf, StartWrite(buf), open' = open PROVE AwakeInv'
  BY <1>2 DEF StartWrite
<1>3. CASE Enqueue(c, size)
  BY <1>1, <1>3 DEF Enqueue, MustWait
<1>4. CASE WriteToBuffer(c, size) \/ WriteAndQueueRest(c, size) \/ EnqueueSwapped(c, size)
  BY <1>2, <1>4 DEF WriteToBuffer, WriteAndQueueRest, EnqueueSwapped
<1>5. CASE TakeBack(c, size)
  <2>1. sendBuf = <<>> => sendBuf' = <<>>
    BY <1>1, <1>5, TakenBack
  <2> QED
    BY <1>1, <1>5, <2>1 DEF TakeBack
<1>6. CASE Refuse
  BY <1>6 DEF Refuse, history
<1> QED
  BY <1>3, <1>4, <1>5, <1>6 DEF SendMsg

\* The handler goes on to write, or has found nothing in any of the buffers.
LEMMA HandleKeeps ==
  ASSUME AwakeInv, NEW n \in 1..BufSize, HandleWrite(n) PROVE AwakeInv'
<1> USE DEF AwakeInv, FlagTells, NothingLeft, HandleWrite
<1>1. CASE WriteGoesOn(n) \/ WriteNext(n)
  BY <1>1 DEF WriteGoesOn, WriteNext
<1>2. CASE WriteEnds(n)
  BY <1>2 DEF WriteEnds, NothingToSend, Empty
<1> QED
  BY <1>1, <1>2

LEMMA NextAwake == AwakeInv /\ [Next]_vars => AwakeInv'
<1> SUFFICES ASSUME AwakeInv, [Next]_vars PROVE AwakeInv'
  OBVIOUS
<1> USE DEF AwakeInv, FlagTells, NothingLeft, Empty
<1>1. CASE Settle
  BY <1>1 DEF Settle, buffers, history
<1>2. CASE WriteFails \/ Close
  BY <1>2 DEF WriteFails, Close, buffers, history
<1>3. CASE Recycle
  BY <1>3 DEF Recycle
<1>4. CASE UNCHANGED vars
  BY <1>4 DEF vars, buffers, history
<1> QED
  BY <1>1, <1>2, <1>3, <1>4, SendKeeps, HandleKeeps DEF Next

LEMMA NothingUnsent == Empty => Unsent = <<>>
<1> SUFFICES ASSUME Empty PROVE Unsent = <<>>
  OBVIOUS
<1>1. Encodings(0) = <<>>
  BY DEF Encodings, FlattenSeq
<1> QED
  BY <1>1 DEF Empty, Unsent

(* While a connection is open, bytes wait only when a write is under way,  *)
(* or after a call that _handle_write() overlooked (cnet_session.cpp:387), *)
(* for any sizes of the buffers and the messages.                          *)
THEOREM WriterAwakeCorrect == Spec => []WriterAwake
<1>1. Init => AwakeInv
  BY DEF Init, AwakeInv, FlagTells, NothingLeft, Empty
<1>2. AwakeInv /\ [Next]_vars => AwakeInv'
  BY NextAwake
<1>3. AwakeInv => WriterAwake
  BY NothingUnsent DEF AwakeInv, FlagTells, NothingLeft, WriterAwake
<1> QED
  BY <1>1, <1>2, <1>3, PTL DEF Spec

-----------------------------------------------------------------------------
\* What a write loses, repeats or reorders is told from the bytes: they are
\* typed, the message that is partly sent has a header of six of them, and
\* nothing is in the sending buffer unless a write of it is under way.
Byte == Nat \X Nat

Message == [head : {h \in Seq(Byte) : Len(h) = HeaderSize}, body : Seq(Byte)]

BytesTyped ==
  /\ sendBuf \in Seq(Byte) /\ sending \in Seq(Byte)
  /\ wire \in Seq(Byte) /\ due \in Seq(Byte)
  /\ waiting \in Seq(Message)
  /\ sent \in Nat /\ calls \in Nat

FlagRight == writing = (io # "none")

IdleIsEmpty == (io = "none" /\ open) \/ io = "settling" => sending = <<>> /\ sent = 0

ReadableHead == ~mangled => ~Misread(headSent)

IntactInv == BytesTyped /\ FlagRight /\ IdleIsEmpty /\ ReadableHead /\ Intact

Whole(e) == e.head \o e.body

\* What is left of the message e when s bytes of it are sent
Rest(e, s) == SubSeq(Whole(e), s + 1, Len(Whole(e)))

\* The bytes of the first n messages of w, with s bytes of the first one sent
Bytes(w, s, n) == FlattenSeq([i \in 1..n |-> Encoded(w[i], IF i = 1 THEN s ELSE 0)])

-----------------------------------------------------------------------------
LEMMA MaxOfTwo ==
  ASSUME NEW a \in Int, NEW b \in Int PROVE Max({a, b}) = IF a >= b THEN a ELSE b
<1>1. \E x \in {a, b} : \A y \in {a, b} : x >= y
  OBVIOUS
<1>2. Max({a, b}) \in {a, b} /\ \A y \in {a, b} : Max({a, b}) >= y
  BY <1>1 DEF Max
<1> QED
  BY <1>2

LEMMA MessageParts ==
  ASSUME NEW e \in Message
  PROVE  /\ e.head \in Seq(Byte) /\ Len(e.head) = 6 /\ e.body \in Seq(Byte)
         /\ Whole(e) \in Seq(Byte) /\ Len(Whole(e)) = 6 + Len(e.body)
<1> DEFINE h == e.head
           b == e.body
<1>1. h \in Seq(Byte) /\ b \in Seq(Byte)
  BY DEF Message
<1>2. Len(h) = 6
  BY DEF Message, HeaderSize
<1>3. Whole(e) = h \o b
  BY DEF Whole
<1> HIDE DEF h, b
<1>4. h \o b \in Seq(Byte) /\ Len(h \o b) = Len(h) + Len(b)
  BY <1>1
<1> QED
  BY <1>1, <1>2, <1>3, <1>4 DEF h, b

\* _msg_queue_buf() sends as many bytes of a message as are left of it ...
LEMMA EncodedLength ==
  ASSUME NEW e \in Message, NEW s \in Nat, s <= 6 + Len(e.body)
  PROVE  Encoded(e, s) \in Seq(Byte) /\ Len(Encoded(e, s)) = 6 + Len(e.body) - s
<1> DEFINE a == Max({0, HeaderSize - s})
           b == Max({0, s - HeaderSize})
           first == [k \in 1..a |-> IF s \in {0, IdSize} THEN e.head[s + k]
                                    ELSE IF s = 1 /\ k > 1 THEN e.head[s + k] ELSE Junk]
           second == SubSeq(e.body, b + 1, Len(e.body))
<1>1. Encoded(e, s) = first \o second
  BY DEF Encoded
<1>2. /\ a = IF s <= 6 THEN 6 - s ELSE 0
      /\ b = IF s <= 6 THEN 0 ELSE s - 6
  BY MaxOfTwo DEF HeaderSize
<1>3. a \in Nat /\ b \in 0..Len(e.body) /\ a - b = 6 - s
  BY <1>2, MessageParts
<1>4. first \in Seq(Byte) /\ Len(first) = a
  <2>1. ASSUME NEW k \in 1..a PROVE first[k] \in Byte
    <3>1. s + k \in 1..6
      BY <1>2
    <3>2. e.head[s + k] \in Byte
      BY <3>1, MessageParts
    <3>3. Junk \in Byte
      BY DEF Junk, Byte
    <3> QED
      BY <3>2, <3>3
  <2>2. first = [k \in 1..a |-> first[k]]
    OBVIOUS
  <2> HIDE DEF first, a
  <2> QED
    BY <1>3, <2>1, <2>2
<1>5. second \in Seq(Byte) /\ Len(second) = Len(e.body) - b
  <2> DEFINE body == e.body
  <2>1. body \in Seq(Byte) /\ b \in Nat /\ b <= Len(body)
    BY <1>3, MessageParts
  <2> HIDE DEF b, body
  <2>2. /\ SubSeq(body, b + 1, Len(body)) \in Seq(Byte)
        /\ Len(SubSeq(body, b + 1, Len(body))) = Len(body) - b
    BY <2>1
  <2> QED
    BY <2>2 DEF body
<1>6. a + (Len(e.body) - b) = 6 + Len(e.body) - s
  BY <1>3, MessageParts
<1> HIDE DEF first, second, a, b
<1>7. first \o second \in Seq(Byte) /\ Len(first \o second) = Len(first) + Len(second)
  BY <1>4, <1>5
<1> QED
  BY <1>1, <1>4, <1>5, <1>6, <1>7

\* ... and the right ones, unless it is cut where the code does not read on.
LEMMA EncodedRest ==
  ASSUME NEW e \in Message, NEW s \in Nat, s <= 6 + Len(e.body), ~Misread(s)
  PROVE  Encoded(e, s) = Rest(e, s)
<1> DEFINE a == Max({0, HeaderSize - s})
           b == Max({0, s - HeaderSize})
           first == [k \in 1..a |-> IF s \in {0, IdSize} THEN e.head[s + k]
                                    ELSE IF s = 1 /\ k > 1 THEN e.head[s + k] ELSE Junk]
           second == SubSeq(e.body, b + 1, Len(e.body))
           h == e.head
           body == e.body
           l == Encoded(e, s)
           r == Rest(e, s)
<1>1. l = first \o second
  BY DEF Encoded
<1>2. /\ a = IF s <= 6 THEN 6 - s ELSE 0
      /\ b = IF s <= 6 THEN 0 ELSE s - 6
  BY MaxOfTwo DEF HeaderSize
<1>3. a \in Nat /\ b \in 0..Len(e.body) /\ a - b = 6 - s
  BY <1>2, MessageParts
<1>4. s \in {0, 2} \/ s >= 6
  BY DEF Misread, IdSize, HeaderSize
<1>5. h \in Seq(Byte) /\ Len(h) = 6 /\ body \in Seq(Byte) /\ Len(body) \in Nat
  BY MessageParts
<1>6. /\ r \in Seq(Byte) /\ Len(r) = 6 + Len(body) - s
      /\ \A i \in 1..(6 + Len(body) - s) : r[i] = (h \o body)[s + i]
  <2> DEFINE w == h \o body
  <2>1. w \in Seq(Byte) /\ Len(w) = 6 + Len(body) /\ Whole(e) = w
    BY MessageParts DEF Whole
  <2> HIDE DEF w, h, body
  <2>2. s <= Len(w) /\ Len(w) \in Nat
    BY <1>5, <2>1 DEF body
  <2>3. /\ SubSeq(w, s + 1, Len(w)) \in Seq(Byte)
        /\ Len(SubSeq(w, s + 1, Len(w))) = Len(w) - s
        /\ \A i \in 1..(Len(w) - s) : SubSeq(w, s + 1, Len(w))[i] = w[s + i]
    BY <2>1, <2>2
  <2> QED
    BY <2>1, <2>3 DEF Rest, w
<1>7. first \in Seq(Byte) /\ Len(first) = a /\ \A k \in 1..a : first[k] = h[s + k]
  <2>1. ASSUME NEW k \in 1..a PROVE first[k] = h[s + k] /\ first[k] \in Byte
    <3>1. s + k \in 1..6
      BY <1>2
    <3>2. h[s + k] \in Byte
      BY <1>5, <3>1
    <3>3. first[k] = h[s + k]
      BY <1>2, <1>4 DEF IdSize
    <3> QED
      BY <3>2, <3>3
  <2>2. first = [k \in 1..a |-> first[k]]
    OBVIOUS
  <2> HIDE DEF first, a
  <2> QED
    BY <1>3, <2>1, <2>2
<1>8. /\ second \in Seq(Byte) /\ Len(second) = Len(body) - b
      /\ \A k \in 1..(Len(body) - b) : second[k] = body[b + k]
  <2>1. body \in Seq(Byte) /\ b \in Nat /\ b <= Len(body)
    BY <1>3, <1>5
  <2>2. second = SubSeq(body, b + 1, Len(body))
    OBVIOUS
  <2> HIDE DEF b, body, second
  <2> QED
    BY <2>1, <2>2
<1>9. l \in Seq(Byte) /\ Len(l) = Len(r)
  BY <1>6, EncodedLength
<1>10. ASSUME NEW i \in 1..(6 + Len(body) - s) PROVE l[i] = r[i]
  <2> HIDE DEF first, second, a, b, h, body, r, l
  <2>1. r[i] = (h \o body)[s + i]
    BY <1>6
  <2>2. h \in Seq(Byte) /\ body \in Seq(Byte)
    BY <1>5
  <2>3. /\ \A j \in 1..Len(h) : (h \o body)[j] = h[j]
        /\ \A j \in 1..Len(body) : (h \o body)[Len(h) + j] = body[j]
    BY <2>2
  <2>4. CASE i <= a
    <3>1. i \in 1..a /\ s + i \in 1..Len(h)
      BY <1>2, <1>3, <1>5, <2>4
    <3>2. (first \o second)[i] = first[i]
      BY <1>7, <1>8, <3>1
    <3>3. (h \o body)[s + i] = h[s + i]
      BY <2>3, <3>1
    <3> QED
      BY <1>1, <1>7, <2>1, <3>1, <3>2, <3>3
  <2>5. CASE i > a
    <3> DEFINE k == i - a
    <3>1. k \in 1..(Len(body) - b) /\ a + k = i /\ s + i = 6 + (b + k) /\ b + k \in 1..Len(body)
      BY <1>3, <1>5, <2>5 DEF body
    <3> HIDE DEF k
    <3>2. k \in 1..Len(second) /\ i = Len(first) + k
      BY <1>7, <1>8, <3>1
    <3>3. (first \o second)[Len(first) + k] = second[k]
      BY <1>7, <1>8, <3>2
    <3>4. (h \o body)[Len(h) + (b + k)] = body[b + k]
      BY <2>3, <3>1
    <3> QED
      BY <1>1, <1>5, <1>8, <2>1, <3>1, <3>2, <3>3, <3>4
  <2>6. i <= a \/ i > a
    BY <1>3
  <2> QED
    BY <2>4, <2>5, <2>6
<1> HIDE DEF l, r
<1>11. l = r
  BY <1>6, <1>9, <1>10, SeqEqual
<1> QED
  BY <1>11 DEF l, r

\* Byte by byte: wherever it is cut, a byte is the right one or no message's.
LEMMA EncodedByte ==
  ASSUME NEW e \in Message, NEW s \in Nat, s <= 6 + Len(e.body), NEW i \in 1..(6 + Len(e.body) - s)
  PROVE  Encoded(e, s)[i] = IF s + i > 6 THEN e.body[s + i - 6]
                            ELSE IF s \in {0, 2} \/ (s = 1 /\ i > 1) THEN e.head[s + i]
                            ELSE Junk
<1> DEFINE a == Max({0, HeaderSize - s})
           b == Max({0, s - HeaderSize})
           first == [k \in 1..a |-> IF s \in {0, IdSize} THEN e.head[s + k]
                                    ELSE IF s = 1 /\ k > 1 THEN e.head[s + k] ELSE Junk]
           second == SubSeq(e.body, b + 1, Len(e.body))
           body == e.body
<1>1. Encoded(e, s) = first \o second
  BY DEF Encoded
<1>2. /\ a = IF s <= 6 THEN 6 - s ELSE 0
      /\ b = IF s <= 6 THEN 0 ELSE s - 6
  BY MaxOfTwo DEF HeaderSize
<1>3. a \in Nat /\ b \in 0..Len(body) /\ a - b = 6 - s /\ body \in Seq(Byte) /\ Len(body) \in Nat
  BY <1>2, MessageParts
<1>4. /\ first \in Seq(Byte) /\ Len(first) = a
      /\ \A k \in 1..a : first[k] = IF s \in {0, 2} \/ (s = 1 /\ k > 1) THEN e.head[s + k] ELSE Junk
  <2>1. ASSUME NEW k \in 1..a PROVE first[k] \in Byte
    <3>1. s + k \in 1..6
      BY <1>2
    <3>2. e.head[s + k] \in Byte
      BY <3>1, MessageParts
    <3>3. Junk \in Byte
      BY DEF Junk, Byte
    <3> QED
      BY <3>2, <3>3
  <2>2. first = [k \in 1..a |-> first[k]]
    OBVIOUS
  <2>3. \A k \in 1..a : first[k] = IF s \in {0, 2} \/ (s = 1 /\ k > 1) THEN e.head[s + k] ELSE Junk
    BY DEF IdSize
  <2> HIDE DEF first, a
  <2> QED
    BY <1>3, <2>1, <2>2, <2>3
<1>5. /\ second \in Seq(Byte) /\ Len(second) = Len(body) - b
      /\ \A k \in 1..(Len(body) - b) : second[k] = body[b + k]
  <2>1. b \in Nat /\ b <= Len(body)
    BY <1>3
  <2>2. second = SubSeq(body, b + 1, Len(body))
    OBVIOUS
  <2> HIDE DEF b, body, second
  <2> QED
    BY <1>3, <2>1, <2>2
<1> HIDE DEF first, second, a, b
<1>6. CASE i <= a
  <2>1. i \in 1..a /\ ~(s + i > 6) /\ i \in 1..Len(first)
    BY <1>2, <1>3, <1>4, <1>6
  <2>2. (first \o second)[i] = first[i]
    BY <1>4, <1>5, <2>1
  <2> QED
    BY <1>1, <1>4, <2>1, <2>2
<1>7. CASE i > a
  <2> DEFINE k == i - a
  <2>1. k \in 1..(Len(body) - b) /\ a + k = i /\ s + i > 6 /\ b + k = s + i - 6
    <3> HIDE DEF body
    <3>1. i \in 1..(6 + Len(body) - s)
      BY DEF body
    <3> QED
      BY <1>2, <1>3, <1>7, <3>1
  <2> HIDE DEF k, body
  <2>2. (first \o second)[Len(first) + k] = second[k]
    <3>1. first \in Seq(Byte) /\ second \in Seq(Byte) /\ k \in 1..Len(second)
      BY <1>4, <1>5, <2>1
    <3> QED
      BY <3>1, JoinIs
  <2>3. (first \o second)[i] = body[s + i - 6]
    BY <1>4, <1>5, <2>1, <2>2
  <2> QED
    BY <1>1, <2>1, <2>3 DEF body
<1>8. i <= a \/ i > a
  BY <1>3
<1> QED
  BY <1>6, <1>7, <1>8

\* The sequence b is a, but for bytes that became no message's.
Thins(a, b) ==
  /\ b \in Seq(Byte) /\ Len(b) = Len(a)
  /\ \A i \in 1..Len(a) : b[i] = a[i] \/ b[i] = Junk

\* What the code does not read on where it is cut, it does not reorder.
LEMMA EncodedThins ==
  ASSUME NEW e \in Message, NEW s \in Nat, NEW d \in Nat, s + d <= 6 + Len(e.body),
         NEW i \in 1..(6 + Len(e.body) - (s + d))
  PROVE  Encoded(e, s + d)[i] = Encoded(e, s)[d + i] \/ Encoded(e, s + d)[i] = Junk
<1>1. Len(e.body) \in Nat
  BY MessageParts
<1> DEFINE n == s + d
           j == d + i
<1>2. n \in Nat /\ n <= 6 + Len(e.body) /\ s <= 6 + Len(e.body)
  BY <1>1
<1>3. j \in 1..(6 + Len(e.body) - s) /\ n + i = s + j
  BY <1>1
<1>4. n \in {0, 2} \/ (n = 1 /\ i > 1) => s \in {0, 2} \/ (s = 1 /\ j > 1)
  OBVIOUS
<1>5. i \in 1..(6 + Len(e.body) - n)
  OBVIOUS
<1> HIDE DEF n, j
<1>6. Encoded(e, n)[i] = IF n + i > 6 THEN e.body[n + i - 6]
                         ELSE IF n \in {0, 2} \/ (n = 1 /\ i > 1) THEN e.head[n + i]
                         ELSE Junk
  BY <1>2, <1>5, EncodedByte
<1>7. Encoded(e, s)[j] = IF s + j > 6 THEN e.body[s + j - 6]
                         ELSE IF s \in {0, 2} \/ (s = 1 /\ j > 1) THEN e.head[s + j]
                         ELSE Junk
  BY <1>2, <1>3, EncodedByte
<1>8. Encoded(e, n)[i] = Encoded(e, s)[j] \/ Encoded(e, n)[i] = Junk
  <2>1. CASE s + j > 6
    <3>1. n + i > 6 /\ n + i - 6 = s + j - 6
      BY <1>1, <1>2, <1>3, <2>1
    <3>2. Encoded(e, n)[i] = e.body[n + i - 6]
      BY <1>6, <3>1
    <3>3. Encoded(e, s)[j] = e.body[s + j - 6]
      BY <1>7, <2>1
    <3> QED
      BY <3>1, <3>2, <3>3
  <2>2. CASE ~(s + j > 6) /\ (n \in {0, 2} \/ (n = 1 /\ i > 1))
    <3>1. Encoded(e, s)[j] = e.head[s + j]
      BY <1>4, <1>7, <2>2
    <3>2. Encoded(e, n)[i] = e.head[n + i]
      BY <1>3, <1>6, <2>2
    <3> QED
      BY <1>3, <3>1, <3>2
  <2>3. CASE ~(s + j > 6) /\ ~(n \in {0, 2} \/ (n = 1 /\ i > 1))
    BY <1>3, <1>6, <2>3
  <2> QED
    BY <2>1, <2>2, <2>3
<1> QED
  BY <1>8 DEF n, j

LEMMA RestSplit ==
  ASSUME NEW e \in Message, NEW s \in Nat, NEW d \in Nat, s + d <= 6 + Len(e.body)
  PROVE  /\ Rest(e, s) = SubSeq(Whole(e), s + 1, s + d) \o Rest(e, s + d)
         /\ SubSeq(Whole(e), s + 1, s + d) \in Seq(Byte)
         /\ Len(SubSeq(Whole(e), s + 1, s + d)) = d
         /\ Rest(e, s + d) \in Seq(Byte)
<1> DEFINE w == Whole(e)
<1>1. w \in Seq(Byte) /\ s + d <= Len(w) /\ Len(w) \in Nat
  BY MessageParts
<1> HIDE DEF w
<1>2. SubSeq(w, s + 1, s + d) \o SubSeq(w, s + d + 1, Len(w)) = SubSeq(w, s + 1, Len(w))
  <2> DEFINE m == s + d
             n == Len(w)
  <2>1. m \in Nat /\ n \in Nat /\ s <= m /\ m <= n /\ n <= Len(w)
    BY <1>1
  <2> HIDE DEF m, n
  <2>2. SubSeq(w, s + 1, m) \o SubSeq(w, m + 1, n) = SubSeq(w, s + 1, n)
    BY <1>1, <2>1, PartsJoin
  <2> QED
    BY <2>2 DEF m, n
<1>3. SubSeq(w, s + 1, s + d) \in Seq(Byte) /\ Len(SubSeq(w, s + 1, s + d)) = d
  <2>1. s + d \in Nat /\ s <= s + d
    OBVIOUS
  <2>2. /\ SubSeq(w, s + 1, s + d) \in Seq(Byte)
        /\ Len(SubSeq(w, s + 1, s + d)) = (s + d) - s
    BY <1>1, <2>1, PartIs
  <2> QED
    BY <2>2
<1>4. SubSeq(w, s + d + 1, Len(w)) \in Seq(Byte)
  BY <1>1, PartIs
<1> QED
  BY <1>2, <1>3, <1>4 DEF Rest, w

-----------------------------------------------------------------------------
\* A queue of messages, the first of them sent up to s
Proper(w, s) ==
  /\ w \in Seq(Message)
  /\ s \in Nat
  /\ w # <<>> => s <= 6 + Len(w[1].body)

PartOf(w, s, i) == Encoded(w[i], IF i = 1 THEN s ELSE 0)

LEMMA PartsTyped ==
  ASSUME NEW w, NEW s, Proper(w, s), NEW i \in 1..Len(w)
  PROVE  PartOf(w, s, i) \in Seq(Byte)
<1>1. w[i] \in Message /\ w # <<>>
  BY DEF Proper
<1>2. CASE i = 1
  BY <1>1, <1>2, EncodedLength DEF PartOf, Proper
<1>3. CASE i # 1
  <2>1. 0 <= 6 + Len(w[i].body)
    BY <1>1, MessageParts
  <2> QED
    BY <1>1, <1>3, <2>1, EncodedLength DEF PartOf
<1> QED
  BY <1>2, <1>3

LEMMA BytesIs ==
  ASSUME NEW w, NEW s, Proper(w, s), NEW n \in 0..Len(w)
  PROVE  /\ Bytes(w, s, n) = FlattenSeq([i \in 1..n |-> PartOf(w, s, i)])
         /\ [i \in 1..n |-> PartOf(w, s, i)] \in Seq(Seq(Byte))
         /\ Bytes(w, s, n) \in Seq(Byte)
<1> DEFINE p == [i \in 1..n |-> PartOf(w, s, i)]
<1>1. Bytes(w, s, n) = FlattenSeq(p)
  BY DEF Bytes, PartOf
<1>2. p \in Seq(Seq(Byte))
  <2>1. \A i \in 1..n : PartOf(w, s, i) \in Seq(Byte)
    <3>1. \A i \in 1..n : i \in 1..Len(w)
      BY DEF Proper
    <3> QED
      BY <3>1, PartsTyped
  <2>2. n \in Nat
    BY DEF Proper
  <2> QED
    BY <2>1, <2>2
<1> HIDE DEF p
<1>3. FlattenSeq(p) \in Seq(Byte)
  BY <1>2, FlattenType
<1> QED
  BY <1>1, <1>2, <1>3 DEF p

LEMMA BytesNone == \A w, s : Bytes(w, s, 0) = <<>>
<1> TAKE w, s
<1>1. [i \in 1..0 |-> Encoded(w[i], IF i = 1 THEN s ELSE 0)] = <<>>
  OBVIOUS
<1> QED
  BY <1>1, FlattenNone DEF Bytes

LEMMA BytesLast ==
  ASSUME NEW w, NEW s, Proper(w, s), NEW n \in 1..Len(w)
  PROVE  Bytes(w, s, n) = Bytes(w, s, n - 1) \o PartOf(w, s, n)
<1> DEFINE p == [i \in 1..n |-> PartOf(w, s, i)]
           q == [i \in 1..(n - 1) |-> PartOf(w, s, i)]
           e == PartOf(w, s, n)
<1>1. n \in 0..Len(w) /\ n - 1 \in 0..Len(w) /\ n \in Nat /\ n - 1 \in Nat /\ n # 0
  BY DEF Proper
<1>2. /\ Bytes(w, s, n) = FlattenSeq(p) /\ p \in Seq(Seq(Byte))
      /\ Bytes(w, s, n - 1) = FlattenSeq(q) /\ q \in Seq(Seq(Byte))
  BY <1>1, BytesIs
<1>3. e \in Seq(Byte)
  BY PartsTyped
<1>4. p = Append(q, e)
  <2>1. Len(q) = n - 1 /\ Len(p) = n /\ p \in Seq(Seq(Byte))
    BY <1>1, <1>2
  <2>2. (\A i \in 1..(n - 1) : p[i] = q[i]) /\ p[n] = e
    BY <1>1
  <2> HIDE DEF p, q, e
  <2>3. /\ Append(q, e) \in Seq(Seq(Byte)) /\ Len(Append(q, e)) = Len(q) + 1
        /\ \A i \in 1..Len(q) : Append(q, e)[i] = q[i]
        /\ Append(q, e)[Len(q) + 1] = e
    BY <1>2, <1>3
  <2>4. ASSUME NEW i \in 1..n PROVE p[i] = Append(q, e)[i]
    <3>1. CASE i = n
      BY <1>1, <2>1, <2>2, <2>3, <3>1
    <3>2. CASE i # n
      <4>1. i \in 1..(n - 1)
        BY <1>1, <3>2
      <4> QED
        BY <2>1, <2>2, <2>3, <4>1
    <3> QED
      BY <3>1, <3>2
  <2>5. Len(Append(q, e)) = n
    BY <1>1, <2>1, <2>3
  <2> QED
    BY <2>1, <2>3, <2>4, <2>5, SeqEqual
<1> HIDE DEF p, q, e
<1>5. FlattenSeq(Append(q, e)) = FlattenSeq(q) \o e
  BY <1>2, <1>3, FlattenAppend
<1> QED
  BY <1>2, <1>4, <1>5 DEF e

LEMMA BytesSplit ==
  ASSUME NEW w, NEW s, Proper(w, s), NEW n \in 1..Len(w)
  PROVE  /\ Bytes(w, s, Len(w)) = Bytes(w, s, n) \o Bytes(SubSeq(w, n + 1, Len(w)), 0, Len(w) - n)
         /\ Bytes(SubSeq(w, n + 1, Len(w)), 0, Len(w) - n) \in Seq(Byte)
<1> DEFINE v == SubSeq(w, n + 1, Len(w))
           l == Len(w)
           p == [i \in 1..l |-> PartOf(w, s, i)]
           q == [i \in 1..n |-> PartOf(w, s, i)]
           r == [i \in 1..(l - n) |-> PartOf(v, 0, i)]
<1>1. l \in Nat /\ n \in 0..l /\ l \in 0..l /\ n \in Nat /\ l - n \in Nat /\ n <= l
  BY DEF Proper
<1>2. v \in Seq(Message) /\ Len(v) = l - n /\ \A i \in 1..(l - n) : v[i] = w[n + i]
  <2>1. w \in Seq(Message)
    BY DEF Proper
  <2> QED
    BY <1>1, <2>1, PartIs
<1>3. Proper(v, 0)
  <2>1. ASSUME v # <<>> PROVE 0 <= 6 + Len(v[1].body)
    <3>1. v[1] \in Message
      <4> HIDE DEF v
      <4> QED
        BY <1>2, <2>1
    <3> QED
      BY <3>1, MessageParts
  <2> QED
    BY <1>2, <2>1 DEF Proper
<1>4. /\ Bytes(w, s, l) = FlattenSeq(p) /\ p \in Seq(Seq(Byte))
      /\ Bytes(w, s, n) = FlattenSeq(q) /\ q \in Seq(Seq(Byte))
  BY <1>1, BytesIs
<1>5. /\ Bytes(v, 0, l - n) = FlattenSeq(r) /\ r \in Seq(Seq(Byte))
      /\ Bytes(v, 0, l - n) \in Seq(Byte)
  <2>1. l - n \in 0..Len(v)
    BY <1>1, <1>2
  <2> HIDE DEF v, l
  <2> QED
    BY <1>3, <2>1, BytesIs
<1>6. Len(p) = l /\ Len(q) = n /\ Len(r) = l - n
  BY <1>1
<1>7. \A i \in 1..n : p[i] = q[i]
  BY <1>1
<1>8. \A i \in 1..(l - n) : p[n + i] = r[i]
  <2> SUFFICES ASSUME NEW i \in 1..(l - n) PROVE p[n + i] = r[i]
    OBVIOUS
  <2>1. n + i \in 1..l /\ n + i # 1 /\ v[i] = w[n + i]
    BY <1>1, <1>2
  <2>2. p[n + i] = Encoded(w[n + i], 0)
    BY <2>1 DEF PartOf
  <2>3. r[i] = Encoded(v[i], 0)
    <3>1. (IF i = 1 THEN 0 ELSE 0) = 0
      OBVIOUS
    <3> QED
      BY <3>1 DEF PartOf
  <2> QED
    BY <2>1, <2>2, <2>3
<1> HIDE DEF p, q, r
<1>9. p = q \o r
  <2>1. q \o r \in Seq(Seq(Byte)) /\ Len(q \o r) = Len(q) + Len(r)
    BY <1>4, <1>5
  <2>2. /\ \A i \in 1..Len(q) : (q \o r)[i] = q[i]
        /\ \A i \in 1..Len(r) : (q \o r)[Len(q) + i] = r[i]
    BY <1>4, <1>5
  <2>3. ASSUME NEW i \in 1..l PROVE p[i] = (q \o r)[i]
    <3>1. CASE i \in 1..n
      BY <1>6, <1>7, <2>2, <3>1
    <3>2. CASE i \notin 1..n
      <4>1. i - n \in 1..(l - n) /\ n + (i - n) = i
        BY <1>1, <3>2
      <4>2. p[n + (i - n)] = r[i - n]
        BY <1>8, <4>1
      <4>3. (q \o r)[n + (i - n)] = r[i - n]
        BY <1>6, <2>2, <4>1
      <4> QED
        BY <4>1, <4>2, <4>3
    <3> QED
      BY <3>1, <3>2
  <2>4. Len(q \o r) = l
    BY <1>1, <1>6, <2>1
  <2> QED
    BY <1>4, <1>6, <2>1, <2>3, <2>4, SeqEqual
<1>10. FlattenSeq(q \o r) = FlattenSeq(q) \o FlattenSeq(r)
  BY <1>4, <1>5, FlattenConcat
<1> QED
  BY <1>4, <1>5, <1>9, <1>10

LEMMA BytesOne ==
  ASSUME NEW w, NEW s, Proper(w, s), w # <<>>
  PROVE  Bytes(w, s, 1) = Encoded(w[1], s) /\ Encoded(w[1], s) \in Seq(Byte)
<1> DEFINE e == Encoded(w[1], s)
<1>1. 1 \in 1..Len(w)
  BY DEF Proper
<1>2. Bytes(w, s, 1) = Bytes(w, s, 0) \o PartOf(w, s, 1)
  BY <1>1, BytesLast
<1>3. PartOf(w, s, 1) = e /\ e \in Seq(Byte)
  BY <1>1, PartsTyped DEF PartOf
<1> HIDE DEF e
<1>4. e \in Seq(Byte) /\ Bytes(w, s, 1) = <<>> \o e
  BY <1>2, <1>3, BytesNone
<1>5. <<>> \o e = e
  BY <1>4
<1> QED
  BY <1>4, <1>5 DEF e

LEMMA BytesFirst ==
  ASSUME NEW w, NEW s, Proper(w, s), w # <<>>
  PROVE  /\ Bytes(w, s, Len(w)) = Encoded(w[1], s) \o Bytes(SubSeq(w, 2, Len(w)), 0, Len(w) - 1)
         /\ Bytes(SubSeq(w, 2, Len(w)), 0, Len(w) - 1) \in Seq(Byte)
<1>1. 1 \in 1..Len(w)
  BY DEF Proper
<1>2. /\ Bytes(w, s, Len(w)) = Bytes(w, s, 1) \o Bytes(SubSeq(w, 1 + 1, Len(w)), 0, Len(w) - 1)
      /\ Bytes(SubSeq(w, 1 + 1, Len(w)), 0, Len(w) - 1) \in Seq(Byte)
  BY <1>1, BytesSplit
<1>3. Bytes(w, s, 1) = Encoded(w[1], s)
  BY BytesOne
<1>4. 1 + 1 = 2
  OBVIOUS
<1> QED
  BY <1>2, <1>3, <1>4

Regroups(w, a, b, f) == w \o (a \o (b \o f)) = (w \o (a \o b)) \o f

LEMMA Regrouped == \A w, a, b, f \in Seq(Byte) : Regroups(w, a, b, f)
<1> SUFFICES ASSUME NEW w \in Seq(Byte), NEW a \in Seq(Byte), NEW b \in Seq(Byte), NEW f \in Seq(Byte)
             PROVE  Regroups(w, a, b, f)
  OBVIOUS
<1> DEFINE ab == a \o b
<1>1. ab \in Seq(Byte)
  OBVIOUS
<1> HIDE DEF ab
<1>2. Associate(a, b, f) /\ Associate(w, ab, f)
  BY <1>1, Associative
<1> QED
  BY <1>2 DEF Regroups, Associate, ab

LEMMA Concats ==
  ASSUME NEW a \in Seq(Byte), NEW b \in Seq(Byte)
  PROVE  /\ a \o b \in Seq(Byte) /\ Len(a \o b) = Len(a) + Len(b)
         /\ a \o <<>> = a /\ <<>> \o a = a
OBVIOUS

-----------------------------------------------------------------------------
\* What is left of the buffer b when n bytes of it are sent
Left(b, n) == SubSeq(b, n + 1, Len(b))

LEMMA UnsentIs ==
  Unsent = (Left(sending, sent) \o sendBuf) \o Bytes(waiting, headSent, Len(waiting))
BY DEF Unsent, Left, Encodings, Bytes

LEMMA UnsentThen ==
  Unsent' = (Left(sending', sent') \o sendBuf') \o Bytes(waiting', headSent', Len(waiting'))
BY DEF Unsent, Left, Encodings, Bytes

\* The bytes of a state that satisfies the invariant
LEMMA StateBytes ==
  ASSUME IntactInv
  PROVE  /\ Proper(waiting, headSent)
         /\ Left(sending, sent) \in Seq(Byte)
         /\ Bytes(waiting, headSent, Len(waiting)) \in Seq(Byte)
         /\ waiting = <<>> => /\ headSent = 0
                              /\ Bytes(waiting, headSent, Len(waiting)) = <<>>
<1> USE DEF IntactInv, BytesTyped, Intact, TypeOK
<1>1. Proper(waiting, headSent)
  <2>1. ASSUME waiting # <<>> PROVE headSent <= 6 + Len(waiting[1].body)
    <3>1. waiting[1] \in Message /\ Head(waiting) = waiting[1]
      BY <2>1
    <3>2. Len(waiting[1].body) \in Nat /\ headSent \in Nat
      BY <3>1, MessageParts
    <3> QED
      BY <2>1, <3>1, <3>2 DEF HeaderSize
  <2> QED
    BY <2>1 DEF Proper
<1>2. Left(sending, sent) \in Seq(Byte)
  <2>1. sending \in Seq(Byte) /\ sent \in Nat /\ sent <= Len(sending) /\ Len(sending) \in Nat
    OBVIOUS
  <2> QED
    BY <2>1, PartIs DEF Left
<1>3. Bytes(waiting, headSent, Len(waiting)) \in Seq(Byte)
  <2>1. Len(waiting) \in 0..Len(waiting)
    OBVIOUS
  <2> QED
    BY <1>1, <2>1, BytesIs
<1>4. ASSUME waiting = <<>> PROVE Bytes(waiting, headSent, Len(waiting)) = <<>>
  <2>1. Len(waiting) = 0
    BY <1>4
  <2> QED
    BY <2>1, BytesNone
<1> QED
  BY <1>1, <1>2, <1>3, <1>4

-----------------------------------------------------------------------------
LEMMA LeftOfNone ==
  ASSUME NEW b \in Seq(Byte)
  PROVE  Left(b, 0) = b /\ Left(<<>>, 0) = <<>>
<1>1. SubSeq(b, 1, Len(b)) = b
  OBVIOUS
<1>2. SubSeq(<<>>, 1, Len(<<>>)) = <<>>
  OBVIOUS
<1> QED
  BY <1>1, <1>2 DEF Left

\* The first call starts the write of what is in the buffer, which a later
\* one leaves where it is.
LEMMA StartWriteKeeps ==
  ASSUME IntactInv, open, open' = open,
         NEW buf \in Seq(Byte), Len(buf) <= BufSize, StartWrite(buf)
  PROVE  /\ sendBuf' \in Seq(Byte) /\ sending' \in Seq(Byte) /\ sent' \in Nat
         /\ Len(sendBuf') <= BufSize /\ Len(sending') <= BufSize /\ sent' <= Len(sending')
         /\ FlagRight' /\ IdleIsEmpty'
         /\ writing' \in BOOLEAN /\ overtaken' \in BOOLEAN /\ io' \in {"none", "posted", "settling"}
         /\ Left(sending', sent') \o sendBuf' = Left(sending, sent) \o buf
<1> USE DEF IntactInv, BytesTyped, FlagRight, IdleIsEmpty, Intact, TypeOK
<1>1. CASE writing
  BY <1>1 DEF StartWrite
<1>2. CASE ~writing
  <2>1. /\ sending' = buf /\ sendBuf' = sending /\ sent' = 0
        /\ writing' = TRUE /\ io' = "posted" /\ overtaken' = FALSE
    BY <1>2 DEF StartWrite
  <2>2. io = "none" /\ sending = <<>> /\ sent = 0
    BY <1>2
  <2>3. Left(sending', sent') = buf /\ sendBuf' = <<>> /\ Left(sending, sent) = <<>>
    BY <2>1, <2>2, LeftOfNone
  <2>4. buf \o <<>> = buf /\ <<>> \o buf = buf
    OBVIOUS
  <2>5. Len(buf) \in Nat /\ Len(sendBuf') <= BufSize
    BY <2>1, <2>2
  <2>6. Left(sending', sent') \o sendBuf' = Left(sending, sent) \o buf
    BY <2>3, <2>4
  <2>7. sent' \in Nat /\ sent' <= Len(sending') /\ Len(sending') <= BufSize
    BY <2>1, <2>5
  <2>8. FlagRight' /\ IdleIsEmpty'
    BY <2>1
  <2> QED
    BY <2>1, <2>5, <2>6, <2>7, <2>8
<1> QED
  BY <1>1, <1>2

LEMMA FrameIs ==
  ASSUME NEW c \in Nat, NEW size \in Nat
  PROVE  /\ Frame(c, size) \in Seq(Byte)
         /\ Len(Frame(c, size)) = 6 + size
         /\ \A k \in 1..(6 + size) : Frame(c, size)[k] = <<c, k>>
BY DEF Frame, Byte, HeaderSize

\* The frame cut after its first n bytes
LEMMA FrameCut ==
  ASSUME NEW c \in Nat, NEW size \in Nat, NEW n \in 0..(6 + size)
  PROVE  /\ SubSeq(Frame(c, size), 1, n) \in Seq(Byte)
         /\ Len(SubSeq(Frame(c, size), 1, n)) = n
         /\ SubSeq(Frame(c, size), n + 1, 6 + size) \in Seq(Byte)
         /\ Len(SubSeq(Frame(c, size), n + 1, 6 + size)) = 6 + size - n
         /\ SubSeq(Frame(c, size), 1, n) \o SubSeq(Frame(c, size), n + 1, 6 + size) = Frame(c, size)
<1> DEFINE f == Frame(c, size)
           l == 6 + size
<1>1. f \in Seq(Byte) /\ Len(f) = l /\ l \in Nat /\ n \in Nat /\ 0 <= n /\ n <= l
  BY FrameIs
<1> HIDE DEF f, l
<1>2. SubSeq(f, 0 + 1, n) \in Seq(Byte) /\ Len(SubSeq(f, 0 + 1, n)) = n - 0
  BY <1>1, PartIs
<1>3. SubSeq(f, n + 1, l) \in Seq(Byte) /\ Len(SubSeq(f, n + 1, l)) = l - n
  BY <1>1, PartIs
<1>4. SubSeq(f, 0 + 1, n) \o SubSeq(f, n + 1, l) = SubSeq(f, 0 + 1, l)
  <2>1. l <= Len(f)
    BY <1>1
  <2> QED
    BY <1>1, <2>1, PartsJoin
<1>5. SubSeq(f, 0 + 1, l) = f
  BY <1>1
<1>6. 0 + 1 = 1 /\ n - 0 = n
  BY <1>1
<1> QED
  BY <1>2, <1>3, <1>4, <1>5, <1>6 DEF f, l

\* What append() puts behind the bytes of the buffer
LEMMA AppendedIs ==
  ASSUME sendBuf \in Seq(Byte), Len(sendBuf) <= BufSize,
         NEW c \in Nat, NEW size \in Nat
  PROVE  /\ HeadFits \in 0..6 /\ BodyFits(size) \in 0..size
         /\ HeadFits < 6 => BodyFits(size) = 0
         /\ Appended(c, size) \in Seq(Byte)
         /\ Len(Appended(c, size)) = Len(sendBuf) + HeadFits + BodyFits(size)
         /\ Len(Appended(c, size)) <= BufSize
         /\ HeadFits = 6 => Appended(c, size) = sendBuf \o SubSeq(Frame(c, size), 1, 6 + BodyFits(size))
<1> DEFINE room == BufSize - Len(sendBuf)
           hf == HeadFits
           bf == BodyFits(size)
           h == SubSeq(Frame(c, size), 1, hf)
           b == SubSeq(Frame(c, size), HeaderSize + 1, HeaderSize + bf)
<1>1. room \in Nat /\ Len(sendBuf) \in Nat /\ BufSize \in Nat
  BY SendConstants
<1>2. hf = IF room <= 6 THEN room ELSE 6
  BY <1>1, MinIs DEF HeadFits, Room, HeaderSize
<1>3. bf = IF room - hf <= size THEN room - hf ELSE size
  <2>1. room - hf \in Int
    BY <1>1, <1>2
  <2> QED
    BY <2>1, MinIs DEF BodyFits, Room
<1>4. /\ hf \in 0..6 /\ bf \in 0..size /\ hf + bf <= room
      /\ hf < 6 => bf = 0
  <2> HIDE DEF hf, bf, room
  <2> QED
    BY <1>1, <1>2, <1>3
<1>5. h \in Seq(Byte) /\ Len(h) = hf
  <2>1. hf \in 0..(6 + size)
    BY <1>4
  <2> HIDE DEF hf
  <2> QED
    BY <2>1, FrameCut
<1>6. b \in Seq(Byte) /\ Len(b) = bf /\ b = SubSeq(Frame(c, size), 6 + 1, 6 + bf)
  <2> DEFINE f == Frame(c, size)
             m == 6 + bf
  <2>1. f \in Seq(Byte) /\ 6 \in Nat /\ m \in Nat /\ 6 <= m /\ m <= Len(f) /\ bf = m - 6
    <3> HIDE DEF bf
    <3>1. bf \in Nat /\ bf <= size
      BY <1>4
    <3>2. Frame(c, size) \in Seq(Byte) /\ Len(Frame(c, size)) = 6 + size
      BY FrameIs
    <3> QED
      BY <3>1, <3>2
  <2>2. b = SubSeq(f, 6 + 1, m)
    BY DEF HeaderSize
  <2> HIDE DEF f, m
  <2>3. SubSeq(f, 6 + 1, m) \in Seq(Byte) /\ Len(SubSeq(f, 6 + 1, m)) = m - 6
    BY <2>1, PartIs
  <2> QED
    BY <2>1, <2>2, <2>3 DEF m, f
<1>7. Appended(c, size) = (sendBuf \o h) \o b
  BY DEF Appended
<1>8. ASSUME hf = 6 PROVE Appended(c, size) = sendBuf \o SubSeq(Frame(c, size), 1, 6 + bf)
  <2> DEFINE f == Frame(c, size)
             m == 6 + bf
  <2>1. f \in Seq(Byte) /\ 0 \in Nat /\ 6 \in Nat /\ m \in Nat /\ 0 <= 6 /\ 6 <= m /\ m <= Len(f)
    <3> HIDE DEF bf
    <3>1. bf \in Nat /\ bf <= size
      BY <1>4
    <3>2. Frame(c, size) \in Seq(Byte) /\ Len(Frame(c, size)) = 6 + size
      BY FrameIs
    <3> QED
      BY <3>1, <3>2
  <2>2. b = SubSeq(f, 6 + 1, m) /\ h = SubSeq(f, 0 + 1, 6)
    <3>1. 0 + 1 = 1
      OBVIOUS
    <3> QED
      BY <1>6, <1>8, <3>1
  <2> HIDE DEF f, m
  <2>3. SubSeq(f, 0 + 1, 6) \o SubSeq(f, 6 + 1, m) = SubSeq(f, 0 + 1, m)
    BY <2>1, PartsJoin
  <2> HIDE DEF h, b
  <2>4. sendBuf \o (h \o b) = (sendBuf \o h) \o b
    <3>1. h \in Seq(Byte) /\ b \in Seq(Byte) /\ sendBuf \in Seq(Byte)
      BY <1>5, <1>6
    <3>2. Associate(sendBuf, h, b)
      BY <3>1, Associative
    <3> QED
      BY <3>2 DEF Associate
  <2>5. 0 + 1 = 1
    OBVIOUS
  <2> QED
    BY <1>7, <2>2, <2>3, <2>4, <2>5 DEF f, m
<1>9. (sendBuf \o h) \o b \in Seq(Byte) /\ Len((sendBuf \o h) \o b) = Len(sendBuf) + Len(h) + Len(b)
  <2> HIDE DEF h, b
  <2>1. sendBuf \o h \in Seq(Byte) /\ Len(sendBuf \o h) = Len(sendBuf) + Len(h)
    BY <1>5, Concats
  <2> DEFINE x == sendBuf \o h
  <2>2. x \in Seq(Byte) /\ b \in Seq(Byte)
    BY <1>6, <2>1
  <2> HIDE DEF x
  <2>3. x \o b \in Seq(Byte) /\ Len(x \o b) = Len(x) + Len(b)
    BY <2>2, Concats
  <2> QED
    BY <2>1, <2>3 DEF x
<1> HIDE DEF h, b
<1>10. Len((sendBuf \o h) \o b) = Len(sendBuf) + hf + bf
  BY <1>5, <1>6, <1>9
<1> HIDE DEF hf, bf
<1>11. Len(sendBuf) + hf + bf <= BufSize
  BY <1>1, <1>4
<1> QED
  BY <1>4, <1>7, <1>8, <1>9, <1>10, <1>11 DEF hf, bf

\* What _msg_queue_buf() makes of a message of which nothing, or the header, is sent
LEMMA WholeIsLeft ==
  ASSUME NEW e \in Message
  PROVE  Encoded(e, 0) = Whole(e) /\ Encoded(e, 6) = e.body
<1>1. e.body \in Seq(Byte) /\ Len(e.body) \in Nat /\ e.head \in Seq(Byte) /\ Len(e.head) = 6
  BY MessageParts
<1>2. Encoded(e, 0) = Rest(e, 0) /\ Encoded(e, 6) = Rest(e, 6)
  <2>1. ~Misread(0) /\ ~Misread(6) /\ 0 <= 6 + Len(e.body) /\ 6 <= 6 + Len(e.body)
    BY <1>1 DEF Misread, IdSize, HeaderSize
  <2> QED
    BY <2>1, EncodedRest
<1>3. Rest(e, 0) = Whole(e)
  <2> DEFINE w == Whole(e)
  <2>1. w \in Seq(Byte)
    BY MessageParts
  <2> HIDE DEF w
  <2>2. SubSeq(w, 0 + 1, Len(w)) = w
    BY <2>1
  <2> QED
    BY <2>2 DEF Rest, w
<1>4. Rest(e, 6) = e.body
  <2> DEFINE h == e.head
             b == e.body
             r == Rest(e, 6)
  <2>1. h \in Seq(Byte) /\ b \in Seq(Byte) /\ Len(b) \in Nat
    BY <1>1
  <2>2. Whole(e) = h \o b /\ Len(h) = 6
    BY <1>1 DEF Whole
  <2>3. r = SubSeq(h \o b, 6 + 1, Len(h \o b))
    BY <2>2 DEF Rest
  <2> HIDE DEF h, b, r
  <2>4. /\ h \o b \in Seq(Byte) /\ Len(h \o b) = Len(h) + Len(b)
        /\ \A i \in 1..Len(b) : (h \o b)[Len(h) + i] = b[i]
    BY <2>1
  <2> DEFINE w == h \o b
  <2>5. w \in Seq(Byte) /\ Len(w) = 6 + Len(b) /\ \A i \in 1..Len(b) : w[6 + i] = b[i]
    BY <2>1, <2>2, <2>4
  <2> HIDE DEF w
  <2>6. /\ SubSeq(w, 6 + 1, Len(w)) \in Seq(Byte)
        /\ Len(SubSeq(w, 6 + 1, Len(w))) = Len(w) - 6
        /\ \A i \in 1..(Len(w) - 6) : SubSeq(w, 6 + 1, Len(w))[i] = w[6 + i]
    BY <2>1, <2>5
  <2>7. r \in Seq(Byte) /\ Len(r) = Len(b) /\ \A i \in 1..Len(b) : r[i] = b[i]
    BY <2>1, <2>3, <2>5, <2>6 DEF w
  <2>8. r = b
    BY <2>1, <2>7, SeqEqual
  <2> QED
    BY <2>8 DEF r, b
<1> QED
  BY <1>2, <1>3, <1>4

LEMMA FrameMessage ==
  ASSUME NEW c \in Nat, NEW size \in Nat, NEW n \in 0..size
  PROVE  LET e == [head |-> SubSeq(Frame(c, size), 1, HeaderSize),
                   body |-> SubSeq(Frame(c, size), HeaderSize + n + 1, HeaderSize + size)]
         IN  /\ e \in Message
             /\ Len(e.body) = size - n
             /\ n = 0 => Encoded(e, 0) = Frame(c, size)
             /\ SubSeq(Frame(c, size), 1, 6 + n) \o Encoded(e, 6) = Frame(c, size)
             /\ SubSeq(Frame(c, size), 1, 6 + n) \in Seq(Byte) /\ Encoded(e, 6) \in Seq(Byte)
<1> DEFINE h == SubSeq(Frame(c, size), 1, 6)
           b == SubSeq(Frame(c, size), 6 + n + 1, 6 + size)
           e == [head |-> h, body |-> b]
<1>1. h \in Seq(Byte) /\ Len(h) = 6
  <2>1. 6 \in 0..(6 + size)
    OBVIOUS
  <2> QED
    BY <2>1, FrameCut
<1>2. /\ b \in Seq(Byte) /\ Len(b) = 6 + size - (6 + n)
      /\ SubSeq(Frame(c, size), 1, 6 + n) \o b = Frame(c, size)
      /\ SubSeq(Frame(c, size), 1, 6 + n) \in Seq(Byte)
  <2> DEFINE m == 6 + n
  <2>1. m \in 0..(6 + size)
    OBVIOUS
  <2> HIDE DEF m
  <2>2. /\ SubSeq(Frame(c, size), m + 1, 6 + size) \in Seq(Byte)
        /\ Len(SubSeq(Frame(c, size), m + 1, 6 + size)) = 6 + size - m
        /\ SubSeq(Frame(c, size), 1, m) \o SubSeq(Frame(c, size), m + 1, 6 + size) = Frame(c, size)
        /\ SubSeq(Frame(c, size), 1, m) \in Seq(Byte)
    BY <2>1, FrameCut
  <2> QED
    BY <2>2 DEF m
<1> HIDE DEF h, b
<1>3. e \in Message
  BY <1>1, <1>2 DEF Message, HeaderSize
<1>4. e.body = b /\ Whole(e) = h \o b
  BY DEF Whole
<1>5. Encoded(e, 0) = h \o b /\ Encoded(e, 6) = b
  BY <1>3, <1>4, WholeIsLeft
<1>6. n = 0 => h \o b = Frame(c, size)
  <2> SUFFICES ASSUME n = 0 PROVE h \o b = Frame(c, size)
    OBVIOUS
  <2>1. 6 + n = 6
    OBVIOUS
  <2> QED
    BY <1>2, <2>1 DEF h
<1>7. Len(b) = size - n
  BY <1>2
<1>8. e = [head |-> SubSeq(Frame(c, size), 1, HeaderSize),
           body |-> SubSeq(Frame(c, size), HeaderSize + n + 1, HeaderSize + size)]
  BY DEF h, b, HeaderSize
<1> HIDE DEF e
<1> QED
  BY <1>2, <1>3, <1>4, <1>5, <1>6, <1>7, <1>8

-----------------------------------------------------------------------------
\* One lemma for each way send_msg() takes

LEMMA EnqueueIntact ==
  ASSUME IntactInv, NEW c \in Nat, NEW size \in Nat, Enqueue(c, size), calls' \in Nat
  PROVE  IntactInv' /\ wire' \o Unsent' = (wire \o Unsent) \o Frame(c, size)
<1> USE DEF Enqueue
<1> DEFINE e == [head |-> SubSeq(Frame(c, size), 1, HeaderSize),
                 body |-> SubSeq(Frame(c, size), HeaderSize + 1, HeaderSize + size)]
           f == Frame(c, size)
           n == Len(waiting)
           w == Append(waiting, e)
           b == Bytes(waiting, headSent, n)
           l == Left(sending, sent)
<1>1. e \in Message /\ Encoded(e, 0) = f
  <2>1. 0 \in 0..size /\ HeaderSize + 0 + 1 = HeaderSize + 1
    BY DEF HeaderSize
  <2> QED
    BY <2>1, FrameMessage
<1>2. f \in Seq(Byte)
  BY FrameIs
<1>3. Proper(waiting, headSent) /\ l \in Seq(Byte) /\ b \in Seq(Byte)
  BY StateBytes
<1>4. waiting' = w /\ waiting # <<>> /\ waiting \in Seq(Message)
  BY DEF MustWait, IntactInv, BytesTyped
<1> HIDE DEF e
<1>5. /\ w \in Seq(Message) /\ Len(w) = n + 1 /\ w[n + 1] = e /\ n \in Nat /\ n >= 1
      /\ \A i \in 1..n : w[i] = waiting[i]
      /\ w # <<>> /\ Head(w) = Head(waiting) /\ w[1] = waiting[1]
  BY <1>1, <1>4
<1> HIDE DEF w
<1>6. Proper(w, headSent)
  BY <1>3, <1>4, <1>5 DEF Proper
<1>7. Bytes(w, headSent, n + 1) = b \o f
  <2>1. n + 1 \in 1..Len(w) /\ (n + 1) - 1 = n /\ n + 1 # 1
    BY <1>5
  <2>2. Bytes(w, headSent, n + 1) = Bytes(w, headSent, n) \o PartOf(w, headSent, n + 1)
    BY <1>6, <2>1, BytesLast
  <2>3. PartOf(w, headSent, n + 1) = f
    BY <1>1, <1>5, <2>1 DEF PartOf
  <2>4. [i \in 1..n |-> Encoded(w[i], IF i = 1 THEN headSent ELSE 0)] =
        [i \in 1..n |-> Encoded(waiting[i], IF i = 1 THEN headSent ELSE 0)]
    BY <1>5
  <2>5. Bytes(w, headSent, n) = b
    BY <2>4 DEF Bytes
  <2> QED
    BY <2>2, <2>3, <2>5
<1>8. TypeOK'
  BY <1>4, <1>5 DEF IntactInv, Intact, TypeOK
<1>9. BytesTyped'
  <2>1. due \o f \in Seq(Byte)
    BY <1>2, Concats DEF IntactInv, BytesTyped
  <2> QED
    BY <1>4, <1>5, <2>1 DEF IntactInv, BytesTyped
<1>10. FlagRight' /\ IdleIsEmpty' /\ ReadableHead'
  BY DEF IntactInv, FlagRight, IdleIsEmpty, ReadableHead, Misread
<1>11. wire' \o Unsent' = (wire \o Unsent) \o f
  <2>1. Unsent = (l \o sendBuf) \o b
    BY UnsentIs
  <2>2. Unsent' = (l \o sendBuf) \o (b \o f)
    <3>1. Unsent' = (Left(sending', sent') \o sendBuf') \o Bytes(waiting', headSent', Len(waiting'))
      BY UnsentThen
    <3> QED
      BY <1>4, <1>5, <1>7, <3>1
  <2>3. wire \in Seq(Byte) /\ l \o sendBuf \in Seq(Byte)
    BY <1>3, Concats DEF IntactInv, BytesTyped
  <2> DEFINE a == l \o sendBuf
  <2> HIDE DEF a, b, f
  <2>4. wire \o (a \o (b \o f)) = (wire \o (a \o b)) \o f
    <3>1. wire \in Seq(Byte) /\ a \in Seq(Byte) /\ b \in Seq(Byte) /\ f \in Seq(Byte)
      BY <1>2, <1>3, <2>3 DEF a, b, f
    <3>2. Regroups(wire, a, b, f)
      BY <3>1, Regrouped
    <3> QED
      BY <3>2 DEF Regroups
  <2> QED
    BY <2>1, <2>2, <2>4 DEF a
<1> QED
  BY <1>8, <1>9, <1>10, <1>11 DEF IntactInv, Intact

LEMMA WriteToBufferIntact ==
  ASSUME IntactInv, open, NEW c \in Nat, NEW size \in Nat, WriteToBuffer(c, size), calls' \in Nat
  PROVE  IntactInv'
<1> USE DEF WriteToBuffer
<1> DEFINE f == Frame(c, size)
           buf == Appended(c, size)
           l == Left(sending, sent)
<1>1. f \in Seq(Byte)
  BY FrameIs
<1>2. l \in Seq(Byte) /\ sendBuf \in Seq(Byte) /\ wire \in Seq(Byte) /\ due \in Seq(Byte)
  BY StateBytes DEF IntactInv, BytesTyped
<1>3. /\ buf \in Seq(Byte) /\ Len(buf) <= BufSize /\ HeadFits \in 0..6
      /\ HeadFits = 6 => buf = sendBuf \o SubSeq(f, 1, 6 + size)
  BY <1>2, AppendedIs DEF IntactInv, Intact, TypeOK
<1>4. /\ sendBuf' \in Seq(Byte) /\ sending' \in Seq(Byte) /\ sent' \in Nat
      /\ Len(sendBuf') <= BufSize /\ Len(sending') <= BufSize /\ sent' <= Len(sending')
      /\ FlagRight' /\ IdleIsEmpty'
      /\ writing' \in BOOLEAN /\ overtaken' \in BOOLEAN /\ io' \in {"none", "posted", "settling"}
      /\ Left(sending', sent') \o sendBuf' = l \o buf
  <2> HIDE DEF buf
  <2> QED
    BY <1>3, StartWriteKeeps DEF buf
<1>5. waiting = <<>> /\ waiting' = <<>> /\ headSent' = headSent
  BY DEF MustWait
<1>6. due \o f \in Seq(Byte)
  BY <1>1, <1>2, Concats
<1>7. BytesTyped'
  BY <1>2, <1>4, <1>5, <1>6 DEF BytesTyped
<1>8. mangled' = (mangled \/ HeadFits < 6)
  BY DEF HeaderSize
<1>9. TypeOK'
  BY <1>4, <1>5, <1>8 DEF IntactInv, Intact, TypeOK
<1>10. ReadableHead'
  BY <1>5, <1>8 DEF IntactInv, ReadableHead, Misread
<1>11. ASSUME ~mangled' PROVE wire' \o Unsent' = due'
  <2>1. ~mangled /\ HeadFits = 6
    <3> HIDE DEF buf
    <3>1. HeadFits \in 0..6 /\ ~(HeadFits < 6)
      BY <1>3, <1>8, <1>11
    <3>2. HeadFits = 6
      BY <3>1
    <3> QED
      BY <1>8, <1>11, <3>2
  <2>2. buf = sendBuf \o f
    <3>1. SubSeq(f, 1, 6 + size) = f
      <4>1. f \in Seq(Byte) /\ Len(f) = 6 + size
        BY FrameIs
      <4> HIDE DEF f
      <4>2. SubSeq(f, 1, Len(f)) = f
        BY <4>1
      <4> QED
        BY <4>1, <4>2
    <3> QED
      BY <1>3, <2>1, <3>1
  <2>3. Bytes(waiting, headSent, Len(waiting)) = <<>> /\ Bytes(waiting', headSent', Len(waiting')) = <<>>
    BY <1>5, StateBytes
  <2>4. Unsent = (l \o sendBuf) \o <<>>
    BY <2>3, UnsentIs
  <2>5. Unsent' = (l \o (sendBuf \o f)) \o <<>>
    <3>1. Unsent' = (Left(sending', sent') \o sendBuf') \o Bytes(waiting', headSent', Len(waiting'))
      BY UnsentThen
    <3> QED
      BY <1>4, <2>2, <2>3, <3>1
  <2> HIDE DEF l, f
  <2>6. (l \o sendBuf) \o <<>> = l \o sendBuf
    <3> DEFINE a == l \o sendBuf
    <3>1. a \in Seq(Byte)
      BY <1>2, Concats
    <3> HIDE DEF a
    <3> QED
      BY <3>1, Concats DEF a
  <2>7. (l \o (sendBuf \o f)) \o <<>> = l \o (sendBuf \o f)
    <3> DEFINE a == sendBuf \o f
               b == l \o a
    <3>1. a \in Seq(Byte)
      BY <1>1, <1>2, Concats
    <3> HIDE DEF a
    <3>2. b \in Seq(Byte)
      BY <1>2, <3>1, Concats
    <3> HIDE DEF b
    <3> QED
      BY <3>2, Concats DEF a, b
  <2>8. wire \o (l \o (sendBuf \o f)) = (wire \o (l \o sendBuf)) \o f
    <3>1. wire \in Seq(Byte) /\ l \in Seq(Byte) /\ sendBuf \in Seq(Byte) /\ f \in Seq(Byte)
      BY <1>1, <1>2 DEF f, l
    <3>2. Regroups(wire, l, sendBuf, f)
      BY <3>1, Regrouped
    <3> QED
      BY <3>2 DEF Regroups
  <2>9. wire \o (l \o sendBuf) = due
    BY <2>1, <2>4, <2>6 DEF IntactInv, Intact
  <2> QED
    BY <2>5, <2>7, <2>8, <2>9 DEF f
<1> QED
  BY <1>4, <1>7, <1>9, <1>10, <1>11 DEF IntactInv, Intact

\* Of a message queued alone, the buffers hold what comes before it.
LEMMA QueuedAlone ==
  ASSUME NEW e \in Message, NEW s \in {0, 6}
  PROVE  Bytes(<<e>>, s, Len(<<e>>)) = Encoded(e, s)
<1>1. 6 + Len(e.body) \in Nat /\ s <= 6 + Len(e.body) /\ s \in Nat
  BY MessageParts
<1>2. <<e>> \in Seq(Message) /\ <<e>> # <<>> /\ Len(<<e>>) = 1 /\ <<e>>[1] = e
  OBVIOUS
<1>3. Proper(<<e>>, s)
  BY <1>1, <1>2 DEF Proper
<1> DEFINE w == <<e>>
<1>4. Bytes(w, s, 1) = Encoded(w[1], s)
  <2>1. w # <<>>
    BY <1>2
  <2> HIDE DEF w
  <2> QED
    BY <1>3, <2>1, BytesOne DEF w
<1> QED
  BY <1>2, <1>4

LEMMA OneMessage == \A e \in Message : <<e>> \in Seq(Message)
OBVIOUS

LEMMA WriteAndQueueRestIntact ==
  ASSUME IntactInv, open, NEW c \in Nat, NEW size \in Nat, WriteAndQueueRest(c, size), calls' \in Nat
  PROVE  IntactInv'
<1> USE DEF WriteAndQueueRest
<1> DEFINE f == Frame(c, size)
           buf == Appended(c, size)
           l == Left(sending, sent)
           n == BodyFits(size)
           first == SubSeq(f, 1, 6 + n)
           e == [head |-> SubSeq(Frame(c, size), 1, HeaderSize),
                 body |-> SubSeq(Frame(c, size), HeaderSize + n + 1, HeaderSize + size)]
           rest == Encoded(e, 6)
<1>1. f \in Seq(Byte)
  BY FrameIs
<1>2. l \in Seq(Byte) /\ sendBuf \in Seq(Byte) /\ wire \in Seq(Byte) /\ due \in Seq(Byte)
  BY StateBytes DEF IntactInv, BytesTyped
<1>3. /\ buf \in Seq(Byte) /\ Len(buf) <= BufSize /\ HeadFits \in 0..6
      /\ HeadFits = 6 => buf = sendBuf \o first
      /\ n \in 0..size
  BY <1>2, AppendedIs DEF IntactInv, Intact, TypeOK
<1>4. /\ e \in Message /\ Len(e.body) = size - n
      /\ first \o rest = f /\ first \in Seq(Byte) /\ rest \in Seq(Byte)
  <2> HIDE DEF n
  <2> QED
    BY <1>3, FrameMessage DEF n
<1>5. /\ sendBuf' \in Seq(Byte) /\ sending' \in Seq(Byte) /\ sent' \in Nat
      /\ Len(sendBuf') <= BufSize /\ Len(sending') <= BufSize /\ sent' <= Len(sending')
      /\ FlagRight' /\ IdleIsEmpty'
      /\ writing' \in BOOLEAN /\ overtaken' \in BOOLEAN /\ io' \in {"none", "posted", "settling"}
      /\ Left(sending', sent') \o sendBuf' = l \o buf
  <2> HIDE DEF buf
  <2> QED
    BY <1>3, StartWriteKeeps DEF buf
<1>6. waiting = <<>> /\ waiting' = <<e>> /\ headSent' = 6
  BY DEF MustWait, RestSent, HeaderSize
<1>7. mangled' = (mangled \/ HeadFits < 6) /\ due' = due \o f /\ wire' = wire
  BY DEF HeaderSize
<1>8. size - n >= 1 /\ size - n \in Nat
  <2>1. n < size
    OBVIOUS
  <2> HIDE DEF n
  <2> QED
    BY <1>3, <2>1
<1> HIDE DEF e, buf, n
<1>9. BytesTyped'
  <2>1. due \o f \in Seq(Byte)
    BY <1>1, <1>2, Concats
  <2>2. waiting' \in Seq(Message)
    BY <1>4, <1>6, OneMessage
  <2> QED
    BY <1>2, <1>5, <1>7, <2>1, <2>2 DEF BytesTyped
<1>10. TypeOK'
  <2>1. Head(waiting') = e /\ waiting' # <<>>
    BY <1>6
  <2>2. headSent' \in Nat /\ headSent' < HeaderSize + Len(e.body)
    BY <1>4, <1>6, <1>8 DEF HeaderSize
  <2> QED
    BY <1>5, <1>7, <2>1, <2>2 DEF IntactInv, Intact, TypeOK
<1>11. ReadableHead'
  BY <1>6 DEF ReadableHead, Misread, IdSize, HeaderSize
<1>12. ASSUME ~mangled' PROVE wire' \o Unsent' = due'
  <2>1. ~mangled /\ HeadFits = 6
    <3>1. HeadFits \in 0..6 /\ ~(HeadFits < 6)
      BY <1>3, <1>7, <1>12
    <3>2. HeadFits = 6
      BY <3>1
    <3> QED
      BY <1>7, <1>12, <3>2
  <2>2. buf = sendBuf \o first
    BY <1>3, <2>1
  <2>3. Unsent = (l \o sendBuf) \o <<>>
    BY <1>6, StateBytes, UnsentIs
  <2>4. Unsent' = (l \o (sendBuf \o first)) \o rest
    <3>1. Bytes(waiting', headSent', Len(waiting')) = rest
      BY <1>4, <1>6, QueuedAlone
    <3> QED
      BY <1>5, <2>2, <3>1, UnsentThen
  <2> DEFINE a == l \o sendBuf
             g == a \o first
  <2> HIDE DEF l, f, first, rest
  <2>5. a \in Seq(Byte) /\ a \o <<>> = a
    <3>1. a \in Seq(Byte)
      BY <1>2, Concats
    <3> HIDE DEF a
    <3> QED
      BY <3>1, Concats
  <2>6. l \o (sendBuf \o first) = g
    <3>1. l \in Seq(Byte) /\ sendBuf \in Seq(Byte) /\ first \in Seq(Byte)
      BY <1>2, <1>4 DEF first, f
    <3>2. Associate(l, sendBuf, first)
      BY <3>1, Associative
    <3> QED
      BY <3>2 DEF Associate
  <2> HIDE DEF a
  <2>7. g \o rest = a \o f
    <3>1. a \in Seq(Byte) /\ first \in Seq(Byte) /\ rest \in Seq(Byte) /\ first \o rest = f
      BY <1>4, <2>5 DEF first, rest, f
    <3>2. Associate(a, first, rest)
      BY <3>1, Associative
    <3> QED
      BY <3>1, <3>2 DEF Associate
  <2>8. wire \o (a \o f) = (wire \o a) \o f
    <3>1. wire \in Seq(Byte) /\ a \in Seq(Byte) /\ f \in Seq(Byte)
      BY <1>1, <1>2, <2>5 DEF f
    <3>2. Associate(wire, a, f)
      BY <3>1, Associative
    <3> QED
      BY <3>2 DEF Associate
  <2>9. wire \o a = due
    <3>1. Unsent = a
      BY <2>3, <2>5 DEF a
    <3> QED
      BY <2>1, <3>1 DEF IntactInv, Intact
  <2>10. Unsent' = a \o f
    BY <2>4, <2>6, <2>7
  <2> QED
    BY <1>7, <2>8, <2>9, <2>10
<1> QED
  BY <1>5, <1>9, <1>10, <1>11, <1>12 DEF IntactInv, Intact

LEMMA EnqueueSwappedIntact ==
  ASSUME IntactInv, open, NEW c \in Nat, NEW size \in Nat, EnqueueSwapped(c, size), calls' \in Nat
  PROVE  IntactInv'
<1> USE DEF EnqueueSwapped
<1> DEFINE f == Frame(c, size)
           l == Left(sending, sent)
           swapped == size # MsgId
           e == [head |-> [k \in 1..HeaderSize |-> IF swapped THEN Junk ELSE <<c, k>>],
                 body |-> [k \in 1..MsgId |-> IF k <= size THEN <<c, HeaderSize + k>> ELSE Junk]]
<1>1. f \in Seq(Byte)
  BY FrameIs
<1>2. /\ l \in Seq(Byte) /\ sendBuf \in Seq(Byte) /\ wire \in Seq(Byte) /\ due \in Seq(Byte)
      /\ Len(sendBuf) <= BufSize
  BY StateBytes DEF IntactInv, BytesTyped, Intact, TypeOK
<1>3. waiting = <<>> /\ waiting' = <<e>> /\ headSent' = 0
  BY StateBytes DEF MustWait
<1>4. mangled' = (mangled \/ swapped) /\ due' = due \o f /\ wire' = wire
  OBVIOUS
<1>5. /\ sendBuf' \in Seq(Byte) /\ sending' \in Seq(Byte) /\ sent' \in Nat
      /\ Len(sendBuf') <= BufSize /\ Len(sending') <= BufSize /\ sent' <= Len(sending')
      /\ FlagRight' /\ IdleIsEmpty'
      /\ writing' \in BOOLEAN /\ overtaken' \in BOOLEAN /\ io' \in {"none", "posted", "settling"}
      /\ Left(sending', sent') \o sendBuf' = l \o sendBuf
  BY <1>2, StartWriteKeeps
<1>6. e \in Message /\ Len(e.body) = MsgId
  <2>1. e.head \in Seq(Byte) /\ Len(e.head) = HeaderSize
    BY DEF Byte, Junk, HeaderSize
  <2>2. e.body \in Seq(Byte) /\ Len(e.body) = MsgId
    <3>1. MsgId \in Nat
      BY SendConstants
    <3>2. \A k \in 1..MsgId : (IF k <= size THEN <<c, HeaderSize + k>> ELSE Junk) \in Byte
      BY <3>1 DEF Byte, Junk, HeaderSize
    <3> QED
      BY <3>1, <3>2
  <2> QED
    BY <2>1, <2>2 DEF Message
<1> HIDE DEF e
<1>7. BytesTyped'
  <2>1. due \o f \in Seq(Byte)
    BY <1>1, <1>2, Concats
  <2>2. waiting' \in Seq(Message)
    BY <1>3, <1>6, OneMessage
  <2> QED
    BY <1>2, <1>4, <1>5, <2>1, <2>2 DEF BytesTyped
<1>8. TypeOK'
  <2>1. Head(waiting') = e /\ waiting' # <<>>
    BY <1>3
  <2>2. headSent' \in Nat /\ headSent' < HeaderSize + Len(e.body)
    BY <1>3, <1>6, SendConstants DEF HeaderSize
  <2>3. mangled' \in BOOLEAN /\ open' \in BOOLEAN
    BY DEF IntactInv, Intact, TypeOK
  <2> QED
    BY <1>5, <2>1, <2>2, <2>3 DEF TypeOK
<1>9. ReadableHead'
  BY <1>3 DEF ReadableHead, Misread, IdSize, HeaderSize
<1>10. ASSUME ~mangled' PROVE wire' \o Unsent' = due'
  <2>1. ~mangled /\ size = MsgId
    BY <1>4, <1>10
  <2>2. Encoded(e, 0) = f
    <3> DEFINE h == e.head
               b == e.body
    <3>1. Encoded(e, 0) = h \o b
      BY <1>6, WholeIsLeft DEF Whole
    <3>2. h \in Seq(Byte) /\ Len(h) = 6 /\ b \in Seq(Byte) /\ Len(b) = size /\ size \in Nat
      BY <1>6, <2>1, MessageParts
    <3>3. (\A k \in 1..6 : h[k] = <<c, k>>) /\ (\A k \in 1..size : b[k] = <<c, 6 + k>>)
      BY <2>1 DEF e, HeaderSize
    <3> HIDE DEF h, b
    <3>4. h \in Seq(Byte) /\ b \in Seq(Byte)
      BY <3>2
    <3>5. /\ h \o b \in Seq(Byte) /\ Len(h \o b) = Len(h) + Len(b)
          /\ \A i \in 1..Len(h) : (h \o b)[i] = h[i]
          /\ \A i \in 1..Len(b) : (h \o b)[Len(h) + i] = b[i]
      BY <3>4
    <3>6. ASSUME NEW i \in 1..(6 + size) PROVE (h \o b)[i] = f[i]
      <4>1. f[i] = <<c, i>>
        BY FrameIs
      <4>2. CASE i <= 6
        BY <3>2, <3>3, <3>5, <4>1, <4>2
      <4>3. CASE i > 6
        <5>1. i - 6 \in 1..size /\ 6 + (i - 6) = i
          BY <4>3
        <5>2. (h \o b)[6 + (i - 6)] = b[i - 6]
          BY <3>2, <3>5, <5>1
        <5> QED
          BY <3>3, <4>1, <5>1, <5>2
      <4>4. i <= 6 \/ i > 6
        BY <3>2
      <4> QED
        BY <4>2, <4>3, <4>4
    <3>7. Len(h \o b) = 6 + size /\ Len(f) = 6 + size
      BY <3>2, <3>5, FrameIs
    <3> QED
      BY <1>1, <3>1, <3>5, <3>6, <3>7, SeqEqual
  <2>3. Bytes(waiting', headSent', Len(waiting')) = f
    BY <1>3, <1>6, <2>2, QueuedAlone
  <2>4. Unsent = (l \o sendBuf) \o <<>>
    BY <1>3, StateBytes, UnsentIs
  <2>5. Unsent' = (l \o sendBuf) \o f
    BY <1>5, <2>3, UnsentThen
  <2> DEFINE a == l \o sendBuf
  <2> HIDE DEF l, f
  <2>6. a \in Seq(Byte)
    BY <1>2, Concats
  <2> HIDE DEF a
  <2>7. a \o <<>> = a
    BY <2>6, Concats
  <2>8. wire \o (a \o f) = (wire \o a) \o f
    <3>1. wire \in Seq(Byte) /\ a \in Seq(Byte) /\ f \in Seq(Byte)
      BY <1>1, <1>2, <2>6 DEF f
    <3>2. Associate(wire, a, f)
      BY <3>1, Associative
    <3> QED
      BY <3>2 DEF Associate
  <2>9. wire \o a = due
    <3>1. Unsent = a
      BY <2>4, <2>7 DEF a
    <3> QED
      BY <2>1, <3>1 DEF IntactInv, Intact
  <2> QED
    BY <1>4, <2>5, <2>8, <2>9 DEF a
<1> QED
  BY <1>5, <1>7, <1>8, <1>9, <1>10 DEF IntactInv, Intact

LEMMA TakeBackIntact ==
  ASSUME IntactInv, NEW c \in Nat, NEW size \in Nat, TakeBack(c, size), calls' \in Nat
  PROVE  IntactInv'
<1> USE DEF TakeBack
<1> DEFINE buf == Appended(c, size)
           n == BodyFits(size)
           k == Len(buf) - HeaderSize - n
<1>1. sendBuf \in Seq(Byte) /\ Len(sendBuf) <= BufSize
  BY DEF IntactInv, BytesTyped, Intact, TypeOK
<1>2. /\ buf \in Seq(Byte) /\ Len(buf) <= BufSize /\ HeadFits \in 0..6 /\ n \in 0..size
      /\ Len(buf) = Len(sendBuf) + HeadFits + n
      /\ HeadFits = 6 => buf = sendBuf \o SubSeq(Frame(c, size), 1, 6 + n)
  BY <1>1, AppendedIs
<1>3. sendBuf' = SubSeq(buf, 1, k) /\ mangled' = (mangled \/ HeadFits < 6)
  BY DEF HeaderSize
<1>4. k \in Int /\ k <= Len(sendBuf) /\ k <= Len(buf)
  <2> HIDE DEF buf, n
  <2> QED
    BY <1>1, <1>2 DEF HeaderSize
<1>5. sendBuf' \in Seq(Byte) /\ Len(sendBuf') <= BufSize
  <2> HIDE DEF buf, k
  <2>1. BufSize \in Nat
    BY SendConstants
  <2>2. k <= BufSize /\ k \in Int
    <3>1. Len(sendBuf) \in Nat
      BY <1>1
    <3> QED
      BY <1>1, <1>4, <2>1, <3>1
  <2>3. CASE k >= 1
    <3>1. SubSeq(buf, 1, k) \in Seq(Byte) /\ Len(SubSeq(buf, 1, k)) = k
      BY <1>2, <1>4, <2>3
    <3> QED
      BY <2>3, <2>1, <2>2, <3>1, <1>3
  <2>4. CASE k < 1
    <3>1. SubSeq(buf, 1, k) = <<>>
      BY <1>4, <2>4, SubSeqEmpty
    <3>2. <<>> \in Seq(Byte) /\ Len(<<>>) = 0
      OBVIOUS
    <3>3. sendBuf' = <<>>
      BY <1>3, <3>1
    <3>4. Len(<<>>) <= BufSize
      BY <2>1
    <3> QED
      BY <3>2, <3>3, <3>4, Zenon
  <2> QED
    BY <1>4, <2>3, <2>4
<1>6. ASSUME ~mangled' PROVE ~mangled /\ sendBuf' = sendBuf
  <2>1. ~mangled /\ HeadFits = 6
    <3> HIDE DEF buf, n, k
    <3>1. HeadFits \in 0..6 /\ ~(HeadFits < 6)
      BY <1>2, <1>3, <1>6
    <3>2. HeadFits = 6
      BY <3>1
    <3> QED
      BY <1>3, <1>6, <3>2
  <2> DEFINE g == SubSeq(Frame(c, size), 1, 6 + n)
  <2>2. g \in Seq(Byte) /\ buf = sendBuf \o g /\ k = Len(sendBuf)
    <3>1. 6 + n \in 0..(6 + size)
      <4>1. n \in 0..size
        BY <1>1, AppendedIs
      <4> HIDE DEF n
      <4> QED
        BY <4>1
    <3>2. g \in Seq(Byte)
      <4> DEFINE m == 6 + n
      <4>1. m \in 0..(6 + size)
        BY <3>1
      <4> HIDE DEF m
      <4> QED
        BY <4>1, FrameCut DEF m
    <3>3. k = Len(sendBuf)
      <4> HIDE DEF buf, n
      <4> QED
        BY <1>1, <1>2, <2>1 DEF HeaderSize
    <3> QED
      BY <1>2, <2>1, <3>2, <3>3
  <2> HIDE DEF g, buf, k
  <2>3. SubSeq(sendBuf \o g, 1, Len(sendBuf)) = sendBuf
    BY <1>1, <2>2
  <2> QED
    BY <1>3, <2>1, <2>2, <2>3
<1> HIDE DEF buf, n, k
<1>7. TypeOK' /\ BytesTyped'
  BY <1>5 DEF IntactInv, Intact, TypeOK, BytesTyped
<1>8. FlagRight' /\ IdleIsEmpty' /\ ReadableHead'
  BY <1>6 DEF IntactInv, FlagRight, IdleIsEmpty, ReadableHead, Misread
<1>9. ASSUME ~mangled' PROVE wire' \o Unsent' = due'
  <2>1. Unsent' = Unsent
    BY <1>6, <1>9, UnsentIs, UnsentThen
  <2> QED
    BY <1>6, <1>9, <2>1 DEF IntactInv, Intact
<1> QED
  BY <1>7, <1>8, <1>9 DEF IntactInv, Intact

-----------------------------------------------------------------------------
LEMMA MaxOfSet ==
  ASSUME NEW l \in Nat, NEW T, T \subseteq 0..l, T # {}
  PROVE  Max(T) \in T /\ \A i \in T : i <= Max(T)
<1> DEFINE U == {l - i : i \in T}
<1>1. PICK m \in U : \A k \in U : m <= k
  <2>1. ASSUME NEW i \in T PROVE l - i \in Nat
    <3>1. i \in 0..l
      OBVIOUS
    <3> QED
      BY <3>1
  <2>2. U # {} /\ U \subseteq Nat
    BY <2>1
  <2> HIDE DEF U
  <2> QED
    BY <2>2, LeastNumber
<1>2. PICK j \in T : m = l - j
  BY <1>1
<1>3. \A i \in T : j >= i
  BY <1>1, <1>2
<1>4. Max(T) \in T /\ \A i \in T : Max(T) >= i
  BY <1>3 DEF Max
<1> QED
  BY <1>4

LEMMA PrefixOf ==
  ASSUME NEW a \in Seq(Byte), NEW b \in Seq(Byte)
  PROVE  SubSeq(a \o b, 1, Len(a)) = a
OBVIOUS

\* _msg_queue_buf() moves bytes of the queue into the buffer, in their order:
\* what it leaves there follows what it has taken.
LEMMA QueueToBufKeeps ==
  ASSUME IntactInv, QueueToBuf
  PROVE  /\ sending' \in Seq(Byte) /\ Len(sending') <= BufSize
         /\ waiting' \in Seq(Message) /\ headSent' \in Nat
         /\ IF waiting' = <<>> THEN headSent' = 0
            ELSE headSent' < HeaderSize + Len(Head(waiting').body)
         /\ mangled' = (mangled \/ Misread(headSent'))
         /\ ~mangled' => Bytes(waiting, headSent, Len(waiting)) =
                         sending' \o Bytes(waiting', headSent', Len(waiting'))
         /\ Thins(Bytes(waiting, headSent, Len(waiting)),
                  sending' \o Bytes(waiting', headSent', Len(waiting')))
<1> DEFINE w == waiting
           h == headSent
           l == Len(w)
           all == Bytes(w, h, l)
           T == {i \in 0..l : DoneWith(i)}
           n == Max(T)
<1>1. Proper(w, h) /\ all \in Seq(Byte) /\ w \in Seq(Message) /\ l \in Nat /\ h \in Nat
  BY StateBytes DEF IntactInv, BytesTyped, Intact, TypeOK
<1>2. BufSize \in Nat /\ Len(all) \in Nat
  BY <1>1, SendConstants
<1>3. \A i \in 0..l : i \in T <=> Len(Bytes(w, h, i)) <= BufSize
  BY DEF DoneWith, Encodings, Bytes
<1>4. 0 \in T
  <2>1. Len(Bytes(w, h, 0)) = 0
    BY BytesNone
  <2> HIDE DEF T
  <2> QED
    BY <1>1, <1>2, <1>3, <2>1
<1>5. n \in T /\ (\A i \in T : i <= n) /\ n \in 0..l
  <2>1. T \subseteq 0..l /\ T # {}
    BY <1>4
  <2> HIDE DEF T
  <2> QED
    BY <1>1, <2>1, MaxOfSet
<1>6. /\ sending' = SubSeq(all, 1, Min({BufSize, Len(all)}))
      /\ waiting' = SubSeq(w, n + 1, l)
      /\ headSent' = IF n = l THEN 0 ELSE (IF n = 0 THEN h ELSE 0) + Len(sending') - Len(Bytes(w, h, n))
      /\ mangled' = (mangled \/ Misread(headSent'))
  BY DEF QueueToBuf, Encodings, Bytes
<1> HIDE DEF T
<1>7. Len(Bytes(w, h, n)) <= BufSize
  BY <1>3, <1>5
<1> HIDE DEF n, all
<1>8. CASE n = l
  <2>1. Len(all) <= BufSize
    BY <1>7, <1>8 DEF all
  <2>2. Min({BufSize, Len(all)}) = Len(all)
    BY <1>2, <2>1, MinIs
  <2>3. SubSeq(all, 1, Len(all)) = all
    BY <1>1
  <2>4. sending' = all
    BY <1>6, <2>2, <2>3
  <2>5. waiting' = <<>> /\ headSent' = 0
    BY <1>1, <1>6, <1>8
  <2>6. Bytes(waiting', headSent', Len(waiting')) = <<>>
    <3>1. Len(waiting') = 0
      BY <2>5
    <3> QED
      BY <3>1, BytesNone
  <2>7. all \o <<>> = all
    BY <1>1
  <2> QED
    <3>1. all = Bytes(waiting, headSent, Len(waiting))
      BY DEF all
    <3>2. <<>> \in Seq(Message)
      OBVIOUS
    <3>3. sending' \in Seq(Byte) /\ Len(sending') <= BufSize
      BY <1>1, <2>1, <2>4
    <3>4. waiting' \in Seq(Message) /\ headSent' \in Nat
      BY <2>5, <3>2
    <3>5. Bytes(waiting, headSent, Len(waiting)) = sending' \o Bytes(waiting', headSent', Len(waiting'))
      BY <2>4, <2>6, <2>7, <3>1
    <3>6. Thins(all, all)
      BY <1>1 DEF Thins
    <3> QED
      BY <1>6, <2>4, <2>5, <2>6, <2>7, <3>1, <3>3, <3>4, <3>5, <3>6
<1>9. CASE n # l
  <2> DEFINE e == w[n + 1]
             s0 == IF n = 0 THEN h ELSE 0
             p == Bytes(w, h, n)
             x == PartOf(w, h, n + 1)
             t == SubSeq(w, n + 1 + 1, l)
             rest == Bytes(t, 0, l - (n + 1))
             d == BufSize - Len(p)
             v == waiting'
  <2>1. n \in Nat /\ n < l /\ n + 1 \in 1..l /\ n + 1 \in 0..l /\ n \in 0..l /\ (n + 1) - 1 = n
    BY <1>1, <1>5, <1>9
  <2>2. e \in Message /\ x = Encoded(e, s0)
    <3>1. n + 1 = 1 <=> n = 0
      BY <2>1
    <3> QED
      BY <1>1, <2>1, <3>1 DEF PartOf
  <2>3. p \in Seq(Byte) /\ x \in Seq(Byte) /\ Bytes(w, h, n + 1) = p \o x
    <3>1. p \in Seq(Byte)
      BY <1>1, <2>1, BytesIs
    <3>2. x \in Seq(Byte)
      BY <1>1, <2>1, PartsTyped
    <3>3. Bytes(w, h, n + 1) = Bytes(w, h, (n + 1) - 1) \o x
      BY <1>1, <2>1, BytesLast
    <3> QED
      BY <2>1, <3>1, <3>2, <3>3
  <2>4. all = (p \o x) \o rest /\ rest \in Seq(Byte)
    <3> DEFINE k == n + 1
    <3>1. k \in 1..Len(w)
      BY <2>1
    <3> HIDE DEF k
    <3>2. /\ Bytes(w, h, Len(w)) = Bytes(w, h, k) \o Bytes(SubSeq(w, k + 1, Len(w)), 0, Len(w) - k)
          /\ Bytes(SubSeq(w, k + 1, Len(w)), 0, Len(w) - k) \in Seq(Byte)
      BY <1>1, <3>1, BytesSplit
    <3> QED
      BY <2>3, <3>2 DEF k, all
  <2>5. s0 \in Nat /\ s0 <= 6 + Len(e.body) /\ Len(e.body) \in Nat
    <3>1. Len(e.body) \in Nat
      BY <2>2, MessageParts
    <3>2. n = 0 => h <= 6 + Len(e.body)
      <4>1. w # <<>>
        BY <2>1
      <4> QED
        BY <1>1, <4>1 DEF Proper
    <3> QED
      BY <1>1, <3>1, <3>2
  <2>6. Len(x) = 6 + Len(e.body) - s0
    <3> HIDE DEF e, s0, x
    <3> QED
      BY <2>2, <2>5, EncodedLength
  <2> HIDE DEF e, s0, p, x, rest
  <2>7. /\ p \o x \in Seq(Byte) /\ Len(p \o x) = Len(p) + Len(x)
        /\ Len(p) \in Nat /\ Len(x) \in Nat
    BY <2>3
  <2>8. ~(Len(p) + Len(x) <= BufSize)
    <3>1. n + 1 \notin T
      BY <1>5, <2>1
    <3> QED
      BY <1>3, <2>1, <2>3, <2>7, <3>1
  <2>9. d \in Nat /\ d < Len(x) /\ Len(p) <= BufSize
    BY <1>2, <1>7, <2>7, <2>8 DEF p
  <2>10. Len(all) >= BufSize
    <3>1. Len((p \o x) \o rest) = Len(p \o x) + Len(rest) /\ Len(rest) \in Nat
      <4> DEFINE px == p \o x
      <4>1. px \in Seq(Byte) /\ rest \in Seq(Byte)
        BY <2>4, <2>7
      <4> HIDE DEF px
      <4>2. Len(px \o rest) = Len(px) + Len(rest) /\ Len(rest) \in Nat
        BY <4>1
      <4> QED
        BY <4>2 DEF px
    <3> QED
      BY <1>2, <2>4, <2>7, <2>8, <3>1
  <2>11. sending' = SubSeq(all, 1, BufSize)
    <3>1. Min({BufSize, Len(all)}) = BufSize
      BY <1>2, <2>10, MinIs
    <3> QED
      BY <1>6, <3>1
  <2>12. sending' \in Seq(Byte) /\ Len(sending') = BufSize
    <3>1. SubSeq(all, 1, BufSize) \in Seq(Byte) /\ Len(SubSeq(all, 1, BufSize)) = BufSize
      BY <1>1, <1>2, <2>10
    <3> QED
      BY <2>11, <3>1
  <2>13. headSent' = s0 + d
    <3>1. headSent' = s0 + BufSize - Len(p)
      BY <1>6, <1>9, <2>12 DEF s0, p
    <3> QED
      BY <1>2, <2>5, <2>7, <3>1
  <2>14. s0 + d < 6 + Len(e.body) /\ s0 + d \in Nat
    <3> HIDE DEF d
    <3> QED
      BY <2>5, <2>6, <2>9
  <2>15. /\ v = SubSeq(w, n + 1, l) /\ v \in Seq(Message) /\ Len(v) = l - n
         /\ \A i \in 1..(l - n) : v[i] = w[n + i]
    <3>1. n <= l
      BY <2>1
    <3> QED
      BY <1>1, <1>6, <2>1, <3>1, PartIs
  <2> HIDE DEF v
  <2>16. v # <<>> /\ Head(v) = e /\ v[1] = e
    <3>1. 1 \in 1..(l - n)
      BY <1>1, <2>1
    <3>2. v[1] = e
      BY <2>15, <3>1 DEF e
    <3>3. Len(v) # 0
      BY <2>15, <3>1
    <3>4. v # <<>>
      BY <3>3
    <3>5. v \in Seq(Message)
      BY <2>15
    <3>6. Head(v) = v[1]
      BY <3>4, <3>5
    <3> QED
      BY <3>2, <3>4, <3>6
  <2>17. waiting' \in Seq(Message) /\ headSent' \in Nat
         /\ waiting' # <<>> /\ headSent' < HeaderSize + Len(Head(waiting').body)
    BY <2>13, <2>14, <2>15, <2>16 DEF v, HeaderSize
  <2>18. SubSeq(v, 2, Len(v)) = t /\ Len(v) - 1 = l - (n + 1)
    <3> DEFINE a == SubSeq(v, 2, Len(v))
               k == n + 1
    <3>1. /\ a \in Seq(Message) /\ Len(a) = Len(v) - 1
          /\ \A i \in 1..(Len(v) - 1) : a[i] = v[1 + i]
      BY <2>15, <2>16, AllButFirst
    <3>2. /\ t \in Seq(Message) /\ Len(t) = l - k
          /\ \A i \in 1..(l - k) : t[i] = w[k + i]
      <4>1. k \in Nat /\ k <= l /\ l <= Len(w)
        BY <2>1
      <4> HIDE DEF k
      <4>2. /\ SubSeq(w, k + 1, l) \in Seq(Message) /\ Len(SubSeq(w, k + 1, l)) = l - k
            /\ \A i \in 1..(l - k) : SubSeq(w, k + 1, l)[i] = w[k + i]
        BY <1>1, <4>1, PartIs
      <4> QED
        BY <4>2 DEF k
    <3> HIDE DEF a, t
    <3>3. Len(v) - 1 = l - k
      BY <1>1, <2>1, <2>15
    <3>4. ASSUME NEW i \in 1..(l - k) PROVE a[i] = t[i]
      <4>1. 1 + i \in 1..(l - n) /\ n + (1 + i) = k + i
        BY <1>1, <2>1
      <4>2. a[i] = v[1 + i] /\ t[i] = w[k + i]
        BY <3>1, <3>2, <3>3
      <4>3. v[1 + i] = w[n + (1 + i)]
        BY <2>15, <4>1
      <4> QED
        BY <4>1, <4>2, <4>3
    <3>5. a = t
      BY <3>1, <3>2, <3>3, <3>4, SeqEqual
    <3> QED
      BY <3>3, <3>5 DEF a
  <2>19. Bytes(v, s0 + d, Len(v)) = Encoded(e, s0 + d) \o rest
    <3> DEFINE s1 == s0 + d
    <3>1. s1 \in Nat /\ s1 <= 6 + Len(v[1].body)
      BY <2>5, <2>14, <2>16
    <3> HIDE DEF s1
    <3>2. Proper(v, s1)
      BY <2>15, <3>1 DEF Proper
    <3>3. Bytes(v, s1, Len(v)) = Encoded(v[1], s1) \o Bytes(SubSeq(v, 2, Len(v)), 0, Len(v) - 1)
      BY <2>16, <3>2, BytesFirst
    <3> QED
      BY <2>16, <2>18, <3>3 DEF s1, rest
  <2>20. ASSUME ~mangled' PROVE all = sending' \o Bytes(v, s0 + d, Len(v))
    <3>1. ~Misread(s0) /\ ~Misread(s0 + d)
      <4>1. ~mangled /\ ~Misread(headSent')
        BY <1>6, <2>20
      <4>2. ~Misread(h)
        BY <4>1 DEF IntactInv, ReadableHead
      <4>3. ~Misread(0)
        BY DEF Misread, IdSize, HeaderSize
      <4> QED
        BY <2>13, <4>1, <4>2, <4>3 DEF s0
    <3> DEFINE y == SubSeq(Whole(e), s0 + 1, s0 + d)
               z == Rest(e, s0 + d)
    <3>2. x = Rest(e, s0) /\ Encoded(e, s0 + d) = z
      <4> DEFINE s1 == s0 + d
      <4>1. s1 \in Nat /\ s1 <= 6 + Len(e.body) /\ ~Misread(s1)
        BY <2>5, <2>14, <3>1
      <4> HIDE DEF s1
      <4>2. Encoded(e, s1) = Rest(e, s1)
        BY <2>2, <4>1, EncodedRest
      <4>3. Encoded(e, s0) = Rest(e, s0)
        BY <2>2, <2>5, <3>1, EncodedRest
      <4> QED
        BY <2>2, <4>2, <4>3 DEF s1
    <3>3. Rest(e, s0) = y \o z /\ y \in Seq(Byte) /\ Len(y) = d /\ z \in Seq(Byte)
      <4>1. s0 + d <= 6 + Len(e.body) /\ d \in Nat
        BY <2>5, <2>9, <2>14
      <4> HIDE DEF d
      <4> QED
        BY <2>2, <2>5, <4>1, RestSplit
    <3> HIDE DEF y, z
    <3>4. all = (p \o (y \o z)) \o rest
      BY <2>4, <3>2, <3>3
    <3> DEFINE py == p \o y
               zr == z \o rest
    <3>5. py \in Seq(Byte) /\ Len(py) = Len(p) + Len(y) /\ zr \in Seq(Byte)
      <4>1. py \in Seq(Byte) /\ Len(py) = Len(p) + Len(y)
        BY <2>3, <3>3, Concats
      <4>2. zr \in Seq(Byte)
        BY <2>4, <3>3, Concats
      <4> QED
        BY <4>1, <4>2
    <3>6. all = py \o zr
      <4>1. p \in Seq(Byte) /\ y \in Seq(Byte) /\ z \in Seq(Byte) /\ rest \in Seq(Byte)
        BY <2>3, <2>4, <3>3
      <4>2. Associate(p, y, z)
        BY <4>1, Associative
      <4> HIDE DEF py
      <4>3. Associate(py, z, rest)
        BY <3>5, <4>1, Associative
      <4> QED
        BY <3>4, <4>2, <4>3 DEF Associate, py
    <3>7. Len(py) = BufSize
      <4> HIDE DEF py
      <4> QED
        BY <1>2, <2>7, <3>3, <3>5
    <3> HIDE DEF py, zr
    <3>8. SubSeq(all, 1, BufSize) = py
      BY <3>5, <3>6, <3>7, PrefixOf
    <3>9. Bytes(v, s0 + d, Len(v)) = zr
      BY <2>19, <3>2 DEF zr
    <3> QED
      BY <2>11, <3>6, <3>8, <3>9
  <2>21. all = Bytes(waiting, headSent, Len(waiting)) /\ v = waiting'
    BY DEF v, all
  <2>22. Len(sending') <= BufSize
    BY <1>2, <2>12
  <2>23. Thins(all, sending' \o Bytes(v, s0 + d, Len(v)))
    <3> DEFINE s1 == s0 + d
               y == Encoded(e, s1)
               k == 6 + Len(e.body) - s1
               f == sending'
               g == y \o rest
    <3>1. s1 \in Nat /\ s1 <= 6 + Len(e.body) /\ k \in Nat /\ Len(x) = d + k /\ d \in Nat
      <4> HIDE DEF d
      <4> QED
        BY <2>5, <2>6, <2>9, <2>14
    <3>2. y \in Seq(Byte) /\ Len(y) = k
      <4> HIDE DEF s1
      <4> QED
        BY <2>2, <3>1, EncodedLength
    <3>3. ASSUME NEW i \in 1..k PROVE y[i] = x[d + i] \/ y[i] = Junk
      <4> HIDE DEF d
      <4>1. s0 + d <= 6 + Len(e.body)
        BY <3>1
      <4>2. Encoded(e, s0 + d)[i] = Encoded(e, s0)[d + i] \/ Encoded(e, s0 + d)[i] = Junk
        BY <2>2, <2>5, <3>1, <4>1, EncodedThins
      <4> QED
        BY <2>2, <4>2
    <3>4. Len(p) + d = BufSize
      BY <1>2, <2>7
    <3> HIDE DEF d, k, y
    <3>5. /\ g \in Seq(Byte) /\ Len(g) = k + Len(rest) /\ Len(rest) \in Nat
          /\ \A i \in 1..k : g[i] = y[i]
          /\ \A i \in 1..Len(rest) : g[k + i] = rest[i]
      <4>1. y \in Seq(Byte) /\ rest \in Seq(Byte)
        BY <2>4, <3>2
      <4>2. /\ y \o rest \in Seq(Byte) /\ Len(y \o rest) = Len(y) + Len(rest) /\ Len(rest) \in Nat
            /\ \A i \in 1..Len(y) : (y \o rest)[i] = y[i]
            /\ \A i \in 1..Len(rest) : (y \o rest)[Len(y) + i] = rest[i]
        BY <4>1, JoinIs
      <4> QED
        BY <3>2, <4>2
    <3>6. /\ \A i \in 1..k : all[BufSize + i] = x[d + i]
          /\ \A i \in 1..Len(rest) : all[BufSize + k + i] = rest[i]
          /\ Len(all) = BufSize + k + Len(rest)
      <4> DEFINE px == p \o x
      <4>1. px \in Seq(Byte) /\ Len(px) = BufSize + k
        BY <1>2, <2>7, <3>1, <3>4
      <4>2. ASSUME NEW i \in 1..k PROVE px[BufSize + i] = x[d + i]
        <5>1. d + i \in 1..Len(x) /\ Len(p) + (d + i) = BufSize + i
          BY <2>7, <3>1, <3>4
        <5>2. px[Len(p) + (d + i)] = x[d + i]
          BY <2>3, <5>1
        <5> QED
          BY <5>1, <5>2
      <4> HIDE DEF px
      <4>3. /\ px \o rest \in Seq(Byte) /\ Len(px \o rest) = Len(px) + Len(rest)
            /\ \A i \in 1..Len(px) : (px \o rest)[i] = px[i]
            /\ \A i \in 1..Len(rest) : (px \o rest)[Len(px) + i] = rest[i]
        <5>1. px \in Seq(Byte) /\ rest \in Seq(Byte)
          BY <2>4, <4>1
        <5> QED
          BY <5>1, JoinIs
      <4>4. all = px \o rest
        BY <2>4 DEF px
      <4>5. ASSUME NEW i \in 1..k PROVE BufSize + i \in 1..Len(px)
        BY <1>2, <3>1, <4>1
      <4> QED
        BY <4>1, <4>2, <4>3, <4>4, <4>5
    <3> HIDE DEF g, f
    <3>7. f \in Seq(Byte) /\ Len(f) = BufSize /\ \A i \in 1..BufSize : f[i] = all[i]
      <4>1. f = SubSeq(all, 1, BufSize)
        BY <2>11 DEF f
      <4>2. \A i \in 1..BufSize : SubSeq(all, 1, BufSize)[i] = all[i]
        BY <1>1, <1>2, <2>10
      <4> QED
        BY <2>12, <4>1, <4>2 DEF f
    <3>8. /\ f \o g \in Seq(Byte) /\ Len(f \o g) = Len(f) + Len(g)
          /\ \A i \in 1..Len(f) : (f \o g)[i] = f[i]
          /\ \A i \in 1..Len(g) : (f \o g)[Len(f) + i] = g[i]
      <4>1. f \in Seq(Byte) /\ g \in Seq(Byte)
        BY <3>5, <3>7
      <4> QED
        BY <4>1, JoinIs
    <3>9. ASSUME NEW i \in 1..Len(all) PROVE (f \o g)[i] = all[i] \/ (f \o g)[i] = Junk
      <4> DEFINE j == i - BufSize
                 m == i - BufSize - k
      <4>1. CASE i <= BufSize
        <5>1. i \in 1..BufSize
          BY <1>2, <4>1
        <5> QED
          BY <3>7, <3>8, <5>1
      <4>2. CASE j \in 1..k
        <5>1. BufSize + j = i /\ j \in 1..Len(g)
          BY <1>2, <3>1, <3>5, <4>2
        <5> HIDE DEF j
        <5>2. (f \o g)[BufSize + j] = y[j]
          BY <3>5, <3>7, <3>8, <4>2, <5>1
        <5>3. all[BufSize + j] = x[d + j]
          BY <3>6, <4>2
        <5> QED
          BY <3>3, <4>2, <5>1, <5>2, <5>3
      <4>3. CASE m \in 1..Len(rest)
        <5>1. BufSize + (k + m) = i /\ BufSize + k + m = i /\ k + m \in 1..Len(g)
          BY <1>2, <3>1, <3>5, <4>3
        <5> HIDE DEF m
        <5>2. (f \o g)[BufSize + (k + m)] = g[k + m]
          BY <3>7, <3>8, <5>1
        <5>3. g[k + m] = rest[m] /\ all[BufSize + k + m] = rest[m]
          BY <3>5, <3>6, <4>3
        <5> QED
          BY <5>1, <5>2, <5>3
      <4>4. i <= BufSize \/ j \in 1..k \/ m \in 1..Len(rest)
        BY <1>2, <3>1, <3>5, <3>6
      <4> QED
        BY <4>1, <4>2, <4>3, <4>4
    <3>10. Len(f \o g) = Len(all)
      BY <1>2, <3>1, <3>5, <3>6, <3>7, <3>8
    <3>11. Thins(all, f \o g)
      BY <3>8, <3>9, <3>10 DEF Thins
    <3>12. Bytes(v, s0 + d, Len(v)) = g
      BY <2>19 DEF g, y
    <3> QED
      BY <3>11, <3>12 DEF f
  <2> HIDE DEF d
  <2> QED
    BY <1>6, <2>12, <2>13, <2>17, <2>20, <2>21, <2>22, <2>23
<1> QED
  BY <1>8, <1>9

LEMMA ThinsSame == \A a \in Seq(Byte) : Thins(a, a)
BY DEF Thins

LEMMA ThinsBehind ==
  ASSUME NEW a \in Seq(Byte), NEW b \in Seq(Byte), NEW c, Thins(b, c)
  PROVE  Thins(a \o b, a \o c)
<1>1. /\ a \o b \in Seq(Byte) /\ Len(a \o b) = Len(a) + Len(b)
      /\ \A i \in 1..Len(a) : (a \o b)[i] = a[i]
      /\ \A i \in 1..Len(b) : (a \o b)[Len(a) + i] = b[i]
  BY JoinIs
<1>2. c \in Seq(Byte)
  BY DEF Thins
<1>3. /\ a \o c \in Seq(Byte) /\ Len(a \o c) = Len(a) + Len(c)
      /\ \A i \in 1..Len(a) : (a \o c)[i] = a[i]
      /\ \A i \in 1..Len(c) : (a \o c)[Len(a) + i] = c[i]
  BY <1>2, JoinIs
<1>4. Len(c) = Len(b) /\ Len(a) \in Nat /\ Len(b) \in Nat
  BY DEF Thins
<1>5. ASSUME NEW i \in 1..Len(a \o b)
      PROVE  (a \o c)[i] = (a \o b)[i] \/ (a \o c)[i] = Junk
  <2>1. CASE i \in 1..Len(a)
    BY <1>1, <1>3, <2>1
  <2>2. CASE i \notin 1..Len(a)
    <3> DEFINE k == i - Len(a)
    <3>1. k \in 1..Len(b) /\ Len(a) + k = i
      BY <1>1, <1>4, <2>2
    <3> HIDE DEF k
    <3>2. c[k] = b[k] \/ c[k] = Junk
      BY <3>1 DEF Thins
    <3>3. (a \o b)[Len(a) + k] = b[k] /\ (a \o c)[Len(a) + k] = c[k]
      BY <1>1, <1>3, <1>4, <3>1
    <3> QED
      BY <3>1, <3>2, <3>3
  <2> QED
    BY <2>1, <2>2
<1> QED
  BY <1>1, <1>3, <1>4, <1>5 DEF Thins

\* A write moves bytes from the buffer to the wire, and what is sent next is
\* what comes next.
LEMMA HandleIntact ==
  ASSUME IntactInv, NEW n \in 1..BufSize, HandleWrite(n)
  PROVE  IntactInv' /\ Thins(wire \o Unsent, wire' \o Unsent')
<1> USE DEF HandleWrite
<1> DEFINE m == sent + n
           x == SubSeq(sending, sent + 1, m)
           l2 == Left(sending, m)
           b == Bytes(waiting, headSent, Len(waiting))
           b2 == Bytes(waiting', headSent', Len(waiting'))
<1>1. /\ sending \in Seq(Byte) /\ sendBuf \in Seq(Byte) /\ wire \in Seq(Byte) /\ b \in Seq(Byte)
      /\ sent \in Nat /\ m \in Nat /\ m <= Len(sending) /\ sent <= m /\ Len(sending) \in Nat
  BY StateBytes, SendConstants DEF IntactInv, BytesTyped
<1>2. x \in Seq(Byte) /\ l2 \in Seq(Byte) /\ Left(sending, sent) = x \o l2
  <2> HIDE DEF m
  <2>1. x \in Seq(Byte)
    BY <1>1, PartIs
  <2>2. l2 \in Seq(Byte)
    BY <1>1, PartIs DEF Left
  <2>3. x \o SubSeq(sending, m + 1, Len(sending)) = SubSeq(sending, sent + 1, Len(sending))
    <3> DEFINE k == Len(sending)
    <3>1. k \in Nat /\ m <= k /\ k <= Len(sending)
      BY <1>1
    <3> HIDE DEF k
    <3>2. SubSeq(sending, sent + 1, m) \o SubSeq(sending, m + 1, k) = SubSeq(sending, sent + 1, k)
      BY <1>1, <3>1, PartsJoin
    <3> QED
      BY <3>2 DEF k
  <2> QED
    BY <2>1, <2>2, <2>3 DEF Left
<1>3. wire' = wire \o x /\ due' = due
  OBVIOUS
<1>4. wire \o x \in Seq(Byte)
  <2> HIDE DEF x
  <2> QED
    BY <1>1, <1>2, Concats
<1>5. wire \o Unsent = (wire \o x) \o ((l2 \o sendBuf) \o b) /\ (l2 \o sendBuf) \o b \in Seq(Byte)
  <2> HIDE DEF x, l2, b
  <2> DEFINE c == l2 \o sendBuf
             d == c \o b
  <2>2. Unsent = ((x \o l2) \o sendBuf) \o b
    BY <1>2, UnsentIs DEF b
  <2>3. x \in Seq(Byte) /\ l2 \in Seq(Byte) /\ sendBuf \in Seq(Byte) /\ b \in Seq(Byte) /\ wire \in Seq(Byte)
    BY <1>1, <1>2 DEF x, l2, b
  <2>4. c \in Seq(Byte) /\ Associate(x, l2, sendBuf)
    BY <2>3, Associative, Concats
  <2> HIDE DEF c
  <2>5. d \in Seq(Byte) /\ Associate(x, c, b)
    BY <2>3, <2>4, Associative, Concats
  <2> HIDE DEF d
  <2>6. Associate(wire, x, d)
    BY <2>3, <2>5, Associative
  <2>7. wire \o Unsent = wire \o (x \o d)
    BY <2>2, <2>4, <2>5 DEF Associate, c, d
  <2> QED
    BY <2>5, <2>6, <2>7 DEF Associate, c, d
<1>6. ASSUME NEW u, Thins((l2 \o sendBuf) \o b, u)
      PROVE  Thins(wire \o Unsent, (wire \o x) \o u)
  <2> DEFINE a == wire \o x
             v == (l2 \o sendBuf) \o b
  <2>1. a \in Seq(Byte) /\ v \in Seq(Byte) /\ Thins(v, u) /\ wire \o Unsent = a \o v
    BY <1>4, <1>5, <1>6
  <2> HIDE DEF a, v
  <2>2. Thins(a \o v, a \o u)
    BY <2>1, ThinsBehind
  <2> QED
    BY <2>1, <2>2 DEF a
<1>7. Thins((l2 \o sendBuf) \o b, (l2 \o sendBuf) \o b)
  BY <1>5, ThinsSame
<1>8. ~mangled => wire \o Unsent = due
  BY DEF IntactInv, Intact
<1>9. BytesTyped /\ TypeOK /\ FlagRight /\ open /\ io = "posted" /\ ReadableHead
  BY DEF IntactInv, Intact
<1> HIDE DEF x, b, m
<1>10. CASE WriteGoesOn(n)
  <2> USE DEF WriteGoesOn
  <2>1. sent' = m /\ sending' = sending /\ sendBuf' = sendBuf
    BY <1>10 DEF m
  <2>2. BytesTyped'
    BY <1>1, <1>3, <1>4, <1>9, <1>10, <2>1 DEF BytesTyped
  <2>3. TypeOK'
    BY <1>1, <1>9, <1>10, <2>1 DEF TypeOK
  <2>4. FlagRight' /\ IdleIsEmpty' /\ ReadableHead'
    BY <1>9, <1>10 DEF FlagRight, IdleIsEmpty, ReadableHead, Misread
  <2>5. Unsent' = (l2 \o sendBuf) \o b
    BY <1>10, <2>1, UnsentThen DEF b
  <2>6. mangled' = mangled
    BY <1>10
  <2> QED
    BY <1>3, <1>5, <1>6, <1>7, <1>8, <2>2, <2>3, <2>4, <2>5, <2>6 DEF IntactInv, Intact
<1>11. ASSUME m = Len(sending) PROVE l2 = <<>>
  BY <1>1, <1>11, SubSeqEmpty DEF Left
<1> HIDE DEF l2
<1>12. <<>> \in Seq(Byte) /\ Len(<<>>) = 0
  OBVIOUS
<1>13. ASSUME l2 = <<>> PROVE l2 \o sendBuf = sendBuf
  <2>1. <<>> \o sendBuf = sendBuf
    BY <1>1
  <2> QED
    BY <1>13, <2>1
<1>14. CASE WriteNext(n)
  <2> USE DEF WriteNext
  <2>1. m = Len(sending) /\ sent' = 0 /\ io' = io
    BY <1>14 DEF m
  <2>2. l2 \o sendBuf = sendBuf
    BY <1>11, <1>13, <2>1
  <2>3. FlagRight' /\ IdleIsEmpty'
    BY <1>9, <2>1 DEF FlagRight, IdleIsEmpty
  <2>4. CASE sendBuf # <<>>
    <3>1. /\ sending' = sendBuf /\ sendBuf' = <<>>
          /\ UNCHANGED <<waiting, headSent, mangled>>
      BY <1>14, <2>4
    <3>2. BytesTyped'
      BY <1>3, <1>4, <1>9, <1>12, <2>1, <3>1 DEF BytesTyped
    <3>3. TypeOK'
      <4>1. Len(sendBuf') <= BufSize /\ sent' <= Len(sending')
        BY <1>1, <1>12, <2>1, <3>1, SendConstants
      <4> QED
        BY <1>9, <2>1, <3>1, <4>1 DEF TypeOK
    <3>4. ReadableHead'
      BY <1>9, <3>1 DEF ReadableHead, Misread
    <3>5. Unsent' = sendBuf \o b
      <4>1. Left(sending', sent') = sendBuf
        BY <1>1, <2>1, <3>1, LeftOfNone
      <4>2. sendBuf \o <<>> = sendBuf
        BY <1>1
      <4>3. Left(sending', sent') \o sendBuf' = sendBuf
        BY <3>1, <4>1, <4>2
      <4> QED
        BY <3>1, <4>3, UnsentThen DEF b
    <3> QED
      BY <1>3, <1>5, <1>6, <1>7, <1>8, <2>2, <2>3, <3>1, <3>2, <3>3, <3>4, <3>5 DEF IntactInv, Intact
  <2>5. CASE sendBuf = <<>>
    <3>1. QueueToBuf /\ sendBuf' = <<>>
      BY <1>14, <2>5
    <3>2. /\ sending' \in Seq(Byte) /\ Len(sending') <= BufSize
          /\ waiting' \in Seq(Message) /\ headSent' \in Nat
          /\ IF waiting' = <<>> THEN headSent' = 0
             ELSE headSent' < HeaderSize + Len(Head(waiting').body)
          /\ mangled' = (mangled \/ Misread(headSent'))
          /\ ~mangled' => b = sending' \o b2
          /\ Thins(b, sending' \o b2)
      BY <3>1, QueueToBufKeeps DEF b
    <3> HIDE DEF b2
    <3>3. BytesTyped'
      BY <1>3, <1>4, <1>9, <1>12, <2>1, <3>1, <3>2 DEF BytesTyped
    <3>4. TypeOK'
      <4>1. Len(sendBuf') <= BufSize /\ sent' <= Len(sending')
        BY <1>12, <2>1, <3>1, <3>2, SendConstants
      <4> QED
        BY <1>9, <2>1, <3>2, <4>1 DEF TypeOK
    <3>5. ReadableHead'
      BY <3>2 DEF ReadableHead, Misread
    <3>6. Unsent' = sending' \o b2
      <4> DEFINE y == sending'
      <4>1. Left(sending', sent') = y
        BY <2>1, <3>2, LeftOfNone
      <4>2. y \o <<>> = y
        BY <3>2
      <4> HIDE DEF y
      <4> QED
        BY <3>1, <4>1, <4>2, UnsentThen DEF b2, y
    <3>7. (l2 \o sendBuf) \o b = b
      <4>1. <<>> \o b = b
        BY <1>1
      <4> QED
        BY <2>2, <2>5, <4>1
    <3>8. ASSUME ~mangled' PROVE due = (wire \o x) \o Unsent'
      BY <1>5, <1>8, <3>2, <3>6, <3>7, <3>8
    <3>9. Thins(wire \o Unsent, (wire \o x) \o Unsent')
      BY <1>6, <3>2, <3>6, <3>7
    <3> QED
      BY <1>3, <2>3, <3>3, <3>4, <3>5, <3>8, <3>9 DEF IntactInv, Intact
  <2> QED
    BY <2>4, <2>5
<1>15. CASE WriteEnds(n)
  <2> USE DEF WriteEnds, NothingToSend
  <2>1. /\ m = Len(sending) /\ sendBuf = <<>> /\ waiting = <<>>
        /\ sending' = <<>> /\ sent' = 0 /\ io' = "settling"
        /\ UNCHANGED <<sendBuf, waiting, headSent, mangled>>
    BY <1>15 DEF m
  <2>2. BytesTyped'
    BY <1>3, <1>4, <1>9, <1>12, <2>1 DEF BytesTyped
  <2>3. TypeOK'
    BY <1>9, <1>12, <2>1, SendConstants DEF TypeOK
  <2>4. FlagRight' /\ IdleIsEmpty' /\ ReadableHead'
    BY <1>9, <2>1 DEF FlagRight, IdleIsEmpty, ReadableHead, Misread
  <2>5. b = <<>> /\ b2 = <<>>
    BY <2>1, StateBytes DEF b
  <2>6. Unsent' = (l2 \o sendBuf) \o b
    <3>1. Left(sending', sent') = l2
      BY <1>11, <1>12, <2>1, LeftOfNone
    <3> QED
      BY <2>1, <2>5, <3>1, UnsentThen
  <2> QED
    BY <1>3, <1>5, <1>6, <1>7, <1>8, <2>1, <2>2, <2>3, <2>4, <2>6 DEF IntactInv, Intact
<1> QED
  BY <1>10, <1>14, <1>15

-----------------------------------------------------------------------------
LEMMA SendIntact ==
  ASSUME IntactInv, NEW size \in BodySizes, SendMsg(size)
  PROVE  IntactInv'
<1> DEFINE c == calls + 1
<1>1. open /\ c \in Nat /\ calls' \in Nat /\ size \in Nat
  BY SendConstants DEF SendMsg, IntactInv, BytesTyped
<1>2. CASE Refuse
  <2>1. calls' \in Nat /\ UNCHANGED <<open, buffers, writing, io, wire, history>>
    BY <1>1, <1>2 DEF Refuse, buffers, history
  <2>2. Unsent' = Unsent
    BY <2>1, UnsentIs, UnsentThen DEF buffers
  <2> QED
    BY <2>1, <2>2 DEF buffers, history, IntactInv, BytesTyped, FlagRight, IdleIsEmpty,
                      ReadableHead, Misread, Intact, TypeOK
<1>3. \/ Enqueue(c, size) \/ WriteToBuffer(c, size) \/ WriteAndQueueRest(c, size)
      \/ TakeBack(c, size) \/ EnqueueSwapped(c, size) \/ Refuse
  BY DEF SendMsg
<1> HIDE DEF c
<1> QED
  BY <1>1, <1>2, <1>3, EnqueueIntact, WriteToBufferIntact, WriteAndQueueRestIntact,
     TakeBackIntact, EnqueueSwappedIntact

LEMMA NextIntact == IntactInv /\ [Next]_vars => IntactInv'
<1> SUFFICES ASSUME IntactInv, [Next]_vars PROVE IntactInv'
  OBVIOUS
<1>1. CASE \E size \in BodySizes : SendMsg(size)
  BY <1>1, SendIntact
<1>2. CASE \E n \in 1..BufSize : HandleWrite(n)
  BY <1>2, HandleIntact
<1>3. CASE Settle \/ WriteFails \/ Close \/ UNCHANGED vars
  <2>1. UNCHANGED <<sendBuf, sending, sent, waiting, headSent, calls, wire, due, mangled, overtaken>>
    BY <1>3 DEF Settle, WriteFails, Close, vars, buffers, history
  <2>2. Unsent' = Unsent
    BY <2>1, UnsentIs, UnsentThen
  <2>3. BytesTyped' /\ ReadableHead'
    BY <2>1 DEF IntactInv, BytesTyped, ReadableHead, Misread
  <2>4. FlagRight' /\ IdleIsEmpty'
    <3> USE <2>1 DEF IntactInv, FlagRight, IdleIsEmpty
    <3>1. CASE Settle
      BY <3>1 DEF Settle
    <3>2. CASE WriteFails
      BY <3>2 DEF WriteFails
    <3>3. CASE Close
      BY <3>3 DEF Close
    <3>4. CASE UNCHANGED vars
      BY <3>4 DEF vars
    <3> QED
      BY <1>3, <3>1, <3>2, <3>3, <3>4
  <2>5. TypeOK'
    BY <1>3, <2>1 DEF Settle, WriteFails, Close, vars, buffers, history, IntactInv, Intact, TypeOK
  <2> QED
    BY <2>1, <2>2, <2>3, <2>4, <2>5 DEF IntactInv, Intact
<1>4. CASE Recycle
  <2>1. /\ sendBuf' = <<>> /\ sending' = <<>> /\ sent' = 0 /\ waiting' = <<>> /\ headSent' = 0
        /\ wire' = <<>> /\ due' = <<>> /\ mangled' = FALSE /\ overtaken' = FALSE
        /\ UNCHANGED <<writing, io, calls>> /\ open' = TRUE
    BY <1>4, StateBytes DEF Recycle, FreeQueueSize
  <2>2. <<>> \in Seq(Byte) /\ <<>> \in Seq(Message) /\ Len(<<>>) = 0
    OBVIOUS
  <2>3. BytesTyped'
    BY <2>1, <2>2 DEF IntactInv, BytesTyped
  <2>4. FlagRight' /\ IdleIsEmpty' /\ ReadableHead'
    BY <2>1 DEF IntactInv, FlagRight, IdleIsEmpty, ReadableHead, Misread, IdSize, HeaderSize
  <2>5. TypeOK'
    <3>1. 0 <= BufSize /\ 0 <= 0 /\ 0 \in Nat
      BY SendConstants
    <3> QED
      BY <2>1, <2>2, <3>1 DEF IntactInv, Intact, TypeOK
  <2>6. wire' \o Unsent' = due'
    <3>1. Bytes(waiting', headSent', Len(waiting')) = <<>>
      BY <2>1, <2>2, BytesNone
    <3>2. Left(sending', sent') = <<>>
      BY <2>1, <2>2, LeftOfNone
    <3>3. <<>> \o <<>> = <<>>
      OBVIOUS
    <3> QED
      BY <2>1, <3>1, <3>2, <3>3, UnsentThen
  <2> QED
    BY <2>3, <2>4, <2>5, <2>6 DEF IntactInv, Intact
<1> QED
  BY <1>1, <1>2, <1>3, <1>4 DEF Next

LEMMA InitIntact == Init => IntactInv
<1> SUFFICES ASSUME Init PROVE IntactInv
  OBVIOUS
<1>1. <<>> \in Seq(Byte) /\ <<>> \in Seq(Message) /\ Len(<<>>) = 0
  OBVIOUS
<1>2. BytesTyped
  BY <1>1 DEF Init, BytesTyped
<1>3. FlagRight /\ IdleIsEmpty /\ ReadableHead
  <2>1. ~Misread(0)
    BY DEF Misread, IdSize, HeaderSize
  <2> QED
    BY <2>1 DEF Init, FlagRight, IdleIsEmpty, ReadableHead
<1>4. TypeOK
  <2>1. 0 <= BufSize /\ 0 <= 0 /\ 0 \in Nat
    BY SendConstants
  <2> QED
    BY <1>1, <2>1 DEF Init, TypeOK
<1>5. wire \o Unsent = due
  <2>1. Bytes(waiting, headSent, Len(waiting)) = <<>>
    BY <1>1, BytesNone DEF Init
  <2>2. Left(sending, sent) = <<>>
    BY <1>1, LeftOfNone DEF Init
  <2>3. <<>> \o <<>> = <<>>
    OBVIOUS
  <2> QED
    BY <2>1, <2>2, <2>3, UnsentIs DEF Init
<1> QED
  BY <1>2, <1>3, <1>4, <1>5 DEF IntactInv, Intact

(* What leaves the socket is what the calls of send_msg() handed over,     *)
(* byte by byte and in their order, through the two buffers, the queue and *)
(* the messages cut between them, for buffers and messages of any size and *)
(* any number of calls: unless one of the mistakes has happened that the   *)
(* code makes with a header (cnet_session.cpp:131, :549).                  *)
THEOREM IntactCorrect == Spec => []Intact
<1>1. Init => IntactInv
  BY InitIntact
<1>2. IntactInv /\ [Next]_vars => IntactInv'
  BY NextIntact
<1>3. IntactInv => Intact
  BY DEF IntactInv
<1> QED
  BY <1>1, <1>2, <1>3, PTL DEF Spec

-----------------------------------------------------------------------------
\* Header mistakes or not, what a call adds comes behind the bytes of all
\* earlier calls, and what is moved keeps its place.
UpToCall(s, c) == \A i \in DOMAIN s : s[i][1] <= c

OrderInv == IntactInv /\ NeverReordered /\ UpToCall(wire \o Unsent, calls)

\* Bytes of the call c, from behind its byte lo up to its byte hi
OfCall(x, c, lo, hi) ==
  /\ x \in Seq(Byte)
  /\ Ordered(x)
  /\ \A i \in 1..Len(x) : x[i] = Junk \/ (x[i][1] = c /\ lo < x[i][2] /\ x[i][2] <= hi)

LEMMA OrderedJoin ==
  ASSUME NEW a \in Seq(Byte), NEW b \in Seq(Byte), Ordered(a), Ordered(b),
         \A i \in 1..Len(a), j \in 1..Len(b) : a[i] # Junk /\ b[j] # Junk => Before(a[i], b[j])
  PROVE  Ordered(a \o b)
<1>1. /\ a \o b \in Seq(Byte) /\ Len(a \o b) = Len(a) + Len(b) /\ Len(a) \in Nat /\ Len(b) \in Nat
      /\ \A i \in 1..Len(a) : (a \o b)[i] = a[i]
      /\ \A i \in 1..Len(b) : (a \o b)[Len(a) + i] = b[i]
  BY JoinIs
<1> DEFINE w == a \o b
<1>2. DOMAIN w = 1..(Len(a) + Len(b)) /\ DOMAIN a = 1..Len(a) /\ DOMAIN b = 1..Len(b)
  BY <1>1
<1> SUFFICES ASSUME NEW i \in DOMAIN w, NEW j \in DOMAIN w, i < j, w[i] # Junk, w[j] # Junk
             PROVE  Before(w[i], w[j])
  BY DEF Ordered
<1> HIDE DEF w
<1>3. \A k \in DOMAIN w : \/ k \in 1..Len(a) /\ w[k] = a[k]
                          \/ k - Len(a) \in 1..Len(b) /\ w[k] = b[k - Len(a)]
  <2> SUFFICES ASSUME NEW k \in DOMAIN w, k \notin 1..Len(a)
               PROVE  k - Len(a) \in 1..Len(b) /\ w[k] = b[k - Len(a)]
    BY <1>1 DEF w
  <2> DEFINE l == k - Len(a)
  <2>1. l \in 1..Len(b) /\ Len(a) + l = k
    BY <1>1, <1>2
  <2> HIDE DEF l
  <2>2. (a \o b)[Len(a) + l] = b[l]
    BY <1>1, <2>1
  <2> QED
    BY <2>1, <2>2 DEF w, l
<1>4. CASE j \in 1..Len(a) /\ w[j] = a[j]
  <2>1. i \in 1..Len(a) /\ w[i] = a[i]
    BY <1>1, <1>2, <1>3, <1>4
  <2> QED
    BY <1>2, <1>4, <2>1 DEF Ordered
<1>5. CASE j - Len(a) \in 1..Len(b) /\ w[j] = b[j - Len(a)]
  <2>1. CASE i \in 1..Len(a) /\ w[i] = a[i]
    BY <1>5, <2>1
  <2>2. CASE i - Len(a) \in 1..Len(b) /\ w[i] = b[i - Len(a)]
    <3>1. i - Len(a) < j - Len(a)
      BY <1>1, <1>2
    <3> QED
      BY <1>2, <1>5, <2>2, <3>1 DEF Ordered
  <2> QED
    BY <1>3, <2>1, <2>2
<1> QED
  BY <1>3, <1>4, <1>5

\* What is left of a sequence that is cut or thinned is in its order.
LEMMA OrderedCut ==
  ASSUME NEW a \in Seq(Byte), NEW b \in Seq(Byte), NEW c, Ordered(a \o b), UpToCall(a \o b, c)
  PROVE  Ordered(a) /\ UpToCall(a, c)
<1>1. /\ Len(a \o b) = Len(a) + Len(b) /\ Len(a) \in Nat /\ Len(b) \in Nat
      /\ \A i \in 1..Len(a) : (a \o b)[i] = a[i]
      /\ a \o b \in Seq(Byte)
  BY JoinIs
<1>2. DOMAIN a = 1..Len(a) /\ DOMAIN (a \o b) = 1..Len(a \o b)
  BY <1>1
<1>3. \A i \in DOMAIN a : i \in DOMAIN (a \o b) /\ (a \o b)[i] = a[i]
  BY <1>1, <1>2
<1> QED
  BY <1>3 DEF Ordered, UpToCall

LEMMA OrderedThins ==
  ASSUME NEW a \in Seq(Byte), NEW b, NEW c \in Nat, Thins(a, b), Ordered(a), UpToCall(a, c)
  PROVE  Ordered(b) /\ UpToCall(b, c)
<1>1. DOMAIN a = 1..Len(a) /\ DOMAIN b = 1..Len(a)
  BY DEF Thins
<1>2. \A i \in DOMAIN b : b[i] = a[i] \/ b[i] = Junk
  BY <1>1 DEF Thins
<1>3. Junk[1] <= c
  BY DEF Junk
<1>4. Ordered(b)
  <2> SUFFICES ASSUME NEW i \in DOMAIN b, NEW j \in DOMAIN b, i < j, b[i] # Junk, b[j] # Junk
               PROVE  Before(b[i], b[j])
    BY DEF Ordered
  <2>1. b[i] = a[i] /\ b[j] = a[j]
    BY <1>2
  <2> QED
    BY <1>1, <2>1 DEF Ordered
<1>5. UpToCall(b, c)
  BY <1>1, <1>2, <1>3 DEF UpToCall
<1> QED
  BY <1>4, <1>5

\* A call's bytes go behind those of earlier calls.
LEMMA OrderedGrows ==
  ASSUME NEW a \in Seq(Byte), NEW c \in Nat, Ordered(a), UpToCall(a, c),
         NEW x, NEW hi, OfCall(x, c + 1, 0, hi)
  PROVE  Ordered(a \o x) /\ UpToCall(a \o x, c + 1)
<1>1. /\ x \in Seq(Byte) /\ Ordered(x)
      /\ \A i \in 1..Len(x) : x[i] = Junk \/ x[i][1] = c + 1
  BY DEF OfCall
<1>2. /\ a \o x \in Seq(Byte) /\ Len(a \o x) = Len(a) + Len(x) /\ Len(a) \in Nat /\ Len(x) \in Nat
      /\ \A i \in 1..Len(a) : (a \o x)[i] = a[i]
      /\ \A i \in 1..Len(x) : (a \o x)[Len(a) + i] = x[i]
  BY <1>1, JoinIs
<1>3. \A i \in 1..Len(a) : a[i][1] \in Nat /\ a[i][1] <= c
  <2> SUFFICES ASSUME NEW i \in 1..Len(a) PROVE a[i][1] \in Nat /\ a[i][1] <= c
    OBVIOUS
  <2>1. a[i] \in Byte /\ i \in DOMAIN a
    OBVIOUS
  <2> QED
    BY <2>1 DEF Byte, UpToCall
<1>4. \A i \in 1..Len(x) : x[i][1] <= c + 1
  BY <1>1 DEF Junk
<1>5. Ordered(a \o x)
  <2> SUFFICES ASSUME NEW i \in 1..Len(a), NEW j \in 1..Len(x), a[i] # Junk, x[j] # Junk
               PROVE  Before(a[i], x[j])
    BY <1>1, OrderedJoin
  <2>1. x[j][1] = c + 1 /\ a[i][1] \in Nat /\ a[i][1] <= c
    BY <1>1, <1>3
  <2> QED
    BY <2>1 DEF Before
<1>6. UpToCall(a \o x, c + 1)
  <2> DEFINE w == a \o x
  <2> SUFFICES ASSUME NEW i \in DOMAIN w PROVE w[i][1] <= c + 1
    BY DEF UpToCall
  <2>1. i \in 1..(Len(a) + Len(x))
    BY <1>2
  <2>2. CASE i \in 1..Len(a)
    BY <1>2, <1>3, <2>2
  <2>3. CASE i \notin 1..Len(a)
    <3> DEFINE k == i - Len(a)
    <3>1. k \in 1..Len(x) /\ Len(a) + k = i
      BY <1>2, <2>1, <2>3
    <3> HIDE DEF k
    <3>2. (a \o x)[Len(a) + k] = x[k]
      BY <1>2, <3>1
    <3> QED
      BY <1>4, <3>1, <3>2
  <2> QED
    BY <2>2, <2>3
<1> QED
  BY <1>5, <1>6

LEMMA OfCallJoin ==
  ASSUME NEW x, NEW y, NEW c \in Nat, NEW lo \in Nat, NEW mid \in Nat, NEW hi \in Nat,
         lo <= mid, mid <= hi, OfCall(x, c, lo, mid), OfCall(y, c, mid, hi)
  PROVE  OfCall(x \o y, c, lo, hi)
<1>1. /\ x \in Seq(Byte) /\ Ordered(x) /\ y \in Seq(Byte) /\ Ordered(y)
      /\ \A i \in 1..Len(x) : x[i] = Junk \/ (x[i][1] = c /\ lo < x[i][2] /\ x[i][2] <= mid)
      /\ \A i \in 1..Len(y) : y[i] = Junk \/ (y[i][1] = c /\ mid < y[i][2] /\ y[i][2] <= hi)
  BY DEF OfCall
<1>2. /\ x \o y \in Seq(Byte) /\ Len(x \o y) = Len(x) + Len(y) /\ Len(x) \in Nat /\ Len(y) \in Nat
      /\ \A i \in 1..Len(x) : (x \o y)[i] = x[i]
      /\ \A i \in 1..Len(y) : (x \o y)[Len(x) + i] = y[i]
  BY <1>1, JoinIs
<1>3. /\ \A i \in 1..Len(x) : x[i] \in Byte /\ x[i][2] \in Nat
      /\ \A i \in 1..Len(y) : y[i] \in Byte /\ y[i][2] \in Nat
  <2>1. (\A i \in 1..Len(x) : x[i] \in Byte) /\ (\A i \in 1..Len(y) : y[i] \in Byte)
    BY <1>1
  <2>2. \A e \in Byte : e[2] \in Nat
    BY DEF Byte
  <2> QED
    BY <2>1, <2>2
<1>4. Ordered(x \o y)
  <2> SUFFICES ASSUME NEW i \in 1..Len(x), NEW j \in 1..Len(y), x[i] # Junk, y[j] # Junk
               PROVE  Before(x[i], y[j])
    BY <1>1, OrderedJoin
  <2>1. x[i][1] = c /\ x[i][2] <= mid /\ y[j][1] = c /\ mid < y[j][2] /\ x[i][2] \in Nat /\ y[j][2] \in Nat
    BY <1>1, <1>3
  <2> QED
    BY <2>1 DEF Before
<1>5. ASSUME NEW i \in 1..Len(x \o y)
      PROVE  LET e == (x \o y)[i] IN e = Junk \/ (e[1] = c /\ lo < e[2] /\ e[2] <= hi)
  <2>1. CASE i \in 1..Len(x)
    <3>1. x[i] = Junk \/ (x[i][1] = c /\ lo < x[i][2] /\ x[i][2] <= mid)
      BY <1>1, <2>1
    <3>2. x[i][2] \in Nat
      BY <1>3, <2>1
    <3> QED
      BY <1>2, <2>1, <3>1, <3>2
  <2>2. CASE i \notin 1..Len(x)
    <3> DEFINE k == i - Len(x)
    <3>1. k \in 1..Len(y) /\ Len(x) + k = i
      BY <1>2, <2>2
    <3> HIDE DEF k
    <3>2. (x \o y)[Len(x) + k] = y[k]
      BY <1>2, <3>1
    <3>3. y[k] = Junk \/ (y[k][1] = c /\ mid < y[k][2] /\ y[k][2] <= hi)
      BY <1>1, <3>1
    <3>4. y[k][2] \in Nat
      BY <1>3, <3>1
    <3> QED
      BY <3>1, <3>2, <3>3, <3>4
  <2> QED
    BY <2>1, <2>2
<1> QED
  BY <1>2, <1>4, <1>5 DEF OfCall

\* Bytes that are, each, the one of the frame at their place, or no message's
LEMMA PlacesOrdered ==
  ASSUME NEW x \in Seq(Byte), NEW c \in Nat, NEW m \in Nat, NEW hi \in Nat, m + Len(x) <= hi,
         \A i \in 1..Len(x) : x[i] = Junk \/ x[i] = <<c, m + i>>
  PROVE  OfCall(x, c, m, hi)
<1>1. Len(x) \in Nat /\ DOMAIN x = 1..Len(x)
  OBVIOUS
<1>2. \A i \in 1..Len(x) : x[i] = Junk \/ (x[i][1] = c /\ x[i][2] = m + i)
  OBVIOUS
<1>3. Ordered(x)
  <2> SUFFICES ASSUME NEW i \in 1..Len(x), NEW j \in 1..Len(x), i < j, x[i] # Junk, x[j] # Junk
               PROVE  Before(x[i], x[j])
    BY <1>1 DEF Ordered
  <2>1. x[i][1] = c /\ x[i][2] = m + i /\ x[j][1] = c /\ x[j][2] = m + j
    BY <1>2
  <2> QED
    BY <2>1 DEF Before
<1>4. ASSUME NEW i \in 1..Len(x)
      PROVE  x[i] = Junk \/ (x[i][1] = c /\ m < x[i][2] /\ x[i][2] <= hi)
  <2>1. m < m + i /\ m + i <= hi
    BY <1>1
  <2> QED
    BY <1>2, <2>1
<1> QED
  BY <1>3, <1>4 DEF OfCall

LEMMA FramePart ==
  ASSUME NEW c \in Nat, NEW size \in Nat, NEW m \in Nat, NEW n \in Nat, NEW hi \in Nat,
         m <= n, n <= 6 + size, n <= hi
  PROVE  OfCall(SubSeq(Frame(c, size), m + 1, n), c, m, hi)
<1> DEFINE f == Frame(c, size)
           x == SubSeq(f, m + 1, n)
<1>1. f \in Seq(Byte) /\ n <= Len(f) /\ \A k \in 1..(6 + size) : f[k] = <<c, k>>
  BY FrameIs
<1> HIDE DEF f
<1>2. x \in Seq(Byte) /\ Len(x) = n - m /\ \A i \in 1..(n - m) : x[i] = f[m + i]
  BY <1>1, PartIs
<1> HIDE DEF x
<1>3. ASSUME NEW i \in 1..Len(x) PROVE x[i] = <<c, m + i>>
  <2>1. m + i \in 1..(6 + size) /\ i \in 1..(n - m)
    BY <1>2
  <2> QED
    BY <1>1, <1>2, <2>1
<1>4. m + Len(x) <= hi
  BY <1>2
<1>5. OfCall(x, c, m, hi)
  BY <1>2, <1>3, <1>4, PlacesOrdered
<1> QED
  BY <1>5 DEF x, f

\* append() adds bytes of the call's frame, of which the first of the body may
\* come where the header has been cut.
LEMMA AppendedOrdered ==
  ASSUME sendBuf \in Seq(Byte), Len(sendBuf) <= BufSize, NEW c \in Nat, NEW size \in Nat
  PROVE  \E y : /\ Appended(c, size) = sendBuf \o y
                /\ OfCall(y, c, 0, 6 + BodyFits(size))
<1> DEFINE hf == HeadFits
           bf == BodyFits(size)
           h == SubSeq(Frame(c, size), 1, hf)
           b == SubSeq(Frame(c, size), HeaderSize + 1, HeaderSize + bf)
<1>1. hf \in 0..6 /\ bf \in 0..size
  BY AppendedIs
<1> HIDE DEF hf, bf
<1>2. OfCall(h, c, 0, 6)
  <2>1. OfCall(SubSeq(Frame(c, size), 0 + 1, hf), c, 0, 6)
    <3>1. hf \in Nat /\ 0 <= hf /\ hf <= 6 + size /\ hf <= 6
      BY <1>1
    <3> QED
      BY <3>1, FramePart
  <2> QED
    BY <2>1
<1>3. OfCall(b, c, 6, 6 + bf)
  <2> DEFINE n == 6 + bf
  <2>1. n \in Nat /\ 6 <= n /\ n <= 6 + size
    BY <1>1
  <2> HIDE DEF n
  <2>2. OfCall(SubSeq(Frame(c, size), 6 + 1, n), c, 6, n)
    BY <2>1, FramePart
  <2> QED
    BY <2>2 DEF n, HeaderSize
<1>4. Appended(c, size) = (sendBuf \o h) \o b
  BY DEF Appended, hf, bf
<1> HIDE DEF h, b
<1>5. OfCall(h \o b, c, 0, 6 + bf)
  BY <1>1, <1>2, <1>3, OfCallJoin
<1>6. Appended(c, size) = sendBuf \o (h \o b)
  <2>1. h \in Seq(Byte) /\ b \in Seq(Byte)
    BY <1>2, <1>3 DEF OfCall
  <2>2. Associate(sendBuf, h, b)
    BY <2>1, Associative
  <2> QED
    BY <1>4, <2>2 DEF Associate
<1> QED
  BY <1>5, <1>6 DEF bf

-----------------------------------------------------------------------------
LEMMA StreamType == IntactInv => wire \o Unsent \in Seq(Byte)
<1> SUFFICES ASSUME IntactInv PROVE wire \o Unsent \in Seq(Byte)
  OBVIOUS
<1> DEFINE l == Left(sending, sent)
           b == Bytes(waiting, headSent, Len(waiting))
           a == l \o sendBuf
<1>1. l \in Seq(Byte) /\ b \in Seq(Byte) /\ sendBuf \in Seq(Byte) /\ wire \in Seq(Byte)
  BY StateBytes DEF IntactInv, BytesTyped
<1> HIDE DEF l, b
<1>2. a \in Seq(Byte)
  BY <1>1, Concats
<1> HIDE DEF a
<1>3. a \o b \in Seq(Byte)
  BY <1>1, <1>2, Concats
<1>4. Unsent = a \o b
  BY UnsentIs DEF a, b, l
<1> QED
  BY <1>1, <1>3, <1>4, Concats

\* What a call puts into the buffer and leaves in the empty queue, behind it
LEMMA StreamGrows ==
  ASSUME IntactInv, waiting = <<>>, wire' = wire,
         NEW y \in Seq(Byte), NEW z \in Seq(Byte),
         Left(sending', sent') \o sendBuf' = Left(sending, sent) \o (sendBuf \o y),
         Bytes(waiting', headSent', Len(waiting')) = z
  PROVE  wire' \o Unsent' = (wire \o Unsent) \o (y \o z)
<1> DEFINE l == Left(sending, sent)
           a == l \o sendBuf
           s == wire \o a
<1>1. l \in Seq(Byte) /\ sendBuf \in Seq(Byte) /\ wire \in Seq(Byte)
  BY StateBytes DEF IntactInv, BytesTyped
<1>2. Unsent = (l \o sendBuf) \o <<>>
  BY StateBytes, UnsentIs
<1>3. Unsent' = (l \o (sendBuf \o y)) \o z
  BY UnsentThen
<1> HIDE DEF l
<1>4. a \in Seq(Byte) /\ Associate(l, sendBuf, y)
  BY <1>1, Concats, Associative
<1> HIDE DEF a
<1>5. s \in Seq(Byte) /\ a \o <<>> = a /\ Regroups(wire, a, y, z)
  BY <1>1, <1>4, Concats, Regrouped
<1>6. Associate(wire, a, y) /\ Associate(s, y, z)
  <2> HIDE DEF s
  <2>1. wire \in Seq(Byte) /\ a \in Seq(Byte) /\ s \in Seq(Byte)
    BY <1>1, <1>4, <1>5
  <2> QED
    BY <2>1, Associative
<1>7. wire \o Unsent = s
  BY <1>2, <1>5 DEF a
<1>8. Unsent' = (a \o y) \o z
  BY <1>3, <1>4 DEF Associate, a
<1>9. wire \o ((a \o y) \o z) = (wire \o (a \o y)) \o z
  <2> DEFINE ay == a \o y
  <2>1. ay \in Seq(Byte)
    BY <1>4, Concats
  <2> HIDE DEF ay
  <2>2. Associate(wire, ay, z)
    BY <1>1, <2>1, Associative
  <2> QED
    BY <2>2 DEF Associate, ay
<1> QED
  BY <1>6, <1>7, <1>8, <1>9 DEF Associate, s

\* The bytes that a call has added, if any
Adds(c) ==
  \E x : (\E hi : OfCall(x, c, 0, hi)) /\ wire' \o Unsent' = (wire \o Unsent) \o x

LEMMA WriteToBufferAdds ==
  ASSUME IntactInv, open, NEW c \in Nat, NEW size \in Nat, WriteToBuffer(c, size)
  PROVE  Adds(c)
<1> USE DEF WriteToBuffer
<1>1. sendBuf \in Seq(Byte) /\ Len(sendBuf) <= BufSize
  BY DEF IntactInv, BytesTyped, Intact, TypeOK
<1>2. PICK y : /\ Appended(c, size) = sendBuf \o y
               /\ OfCall(y, c, 0, 6 + BodyFits(size))
  BY <1>1, AppendedOrdered
<1>3. y \in Seq(Byte) /\ <<>> \in Seq(Byte) /\ y \o <<>> = y
  <2>1. y \in Seq(Byte)
    BY <1>2 DEF OfCall
  <2> QED
    BY <2>1
<1>4. Left(sending', sent') \o sendBuf' = Left(sending, sent) \o (sendBuf \o y)
  <2> DEFINE buf == Appended(c, size)
  <2>1. buf \in Seq(Byte) /\ Len(buf) <= BufSize
    BY <1>1, AppendedIs
  <2> HIDE DEF buf
  <2>2. Left(sending', sent') \o sendBuf' = Left(sending, sent) \o buf
    BY <2>1, StartWriteKeeps DEF buf
  <2> QED
    BY <1>2, <2>2 DEF buf
<1>5. waiting = <<>> /\ Bytes(waiting', headSent', Len(waiting')) = <<>> /\ wire' = wire
  BY StateBytes DEF MustWait
<1>6. wire' \o Unsent' = (wire \o Unsent) \o (y \o <<>>)
  BY <1>3, <1>4, <1>5, StreamGrows
<1> QED
  BY <1>2, <1>3, <1>6 DEF Adds

LEMMA WriteAndQueueRestAdds ==
  ASSUME IntactInv, open, NEW c \in Nat, NEW size \in Nat, WriteAndQueueRest(c, size)
  PROVE  Adds(c)
<1> USE DEF WriteAndQueueRest
<1> DEFINE n == BodyFits(size)
           m == 6 + n
           e == [head |-> SubSeq(Frame(c, size), 1, HeaderSize),
                 body |-> SubSeq(Frame(c, size), HeaderSize + n + 1, HeaderSize + size)]
           z == e.body
<1>1. sendBuf \in Seq(Byte) /\ Len(sendBuf) <= BufSize
  BY DEF IntactInv, BytesTyped, Intact, TypeOK
<1>2. PICK y : Appended(c, size) = sendBuf \o y /\ OfCall(y, c, 0, m)
  BY <1>1, AppendedOrdered
<1>3. y \in Seq(Byte)
  BY <1>2 DEF OfCall
<1>4. n \in 0..size /\ m \in Nat /\ m <= 6 + size
  <2>1. n \in 0..size
    BY <1>1, AppendedIs
  <2> HIDE DEF n
  <2> QED
    BY <2>1
<1>5. Left(sending', sent') \o sendBuf' = Left(sending, sent) \o (sendBuf \o y)
  <2> DEFINE buf == Appended(c, size)
  <2>1. buf \in Seq(Byte) /\ Len(buf) <= BufSize
    BY <1>1, AppendedIs
  <2> HIDE DEF buf
  <2>2. Left(sending', sent') \o sendBuf' = Left(sending, sent) \o buf
    BY <2>1, StartWriteKeeps DEF buf
  <2> QED
    BY <1>2, <2>2 DEF buf
<1>6. waiting = <<>> /\ waiting' = <<e>> /\ headSent' = 6 /\ wire' = wire
  BY DEF MustWait, RestSent, HeaderSize
<1>7. e \in Message
  <2> HIDE DEF n
  <2> QED
    BY <1>4, FrameMessage
<1>8. z \in Seq(Byte) /\ OfCall(z, c, m, 6 + size)
  <2>1. z = SubSeq(Frame(c, size), m + 1, 6 + size)
    BY DEF HeaderSize
  <2> HIDE DEF m, z
  <2> DEFINE k == 6 + size
  <2>2. k \in Nat /\ m \in Nat /\ m <= k /\ k <= 6 + size
    BY <1>4
  <2> HIDE DEF k
  <2>3. OfCall(SubSeq(Frame(c, size), m + 1, k), c, m, k)
    BY <2>2, FramePart
  <2> QED
    BY <2>1, <2>3 DEF OfCall, k
<1> HIDE DEF e, m, n
<1>9. Bytes(waiting', headSent', Len(waiting')) = z
  BY <1>6, <1>7, QueuedAlone, WholeIsLeft
<1> HIDE DEF z
<1>10. wire' \o Unsent' = (wire \o Unsent) \o (y \o z)
  BY <1>3, <1>5, <1>6, <1>8, <1>9, StreamGrows
<1>11. OfCall(y \o z, c, 0, 6 + size)
  BY <1>2, <1>4, <1>8, OfCallJoin
<1> QED
  BY <1>10, <1>11 DEF Adds

LEMMA EnqueueSwappedAdds ==
  ASSUME IntactInv, open, NEW c \in Nat, NEW size \in Nat, EnqueueSwapped(c, size)
  PROVE  Adds(c)
<1> USE DEF EnqueueSwapped
<1> DEFINE swapped == size # MsgId
           e == [head |-> [k \in 1..HeaderSize |-> IF swapped THEN Junk ELSE <<c, k>>],
                 body |-> [k \in 1..MsgId |-> IF k <= size THEN <<c, HeaderSize + k>> ELSE Junk]]
           h == e.head
           b == e.body
<1>1. sendBuf \in Seq(Byte) /\ Len(sendBuf) <= BufSize /\ MsgId \in Nat
  BY SendConstants DEF IntactInv, BytesTyped, Intact, TypeOK
<1>2. waiting = <<>> /\ waiting' = <<e>> /\ headSent' = 0 /\ wire' = wire
  BY StateBytes DEF MustWait
<1>3. Left(sending', sent') \o sendBuf' = Left(sending, sent) \o sendBuf
  BY <1>1, StartWriteKeeps
<1>4. h \in Seq(Byte) /\ Len(h) = 6 /\ \A k \in 1..Len(h) : h[k] = Junk \/ h[k] = <<c, 0 + k>>
  BY DEF Byte, Junk, HeaderSize
<1>5. b \in Seq(Byte) /\ Len(b) = MsgId /\ \A k \in 1..Len(b) : b[k] = Junk \/ b[k] = <<c, 6 + k>>
  <2>1. \A k \in 1..MsgId : (IF k <= size THEN <<c, HeaderSize + k>> ELSE Junk) \in Byte
    BY <1>1 DEF Byte, Junk, HeaderSize
  <2>2. b \in Seq(Byte) /\ Len(b) = MsgId
    BY <1>1, <2>1
  <2>3. \A k \in 1..MsgId : b[k] = Junk \/ b[k] = <<c, 6 + k>>
    BY DEF HeaderSize
  <2> QED
    BY <2>2, <2>3
<1>6. e \in Message
  <2>1. Len(h) = HeaderSize
    BY <1>4 DEF HeaderSize
  <2> QED
    BY <1>4, <1>5, <2>1 DEF Message
<1>7. Bytes(waiting', headSent', Len(waiting')) = h \o b
  <2>1. Whole(e) = h \o b
    BY DEF Whole
  <2> HIDE DEF e, h, b
  <2> QED
    BY <1>2, <1>6, <2>1, QueuedAlone, WholeIsLeft
<1> HIDE DEF e, h, b
<1>8. OfCall(h, c, 0, 6)
  <2>1. 0 + Len(h) <= 6
    BY <1>4
  <2> QED
    BY <1>4, <2>1, PlacesOrdered
<1>9. OfCall(b, c, 6, 6 + MsgId)
  <2>1. 6 + Len(b) <= 6 + MsgId /\ 6 + MsgId \in Nat
    BY <1>1, <1>5
  <2> QED
    BY <1>5, <2>1, PlacesOrdered
<1> DEFINE z == h \o b
<1>10. OfCall(z, c, 0, 6 + MsgId)
  BY <1>1, <1>8, <1>9, OfCallJoin
<1>11. z \in Seq(Byte)
  BY <1>10 DEF OfCall
<1> HIDE DEF z
<1>12. <<>> \in Seq(Byte) /\ sendBuf \o <<>> = sendBuf /\ <<>> \o z = z
  BY <1>1, <1>11
<1>13. wire' \o Unsent' = (wire \o Unsent) \o (<<>> \o z)
  <2>1. Left(sending', sent') \o sendBuf' = Left(sending, sent) \o (sendBuf \o <<>>)
    BY <1>3, <1>12
  <2>2. Bytes(waiting', headSent', Len(waiting')) = z
    BY <1>7 DEF z
  <2> QED
    BY <1>2, <1>11, <1>12, <2>1, <2>2, StreamGrows
<1> QED
  BY <1>10, <1>12, <1>13 DEF Adds

LEMMA EnqueueAdds ==
  ASSUME IntactInv, NEW c \in Nat, NEW size \in Nat, Enqueue(c, size), calls' \in Nat
  PROVE  Adds(c)
<1> DEFINE f == Frame(c, size)
<1>1. wire' \o Unsent' = (wire \o Unsent) \o f
  BY EnqueueIntact
<1>2. f \in Seq(Byte) /\ Len(f) = 6 + size /\ \A k \in 1..(6 + size) : f[k] = <<c, k>>
  BY FrameIs
<1> HIDE DEF f
<1>3. OfCall(f, c, 0, 6 + size)
  <2>1. \A k \in 1..Len(f) : f[k] = <<c, 0 + k>>
    BY <1>2
  <2>2. 0 + Len(f) <= 6 + size /\ 6 + size \in Nat
    BY <1>2
  <2> QED
    BY <1>2, <2>1, <2>2, PlacesOrdered
<1> QED
  BY <1>1, <1>3 DEF Adds

\* deducted() takes bytes from the end, and no more than there were.
LEMMA TakeBackCuts ==
  ASSUME IntactInv, NEW c \in Nat, NEW size \in Nat, TakeBack(c, size)
  PROVE  \E z \in Seq(Byte) : wire \o Unsent = (wire' \o Unsent') \o z /\ wire' \o Unsent' \in Seq(Byte)
<1> USE DEF TakeBack
<1> DEFINE buf == Appended(c, size)
           n == BodyFits(size)
           k == Len(buf) - HeaderSize - n
<1>1. sendBuf \in Seq(Byte) /\ Len(sendBuf) <= BufSize /\ Len(sendBuf) \in Nat
  BY DEF IntactInv, BytesTyped, Intact, TypeOK
<1>2. /\ buf \in Seq(Byte) /\ HeadFits \in 0..6 /\ n \in 0..size
      /\ Len(buf) = Len(sendBuf) + HeadFits + n
  BY <1>1, AppendedIs
<1>3. PICK y : buf = sendBuf \o y /\ y \in Seq(Byte)
  BY <1>1, AppendedOrdered DEF OfCall
<1>4. sendBuf' = SubSeq(buf, 1, k) /\ wire' = wire /\ sending' = sending /\ sent' = sent
      /\ waiting = <<>> /\ waiting' = waiting /\ headSent' = headSent
  BY DEF HeaderSize, MustWait
<1>5. k \in Int /\ k <= Len(sendBuf)
  <2> HIDE DEF buf, n
  <2> QED
    BY <1>1, <1>2 DEF HeaderSize
<1> HIDE DEF buf, n, k
<1>6. PICK z \in Seq(Byte) : sendBuf = sendBuf' \o z /\ sendBuf' \in Seq(Byte)
  <2>1. CASE k < 1
    <3>1. sendBuf' = <<>>
      <4>1. SubSeq(buf, 1, k) = <<>>
        BY <1>5, <2>1, SubSeqEmpty
      <4> QED
        BY <1>4, <4>1
    <3>2. <<>> \o sendBuf = sendBuf /\ <<>> \in Seq(Byte)
      BY <1>1
    <3> QED
      BY <1>1, <3>1, <3>2
  <2>2. CASE k >= 1
    <3> DEFINE l == Len(sendBuf)
               a == SubSeq(sendBuf, 0 + 1, k)
               z == SubSeq(sendBuf, k + 1, l)
    <3>1. k \in Nat /\ 0 <= k /\ k <= l /\ l \in Nat /\ l <= Len(sendBuf)
      BY <1>1, <1>5, <2>2
    <3>2. a \o z = SubSeq(sendBuf, 0 + 1, l)
      <4> HIDE DEF l
      <4> QED
        BY <1>1, <3>1, PartsJoin
    <3>3. /\ a \in Seq(Byte) /\ Len(a) = k - 0 /\ z \in Seq(Byte)
          /\ \A i \in 1..(k - 0) : a[i] = sendBuf[0 + i]
      <4> HIDE DEF l
      <4> QED
        BY <1>1, <3>1, PartIs
    <3>4. SubSeq(sendBuf, 0 + 1, l) = sendBuf
      BY <1>1
    <3>5. SubSeq(buf, 1, k) = a
      <4> DEFINE g == SubSeq(buf, 1, k)
      <4>1. /\ Len(sendBuf \o y) = l + Len(y) /\ Len(y) \in Nat
            /\ \A i \in 1..l : (sendBuf \o y)[i] = sendBuf[i]
        BY <1>1, <1>3
      <4>2. k <= Len(buf)
        <5> HIDE DEF l
        <5> QED
          BY <1>3, <3>1, <4>1
      <4>3. g \in Seq(Byte) /\ Len(g) = k /\ \A i \in 1..k : g[i] = buf[i]
        BY <1>2, <2>2, <3>1, <4>2
      <4> HIDE DEF g, a, l
      <4>4. \A i \in 1..k : g[i] = a[i]
        <5> SUFFICES ASSUME NEW i \in 1..k PROVE g[i] = a[i]
          OBVIOUS
        <5>1. i \in 1..l /\ i \in 1..(k - 0) /\ 0 + i = i
          BY <3>1
        <5> QED
          BY <1>3, <3>3, <4>1, <4>3, <5>1
      <4>5. Len(a) = k
        BY <3>1, <3>3
      <4>6. g = a
        BY <3>3, <4>3, <4>4, <4>5, SeqEqual
      <4> QED
        BY <4>6 DEF g
    <3> HIDE DEF a, z, l
    <3>6. sendBuf = a \o z /\ sendBuf' = a
      BY <1>4, <3>2, <3>4, <3>5
    <3> QED
      BY <3>3, <3>6
  <2>3. k < 1 \/ k >= 1
    BY <1>5
  <2> QED
    BY <2>1, <2>2, <2>3, Zenon
<1> DEFINE l == Left(sending, sent)
           b == sendBuf'
<1>7. l \in Seq(Byte) /\ wire \in Seq(Byte) /\ b \in Seq(Byte)
  BY <1>6, StateBytes DEF IntactInv, BytesTyped
<1>8. Unsent = (l \o (b \o z)) \o <<>>
  BY <1>4, <1>6, StateBytes, UnsentIs
<1>9. Unsent' = (l \o b) \o <<>>
  BY <1>4, StateBytes, UnsentThen
<1> HIDE DEF l, b
<1>10. (l \o (b \o z)) \o <<>> = l \o (b \o z)
  <2> DEFINE bz == b \o z
             lbz == l \o bz
  <2>1. bz \in Seq(Byte)
    BY <1>6, <1>7, Concats
  <2> HIDE DEF bz
  <2>2. lbz \in Seq(Byte)
    BY <1>7, <2>1, Concats
  <2> HIDE DEF lbz
  <2>3. lbz \o <<>> = lbz
    BY <2>2
  <2> QED
    BY <2>3 DEF lbz, bz
<1> DEFINE lb == l \o b
<1>11. lb \in Seq(Byte) /\ lb \o <<>> = lb
  <2>1. lb \in Seq(Byte)
    BY <1>7, Concats
  <2> HIDE DEF lb
  <2> QED
    BY <2>1
<1>12. Regroups(wire, l, b, z)
  BY <1>6, <1>7, Regrouped
<1>13. wire \o Unsent = (wire \o lb) \o z
  BY <1>8, <1>10, <1>12 DEF Regroups, lb
<1>14. wire' \o Unsent' = wire \o lb
  BY <1>4, <1>9, <1>11 DEF lb
<1>15. wire \o lb \in Seq(Byte)
  <2> HIDE DEF lb
  <2> QED
    BY <1>7, <1>11, Concats
<1> QED
  BY <1>6, <1>13, <1>14, <1>15

LEMMA SendOrdered ==
  ASSUME OrderInv, NEW size \in BodySizes, SendMsg(size)
  PROVE  NeverReordered' /\ UpToCall(wire' \o Unsent', calls')
<1> DEFINE s == wire \o Unsent
           c == calls + 1
<1>1. /\ IntactInv /\ open /\ calls \in Nat /\ c \in Nat /\ calls' = c /\ size \in Nat
      /\ calls' \in Nat
  BY SendConstants DEF SendMsg, OrderInv, IntactInv, BytesTyped
<1>2. s \in Seq(Byte) /\ Ordered(s) /\ UpToCall(s, calls)
  BY StreamType DEF OrderInv, NeverReordered
<1>3. \A i \in DOMAIN s : s[i][1] \in Nat
  <2> HIDE DEF s
  <2> SUFFICES ASSUME NEW i \in DOMAIN s PROVE s[i][1] \in Nat
    OBVIOUS
  <2>1. s[i] \in Byte
    BY <1>2
  <2> QED
    BY <2>1 DEF Byte
<1>4. UpToCall(s, c)
  <2> HIDE DEF s
  <2> QED
    BY <1>1, <1>2, <1>3 DEF UpToCall
<1>5. ASSUME Adds(c) PROVE Ordered(wire' \o Unsent') /\ UpToCall(wire' \o Unsent', c)
  <2>1. PICK x : (\E hi : OfCall(x, c, 0, hi)) /\ wire' \o Unsent' = s \o x
    BY <1>5 DEF Adds
  <2> HIDE DEF s
  <2>2. Ordered(s \o x) /\ UpToCall(s \o x, calls + 1)
    BY <1>1, <1>2, <2>1, OrderedGrows
  <2> QED
    BY <2>1, <2>2
<1>6. ASSUME TakeBack(c, size) PROVE Ordered(wire' \o Unsent') /\ UpToCall(wire' \o Unsent', c)
  <2>1. PICK z \in Seq(Byte) : s = (wire' \o Unsent') \o z /\ wire' \o Unsent' \in Seq(Byte)
    <3> HIDE DEF c
    <3> QED
      BY <1>1, <1>6, TakeBackCuts
  <2> DEFINE r == wire' \o Unsent'
  <2>2. r \in Seq(Byte) /\ Ordered(r \o z) /\ UpToCall(r \o z, c)
    BY <1>2, <1>4, <2>1
  <2> HIDE DEF r
  <2>3. Ordered(r) /\ UpToCall(r, c)
    BY <2>2, OrderedCut
  <2> QED
    BY <2>3 DEF r
<1>7. ASSUME Refuse PROVE Ordered(wire' \o Unsent') /\ UpToCall(wire' \o Unsent', c)
  <2>1. Unsent' = Unsent /\ wire' = wire
    BY <1>7, UnsentIs, UnsentThen DEF Refuse
  <2> QED
    BY <1>2, <1>4, <2>1
<1>8. \/ Enqueue(c, size) \/ WriteToBuffer(c, size) \/ WriteAndQueueRest(c, size)
      \/ TakeBack(c, size) \/ EnqueueSwapped(c, size) \/ Refuse
  BY DEF SendMsg
<1> HIDE DEF c, s
<1>9. Ordered(wire' \o Unsent') /\ UpToCall(wire' \o Unsent', c)
  BY <1>1, <1>5, <1>6, <1>7, <1>8, EnqueueAdds, WriteToBufferAdds, WriteAndQueueRestAdds,
     EnqueueSwappedAdds
<1> QED
  BY <1>1, <1>9 DEF NeverReordered

LEMMA NextOrdered == OrderInv /\ [Next]_vars => OrderInv'
<1> SUFFICES ASSUME OrderInv, [Next]_vars PROVE NeverReordered' /\ UpToCall(wire' \o Unsent', calls')
  BY NextIntact DEF OrderInv
<1>1. IntactInv /\ calls \in Nat
  BY DEF OrderInv, IntactInv, BytesTyped
<1> DEFINE s == wire \o Unsent
           r == wire' \o Unsent'
<1>2. s \in Seq(Byte) /\ Ordered(s) /\ UpToCall(s, calls)
  BY <1>1, StreamType DEF OrderInv, NeverReordered
<1>3. CASE \E size \in BodySizes : SendMsg(size)
  BY <1>3, SendOrdered
<1>4. CASE \E n \in 1..BufSize : HandleWrite(n)
  <2>1. Thins(s, r)
    BY <1>1, <1>4, HandleIntact
  <2>2. calls' = calls
    BY <1>4 DEF HandleWrite
  <2> HIDE DEF s, r
  <2>3. Ordered(r) /\ UpToCall(r, calls)
    BY <1>1, <1>2, <2>1, OrderedThins
  <2> QED
    BY <2>2, <2>3 DEF NeverReordered, r
<1>5. CASE Settle \/ WriteFails \/ Close \/ UNCHANGED vars
  <2>1. UNCHANGED <<sendBuf, sending, sent, waiting, headSent, calls, wire>>
    BY <1>5 DEF Settle, WriteFails, Close, vars, buffers, history
  <2>2. r = s
    BY <2>1, UnsentIs, UnsentThen
  <2> HIDE DEF s, r
  <2> QED
    BY <1>2, <2>1, <2>2 DEF NeverReordered, r
<1>6. CASE Recycle
  <2>1. sendBuf' = <<>> /\ sending' = <<>> /\ sent' = 0 /\ waiting' = <<>> /\ wire' = <<>>
    BY <1>6 DEF Recycle
  <2>2. Bytes(waiting', headSent', Len(waiting')) = <<>>
    BY <2>1, BytesNone
  <2>3. Left(sending', sent') = <<>>
    <3>1. <<>> \in Seq(Byte)
      OBVIOUS
    <3> QED
      BY <2>1, <3>1, LeftOfNone
  <2>4. r = <<>>
    <3>1. <<>> \o <<>> = <<>>
      OBVIOUS
    <3> QED
      BY <2>1, <2>2, <2>3, <3>1, UnsentThen
  <2> HIDE DEF r
  <2>5. Ordered(r) /\ UpToCall(r, calls')
    BY <2>4 DEF Ordered, UpToCall
  <2> QED
    BY <2>5 DEF NeverReordered, r
<1> QED
  BY <1>3, <1>4, <1>5, <1>6 DEF Next

(* Whatever happens to headers, the bytes that leave the socket and those  *)
(* still held are in the order of the calls of send_msg(), each once: no   *)
(* swap of the buffers, no cut message and no refilling in                 *)
(* _msg_queue_buf() (cnet_session.cpp:447) lets one overtake another.      *)
THEOREM NeverReorderedCorrect == Spec => []NeverReordered
<1>1. Init => OrderInv
  <2> SUFFICES ASSUME Init PROVE OrderInv
    OBVIOUS
  <2>1. IntactInv
    BY InitIntact
  <2>2. Bytes(waiting, headSent, Len(waiting)) = <<>>
    BY BytesNone DEF Init
  <2>3. <<>> \in Seq(Byte)
    OBVIOUS
  <2>4. Left(sending, sent) = <<>>
    BY <2>3, LeftOfNone DEF Init
  <2>5. wire \o Unsent = <<>>
    <3>1. <<>> \o <<>> = <<>>
      OBVIOUS
    <3> QED
      BY <2>2, <2>4, <3>1, UnsentIs DEF Init
  <2> QED
    BY <2>1, <2>5 DEF OrderInv, NeverReordered, Ordered, UpToCall
<1>2. OrderInv /\ [Next]_vars => OrderInv'
  BY NextOrdered
<1>3. OrderInv => NeverReordered
  BY DEF OrderInv
<1> QED
  BY <1>1, <1>2, <1>3, PTL DEF Spec
=============================================================================
