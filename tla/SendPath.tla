------------------------------ MODULE SendPath ------------------------------
(***************************************************************************)
(* How a cnet_session sends: send_msg(), _handle_write(), the two send     *)
(* buffers (clib/cmsg_buffer.h) and the queue of messages that found no    *)
(* room (_push_to_queue(), _msg_queue_buf()).                              *)
(*                                                                         *)
(* Byte <<c, k>> is the k-th byte of the frame of the c-th call.  The      *)
(* application calls from its own thread, at any moment; m_mutex makes     *)
(* send_msg() and the refilling in _handle_write() atomic.  There is one   *)
(* write at a time, and only its handler touches the buffer being sent.    *)
(***************************************************************************)
EXTENDS Integers, Sequences, SequencesExt, FiniteSetsExt

CONSTANTS
  BufSize,    \* send_buff_size of init()
  BodySizes,  \* lengths of the messages the application sends
  MsgId,      \* the id they carry, which is a number
  MaxCalls,   \* bound: calls of send_msg()
  MaxConns    \* bound: connections of the session

IdSize == 2
HeaderSize == 6
SizeofHeaderSize == 4   \* sizeof(MSG_HEADER_SIZE): of the constant's type

ASSUME SendConstants ==
  /\ BufSize \in Nat /\ BufSize >= HeaderSize
  /\ BodySizes \subseteq Nat
  /\ MsgId \in Nat \ {0}
  /\ MaxCalls \in Nat
  /\ MaxConns \in Nat

VARIABLES
  open,       \* m_status is ENSS_Open
  sendBuf,    \* the bytes in m_send_buf_ptr
  sending,    \* the bytes in m_sending_buf_ptr
  sent,       \* m_send_size of m_sending_buf_ptr
  waiting,    \* the messages from m_wait_send_head_ptr on
  headSent,   \* m_send_size of the session: bytes of the first of them sent
  writing,    \* m_writeing_atomic
  io,         \* "none", a write is "posted", or its handler is "settling"
  calls,      \* calls of send_msg() that found the session open
  conns,      \* connections so far
  wire,       \* what the socket took on this connection
  due,        \* history: the frames of the calls that returned true
  mangled,    \* history: a frame was not written as it should be
  overtaken   \* history: a send_msg() came while the handler was settling

buffers == <<sendBuf, sending, sent, waiting, headSent>>
history == <<due, mangled, overtaken>>
vars == <<open, buffers, writing, io, calls, conns, wire, history>>

Junk == <<0, 0>>   \* a byte of no message

Frame(c, size) == [k \in 1..(HeaderSize + size) |-> <<c, k>>]

-----------------------------------------------------------------------------
Init ==
  /\ open = TRUE
  /\ sendBuf = <<>> /\ sending = <<>> /\ sent = 0
  /\ waiting = <<>> /\ headSent = 0
  /\ writing = FALSE
  /\ io = "none"
  /\ calls = 0 /\ conns = 1
  /\ wire = <<>> /\ due = <<>>
  /\ mangled = FALSE /\ overtaken = FALSE

\* The compare_exchange of send_msg(), with buf in the send buffer: the
\* first one starts the write.
StartWrite(buf) ==
  IF writing
    THEN /\ sendBuf' = buf
         /\ UNCHANGED <<sending, sent, writing, io>>
         /\ overtaken' = (overtaken \/ io = "settling")
    ELSE /\ sending' = buf /\ sendBuf' = sending
         /\ sent' = 0
         /\ writing' = TRUE
         /\ io' = "posted"
         /\ overtaken' = FALSE

Room == BufSize - Len(sendBuf)

\* mistake: only the room decides
MustWaitNever == FALSE

\* Messages wait already: the new one goes behind them.
MustWait == waiting # <<>>

Refuse ==
  /\ sendBuf' = sendBuf
  /\ UNCHANGED <<open, sending, sent, waiting, headSent, writing, io, conns, wire, history>>

Enqueue(c, size) ==
  /\ MustWait
  /\ waiting' = Append(waiting, [head |-> SubSeq(Frame(c, size), 1, HeaderSize),
                                 body |-> SubSeq(Frame(c, size), HeaderSize + 1, HeaderSize + size)])
  /\ due' = due \o Frame(c, size)
  /\ overtaken' = (overtaken \/ io = "settling")
  /\ UNCHANGED <<open, sendBuf, sending, sent, headSent, writing, io, conns, wire, mangled>>

\* What append() takes of the header and then of the body
HeadFits == Min({Room, HeaderSize})
BodyFits(size) == Min({Room - HeadFits, size})
Appended(c, size) ==
  sendBuf \o SubSeq(Frame(c, size), 1, HeadFits)
          \o SubSeq(Frame(c, size), HeaderSize + 1, HeaderSize + BodyFits(size))

WriteToBuffer(c, size) ==
  /\ ~MustWait
  /\ Room >= SizeofHeaderSize
  /\ BodyFits(size) = size
  /\ StartWrite(Appended(c, size))
  /\ due' = due \o Frame(c, size)
  /\ mangled' = (mangled \/ HeadFits < HeaderSize)
  /\ UNCHANGED <<open, waiting, headSent, conns, wire>>

\* mistake: the header counts as not yet sent
RestWithHeader == 0

RestSent == HeaderSize

\* The rest of the body is queued, as a message whose header is sent.
WriteAndQueueRest(c, size) ==
  /\ ~MustWait
  /\ Room >= SizeofHeaderSize
  /\ BodyFits(size) < size
  /\ waiting' = <<[head |-> SubSeq(Frame(c, size), 1, HeaderSize),
                   body |-> SubSeq(Frame(c, size), HeaderSize + BodyFits(size) + 1, HeaderSize + size)]>>
  /\ headSent' = RestSent
  /\ StartWrite(Appended(c, size))
  /\ due' = due \o Frame(c, size)
  /\ mangled' = (mangled \/ HeadFits < HeaderSize)
  /\ UNCHANGED <<open, conns, wire>>

\* Without memory for the rest: deducted(MSG_HEADER_SIZE + write_byte), which
\* takes an earlier message's bytes when the header was cut.
TakeBack(c, size) ==
  LET buf == Appended(c, size) IN
  /\ ~MustWait
  /\ Room >= SizeofHeaderSize
  /\ BodyFits(size) < size
  /\ sendBuf' = SubSeq(buf, 1, Len(buf) - HeaderSize - BodyFits(size))
  /\ mangled' = (mangled \/ HeadFits < HeaderSize)
  /\ UNCHANGED <<open, sending, sent, waiting, headSent, writing, io, conns, wire, due, overtaken>>

\* No room for a header: this call of _push_to_queue() passes id and size the
\* other way round.
EnqueueSwapped(c, size) ==
  LET swapped == size # MsgId IN
  /\ ~MustWait
  /\ Room < SizeofHeaderSize
  /\ waiting' = <<[head |-> [k \in 1..HeaderSize |-> IF swapped THEN Junk ELSE <<c, k>>],
                   body |-> [k \in 1..MsgId |->
                               IF k <= size THEN <<c, HeaderSize + k>> ELSE Junk]]>>
  /\ StartWrite(sendBuf)
  /\ due' = due \o Frame(c, size)
  /\ mangled' = (mangled \/ swapped)
  /\ UNCHANGED <<open, headSent, conns, wire>>

SendMsg(size) ==
  /\ open
  /\ calls < MaxCalls
  /\ calls' = calls + 1
  /\ \/ Enqueue(calls + 1, size)
     \/ WriteToBuffer(calls + 1, size)
     \/ WriteAndQueueRest(calls + 1, size)
     \/ TakeBack(calls + 1, size)
     \/ EnqueueSwapped(calls + 1, size)
     \/ (MustWait \/ Room < SizeofHeaderSize) /\ Refuse

-----------------------------------------------------------------------------
\* What _msg_queue_buf() sends of message e when s bytes of it are sent: it
\* adds s to pointers to uint16 and uint32, right only for 0 and IdSize.
Encoded(e, s) ==
  [k \in 1..(Max({0, HeaderSize - s})) |->
     IF s \in {0, IdSize} THEN e.head[s + k]
     ELSE IF s = 1 /\ k > 1 THEN e.head[s + k]
     ELSE Junk]
  \o SubSeq(e.body, Max({0, s - HeaderSize}) + 1, Len(e.body))

\* A message cut there is not read on where it was left.
Misread(s) == s \in {1} \union (IdSize + 1)..(HeaderSize - 1)

\* The bytes of the first n waiting messages
Encodings(n) ==
  FlattenSeq([i \in 1..n |-> Encoded(waiting[i], IF i = 1 THEN headSent ELSE 0)])

\* The first n waiting messages are written to the end.
DoneWith(n) == Len(Encodings(n)) <= BufSize

\* _msg_queue_buf(): waiting messages into the empty sending buffer
QueueToBuf ==
  LET bytes == Encodings(Len(waiting))
      n     == Max({i \in 0..Len(waiting) : DoneWith(i)})
  IN
  /\ sending' = SubSeq(bytes, 1, Min({BufSize, Len(bytes)}))
  /\ waiting' = SubSeq(waiting, n + 1, Len(waiting))
  /\ headSent' = IF n = Len(waiting) THEN 0
                 ELSE (IF n = 0 THEN headSent ELSE 0) + Len(sending') - Len(Encodings(n))
  /\ mangled' = (mangled \/ Misread(headSent'))

\* mistake: what waits is not looked at
NothingToSendInBuffer == sendBuf = <<>>

NothingToSend == sendBuf = <<>> /\ waiting = <<>>

\* mistake: the rest is not written
WriteGoesOnNot(n) ==
  /\ sent + n < Len(sending)
  /\ sent' = sent + n
  /\ io' = "none"
  /\ UNCHANGED <<sendBuf, sending, waiting, headSent, mangled>>

\* _handle_write() of a write that took n bytes, but not all
WriteGoesOn(n) ==
  /\ sent + n < Len(sending)
  /\ sent' = sent + n
  /\ UNCHANGED <<sendBuf, sending, waiting, headSent, io, mangled>>

\* ... or all: the other buffer, or what waits, is sent next.
WriteNext(n) ==
  /\ sent + n = Len(sending)
  /\ ~NothingToSend
  /\ sent' = 0
  /\ IF sendBuf # <<>>
       THEN /\ sending' = sendBuf /\ sendBuf' = <<>>
            /\ UNCHANGED <<waiting, headSent, mangled>>
       ELSE QueueToBuf /\ UNCHANGED sendBuf
  /\ UNCHANGED io

\* ... or there is nothing: m_mutex is given back, the flag still set.
WriteEnds(n) ==
  /\ sent + n = Len(sending)
  /\ NothingToSend
  /\ sending' = <<>> /\ sent' = 0
  /\ io' = "settling"
  /\ UNCHANGED <<sendBuf, waiting, headSent, mangled>>

HandleWrite(n) ==
  /\ io = "posted"
  /\ open
  /\ sent + n <= Len(sending)
  /\ wire' = wire \o SubSeq(sending, sent + 1, sent + n)
  /\ WriteGoesOn(n) \/ WriteNext(n) \/ WriteEnds(n)
  /\ UNCHANGED <<open, writing, calls, conns, due, overtaken>>

Settle ==
  /\ io = "settling"
  /\ io' = "none"
  /\ writing' = FALSE
  /\ UNCHANGED <<open, buffers, calls, conns, wire, history>>

\* A write ends with an error, or its handler finds the session closed.
WriteFails ==
  /\ io = "posted"
  /\ io' = "none"
  /\ writing' = FALSE
  /\ open' = FALSE
  /\ UNCHANGED <<buffers, calls, conns, wire, history>>

\* The application or a read's handler closes the session.
Close ==
  /\ open
  /\ open' = FALSE
  /\ UNCHANGED <<buffers, writing, io, calls, conns, wire, history>>

\* _free_wait_queue_msg() is called, and sets m_send_size, if messages wait.
FreeQueueSize == IF waiting = <<>> THEN headSent ELSE 0

\* No write is under way: the session is reset and connected again.
Recycle ==
  /\ ~open /\ ~writing
  /\ conns < MaxConns
  /\ conns' = conns + 1
  /\ open' = TRUE
  /\ sendBuf' = <<>> /\ sending' = <<>> /\ sent' = 0
  /\ waiting' = <<>>
  /\ headSent' = FreeQueueSize
  /\ wire' = <<>> /\ due' = <<>>
  /\ mangled' = FALSE /\ overtaken' = FALSE
  /\ UNCHANGED <<writing, io, calls>>

Next ==
  \/ \E size \in BodySizes : SendMsg(size)
  \/ \E n \in 1..BufSize : HandleWrite(n)
  \/ Settle \/ WriteFails \/ Close \/ Recycle

Spec == Init /\ [][Next]_vars

\* Handlers run, and the peer keeps reading, so that writes come to an end.
FairSpec ==
  /\ Spec
  /\ WF_vars(\E n \in 1..BufSize : HandleWrite(n))
  /\ WF_vars(Settle)

-----------------------------------------------------------------------------
\* The bytes that calls have handed over and the socket has not taken, in the
\* order in which they would leave
Unsent == SubSeq(sending, sent + 1, Len(sending)) \o sendBuf \o Encodings(Len(waiting))

\* Each variable has its type, the buffers their size, and m_send_size is a
\* position inside the first waiting message.
TypeOK ==
  /\ {open, writing, mangled, overtaken} \subseteq BOOLEAN
  /\ io \in {"none", "posted", "settling"}
  /\ Len(sendBuf) <= BufSize /\ Len(sending) <= BufSize
  /\ sent <= Len(sending)
  /\ headSent \in Nat
  /\ IF waiting = <<>> THEN headSent = 0
     ELSE headSent < HeaderSize + Len(Head(waiting).body)

\* What leaves the socket is what send_msg() accepted, byte by byte and in the
\* order of the calls, through the two buffers and the queue and across
\* connections, unless one of the header mistakes of the code has happened.
Intact == TypeOK /\ (~mangled => wire \o Unsent = due)

\* Of two bytes of messages, a leaves first.
Before(a, b) == a[1] < b[1] \/ (a[1] = b[1] /\ a[2] < b[2])

Ordered(s) ==
  \A i, j \in DOMAIN s : i < j /\ s[i] # Junk /\ s[j] # Junk => Before(s[i], s[j])

\* Also then, bytes of messages never change order, nor are any sent twice.
NeverReordered == Ordered(wire \o Unsent)

\* Bytes wait only while a write is under way that will take them, or after a
\* send_msg() fell between the handler's last look and its clearing of
\* m_writeing_atomic.
WriterAwake == open /\ Unsent # <<>> => writing \/ overtaken

\* The library sends what was handed to it, if no call fell there.
AllSent == Unsent # <<>> ~> Unsent = <<>> \/ ~open \/ overtaken

\* What the README says: what is handed to the library, it sends in the end.
SentInTheEnd == Unsent # <<>> ~> Unsent = <<>> \/ ~open
=============================================================================
