------------------------------ MODULE RecvPath ------------------------------
(***************************************************************************)
(* How a cnet_session takes messages out of the byte stream it receives:   *)
(* _handle_read() and _parse_msg() (clib/cnet_session.cpp), the receive    *)
(* buffer (clib/cmsg_buffer.cpp) and the body of a cnet_msg.               *)
(*                                                                         *)
(* Byte <<m, k>> is the k-th byte of the m-th message of the stream, its   *)
(* header first.  The handlers run one after the other, in the order in    *)
(* which their reads were completed; two threads are in module NetMgr.     *)
(***************************************************************************)
EXTENDS Integers, Sequences, SequencesExt

CONSTANTS
  HeaderSize,   \* MSG_HEADER_SIZE, 6 in the code
  RecvBufSize,  \* recv_buff_size of init()
  BodySizes,    \* body lengths the peer sends
  Messages,     \* how many messages it sends
  MaxReads      \* bound: reads outstanding

ASSUME StreamConstants ==
  /\ HeaderSize \in Nat \ {0}
  /\ RecvBufSize \in Nat
  /\ BodySizes \subseteq Nat
  /\ Messages \in Nat
  /\ MaxReads \in Nat \ {0}

VARIABLES
  sizes,      \* the body length of each message of the stream
  taken,      \* bytes of the stream that reads have taken
  reads,      \* reads posted and not completed, in order
  done,       \* byte counts of completed reads whose handler has yet to run
  recvBuf,    \* the bytes in m_recv_buf_ptr
  recvMsg,    \* m_recv_ptr: the message whose body is awaited, or None
  recvSize,   \* m_recv_size
  offset,     \* how far _parse_msg() has come in the buffer
  delivered,  \* the messages given to msg_push()
  straddled,  \* history: has a read ended inside a body?
  state       \* "idle", "parse", "closed", or "aborted" by a failed assert

vars == <<sizes, taken, reads, done, recvBuf, recvMsg, recvSize, offset, delivered, straddled, state>>

None == [id |-> 0, size |-> 0, body |-> <<>>]
Junk == <<0, 0>>   \* a byte that was never received

Frame(m) == [k \in 1..(HeaderSize + sizes[m]) |-> <<m, k>>]
Stream == FlattenSeq([m \in 1..Messages |-> Frame(m)])

-----------------------------------------------------------------------------
\* connected() posts the first read, into the empty buffer.
ReadBuf(size) == [into |-> "buf", at |-> size, cap |-> RecvBufSize - size, msg |-> 0]

Init ==
  /\ sizes \in [1..Messages -> BodySizes]
  /\ taken = 0
  /\ reads = <<ReadBuf(0)>>
  /\ done = <<>>
  /\ recvBuf = [i \in 1..RecvBufSize |-> Junk]
  /\ recvMsg = None
  /\ recvSize = 0
  /\ offset = 0
  /\ delivered = <<>>
  /\ straddled = FALSE
  /\ state = "idle"

\* The bytes s go where the read says; a message that is gone takes none.
Store(read, s) ==
  LET n == Len(s) IN
  IF read.into = "buf"
    THEN /\ recvBuf' = [i \in DOMAIN recvBuf |->
                          IF i - read.at \in 1..n THEN s[i - read.at] ELSE recvBuf[i]]
         /\ UNCHANGED recvMsg
    ELSE /\ recvMsg' = IF recvMsg # None /\ read.msg = Len(delivered) + 1
                         THEN [recvMsg EXCEPT !.body = [i \in DOMAIN @ |->
                                 IF i - read.at \in 1..n THEN s[i - read.at] ELSE @[i]]]
                         ELSE recvMsg
         /\ UNCHANGED recvBuf

\* The stream is cut inside a body, and a rest of the body is awaited.
InBody(p) == p < Len(Stream) /\ Stream[p + 1][2] > HeaderSize

\* The socket completes the oldest read with the next n bytes.
Complete(n) ==
  LET read == Head(reads) IN
  /\ reads # <<>>
  /\ n <= read.cap
  /\ taken + n <= Len(Stream)
  /\ Store(read, SubSeq(Stream, taken + 1, taken + n))
  /\ taken' = taken + n
  /\ reads' = Tail(reads)
  /\ done' = Append(done, n)
  /\ straddled' = (straddled \/ InBody(taken + n))
  /\ UNCHANGED <<sizes, recvSize, offset, delivered, state>>

\* ... or with an error, or with no byte.
CompleteWithError ==
  /\ reads # <<>>
  /\ reads' = Tail(reads)
  /\ done' = Append(done, 0)
  /\ UNCHANGED <<sizes, taken, recvBuf, recvMsg, recvSize, offset, delivered, straddled, state>>

-----------------------------------------------------------------------------
Close == state' = "closed"

\* The end of _handle_read(), with m_recv_ptr = msg and m_recv_size = size:
\* the read of the rest of the body, and the read into the buffer.  Both
\* asserts come before the read they are about.
PostReads(msg, size, pushed) ==
  LET rest == [into |-> "msg", at |-> size, cap |-> msg.size - size, msg |-> pushed + 1]
      next == (IF msg = None THEN <<>> ELSE <<rest>>) \o <<ReadBuf(size)>>
  IN
  IF (msg # None /\ msg.size <= size) \/ RecvBufSize <= size
    THEN state' = "aborted" /\ UNCHANGED reads
    ELSE /\ Len(reads) + Len(next) <= MaxReads
         /\ reads' = reads \o next
         /\ state' = "idle"

HandleError ==
  /\ state = "idle"
  /\ done # <<>>
  /\ Head(done) = 0
  /\ done' = Tail(done)
  /\ Close
  /\ UNCHANGED <<sizes, taken, straddled, reads, recvBuf, recvMsg, recvSize, offset, delivered>>

\* mistake: m_recv_size is not set back
SizeAfterBodyKept == recvSize

SizeAfterBody == 0

\* Bytes for the message whose body is awaited.
HandleBody ==
  LET size == recvSize + Head(done) IN
  /\ state = "idle"
  /\ done # <<>>
  /\ Head(done) > 0
  /\ recvMsg # None
  /\ done' = Tail(done)
  /\ \/ /\ size > recvMsg.size
        /\ Close
        /\ recvSize' = size
        /\ UNCHANGED <<recvMsg, delivered, reads>>
     \/ /\ size = recvMsg.size
        /\ delivered' = Append(delivered, recvMsg)
        /\ recvMsg' = None
        /\ recvSize' = SizeAfterBody
        /\ PostReads(None, 0, Len(delivered) + 1)
     \/ /\ size < recvMsg.size
        /\ recvSize' = size
        /\ PostReads(recvMsg, size, Len(delivered))
        /\ UNCHANGED <<recvMsg, delivered>>
  /\ UNCHANGED <<sizes, taken, straddled, recvBuf, offset>>

\* mistake: the header is parsed with the byte after it
HeaderReadyLate(size) == HeaderSize < size

HeaderReady(size) == HeaderSize <= size

\* Bytes for the buffer: a header is complete, or not yet.
HandleBuffer ==
  LET size == recvSize + Head(done) IN
  /\ state = "idle"
  /\ done # <<>>
  /\ Head(done) > 0
  /\ recvMsg = None
  /\ done' = Tail(done)
  /\ recvSize' = size
  /\ offset' = 0
  /\ IF HeaderReady(size)
       THEN state' = "parse" /\ UNCHANGED reads
       ELSE PostReads(None, size, Len(delivered))
  /\ UNCHANGED <<sizes, taken, straddled, recvBuf, recvMsg, delivered>>

-----------------------------------------------------------------------------
\* _parse_msg(), one round of its loop for each message.
Cell(i) == IF i \in DOMAIN recvBuf THEN recvBuf[i] ELSE Junk
Cells(first, n) == [i \in 1..n |-> Cell(first + i)]

\* The length in the header at the offset; junk can be read as any.
HeaderSays(n) ==
  LET m == Cell(offset + 1)[1] IN
  IF Cells(offset, HeaderSize) = [k \in 1..HeaderSize |-> <<m, k>>] /\ m > 0
    THEN n = sizes[m]
    ELSE n \in BodySizes

\* A message with a reserved id or that is too long, or no memory for it
RejectHeader ==
  /\ state = "parse"
  /\ Close
  /\ UNCHANGED <<sizes, taken, straddled, reads, done, recvBuf, recvMsg, recvSize, offset, delivered>>

\* mistake: it stays where it is
NotMoved(end, rest) == recvBuf

\* What is left after the last whole message moves to the buffer's front.
Moved(end, rest) == [i \in DOMAIN recvBuf |-> IF i <= rest THEN Cell(end + i) ELSE recvBuf[i]]

WholeBody(n) == recvSize - HeaderSize >= n

WholeMessage(n) ==
  LET rest == recvSize - HeaderSize - n
      end  == offset + HeaderSize + n
  IN
  /\ state = "parse"
  /\ HeaderSays(n)
  /\ WholeBody(n)
  /\ delivered' = Append(delivered, [id |-> Cell(offset + 1)[1], size |-> n,
                                     body |-> Cells(offset + HeaderSize, n)])
  /\ recvSize' = rest
  /\ IF rest < HeaderSize
       THEN /\ recvBuf' = Moved(end, rest)
            /\ offset' = 0
            /\ PostReads(None, rest, Len(delivered) + 1)
       ELSE /\ offset' = end
            /\ UNCHANGED <<recvBuf, reads, state>>
  /\ UNCHANGED <<sizes, taken, straddled, done, recvMsg>>

PartOfMessage(n) ==
  LET have == recvSize - HeaderSize
      msg  == [id |-> Cell(offset + 1)[1], size |-> n,
               body |-> [i \in 1..n |-> IF i <= have THEN Cell(offset + HeaderSize + i) ELSE Junk]]
  IN
  /\ state = "parse"
  /\ HeaderSays(n)
  /\ ~WholeBody(n)
  /\ recvMsg' = msg
  /\ recvSize' = have
  /\ offset' = 0
  /\ PostReads(msg, have, Len(delivered))
  /\ UNCHANGED <<sizes, taken, straddled, done, recvBuf, delivered>>

Next ==
  \/ \E n \in 1..Len(Stream) : Complete(n)
  \/ CompleteWithError
  \/ HandleError \/ HandleBody \/ HandleBuffer
  \/ RejectHeader
  \/ \E n \in BodySizes : WholeMessage(n) \/ PartOfMessage(n)

Spec == Init /\ [][Next]_vars

-----------------------------------------------------------------------------
\* A byte of the stream, or one that was never received
IsByte(b) == b = Junk \/ \E m \in 1..Messages : b[1] = m /\ b[2] \in 1..(HeaderSize + sizes[m])

\* The variables have the types of the code's fields; sizes never wrap.
TypeOK ==
  /\ taken \in 0..Len(Stream)
  /\ reads \in Seq([into : {"buf", "msg"}, at : Nat, cap : Nat, msg : Nat])
  /\ done \in Seq(Nat)
  /\ \A i \in 1..RecvBufSize : IsByte(recvBuf[i])
  /\ DOMAIN recvMsg.body = 1..recvMsg.size
  /\ recvSize \in Nat /\ offset \in Nat
  /\ state \in {"idle", "parse", "closed", "aborted"}

\* The messages given to the application are those the peer sent, in order,
\* with their bytes, however the stream is cut into reads -- but inside a
\* body: the two reads that are posted for its rest misplace bytes.
DeliveredIntact ==
  ~straddled =>
  /\ Len(delivered) <= Messages
  /\ \A m \in 1..Len(delivered) :
       delivered[m] = [id |-> m, size |-> sizes[m],
                       body |-> [k \in 1..sizes[m] |-> <<m, HeaderSize + k>>]]

\* There is one read at a time, so that m_reading_atomic speaks for it.
OneRead == ~straddled /\ state \in {"idle", "parse"} =>
             Len(reads) + Len(done) = IF state = "idle" THEN 1 ELSE 0

SumOf(s) ==
  LET sum[k \in 0..Len(s)] == IF k = 0 THEN 0 ELSE sum[k - 1] + s[k] IN sum[Len(s)]

\* Every byte that a handler was told of counts for one message: delivered,
\* awaited or still in the buffer.  Also when a read ends inside a body, and
\* the bytes themselves are put in the wrong place.
Accounted ==
  /\ TypeOK
  /\ OneRead
  /\ state \in {"idle", "parse"} =>
       SumOf([i \in DOMAIN delivered |-> HeaderSize + delivered[i].size])
         + (IF recvMsg = None THEN 0 ELSE HeaderSize) + recvSize
         = taken - SumOf(done)

\* The second assert of _handle_read(): m_recv_size is less than the buffer.
AssertHolds == state # "aborted"

\* The socket completes a read when bytes are there, and handlers are run.
FairSpec ==
  /\ Spec
  /\ WF_vars(\E n \in 1..Len(Stream) : Complete(n))
  /\ WF_vars(HandleError \/ HandleBody \/ HandleBuffer)
  /\ WF_vars(\E n \in BodySizes : WholeMessage(n) \/ PartOfMessage(n))

\* Every message the peer sent is delivered, unless the session is closed
\* or a read ended inside a body.
AllDelivered == <>(Len(delivered) = Messages \/ state = "closed" \/ straddled)
=============================================================================
