-------------------------------- MODULE MsgList --------------------------------
(***************************************************************************)
(* Messages as pieces of memory linked by m_next_msg_ptr: the queue to the *)
(* application (clib/cnet_msg_queue.cpp), the batch process_msg() walks    *)
(* over, the message a session is reading, and the messages it could not   *)
(* send yet (clib/cnet_session.cpp).                                       *)
(*                                                                         *)
(* Io threads make and push messages of any session; one session is        *)
(* followed for what it reads and what waits.  The queue's lock and the    *)
(* session's m_mutex make each change of their lists one step.  A piece    *)
(* that was freed is used again, for whatever message is made next.        *)
(***************************************************************************)
EXTENDS Links, Naturals, Sequences, FiniteSets

CONSTANTS
    Msgs,       \* pieces of memory a message may lie in
    NoMsg,      \* no message
    IoThreads   \* threads that run handlers

ASSUME MsgsAssumption == NoMsg \notin Msgs /\ IsFiniteSet(Msgs)

VARIABLES
    made,      \* pieces that hold a message
    next,      \* m_next_msg_ptr
    queued,    \* the queue's m_tail_ptr, the oldest, and m_head_ptr, the newest
    at,        \* msg_ptr of process_msg()
    hand,      \* the message each io thread has made and not yet pushed
    recv,      \* m_recv_ptr of the session
    wait,      \* m_wait_send_head_ptr, the oldest, and m_wait_send_tail_ptr
    lost       \* history: messages nobody points at any more

msgVars == <<made, next, queued, at, hand, recv, wait, lost>>

NoList == [old |-> NoMsg, new |-> NoMsg]

MsgInit ==
    /\ made = {} /\ lost = {}
    /\ next = [m \in Msgs |-> NoMsg]
    /\ queued = NoList /\ wait = NoList
    /\ at = NoMsg /\ recv = NoMsg
    /\ hand = [t \in IoThreads |-> NoMsg]

\* The messages from p on, oldest first
Chain(p) ==
    LET met == Follow(next, NoMsg, p, Cardinality(Msgs))
    IN  [i \in {j \in 1..Cardinality(Msgs) : met[j] # NoMsg} |-> met[i]]

Members(p) == LET c == Chain(p) IN {c[i] : i \in 1..Len(c)}

\* The constructor's m_next_msg_ptr
NewLink(m) == [next EXCEPT ![m] = NoMsg]

\* cnet_msg::alloc_me()
Make(m) ==
    /\ m \in Msgs \ made
    /\ made' = made \union {m}
    /\ next' = NewLink(m)

-----------------------------------------------------------------------------
\* m is put behind the newest message of list: the new list, and the links
With(list, m) ==
    [old |-> IF list.new = NoMsg THEN m ELSE list.old, new |-> m]
Linked(list, m, links) ==
    IF list.new = NoMsg THEN links ELSE [links EXCEPT ![list.new] = m]

\* create_msg() in a handler: Connect, Disconnect, a connect's failure
Create(t, m) ==
    /\ hand[t] = NoMsg
    /\ Make(m)
    /\ hand' = [hand EXCEPT ![t] = m]
    /\ UNCHANGED <<queued, at, recv, wait, lost>>

\* msg_push() of it
Enqueue(t) ==
    /\ hand[t] # NoMsg
    /\ queued' = With(queued, hand[t])
    /\ next' = Linked(queued, hand[t], next)
    /\ hand' = [hand EXCEPT ![t] = NoMsg]
    /\ UNCHANGED <<made, at, recv, wait, lost>>

\* _parse_msg() makes the message a header announces, ...
StartRecv(m) ==
    /\ recv = NoMsg
    /\ Make(m)
    /\ recv' = m
    /\ UNCHANGED <<queued, at, hand, wait, lost>>

\* ... and once its body is there pushes it.
PushRecv ==
    /\ recv # NoMsg
    /\ queued' = With(queued, recv)
    /\ next' = Linked(queued, recv, next)
    /\ recv' = NoMsg
    /\ UNCHANGED <<made, at, hand, wait, lost>>

\* mistake: the next message is pushed behind one of the batch
DequeueKeepsNewest == [queued EXCEPT !.old = NoMsg]

Emptied == NoList

\* process_msg() takes all messages there are, ...
Dequeue ==
    /\ at = NoMsg
    /\ at' = queued.old
    /\ queued' = IF queued.old = NoMsg THEN queued ELSE Emptied
    /\ UNCHANGED <<made, next, hand, recv, wait, lost>>

\* ... and after each one's callback frees it.
Handled ==
    /\ at # NoMsg
    /\ at' = next[at]
    /\ made' = made \ {at}
    /\ UNCHANGED <<next, queued, hand, recv, wait, lost>>

-----------------------------------------------------------------------------
\* push_queue_msg(), _push_to_queue(): a message that cannot be sent yet
Wait(m) ==
    /\ m \in Msgs \ made
    /\ made' = made \union {m}
    /\ wait' = With(wait, m)
    /\ next' = Linked(wait, m, NewLink(m))
    /\ UNCHANGED <<queued, at, hand, recv, lost>>

WaitAfter(first) == IF first = NoMsg THEN NoList ELSE [wait EXCEPT !.old = first]

\* _msg_queue_buf() has copied the last byte of the first message.
Sent ==
    /\ wait.old # NoMsg
    /\ wait' = WaitAfter(next[wait.old])
    /\ made' = made \ {wait.old}
    /\ UNCHANGED <<next, queued, at, hand, recv, lost>>

RecvAfterReset == NoMsg

\* _free_wait_queue_msg() goes from the newest message on, so that only that
\* one is freed.
FreedByReset ==
    {recv} \union (IF wait.old = NoMsg THEN {} ELSE Members(wait.new))

\* reset() of the session, when no handler of it is left
Reset ==
    /\ recv # NoMsg \/ wait.old # NoMsg
    /\ made' = made \ FreedByReset
    /\ lost' = lost \union (Members(wait.old) \ FreedByReset)
    /\ recv' = RecvAfterReset
    /\ wait' = IF wait.old = NoMsg THEN wait ELSE NoList
    /\ UNCHANGED <<next, queued, at, hand>>

MsgNext ==
    \/ \E t \in IoThreads, m \in Msgs : Create(t, m)
    \/ \E t \in IoThreads : Enqueue(t)
    \/ \E m \in Msgs : StartRecv(m) \/ Wait(m)
    \/ PushRecv \/ Dequeue \/ Handled \/ Sent \/ Reset

MsgSpec == MsgInit /\ [][MsgNext]_msgVars

-----------------------------------------------------------------------------
(* Every piece that holds a message is in exactly one place -- a thread's  *)
(* hand, the queue, the batch, the message being read, the waiting list -- *)
(* or lost by a reset, and a freed piece is in none: no message is freed   *)
(* twice, handled after it was freed, or linked into two lists.            *)
OneOwner ==
    LET places(m) ==
            {<<"hand", t>> : t \in {u \in IoThreads : hand[u] = m}}
            \union {<<"queue", i>> : i \in {j \in DOMAIN Chain(queued.old) : Chain(queued.old)[j] = m}}
            \union {<<"batch", i>> : i \in {j \in DOMAIN Chain(at) : Chain(at)[j] = m}}
            \union {<<"wait", i>> : i \in {j \in DOMAIN Chain(wait.old) : Chain(wait.old)[j] = m}}
            \union (IF recv = m THEN {"recv"} ELSE {})
            \union (IF m \in lost THEN {"lost"} ELSE {})
    IN  \A m \in Msgs : Cardinality(places(m)) = IF m \in made THEN 1 ELSE 0

\* Followed through their links, the messages are the sequences of MsgFifo:
\* all threads' pushes are handled in their order, each once, and what waits
\* is sent in its order, or dropped with the connection.  And no piece of memory
\* is in two of them.
Fifo == INSTANCE MsgFifo
            WITH queue <- Chain(queued.old), batch <- Chain(at), waiting <- Chain(wait.old)
RefinesFifo == Fifo!FifoSpec /\ []OneOwner
=============================================================================
