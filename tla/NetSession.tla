----------------------------- MODULE NetSession -----------------------------
(***************************************************************************)
(* A cnet_session (clib/cnet_session.cpp): the object that carries one TCP *)
(* connection after another, and the steps of its methods and completion   *)
(* handlers.                                                               *)
(*                                                                         *)
(* The threads are the io threads, which all run one io_service, and the   *)
(* application's thread.  A step is the code from one access of a variable *)
(* that other threads also use to the next, or a whole critical section of *)
(* m_mutex.  Payload bytes are abstracted here.                            *)
(*                                                                         *)
(* The steps are put together with those of cnet_mgr in module NetMgr.     *)
(***************************************************************************)
EXTENDS Integers, Sequences

CONSTANTS
  MaxSession,     \* number of session objects (max_session of init)
  ClientSession,  \* how many of them are client sessions, the lowest indexes
  SerialMax,      \* last serial before it wraps, 16#FFFF in the code
  IoThreads,      \* the threads that run m_io_service
  App,            \* the application's thread
  Straddle,       \* may a read end inside a message?
  MaxReads,       \* bound: reads outstanding on one socket
  MaxData         \* bound: application messages received in all

ASSUME SessionConstants ==
  /\ MaxSession \in Nat \ {0}
  /\ ClientSession \in 0..MaxSession
  /\ SerialMax \in Nat \ {0}
  /\ App \notin IoThreads
  /\ Straddle \in BOOLEAN
  /\ MaxReads \in Nat
  /\ MaxData \in Nat

Sessions == 0..(MaxSession - 1)
Clients  == 0..(ClientSession - 1)
Serials  == 1..SerialMax
Threads  == IoThreads \cup {App}

\* cENetSessionStatus
Statuses == {"None", "Init", "Accept", "ConnectTo", "Open", "Shut", "Close"}

VARIABLES
  status,      \* m_status of each session
  serial,      \* the upper half of m_session_id, its incarnation
  reading,     \* m_reading_atomic
  writing,     \* m_writeing_atomic
  sock,        \* m_socket: closed, open, or shut down in both directions
  readOps,     \* reads outstanding on the socket a session had as incarnation n
  writeOps,    \* writes outstanding, likewise
  closePosts,  \* _handle_close calls posted and not yet run
  queue,       \* m_msgs of the manager, what the application is to be told
  datas,       \* application messages received so far
  pc,          \* where each thread is
  cur,         \* the session it works for
  born,        \* the incarnation its handler was started for
  complaints   \* the functions that found a status they log as an error, and the session

objVars  == <<status, serial, reading, writing, sock>>
opVars   == <<readOps, writeOps, closePosts>>
thrVars  == <<pc, cur, born>>
msgVars  == <<queue, datas, complaints>>
sessVars == <<objVars, opVars, thrVars, msgVars>>

SessionInit ==
  /\ status = [s \in Sessions |-> "Init"]
  /\ serial = [s \in Sessions |-> 1]
  /\ reading = [s \in Sessions |-> FALSE]
  /\ writing = [s \in Sessions |-> FALSE]
  /\ sock = [s \in Sessions |-> "closed"]
  /\ readOps = [s \in Sessions |-> [n \in Serials |-> 0]]
  /\ writeOps = [s \in Sessions |-> [n \in Serials |-> 0]]
  /\ closePosts = [s \in Sessions |-> 0]
  /\ queue = <<>>
  /\ datas = 0
  /\ pc = [t \in Threads |-> "idle"]
  /\ cur = [t \in Threads |-> 0]
  /\ born = [t \in Threads |-> 1]
  /\ complaints = {}

-----------------------------------------------------------------------------
Goto(t, label) == pc' = [pc EXCEPT ![t] = label]

\* Thread t, which was idle, starts to work for incarnation n of session s.
Start(t, s, n, label) ==
  /\ pc[t] = "idle"
  /\ Goto(t, label)
  /\ cur' = [cur EXCEPT ![t] = s]
  /\ born' = [born EXCEPT ![t] = n]

At(t, label) == pc[t] = label

Event(type, s, n) == [type |-> type, s |-> s, id |-> n]
Push(e) == queue' = Append(queue, e)

\* The status of s is what the function expects, or it logs an error.
Expect(function, s, ok) ==
  complaints' = IF ok THEN complaints ELSE complaints \cup {<<function, s>>}

\* mistake: the serial does not wrap
SerialWithoutWrap(n) == n + 1

NextSerial(n) == IF n = SerialMax THEN 1 ELSE n + 1

-----------------------------------------------------------------------------
(* connected(): the status, then the reading flag, the Connect message and *)
(* the first read.                                                         *)

OpenSession(t) ==
  LET s == cur[t] IN
  /\ At(t, "connected")
  /\ Expect("connected", s, status[s] \in {"Accept", "ConnectTo"})
  /\ status' = [status EXCEPT ![s] = "Open"]
  /\ Goto(t, "announce")
  /\ UNCHANGED <<serial, reading, writing, sock, opVars, queue, datas, cur,
                 born>>

Announce(t) ==
  LET s == cur[t] IN
  /\ At(t, "announce")
  /\ reading' = [reading EXCEPT ![s] = TRUE]
  /\ Push(Event("Connect", s, serial[s]))
  /\ readOps' = [readOps EXCEPT ![s][serial[s]] = @ + 1]
  /\ Goto(t, "idle")
  /\ UNCHANGED <<status, serial, writing, sock, writeOps, closePosts, datas,
                 cur, born, complaints>>

\* mistake: a failed read leaves the flag set
ReadFailsFlagKept(t, s, n) ==
  /\ t \in IoThreads
  /\ readOps[s][n] > 0
  /\ Start(t, s, n, "close")
  /\ readOps' = [readOps EXCEPT ![s][n] = @ - 1]
  /\ UNCHANGED <<objVars, writeOps, closePosts, msgVars>>

(* _handle_read(): an error, end of file, or a status that is not Open.    *)
ReadFails(t, s, n) ==
  /\ t \in IoThreads
  /\ readOps[s][n] > 0
  /\ Start(t, s, n, "close")
  /\ readOps' = [readOps EXCEPT ![s][n] = @ - 1]
  /\ reading' = [reading EXCEPT ![s] = FALSE]
  /\ UNCHANGED <<status, serial, writing, sock, writeOps, closePosts, msgVars>>

ReadSucceeds(t, s, n) ==
  /\ t \in IoThreads
  /\ readOps[s][n] > 0
  /\ status[s] = "Open"
  /\ Start(t, s, n, "received")
  /\ readOps' = [readOps EXCEPT ![s][n] = @ - 1]
  /\ UNCHANGED <<objVars, writeOps, closePosts, msgVars>>

(* The rest of _handle_read(): each whole message is pushed in a critical  *)
(* section of its own; then bytes are met that are no message, or the next *)
(* read is posted.  When a message is left incomplete the code posts the   *)
(* read for its rest and the ordinary read as well.                        *)
PushInput(t) ==
  LET s == cur[t] IN
  /\ At(t, "received")
  /\ datas < MaxData
  /\ datas' = datas + 1
  /\ Push(Event("Data", s, serial[s]))
  /\ UNCHANGED <<objVars, opVars, thrVars, complaints>>

RejectInput(t) ==
  /\ At(t, "received")
  /\ reading' = [reading EXCEPT ![cur[t]] = FALSE]
  /\ Goto(t, "close")
  /\ UNCHANGED <<status, serial, writing, sock, opVars, msgVars, cur, born>>

TakeInput(t) ==
  LET s == cur[t] IN
  /\ At(t, "received")
  /\ \E reads \in {1, 2} :
       /\ reads = 2 => Straddle /\ readOps[s][serial[s]] + 2 <= MaxReads
       /\ readOps' = [readOps EXCEPT ![s][serial[s]] = @ + reads]
  /\ Goto(t, "idle")
  /\ UNCHANGED <<objVars, writeOps, closePosts, msgVars, cur, born>>

-----------------------------------------------------------------------------
(* send_msg(): the critical section, then the write outside of it.  Only   *)
(* the caller that turns m_writeing_atomic on starts a write.              *)

SendMsg(s, n) ==
  /\ status[s] = "Open"
  /\ serial[s] = n
  /\ ~writing[s]
  /\ writing' = [writing EXCEPT ![s] = TRUE]
  /\ Start(App, s, n, "write")
  /\ UNCHANGED <<status, serial, reading, sock, opVars, msgVars>>

StartWrite(t) ==
  LET s == cur[t] IN
  /\ At(t, "write")
  /\ writeOps' = [writeOps EXCEPT ![s][serial[s]] = @ + 1]
  /\ Goto(t, "idle")
  /\ UNCHANGED <<objVars, readOps, closePosts, msgVars, cur, born>>

(* _handle_write(): an error, or a status that is not Open.                *)
WriteFails(t, s, n) ==
  /\ t \in IoThreads
  /\ writeOps[s][n] > 0
  /\ Start(t, s, n, "close")
  /\ writeOps' = [writeOps EXCEPT ![s][n] = @ - 1]
  /\ writing' = [writing EXCEPT ![s] = FALSE]
  /\ UNCHANGED <<status, serial, reading, sock, readOps, closePosts, msgVars>>

(* _handle_write(): bytes are left to write, or nothing is.                *)
WriteSucceeds(t, s, n) ==
  /\ t \in IoThreads
  /\ writeOps[s][n] > 0
  /\ status[s] = "Open"
  /\ \E label \in {"write", "written"} : Start(t, s, n, label)
  /\ writeOps' = [writeOps EXCEPT ![s][n] = @ - 1]
  /\ UNCHANGED <<objVars, readOps, closePosts, msgVars>>

WriteEnds(t) ==
  /\ At(t, "written")
  /\ writing' = [writing EXCEPT ![cur[t]] = FALSE]
  /\ Goto(t, "recheck")
  /\ UNCHANGED <<status, serial, reading, sock, opVars, msgVars, cur, born>>

RecheckStatus(t) ==
  /\ At(t, "recheck")
  /\ Goto(t, IF status[cur[t]] = "Open" THEN "idle" ELSE "release")
  /\ UNCHANGED <<objVars, opVars, msgVars, cur, born>>

-----------------------------------------------------------------------------
(* close(), called by the application, and _close(), called by a handler:  *)
(* the critical section that shuts the connection down.                    *)

Shut(s) ==
  /\ status' = [status EXCEPT ![s] = "Shut"]
  /\ sock' = [sock EXCEPT ![s] = IF @ = "open" THEN "shut" ELSE @]
  /\ UNCHANGED <<serial, reading, writing, opVars, msgVars>>

AppClose(s, n) ==
  /\ status[s] = "Open"
  /\ serial[s] = n
  /\ Start(App, s, n, "release")
  /\ Shut(s)

HandlerClose(t) ==
  LET s == cur[t] IN
  /\ At(t, "close")
  /\ Goto(t, "release")
  /\ UNCHANGED <<cur, born>>
  /\ IF status[s] = "Open"
       THEN Shut(s)
       ELSE UNCHANGED <<objVars, opVars, msgVars>>

(* _release(): the critical section that closes the socket and posts       *)
(* _handle_close once neither a read nor a write is under way.             *)
\* mistakes: one of the three conditions is left out
ReleasableReading(s) == status[s] = "Shut" /\ ~writing[s]
ReleasableWriting(s) == status[s] = "Shut" /\ ~reading[s]
ReleasableTwice(s)   == ~writing[s] /\ ~reading[s]

Releasable(s) == status[s] = "Shut" /\ ~writing[s] /\ ~reading[s]

Release(t) ==
  LET s == cur[t] IN
  /\ At(t, "release")
  /\ Goto(t, "idle")
  /\ IF Releasable(s)
       THEN /\ status' = [status EXCEPT ![s] = "Close"]
            /\ sock' = [sock EXCEPT ![s] = "closed"]
            /\ closePosts' = [closePosts EXCEPT ![s] = @ + 1]
       ELSE UNCHANGED <<status, sock, closePosts>>
  /\ UNCHANGED <<serial, reading, writing, readOps, writeOps, msgVars, cur, born>>

(* reset(): the session becomes its next incarnation.                      *)
Reset(s) ==
  /\ Expect("reset", s, status[s] = "Close")
  /\ IF status[s] = "Close"
       THEN /\ serial' = [serial EXCEPT ![s] = NextSerial(@)]
            /\ reading' = [reading EXCEPT ![s] = FALSE]
            /\ writing' = [writing EXCEPT ![s] = FALSE]
            /\ status' = [status EXCEPT ![s] = "Init"]
       ELSE UNCHANGED <<serial, reading, writing, status>>

-----------------------------------------------------------------------------
\* The steps of a completion, and the steps that continue a method.
SessionDispatch(t) ==
  \E s \in Sessions, n \in Serials :
    \/ ReadFails(t, s, n) \/ ReadSucceeds(t, s, n)
    \/ WriteFails(t, s, n) \/ WriteSucceeds(t, s, n)

SessionContinue(t) ==
  \/ OpenSession(t) \/ Announce(t)
  \/ PushInput(t) \/ RejectInput(t) \/ TakeInput(t)
  \/ StartWrite(t) \/ WriteEnds(t) \/ RecheckStatus(t)
  \/ HandlerClose(t) \/ Release(t)
=============================================================================
