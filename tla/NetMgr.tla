------------------------------- MODULE NetMgr -------------------------------
(***************************************************************************)
(* The network manager (clib/cnet_mgr.cpp) over its sessions: listening    *)
(* and accepting, connecting and reconnecting, recycling closed sessions,  *)
(* telling the application, starting and stopping.                         *)
(*                                                                         *)
(* boost::asio is external: an operation it was given completes once, with *)
(* success or an error, by running its handler on some io thread.          *)
(***************************************************************************)
EXTENDS NetSession

CONSTANTS
  ListenMax,      \* m_listening_max, the thread_num of startup
  Reconnect,      \* m_reconnect_second > 0
  AllowShutdown,  \* may the application call shutdown()?
  MaxCalls,       \* bound: calls of connect_to() that change anything
  MaxConns        \* bound: connections made, or given up, in all

ASSUME ManagerConstants ==
  /\ ListenMax \in Nat
  /\ Reconnect \in BOOLEAN
  /\ AllowShutdown \in BOOLEAN
  /\ MaxCalls \in Nat
  /\ MaxConns \in Nat

VARIABLES
  phase,       \* how far startup() and shutdown() have come
  available,   \* m_available_sessions, the top of the stack last
  listening,   \* m_listening_num
  acceptOps,   \* accepts whose handler has not begun, for each session
  held,        \* the session _post_accept() took, for each thread
  resume,      \* where a thread goes on after _post_accept()
  busy,        \* busy of each client's cconnect_para
  connectOps,  \* connects outstanding, for each client
  timers,      \* reconnect timers waiting, for each client
  calls,       \* connect_to() calls made so far
  batch,       \* the messages process_msg() dequeued and has not delivered
  last,        \* for each session index, what the application was told last
  conns        \* connections made or given up so far

accVars == <<available, listening, acceptOps, held, resume>>
cliVars == <<busy, connectOps, timers, calls>>
toldVars == <<batch, last>>
appVars == <<phase, conns, toldVars>>
vars    == <<sessVars, accVars, cliVars, appVars>>

Servers == Sessions \ Clients

Told == [type : {"Connect", "Data", "Disconnect"}, id : Serials \cup {0}]
NothingYet == [type |-> "Disconnect", id |-> 0]

\* init(): the server sessions are on the stack, the lowest index on top.
Init ==
  /\ SessionInit
  /\ phase = "starting"
  /\ conns = 0
  /\ available = [i \in 1..(MaxSession - ClientSession) |-> MaxSession - i]
  /\ listening = 0
  /\ acceptOps = [s \in Sessions |-> 0]
  /\ held = [t \in Threads |-> 0]
  /\ resume = [t \in Threads |-> "idle"]
  /\ busy = [c \in Clients |-> FALSE]
  /\ connectOps = [c \in Clients |-> 0]
  /\ timers = [c \in Clients |-> 0]
  /\ calls = 0
  /\ batch = <<>>
  /\ last = [s \in Sessions |-> NothingYet]

\* m_shuting; the acceptor object exists; io_service.run() takes up handlers
Shuting       == phase \in {"shuting", "deleted", "stopped", "joined"}
AcceptorAlive == phase \in {"starting", "running", "shuting"}
Serving       == phase \in {"running", "shuting", "deleted"}

-----------------------------------------------------------------------------
(* _get_available_session() and _return_session(), each under its mutex.   *)
Top == available[Len(available)]
Pop == available' = SubSeq(available, 1, Len(available) - 1)
Return(s) == available' = Append(available, s)

(* startup(): _start_listen() posts accepts before there are io threads.   *)
StartListen ==
  /\ phase = "starting"
  /\ listening < ListenMax
  /\ available # <<>>
  /\ Expect("set_accept_status", Top, status[Top] = "Init")
  /\ status' = [status EXCEPT ![Top] = "Accept"]
  /\ acceptOps' = [acceptOps EXCEPT ![Top] = @ + 1]
  /\ listening' = listening + 1
  /\ Pop
  /\ UNCHANGED <<serial, reading, writing, sock, opVars, thrVars, queue,
                 datas, held, resume, cliVars, appVars>>

StartThreads ==
  /\ phase = "starting"
  /\ listening >= ListenMax \/ available = <<>>
  /\ phase' = "running"
  /\ UNCHANGED <<sessVars, accVars, cliVars, conns, toldVars>>

(* _post_accept() on an io thread: the check, taking a session, counting,  *)
(* and the accept.  The acceptor may have been deleted meanwhile, and      *)
(* using it then is undefined: here the program crashes.                   *)
\* mistake: accepts without limit
EnoughNever == Shuting

EnoughAccepts == listening >= ListenMax \/ Shuting

CheckListening(t) ==
  /\ At(t, "check")
  /\ Goto(t, IF EnoughAccepts THEN resume[t] ELSE "take")
  /\ UNCHANGED <<objVars, opVars, cur, born, msgVars, accVars, cliVars,
                 appVars>>

\* mistake: it waits for a session
TakeSessionWaiting(t) ==
  /\ At(t, "take")
  /\ available # <<>>
  /\ Goto(t, "accept") /\ Pop /\ held' = [held EXCEPT ![t] = Top]
  /\ UNCHANGED <<objVars, opVars, cur, born, msgVars, listening, acceptOps,
                 resume, cliVars, appVars>>

TakeSession(t) ==
  /\ At(t, "take")
  /\ IF available = <<>>
       THEN Goto(t, resume[t]) /\ UNCHANGED <<available, held>>
       ELSE Goto(t, "accept") /\ Pop /\ held' = [held EXCEPT ![t] = Top]
  /\ UNCHANGED <<objVars, opVars, cur, born, msgVars, listening, acceptOps,
                 resume, cliVars, appVars>>

CountAccept(t) ==
  /\ At(t, "accept")
  /\ listening' = listening + 1
  /\ Goto(t, "post")
  /\ UNCHANGED <<objVars, opVars, cur, born, msgVars, available, acceptOps,
                 held, resume, cliVars, appVars>>

PostAccept(t) ==
  LET s == held[t] IN
  /\ At(t, "post")
  /\ AcceptorAlive
  /\ Expect("set_accept_status", s, status[s] = "Init")
  /\ status' = [status EXCEPT ![s] = "Accept"]
  /\ acceptOps' = [acceptOps EXCEPT ![s] = @ + 1]
  /\ Goto(t, resume[t])
  /\ UNCHANGED <<serial, reading, writing, sock, opVars, cur, born, queue,
                 datas, available, listening, held, resume, cliVars, appVars>>

AcceptorGone(t) ==
  /\ At(t, "post")
  /\ ~AcceptorAlive
  /\ phase' = "crashed"
  /\ UNCHANGED <<sessVars, accVars, cliVars, conns, toldVars>>

\* mistake: the status is not set back
AcceptFailsStatusKept(t, s) ==
  /\ t \in IoThreads
  /\ acceptOps[s] > 0
  /\ Start(t, s, serial[s], "return")
  /\ acceptOps' = [acceptOps EXCEPT ![s] = @ - 1]
  /\ listening' = listening - 1
  /\ sock' = [sock EXCEPT ![s] = "closed"]
  /\ UNCHANGED <<status, serial, reading, writing, opVars, msgVars, available,
                 held, resume, cliVars, appVars>>

(* _handle_accept(): an error or no memory for the Connect message, or a   *)
(* connection.  An accept is outstanding until its handler begins, and the *)
(* handler begins by counting it off.                                      *)
AcceptFails(t, s) ==
  /\ t \in IoThreads
  /\ acceptOps[s] > 0
  /\ Start(t, s, serial[s], "return")
  /\ acceptOps' = [acceptOps EXCEPT ![s] = @ - 1]
  /\ listening' = listening - 1
  /\ Expect("set_status_init", s, status[s] \in {"Accept", "ConnectTo"})
  /\ status' = [status EXCEPT ![s] = "Init"]
  /\ sock' = [sock EXCEPT ![s] = "closed"]
  /\ UNCHANGED <<serial, reading, writing, opVars, queue, datas, available,
                 held, resume, cliVars, appVars>>

\* mistake: m_listening_num is not counted down
AcceptSucceedsUncounted(t, s) ==
  /\ t \in IoThreads
  /\ acceptOps[s] > 0
  /\ conns < MaxConns
  /\ conns' = conns + 1
  /\ Start(t, s, serial[s], "check")
  /\ acceptOps' = [acceptOps EXCEPT ![s] = @ - 1]
  /\ sock' = [sock EXCEPT ![s] = "open"]
  /\ resume' = [resume EXCEPT ![t] = "connected"]
  /\ UNCHANGED <<status, serial, reading, writing, opVars, msgVars, listening,
                 available, held, cliVars, phase, toldVars>>

AcceptSucceeds(t, s) ==
  /\ t \in IoThreads
  /\ acceptOps[s] > 0
  /\ conns < MaxConns
  /\ conns' = conns + 1
  /\ Start(t, s, serial[s], "check")
  /\ acceptOps' = [acceptOps EXCEPT ![s] = @ - 1]
  /\ listening' = listening - 1
  /\ sock' = [sock EXCEPT ![s] = "open"]
  /\ resume' = [resume EXCEPT ![t] = "connected"]
  /\ UNCHANGED <<status, serial, reading, writing, opVars, msgVars,
                 available, held, cliVars, phase, toldVars>>

\* mistake: no accept is posted for it
ReturnSessionOnly(t) ==
  /\ At(t, "return")
  /\ Return(cur[t])
  /\ Goto(t, "idle")
  /\ UNCHANGED <<objVars, opVars, cur, born, msgVars, listening, acceptOps,
                 held, resume, cliVars, appVars>>

\* _return_session() and then _post_accept(), after a failure or a close
ReturnSession(t) ==
  /\ At(t, "return")
  /\ Return(cur[t])
  /\ Goto(t, "check")
  /\ resume' = [resume EXCEPT ![t] = "idle"]
  /\ UNCHANGED <<objVars, opVars, cur, born, msgVars, listening, acceptOps,
                 held, cliVars, appVars>>

-----------------------------------------------------------------------------
(* _handle_close(): the session is reset, the application is told, and the *)
(* session goes back to the stack, or waits to connect again.  Without     *)
(* memory for the message the handler posts itself again, which changes    *)
(* nothing here.                                                           *)
HandleClose(t, s) ==
  /\ t \in IoThreads
  /\ closePosts[s] > 0
  /\ Start(t, s, serial[s], "disconnect")
  /\ closePosts' = [closePosts EXCEPT ![s] = @ - 1]
  /\ Reset(s)
  /\ UNCHANGED <<sock, readOps, writeOps, queue, datas, accVars, cliVars,
                 appVars>>

\* mistakes: the message has the next connection's id, or is not sent
TellDisconnectNewId(t) ==
  LET s == cur[t] IN
  /\ At(t, "disconnect")
  /\ Push(Event("Disconnect", s, serial[s]))
  /\ Goto(t, IF s \in Servers THEN "return" ELSE "idle")
  /\ UNCHANGED <<objVars, opVars, cur, born, datas, complaints, accVars,
                 cliVars, appVars>>

TellDisconnectNot(t) ==
  /\ At(t, "disconnect")
  /\ Goto(t, IF cur[t] \in Servers THEN "return" ELSE "idle")
  /\ UNCHANGED <<objVars, opVars, cur, born, msgVars, accVars, cliVars, appVars>>

\* _is_server_index(), and whether a client is to connect again
AfterClose(s) ==
  IF s \in Servers THEN "return" ELSE IF Reconnect THEN "rebusy" ELSE "idle"

TellDisconnect(t) ==
  LET s == cur[t] IN
  /\ At(t, "disconnect")
  /\ Push(Event("Disconnect", s, born[t]))
  /\ Goto(t, AfterClose(s))
  /\ UNCHANGED <<objVars, opVars, cur, born, datas, complaints, accVars,
                 cliVars, appVars>>

MarkBusyAgain(t) ==
  /\ At(t, "rebusy")
  /\ busy' = [busy EXCEPT ![cur[t]] = TRUE]
  /\ Goto(t, "reconnect")
  /\ UNCHANGED <<objVars, opVars, cur, born, msgVars, accVars, connectOps,
                 timers, calls, appVars>>

WaitToReconnect(t) ==
  LET c == cur[t] IN
  /\ At(t, "reconnect")
  /\ Expect("set_connect_status", c, status[c] = "Init")
  /\ status' = [status EXCEPT ![c] = "ConnectTo"]
  /\ timers' = [timers EXCEPT ![c] = @ + 1]
  /\ Goto(t, "idle")
  /\ UNCHANGED <<serial, reading, writing, sock, opVars, cur, born, queue,
                 datas, accVars, busy, connectOps, calls, appVars>>

-----------------------------------------------------------------------------
(* connect_to() on the application's thread: the checks, the busy flag,    *)
(* and the status with the connect.                                        *)
ConnectTo(c) ==
  /\ ~busy[c]
  /\ status[c] = "Init"
  /\ calls < MaxCalls
  /\ calls' = calls + 1
  /\ Start(App, c, serial[c], "connect_busy")
  /\ UNCHANGED <<objVars, opVars, msgVars, accVars, busy, connectOps, timers,
                 appVars>>

MarkBusy(t) ==
  /\ At(t, "connect_busy")
  /\ busy' = [busy EXCEPT ![cur[t]] = TRUE]
  /\ Goto(t, "connect")
  /\ UNCHANGED <<objVars, opVars, cur, born, msgVars, accVars, connectOps,
                 timers, calls, appVars>>

StartConnect(t) ==
  LET c == cur[t] IN
  /\ At(t, "connect")
  /\ Expect("set_connect_status", c, status[c] = "Init")
  /\ status' = [status EXCEPT ![c] = "ConnectTo"]
  /\ connectOps' = [connectOps EXCEPT ![c] = @ + 1]
  /\ Goto(t, "idle")
  /\ UNCHANGED <<serial, reading, writing, sock, opVars, cur, born, queue,
                 datas, accVars, busy, timers, calls, appVars>>

\* mistake: the timer goes off again
HandleReconnectAgain(t, c) ==
  /\ t \in IoThreads
  /\ pc[t] = "idle"
  /\ timers[c] > 0
  /\ connectOps' = [connectOps EXCEPT ![c] = @ + 1]
  /\ UNCHANGED <<sessVars, accVars, busy, timers, calls, appVars>>

(* _handle_reconnect(): the timer has expired; the connect starts again.   *)
HandleReconnect(t, c) ==
  /\ t \in IoThreads
  /\ pc[t] = "idle"
  /\ timers[c] > 0
  /\ timers' = [timers EXCEPT ![c] = @ - 1]
  /\ connectOps' = [connectOps EXCEPT ![c] = @ + 1]
  /\ UNCHANGED <<sessVars, accVars, busy, calls, appVars>>

(* _handle_connect(): the attempt fails, or succeeds without memory for    *)
(* the Connect message, and is made again later.                           *)
ConnectAgain(t, c) ==
  /\ t \in IoThreads
  /\ pc[t] = "idle"
  /\ connectOps[c] > 0
  /\ connectOps' = [connectOps EXCEPT ![c] = @ - 1]
  /\ timers' = [timers EXCEPT ![c] = @ + 1]
  /\ sock' = [sock EXCEPT ![c] = "closed"]
  /\ UNCHANGED <<status, serial, reading, writing, opVars, thrVars, msgVars,
                 accVars, busy, calls, appVars>>

(* _handle_connect(): the attempt fails for good.                          *)
ConnectFails(t, c) ==
  /\ t \in IoThreads
  /\ ~Reconnect
  /\ connectOps[c] > 0
  /\ conns < MaxConns
  /\ conns' = conns + 1
  /\ Start(t, c, serial[c], "connect_failed")
  /\ connectOps' = [connectOps EXCEPT ![c] = @ - 1]
  /\ sock' = [sock EXCEPT ![c] = "closed"]
  /\ busy' = [busy EXCEPT ![c] = FALSE]
  /\ UNCHANGED <<status, serial, reading, writing, opVars, msgVars, accVars,
                 timers, calls, phase, toldVars>>

GiveUpConnect(t) ==
  LET c == cur[t] IN
  /\ At(t, "connect_failed")
  /\ Expect("set_status_init", c, status[c] \in {"Accept", "ConnectTo"})
  /\ status' = [status EXCEPT ![c] = "Init"]
  /\ Goto(t, "tell_failure")
  /\ UNCHANGED <<serial, reading, writing, sock, opVars, cur, born, queue,
                 datas, accVars, cliVars, appVars>>

\* the message carries an error code and no session
TellFailure(t) ==
  /\ At(t, "tell_failure")
  /\ Push(Event("Failure", 0, 0))
  /\ Goto(t, "idle")
  /\ UNCHANGED <<objVars, opVars, cur, born, datas, complaints, accVars,
                 cliVars, appVars>>

ConnectSucceeds(t, c) ==
  /\ t \in IoThreads
  /\ connectOps[c] > 0
  /\ conns < MaxConns
  /\ conns' = conns + 1
  /\ Start(t, c, serial[c], "connected")
  /\ connectOps' = [connectOps EXCEPT ![c] = @ - 1]
  /\ sock' = [sock EXCEPT ![c] = "open"]
  /\ busy' = [busy EXCEPT ![c] = FALSE]
  /\ UNCHANGED <<status, serial, reading, writing, opVars, msgVars, accVars,
                 timers, calls, phase, toldVars>>

-----------------------------------------------------------------------------
(* process_msg(): the whole queue is taken at once, and each message is    *)
(* handed to the application's callback.                                   *)
Dequeue ==
  /\ At(App, "idle")
  /\ batch = <<>>
  /\ queue # <<>>
  /\ batch' = queue
  /\ queue' = <<>>
  /\ UNCHANGED <<objVars, opVars, thrVars, datas, complaints, accVars,
                 cliVars, phase, conns, last>>

Deliver ==
  LET e == Head(batch) IN
  /\ At(App, "idle")
  /\ batch # <<>>
  /\ batch' = Tail(batch)
  /\ last' = IF e.type = "Failure"
               THEN last
               ELSE [last EXCEPT ![e.s] = [type |-> e.type, id |-> e.id]]
  /\ UNCHANGED <<sessVars, accVars, cliVars, phase, conns>>

(* shutdown(): m_shuting, the acceptor closed and deleted, the io_service  *)
(* stopped, and the threads joined once their handlers have returned.      *)
AdvanceShutdown(from, to) ==
  /\ At(App, "idle")
  /\ phase = from
  /\ phase' = to
  /\ UNCHANGED <<sessVars, accVars, cliVars, conns, toldVars>>

BeginShutdown  == AllowShutdown /\ AdvanceShutdown("running", "shuting")
DeleteAcceptor == AdvanceShutdown("shuting", "deleted")
StopService    == AdvanceShutdown("deleted", "stopped")
JoinThreads    == (\A t \in IoThreads : At(t, "idle"))
                  /\ AdvanceShutdown("stopped", "joined")

-----------------------------------------------------------------------------
\* What an idle io thread may take up.
Dispatch(t) ==
  \/ SessionDispatch(t) /\ UNCHANGED <<accVars, cliVars, appVars>>
  \/ \E s \in Sessions : AcceptFails(t, s) \/ AcceptSucceeds(t, s) \/ HandleClose(t, s)
  \/ \E c \in Clients :
       \/ HandleReconnect(t, c) \/ ConnectAgain(t, c)
       \/ ConnectFails(t, c) \/ ConnectSucceeds(t, c)

\* How a thread goes on with what it does.
Continue(t) ==
  \/ SessionContinue(t) /\ UNCHANGED <<accVars, cliVars, appVars>>
  \/ CheckListening(t) \/ TakeSession(t) \/ CountAccept(t)
  \/ PostAccept(t) \/ AcceptorGone(t) \/ ReturnSession(t)
  \/ TellDisconnect(t) \/ MarkBusyAgain(t) \/ WaitToReconnect(t)
  \/ MarkBusy(t) \/ StartConnect(t)
  \/ GiveUpConnect(t) \/ TellFailure(t)

\* What the application calls; it uses the session id it was told last.
Call ==
  \/ \E s \in Sessions :
       /\ SendMsg(s, last[s].id) \/ AppClose(s, last[s].id)
       /\ UNCHANGED <<accVars, cliVars, appVars>>
  \/ \E c \in Clients : ConnectTo(c)
  \/ Dequeue \/ Deliver
  \/ BeginShutdown

Next ==
  \/ StartListen \/ StartThreads
  \/ Serving /\ \E t \in IoThreads : Dispatch(t)
  \/ phase # "crashed" /\ \E t \in Threads : Continue(t)
  \/ phase = "running" /\ Call
  \/ DeleteAcceptor \/ StopService \/ JoinThreads

Spec == Init /\ [][Next]_vars
=============================================================================
