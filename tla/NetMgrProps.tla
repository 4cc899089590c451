---------------------------- MODULE NetMgrProps -----------------------------
(***************************************************************************)
(* What should hold of the network manager and its sessions.               *)
(***************************************************************************)
EXTENDS NetMgr, FiniteSets

Labels ==
  {"idle", "connected", "announce", "received", "close", "release", "write",
   "written", "recheck", "check", "take", "accept", "post", "return",
   "disconnect", "rebusy", "reconnect", "connect_busy", "connect",
   "connect_failed", "tell_failure"}

Events == [type : {"Connect", "Data", "Disconnect", "Failure"},
           s : Sessions, id : Serials \cup {0}]

Phases == {"starting", "running", "shuting", "deleted", "stopped", "joined", "crashed"}

\* the functions that check a status
Checks == {"reset", "connected", "set_status_init", "set_accept_status",
           "set_connect_status"}

ObjTypeOK ==
  /\ status \in [Sessions -> Statuses]
  /\ serial \in [Sessions -> Serials]
  /\ reading \in [Sessions -> BOOLEAN]
  /\ writing \in [Sessions -> BOOLEAN]
  /\ sock \in [Sessions -> {"closed", "open", "shut"}]

OpTypeOK ==
  /\ readOps \in [Sessions -> [Serials -> Nat]]
  /\ writeOps \in [Sessions -> [Serials -> Nat]]
  /\ closePosts \in [Sessions -> Nat]

ThrTypeOK ==
  /\ pc \in [Threads -> Labels]
  /\ cur \in [Threads -> Sessions]
  /\ born \in [Threads -> Serials]

MsgTypeOK ==
  /\ queue \in Seq(Events)
  /\ datas \in Nat
  /\ complaints \subseteq Checks \X Sessions

AccTypeOK ==
  /\ available \in Seq(Sessions)
  /\ listening \in Int
  /\ acceptOps \in [Sessions -> Nat]
  /\ held \in [Threads -> Sessions]
  /\ resume \in [Threads -> {"idle", "connected"}]

CliTypeOK ==
  /\ busy \in [Clients -> BOOLEAN]
  /\ connectOps \in [Clients -> Nat]
  /\ timers \in [Clients -> Nat]
  /\ calls \in Nat

AppTypeOK ==
  /\ phase \in Phases
  /\ conns \in Nat
  /\ batch \in Seq(Events)
  /\ last \in [Sessions -> Told]

\* The variables have the types of the code's fields.
TypeOK == /\ ObjTypeOK /\ OpTypeOK /\ ThrTypeOK /\ MsgTypeOK
          /\ AccTypeOK /\ CliTypeOK /\ AppTypeOK

-----------------------------------------------------------------------------
(* Where a server session can be.                                          *)

Stacked(s) == \E i \in 1..Len(available) : available[i] = s

\* thread t took s from the stack, or is on its way to put it back there
Carries(t, s) ==
  \/ pc[t] \in {"accept", "post"} /\ held[t] = s
  \/ pc[t] \in {"disconnect", "return"} /\ cur[t] = s

\* thread t runs the handler of the accept of s and has yet to open it
Opens(t, s) ==
  /\ cur[t] = s
  /\ \/ pc[t] = "connected"
     \/ pc[t] \in {"check", "take", "accept", "post"} /\ resume[t] = "connected"

\* A session on the stack is there once, and in no thread's hands.
StackedOnce ==
  \A i, j \in 1..Len(available) :
    /\ i # j => available[i] # available[j]
    /\ status[available[i]] = "Init"
    /\ \A t \in Threads : ~Carries(t, available[i])

\* A session is carried by one thread at most, and none that is not Init.
CarriedOnce ==
  \A s \in Servers : \A t \in Threads :
    Carries(t, s) => status[s] = "Init" /\ \A u \in Threads : Carries(u, s) => u = t

\* One accept at most is outstanding on a session, or one thread opens it.
AcceptedOnce ==
  \A s \in Servers :
    /\ acceptOps[s] = 0 \/ (acceptOps[s] = 1 /\ status[s] = "Accept")
    /\ \A t \in Threads :
         Opens(t, s) => /\ status[s] = "Accept"
                        /\ acceptOps[s] = 0
                        /\ \A u \in Threads : Opens(u, s) => u = t

\* _handle_close is posted once for each connection.
ClosedOnce ==
  \A s \in Servers : closePosts[s] = 0 \/ (closePosts[s] = 1 /\ status[s] = "Close")

\* No session is lost: its status says where it is to be found.
NoneLost ==
  \A s \in Servers :
    /\ status[s] = "Init" => Stacked(s) \/ (\E t \in Threads : Carries(t, s))
    /\ status[s] = "Accept" => acceptOps[s] = 1 \/ (\E t \in Threads : Opens(t, s))
    /\ status[s] = "Close" => closePosts[s] = 1

\* A server session always has one owner, whatever the interleaving of the
\* io threads and the application: _release() posts one close for it, one
\* handler recycles it, one accept uses it, and it is never dropped
\* (post_disconnect, _return_session, _get_available_session, _handle_accept).
SingleOwner ==
  /\ StackedOnce
  /\ CarriedOnce
  /\ AcceptedOnce
  /\ ClosedOnce
  /\ NoneLost

\* The paths of server and of client sessions never mix (_is_server_index):
\* only servers are stacked, accepted on and returned, and only clients wait
\* or are connected again.
PathsApart ==
  /\ \A i \in 1..Len(available) : available[i] \in Servers
  /\ \A c \in Clients : acceptOps[c] = 0
  /\ \A t \in Threads :
       /\ pc[t] \in {"accept", "post"} => held[t] \in Servers
       /\ pc[t] = "return" => cur[t] \in Servers
       /\ pc[t] \in {"rebusy", "reconnect", "connect_busy", "connect", "connect_failed"}
            => cur[t] \in Clients

\* The statuses that reset(), connected() and the set_..._status() functions
\* log as errors never occur on a server session.
NoServerComplaint == \A c \in complaints : c[2] \in Clients

-----------------------------------------------------------------------------
\* Threads yet to look whether to post an accept, threads that go on to
\* count one, and sessions on their way back to the stack.
Pending   == {t \in Threads : pc[t] \in {"return", "check", "take"}}
Taking    == {t \in Threads : pc[t] \in {"take", "accept"}}
Counting  == {t \in Threads : pc[t] = "accept"}
Posting   == {t \in Threads : pc[t] = "post"}
Returning == {t \in Threads : pc[t] = "return"}

Lesser(a, b) == IF a < b THEN a ELSE b

\* The manager never goes deaf with free sessions at hand: the accepts that
\* are missing are matched by handlers on their way to _post_accept(),
\* though these check m_listening_num and change it in separate steps.
AcceptsRefilled ==
  phase = "running" =>
    Lesser(ListenMax - listening - Cardinality(Counting),
           Len(available) + Cardinality(Returning))
      <= Cardinality(Pending)

\* That check lets more accepts through than m_listening_max, but fewer than
\* one more for each io thread.
ListenBound ==
  listening + Cardinality(Taking) <= ListenMax + Cardinality(IoThreads) - 1

\* m_listening_num, changed outside every lock (_post_accept, _handle_accept),
\* counts the accepts that are outstanding or counted and about to be posted.
ListeningExact ==
  listening = Cardinality({s \in Sessions : acceptOps[s] > 0}) + Cardinality(Posting)

-----------------------------------------------------------------------------
\* A client has one attempt to connect under way, exactly while its status
\* is ConnectTo: a connect, a timer before the next, or a handler at it.
Attempting(t, c) ==
  /\ cur[t] = c
  /\ pc[t] \in {"connected", "connect_failed"}

OneAttempt ==
  \A c \in Clients :
    connectOps[c] + timers[c] + Cardinality({t \in Threads : Attempting(t, c)})
      = IF status[c] = "ConnectTo" THEN 1 ELSE 0

\* set_connect_status() logs a status that is not Init as an error.
ConnectFromInit == \A c \in complaints : c[1] # "set_connect_status"

-----------------------------------------------------------------------------
Ended(s, n) == sock[s] # "open" \/ n # serial[s]

AndNoMore == UNCHANGED <<accVars, cliVars, appVars>>

\* An io thread goes on with its handler, and the application with its call;
\* the io_service runs every handler whose operation has ended, first come
\* first served; a read or write ends when its socket is shut or closed; a
\* connect and a timer end; the application keeps calling process_msg().
Fairness ==
  /\ \A t \in Threads : WF_vars(phase # "crashed" /\ Continue(t))
  /\ \A s \in Sessions :
       /\ SF_vars(Serving /\ \E t \in IoThreads : HandleClose(t, s))
       /\ SF_vars(/\ Serving /\ AndNoMore
                  /\ \E t \in IoThreads, n \in Serials :
                       Ended(s, n) /\ (ReadFails(t, s, n) \/ ReadSucceeds(t, s, n)))
       /\ SF_vars(/\ Serving /\ AndNoMore
                  /\ \E t \in IoThreads, n \in Serials :
                       Ended(s, n) /\ (WriteFails(t, s, n) \/ WriteSucceeds(t, s, n)))
  /\ \A c \in Clients :
       /\ SF_vars(Serving /\ \E t \in IoThreads : HandleReconnect(t, c))
       /\ SF_vars(Serving /\ \E t \in IoThreads :
                    ConnectAgain(t, c) \/ ConnectFails(t, c) \/ ConnectSucceeds(t, c))
  /\ SF_vars(phase = "running" /\ Dequeue)
  /\ SF_vars(phase = "running" /\ Deliver)

  /\ WF_vars(DeleteAcceptor) /\ WF_vars(StopService) /\ WF_vars(JoinThreads)

FairSpec == Spec /\ Fairness

\* A connection that is shut down is released and its session recycled,
\* unless the service is shut down first (_release, _handle_close).
ShutIsRecycled ==
  \A s \in Sessions : status[s] = "Shut" ~> status[s] = "Init" \/ Shuting

\* The end of a connection the application knows of reaches it, unless the
\* service is shut down first (_handle_close, process_msg).
EndIsTold ==
  \A s \in Sessions :
    last[s].type # "Disconnect" /\ status[s] = "Shut"
      ~> last[s].type = "Disconnect" \/ Shuting

\* shutdown() comes to its end, unless a handler that was about to post an
\* accept uses the acceptor that shutdown() has deleted.
ShutdownEnds == Shuting ~> phase \in {"joined", "crashed"}
=============================================================================
