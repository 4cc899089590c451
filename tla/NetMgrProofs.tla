---------------------------- MODULE NetMgrProofs ----------------------------
(***************************************************************************)
(* Proofs about the network manager for any number of sessions, io threads *)
(* and connections: the types, and that a server session always has one    *)
(* owner.  The inductive invariant adds to SingleOwner the types and       *)
(* PathsApart: that the thread which opens, carries or reconnects a session *)
(* works for one of the right kind.                                        *)
(*                                                                         *)
(* Then what follows from that, first for the accept path: a server        *)
(* session never meets a status its functions log as an error, and         *)
(* m_listening_num counts the accepts outstanding.                         *)
(* _post_accept() checks m_listening_num and counts it up in separate      *)
(* steps, on any io thread.  Too many accepts: every io thread may have    *)
(* passed the check before any of them counts, but only if there was room  *)
(* for one.  Too few: those that are missing are on their way.             *)
(*                                                                         *)
(* Then for the client path: a client session has one attempt to connect   *)
(* under way, or none, when connect_to() is not called while the library   *)
(* reconnects by itself: either it never does, or connect_to() is called   *)
(* once.  (With both the two race, which run connect_status_claim shows.)  *)
(*                                                                         *)
(* Last, for any number of io threads and any cut of the stream into       *)
(* reads, that connections do not get mixed up on the sessions that have   *)
(* not gone astray (NetMgrWatched).  A session is recycled only when no    *)
(* operation is outstanding on it, a handler acts on the connection it was *)
(* started for, and the application is told of connections as              *)
(* SessionService promises.                                                *)
(***************************************************************************)
EXTENDS NetMgrWatched, SequenceTheorems, FiniteSetTheorems, TLAPS

USE SessionConstants, ManagerConstants

LEMMA InitType == Init => TypeOK
<1> SUFFICES ASSUME Init PROVE TypeOK
  OBVIOUS
<1> USE DEF Init, SessionInit
<1>1. 0 \in Sessions
  BY DEF Sessions
<1>2. 1 \in Serials
  BY DEF Serials
<1>3. available \in Seq(Sessions)
  <2>1. MaxSession - ClientSession \in Nat
    OBVIOUS
  <2>2. \A i \in 1..(MaxSession - ClientSession) : MaxSession - i \in Sessions
    BY DEF Sessions
  <2> QED
    BY <2>1, <2>2
<1> QED
  BY <1>1, <1>2, <1>3
  DEF TypeOK, ObjTypeOK, OpTypeOK, ThrTypeOK, MsgTypeOK, AccTypeOK, CliTypeOK, AppTypeOK,
      Phases, Statuses, Labels, Told, NothingYet, Events, Threads

LEMMA Basics ==
  /\ IoThreads \subseteq Threads
  /\ App \in Threads
  /\ Clients \subseteq Sessions
  /\ Servers \subseteq Sessions
  /\ 0 \in Sessions
  /\ \A n \in Serials : NextSerial(n) \in Serials
BY DEF Threads, Clients, Sessions, Servers, Serials, NextSerial

\* A group of variables keeps its types when it does not change.
LEMMA Frames ==
  /\ ObjTypeOK /\ UNCHANGED objVars => ObjTypeOK'
  /\ OpTypeOK /\ UNCHANGED opVars => OpTypeOK'
  /\ ThrTypeOK /\ UNCHANGED thrVars => ThrTypeOK'
  /\ MsgTypeOK /\ UNCHANGED msgVars => MsgTypeOK'
  /\ AccTypeOK /\ UNCHANGED accVars => AccTypeOK'
  /\ CliTypeOK /\ UNCHANGED cliVars => CliTypeOK'
  /\ AppTypeOK /\ UNCHANGED appVars => AppTypeOK'
BY DEF ObjTypeOK, OpTypeOK, ThrTypeOK, MsgTypeOK, AccTypeOK, CliTypeOK, AppTypeOK,
       objVars, opVars, thrVars, msgVars, accVars, cliVars, appVars, toldVars

\* The top of a stack that is not empty, and what is left below it.
LEMMA StackTop ==
  ASSUME AccTypeOK, available # <<>>
  PROVE  /\ Len(available) \in Nat \ {0}
         /\ Top \in Sessions
         /\ SubSeq(available, 1, Len(available) - 1) \in Seq(Sessions)
BY DEF AccTypeOK, Top

LEMMA BatchHead ==
  ASSUME AppTypeOK, batch # <<>>
  PROVE  Head(batch) \in Events /\ Tail(batch) \in Seq(Events)
BY DEF AppTypeOK

LEMMA NextType == TypeOK /\ [Next]_vars => TypeOK'
<1> SUFFICES ASSUME TypeOK, [Next]_vars PROVE TypeOK'
  OBVIOUS
<1> USE Basics DEF TypeOK
<1>1. ASSUME StartListen
      PROVE  TypeOK'
  <2>1. ObjTypeOK'
    BY <1>1, StackTop DEF StartListen, ObjTypeOK, Statuses
  <2>2. MsgTypeOK'
    BY <1>1, StackTop DEF StartListen, MsgTypeOK, Expect, Checks
  <2>3. AccTypeOK'
    BY <1>1, StackTop DEF StartListen, AccTypeOK, Pop
  <2>4. OpTypeOK' /\ ThrTypeOK' /\ CliTypeOK' /\ AppTypeOK'
    BY <1>1, Frames DEF StartListen
  <2> QED
    BY <2>1, <2>2, <2>3, <2>4 DEF TypeOK
<1>2. ASSUME StartThreads
      PROVE  TypeOK'
  <2>1. AppTypeOK'
    BY <1>2 DEF StartThreads, AppTypeOK, Phases, toldVars
  <2>2. ObjTypeOK' /\ OpTypeOK' /\ ThrTypeOK' /\ MsgTypeOK' /\ AccTypeOK' /\ CliTypeOK'
    BY <1>2, Frames DEF StartThreads, sessVars
  <2> QED
    BY <2>1, <2>2 DEF TypeOK
<1>3. ASSUME NEW t \in IoThreads, NEW s \in Sessions, NEW n \in Serials, ReadFails(t, s, n), AndNoMore
      PROVE  TypeOK'
  <2>1. ObjTypeOK'
    BY <1>3 DEF ReadFails, ObjTypeOK, Statuses
  <2>2. OpTypeOK'
    BY <1>3 DEF ReadFails, OpTypeOK
  <2>3. ThrTypeOK'
    BY <1>3 DEF ReadFails, Goto, Start, ThrTypeOK, Labels
  <2>4. MsgTypeOK' /\ AccTypeOK' /\ CliTypeOK' /\ AppTypeOK'
    BY <1>3, Frames DEF ReadFails, AndNoMore
  <2> QED
    BY <2>1, <2>2, <2>3, <2>4 DEF TypeOK
<1>4. ASSUME NEW t \in IoThreads, NEW s \in Sessions, NEW n \in Serials, ReadSucceeds(t, s, n), AndNoMore
      PROVE  TypeOK'
  <2>1. OpTypeOK'
    BY <1>4 DEF ReadSucceeds, OpTypeOK
  <2>2. ThrTypeOK'
    BY <1>4 DEF ReadSucceeds, Goto, Start, ThrTypeOK, Labels
  <2>3. ObjTypeOK' /\ MsgTypeOK' /\ AccTypeOK' /\ CliTypeOK' /\ AppTypeOK'
    BY <1>4, Frames DEF ReadSucceeds, AndNoMore
  <2> QED
    BY <2>1, <2>2, <2>3 DEF TypeOK
<1>5. ASSUME NEW t \in IoThreads, NEW s \in Sessions, NEW n \in Serials, WriteFails(t, s, n), AndNoMore
      PROVE  TypeOK'
  <2>1. ObjTypeOK'
    BY <1>5 DEF WriteFails, ObjTypeOK, Statuses
  <2>2. OpTypeOK'
    BY <1>5 DEF WriteFails, OpTypeOK
  <2>3. ThrTypeOK'
    BY <1>5 DEF WriteFails, Goto, Start, ThrTypeOK, Labels
  <2>4. MsgTypeOK' /\ AccTypeOK' /\ CliTypeOK' /\ AppTypeOK'
    BY <1>5, Frames DEF WriteFails, AndNoMore
  <2> QED
    BY <2>1, <2>2, <2>3, <2>4 DEF TypeOK
<1>6. ASSUME NEW t \in IoThreads, NEW s \in Sessions, NEW n \in Serials, WriteSucceeds(t, s, n), AndNoMore
      PROVE  TypeOK'
  <2>1. OpTypeOK'
    BY <1>6 DEF WriteSucceeds, OpTypeOK
  <2>2. ThrTypeOK'
    BY <1>6 DEF WriteSucceeds, Goto, Start, ThrTypeOK, Labels
  <2>3. ObjTypeOK' /\ MsgTypeOK' /\ AccTypeOK' /\ CliTypeOK' /\ AppTypeOK'
    BY <1>6, Frames DEF WriteSucceeds, AndNoMore
  <2> QED
    BY <2>1, <2>2, <2>3 DEF TypeOK
<1>7. ASSUME NEW t \in IoThreads, NEW s \in Sessions, AcceptFails(t, s)
      PROVE  TypeOK'
  <2>1. ObjTypeOK'
    BY <1>7 DEF AcceptFails, ObjTypeOK, Statuses
  <2>2. ThrTypeOK'
    BY <1>7 DEF AcceptFails, Goto, Start, ThrTypeOK, Labels, ObjTypeOK
  <2>3. MsgTypeOK'
    BY <1>7 DEF AcceptFails, MsgTypeOK, Expect, Checks
  <2>4. AccTypeOK'
    BY <1>7 DEF AcceptFails, AccTypeOK
  <2>5. OpTypeOK' /\ CliTypeOK' /\ AppTypeOK'
    BY <1>7, Frames DEF AcceptFails
  <2> QED
    BY <2>1, <2>2, <2>3, <2>4, <2>5 DEF TypeOK
<1>8. ASSUME NEW t \in IoThreads, NEW s \in Sessions, AcceptSucceeds(t, s)
      PROVE  TypeOK'
  <2>1. ObjTypeOK'
    BY <1>8 DEF AcceptSucceeds, ObjTypeOK, Statuses
  <2>2. ThrTypeOK'
    BY <1>8 DEF AcceptSucceeds, Goto, Start, ThrTypeOK, Labels, ObjTypeOK
  <2>3. AccTypeOK'
    BY <1>8 DEF AcceptSucceeds, AccTypeOK
  <2>4. AppTypeOK'
    BY <1>8 DEF AcceptSucceeds, AppTypeOK, Phases, toldVars
  <2>5. OpTypeOK' /\ MsgTypeOK' /\ CliTypeOK'
    BY <1>8, Frames DEF AcceptSucceeds
  <2> QED
    BY <2>1, <2>2, <2>3, <2>4, <2>5 DEF TypeOK
<1>9. ASSUME NEW t \in IoThreads, NEW s \in Sessions, HandleClose(t, s)
      PROVE  TypeOK'
  <2>1. ObjTypeOK'
    <3>1. NextSerial(serial[s]) \in Serials
      BY DEF ObjTypeOK
    <3>2. CASE status[s] = "Close"
      BY <1>9, <3>1, <3>2 DEF HandleClose, Reset, ObjTypeOK, Statuses
    <3>3. CASE status[s] # "Close"
      BY <1>9, <3>3 DEF HandleClose, Reset, ObjTypeOK
    <3> QED
      BY <3>2, <3>3
  <2>2. OpTypeOK'
    BY <1>9 DEF HandleClose, OpTypeOK
  <2>3. ThrTypeOK'
    BY <1>9 DEF HandleClose, Goto, Start, ThrTypeOK, Labels, ObjTypeOK
  <2>4. MsgTypeOK'
    BY <1>9 DEF HandleClose, MsgTypeOK, Expect, Checks, Reset
  <2>5. AccTypeOK' /\ CliTypeOK' /\ AppTypeOK'
    BY <1>9, Frames DEF HandleClose
  <2> QED
    BY <2>1, <2>2, <2>3, <2>4, <2>5 DEF TypeOK
<1>10. ASSUME NEW t \in IoThreads, NEW c \in Clients, HandleReconnect(t, c)
      PROVE  TypeOK'
  <2>1. CliTypeOK'
    BY <1>10 DEF HandleReconnect, CliTypeOK
  <2>2. ObjTypeOK' /\ OpTypeOK' /\ ThrTypeOK' /\ MsgTypeOK' /\ AccTypeOK' /\ AppTypeOK'
    BY <1>10, Frames DEF HandleReconnect, sessVars
  <2> QED
    BY <2>1, <2>2 DEF TypeOK
<1>11. ASSUME NEW t \in IoThreads, NEW c \in Clients, ConnectAgain(t, c)
      PROVE  TypeOK'
  <2>1. ObjTypeOK'
    BY <1>11 DEF ConnectAgain, ObjTypeOK, Statuses
  <2>2. CliTypeOK'
    BY <1>11 DEF ConnectAgain, CliTypeOK
  <2>3. OpTypeOK' /\ ThrTypeOK' /\ MsgTypeOK' /\ AccTypeOK' /\ AppTypeOK'
    BY <1>11, Frames DEF ConnectAgain
  <2> QED
    BY <2>1, <2>2, <2>3 DEF TypeOK
<1>12. ASSUME NEW t \in IoThreads, NEW c \in Clients, ConnectFails(t, c)
      PROVE  TypeOK'
  <2>1. ObjTypeOK'
    BY <1>12 DEF ConnectFails, ObjTypeOK, Statuses
  <2>2. ThrTypeOK'
    BY <1>12 DEF ConnectFails, Goto, Start, ThrTypeOK, Labels, ObjTypeOK
  <2>3. CliTypeOK'
    BY <1>12 DEF ConnectFails, CliTypeOK
  <2>4. AppTypeOK'
    BY <1>12 DEF ConnectFails, AppTypeOK, Phases, toldVars
  <2>5. OpTypeOK' /\ MsgTypeOK' /\ AccTypeOK'
    BY <1>12, Frames DEF ConnectFails
  <2> QED
    BY <2>1, <2>2, <2>3, <2>4, <2>5 DEF TypeOK
<1>13. ASSUME NEW t \in IoThreads, NEW c \in Clients, ConnectSucceeds(t, c)
      PROVE  TypeOK'
  <2>1. ObjTypeOK'
    BY <1>13 DEF ConnectSucceeds, ObjTypeOK, Statuses
  <2>2. ThrTypeOK'
    BY <1>13 DEF ConnectSucceeds, Goto, Start, ThrTypeOK, Labels, ObjTypeOK
  <2>3. CliTypeOK'
    BY <1>13 DEF ConnectSucceeds, CliTypeOK
  <2>4. AppTypeOK'
    BY <1>13 DEF ConnectSucceeds, AppTypeOK, Phases, toldVars
  <2>5. OpTypeOK' /\ MsgTypeOK' /\ AccTypeOK'
    BY <1>13, Frames DEF ConnectSucceeds
  <2> QED
    BY <2>1, <2>2, <2>3, <2>4, <2>5 DEF TypeOK
<1>14. ASSUME NEW t \in Threads, OpenSession(t), AndNoMore
      PROVE  TypeOK'
  <2>1. ObjTypeOK'
    BY <1>14 DEF OpenSession, ObjTypeOK, Statuses
  <2>2. ThrTypeOK'
    BY <1>14 DEF OpenSession, Goto, Start, ThrTypeOK, Labels
  <2>3. MsgTypeOK'
    BY <1>14 DEF OpenSession, MsgTypeOK, Expect, Checks, ThrTypeOK
  <2>4. OpTypeOK' /\ AccTypeOK' /\ CliTypeOK' /\ AppTypeOK'
    BY <1>14, Frames DEF OpenSession, AndNoMore
  <2> QED
    BY <2>1, <2>2, <2>3, <2>4 DEF TypeOK
<1>15. ASSUME NEW t \in Threads, Announce(t), AndNoMore
      PROVE  TypeOK'
  <2>1. ObjTypeOK'
    BY <1>15 DEF Announce, ObjTypeOK, Statuses
  <2>2. OpTypeOK'
    BY <1>15 DEF Announce, OpTypeOK, ThrTypeOK, ObjTypeOK
  <2>3. ThrTypeOK'
    BY <1>15 DEF Announce, Goto, Start, ThrTypeOK, Labels
  <2>4. MsgTypeOK'
    BY <1>15 DEF Announce, MsgTypeOK, ThrTypeOK, Push, Event, Events, ObjTypeOK
  <2>5. AccTypeOK' /\ CliTypeOK' /\ AppTypeOK'
    BY <1>15, Frames DEF Announce, AndNoMore
  <2> QED
    BY <2>1, <2>2, <2>3, <2>4, <2>5 DEF TypeOK
<1>16. ASSUME NEW t \in Threads, RejectInput(t), AndNoMore
      PROVE  TypeOK'
  <2>1. ObjTypeOK'
    BY <1>16 DEF RejectInput, ObjTypeOK, Statuses
  <2>2. ThrTypeOK'
    BY <1>16 DEF RejectInput, Goto, Start, ThrTypeOK, Labels
  <2>3. OpTypeOK' /\ MsgTypeOK' /\ AccTypeOK' /\ CliTypeOK' /\ AppTypeOK'
    BY <1>16, Frames DEF RejectInput, AndNoMore
  <2> QED
    BY <2>1, <2>2, <2>3 DEF TypeOK
<1>17. ASSUME NEW t \in Threads, TakeInput(t), AndNoMore
      PROVE  TypeOK'
  <2>1. OpTypeOK'
    BY <1>17 DEF TakeInput, OpTypeOK, ThrTypeOK, ObjTypeOK
  <2>2. ThrTypeOK'
    BY <1>17 DEF TakeInput, Goto, Start, ThrTypeOK, Labels
  <2>3. ObjTypeOK' /\ MsgTypeOK' /\ AccTypeOK' /\ CliTypeOK' /\ AppTypeOK'
    BY <1>17, Frames DEF TakeInput, AndNoMore
  <2> QED
    BY <2>1, <2>2, <2>3 DEF TypeOK
<1>18. ASSUME NEW t \in Threads, StartWrite(t), AndNoMore
      PROVE  TypeOK'
  <2>1. OpTypeOK'
    BY <1>18 DEF StartWrite, OpTypeOK, ThrTypeOK, ObjTypeOK
  <2>2. ThrTypeOK'
    BY <1>18 DEF StartWrite, Goto, Start, ThrTypeOK, Labels
  <2>3. ObjTypeOK' /\ MsgTypeOK' /\ AccTypeOK' /\ CliTypeOK' /\ AppTypeOK'
    BY <1>18, Frames DEF StartWrite, AndNoMore
  <2> QED
    BY <2>1, <2>2, <2>3 DEF TypeOK
<1>19. ASSUME NEW t \in Threads, WriteEnds(t), AndNoMore
      PROVE  TypeOK'
  <2>1. ObjTypeOK'
    BY <1>19 DEF WriteEnds, ObjTypeOK, Statuses
  <2>2. ThrTypeOK'
    BY <1>19 DEF WriteEnds, Goto, Start, ThrTypeOK, Labels
  <2>3. OpTypeOK' /\ MsgTypeOK' /\ AccTypeOK' /\ CliTypeOK' /\ AppTypeOK'
    BY <1>19, Frames DEF WriteEnds, AndNoMore
  <2> QED
    BY <2>1, <2>2, <2>3 DEF TypeOK
<1>20. ASSUME NEW t \in Threads, RecheckStatus(t), AndNoMore
      PROVE  TypeOK'
  <2>1. ThrTypeOK'
    BY <1>20 DEF RecheckStatus, Goto, Start, ThrTypeOK, Labels
  <2>2. ObjTypeOK' /\ OpTypeOK' /\ MsgTypeOK' /\ AccTypeOK' /\ CliTypeOK' /\ AppTypeOK'
    BY <1>20, Frames DEF RecheckStatus, AndNoMore
  <2> QED
    BY <2>1, <2>2 DEF TypeOK
<1>21. ASSUME NEW t \in Threads, HandlerClose(t), AndNoMore
      PROVE  TypeOK'
  <2>1. ObjTypeOK'
    BY <1>21 DEF HandlerClose, Shut, objVars, ObjTypeOK, Statuses
  <2>2. ThrTypeOK'
    BY <1>21 DEF HandlerClose, Goto, Start, ThrTypeOK, Labels
  <2>3. OpTypeOK' /\ MsgTypeOK' /\ AccTypeOK' /\ CliTypeOK' /\ AppTypeOK'
    BY <1>21, Frames DEF HandlerClose, Shut, AndNoMore
  <2> QED
    BY <2>1, <2>2, <2>3 DEF TypeOK
<1>22. ASSUME NEW t \in Threads, Release(t), AndNoMore
      PROVE  TypeOK'
  <2>1. ObjTypeOK'
    BY <1>22 DEF Release, ObjTypeOK, Statuses
  <2>2. OpTypeOK'
    <3>1. CASE Releasable(cur[t])
      <4>1. cur[t] \in Sessions
        BY DEF ThrTypeOK
      <4>2. closePosts' = [closePosts EXCEPT ![cur[t]] = @ + 1] /\ UNCHANGED <<readOps, writeOps>>
        BY <1>22, <3>1 DEF Release
      <4> QED
        BY <4>1, <4>2 DEF OpTypeOK
    <3>2. CASE ~Releasable(cur[t])
      BY <1>22, <3>2 DEF Release, OpTypeOK
    <3> QED
      BY <3>1, <3>2
  <2>3. ThrTypeOK'
    BY <1>22 DEF Release, Goto, Start, ThrTypeOK, Labels
  <2>4. MsgTypeOK' /\ AccTypeOK' /\ CliTypeOK' /\ AppTypeOK'
    BY <1>22, Frames DEF Release, AndNoMore
  <2> QED
    BY <2>1, <2>2, <2>3, <2>4 DEF TypeOK
<1>23. ASSUME NEW t \in Threads, CheckListening(t)
      PROVE  TypeOK'
  <2>1. ThrTypeOK'
    BY <1>23 DEF CheckListening, Goto, Start, ThrTypeOK, Labels, AccTypeOK
  <2>2. ObjTypeOK' /\ OpTypeOK' /\ MsgTypeOK' /\ AccTypeOK' /\ CliTypeOK' /\ AppTypeOK'
    BY <1>23, Frames DEF CheckListening
  <2> QED
    BY <2>1, <2>2 DEF TypeOK
<1>24. ASSUME NEW t \in Threads, TakeSession(t)
      PROVE  TypeOK'
  <2>1. ThrTypeOK'
    BY <1>24, StackTop DEF TakeSession, Goto, Start, ThrTypeOK, Labels, AccTypeOK
  <2>2. AccTypeOK'
    BY <1>24, StackTop DEF TakeSession, AccTypeOK, Pop
  <2>3. ObjTypeOK' /\ OpTypeOK' /\ MsgTypeOK' /\ CliTypeOK' /\ AppTypeOK'
    BY <1>24, Frames DEF TakeSession
  <2> QED
    BY <2>1, <2>2, <2>3 DEF TypeOK
<1>25. ASSUME NEW t \in Threads, PostAccept(t)
      PROVE  TypeOK'
  <2>1. ObjTypeOK'
    BY <1>25 DEF PostAccept, ObjTypeOK, Statuses
  <2>2. ThrTypeOK'
    BY <1>25 DEF PostAccept, Goto, Start, ThrTypeOK, Labels, AccTypeOK
  <2>3. MsgTypeOK'
    BY <1>25 DEF PostAccept, MsgTypeOK, Expect, Checks, AccTypeOK
  <2>4. AccTypeOK'
    BY <1>25 DEF PostAccept, AccTypeOK
  <2>5. OpTypeOK' /\ CliTypeOK' /\ AppTypeOK'
    BY <1>25, Frames DEF PostAccept
  <2> QED
    BY <2>1, <2>2, <2>3, <2>4, <2>5 DEF TypeOK
<1>26. ASSUME NEW t \in Threads, AcceptorGone(t)
      PROVE  TypeOK'
  <2>1. AppTypeOK'
    BY <1>26 DEF AcceptorGone, AppTypeOK, Phases, toldVars
  <2>2. ObjTypeOK' /\ OpTypeOK' /\ ThrTypeOK' /\ MsgTypeOK' /\ AccTypeOK' /\ CliTypeOK'
    BY <1>26, Frames DEF AcceptorGone, sessVars
  <2> QED
    BY <2>1, <2>2 DEF TypeOK
<1>27. ASSUME NEW t \in Threads, ReturnSession(t)
      PROVE  TypeOK'
  <2>1. ThrTypeOK'
    BY <1>27 DEF ReturnSession, Goto, Start, ThrTypeOK, Labels
  <2>2. AccTypeOK'
    BY <1>27 DEF ReturnSession, AccTypeOK, Return, ThrTypeOK
  <2>3. ObjTypeOK' /\ OpTypeOK' /\ MsgTypeOK' /\ CliTypeOK' /\ AppTypeOK'
    BY <1>27, Frames DEF ReturnSession
  <2> QED
    BY <2>1, <2>2, <2>3 DEF TypeOK
<1>28. ASSUME NEW t \in Threads, TellDisconnect(t)
      PROVE  TypeOK'
  <2>1. ThrTypeOK'
    BY <1>28 DEF TellDisconnect, AfterClose, Goto, ThrTypeOK, Labels
  <2>2. MsgTypeOK'
    BY <1>28 DEF TellDisconnect, MsgTypeOK, ThrTypeOK, Push, Event, Events
  <2>3. ObjTypeOK' /\ OpTypeOK' /\ AccTypeOK' /\ CliTypeOK' /\ AppTypeOK'
    BY <1>28, Frames DEF TellDisconnect
  <2> QED
    BY <2>1, <2>2, <2>3 DEF TypeOK
<1>29. ASSUME NEW t \in Threads, MarkBusyAgain(t)
      PROVE  TypeOK'
  <2>1. ThrTypeOK'
    BY <1>29 DEF MarkBusyAgain, Goto, Start, ThrTypeOK, Labels
  <2>2. CliTypeOK'
    BY <1>29 DEF MarkBusyAgain, CliTypeOK
  <2>3. ObjTypeOK' /\ OpTypeOK' /\ MsgTypeOK' /\ AccTypeOK' /\ AppTypeOK'
    BY <1>29, Frames DEF MarkBusyAgain
  <2> QED
    BY <2>1, <2>2, <2>3 DEF TypeOK
<1>30. ASSUME NEW t \in Threads, WaitToReconnect(t)
      PROVE  TypeOK'
  <2>1. ObjTypeOK'
    BY <1>30 DEF WaitToReconnect, ObjTypeOK, Statuses
  <2>2. ThrTypeOK'
    BY <1>30 DEF WaitToReconnect, Goto, Start, ThrTypeOK, Labels
  <2>3. MsgTypeOK'
    BY <1>30 DEF WaitToReconnect, MsgTypeOK, Expect, Checks, ThrTypeOK
  <2>4. CliTypeOK'
    <3>1. timers' \in [Clients -> Nat]
      <4>1. DOMAIN timers' = Clients
        BY <1>30 DEF WaitToReconnect, CliTypeOK
      <4>2. ASSUME NEW c \in Clients PROVE timers'[c] \in Nat
        <5>1. timers[c] \in Nat /\ timers[c] + 1 \in Nat
          BY DEF CliTypeOK
        <5> QED
          BY <1>30, <5>1 DEF WaitToReconnect, CliTypeOK
      <4> QED
        BY <1>30, <4>1, <4>2 DEF WaitToReconnect, CliTypeOK
    <3> QED
      BY <1>30, <3>1 DEF WaitToReconnect, CliTypeOK
  <2>5. OpTypeOK' /\ AccTypeOK' /\ AppTypeOK'
    BY <1>30, Frames DEF WaitToReconnect
  <2> QED
    BY <2>1, <2>2, <2>3, <2>4, <2>5 DEF TypeOK
<1>31. ASSUME NEW t \in Threads, MarkBusy(t)
      PROVE  TypeOK'
  <2>1. ThrTypeOK'
    BY <1>31 DEF MarkBusy, Goto, Start, ThrTypeOK, Labels
  <2>2. CliTypeOK'
    BY <1>31 DEF MarkBusy, CliTypeOK
  <2>3. ObjTypeOK' /\ OpTypeOK' /\ MsgTypeOK' /\ AccTypeOK' /\ AppTypeOK'
    BY <1>31, Frames DEF MarkBusy
  <2> QED
    BY <2>1, <2>2, <2>3 DEF TypeOK
<1>32. ASSUME NEW t \in Threads, StartConnect(t)
      PROVE  TypeOK'
  <2>1. ObjTypeOK'
    BY <1>32 DEF StartConnect, ObjTypeOK, Statuses
  <2>2. ThrTypeOK'
    BY <1>32 DEF StartConnect, Goto, Start, ThrTypeOK, Labels
  <2>3. MsgTypeOK'
    BY <1>32 DEF StartConnect, MsgTypeOK, Expect, Checks, ThrTypeOK
  <2>4. CliTypeOK'
    <3>1. connectOps' \in [Clients -> Nat]
      <4>1. DOMAIN connectOps' = Clients
        BY <1>32 DEF StartConnect, CliTypeOK
      <4>2. ASSUME NEW c \in Clients PROVE connectOps'[c] \in Nat
        <5>1. connectOps[c] \in Nat /\ connectOps[c] + 1 \in Nat
          BY DEF CliTypeOK
        <5> QED
          BY <1>32, <5>1 DEF StartConnect, CliTypeOK
      <4> QED
        BY <1>32, <4>1, <4>2 DEF StartConnect, CliTypeOK
    <3> QED
      BY <1>32, <3>1 DEF StartConnect, CliTypeOK
  <2>5. OpTypeOK' /\ AccTypeOK' /\ AppTypeOK'
    BY <1>32, Frames DEF StartConnect
  <2> QED
    BY <2>1, <2>2, <2>3, <2>4, <2>5 DEF TypeOK
<1>33. ASSUME NEW t \in Threads, GiveUpConnect(t)
      PROVE  TypeOK'
  <2>1. ObjTypeOK'
    BY <1>33 DEF GiveUpConnect, ObjTypeOK, Statuses
  <2>2. ThrTypeOK'
    BY <1>33 DEF GiveUpConnect, Goto, Start, ThrTypeOK, Labels
  <2>3. MsgTypeOK'
    BY <1>33 DEF GiveUpConnect, MsgTypeOK, Expect, Checks, ThrTypeOK
  <2>4. OpTypeOK' /\ AccTypeOK' /\ CliTypeOK' /\ AppTypeOK'
    BY <1>33, Frames DEF GiveUpConnect
  <2> QED
    BY <2>1, <2>2, <2>3, <2>4 DEF TypeOK
<1>34. ASSUME NEW t \in Threads, TellFailure(t)
      PROVE  TypeOK'
  <2>1. ThrTypeOK'
    BY <1>34 DEF TellFailure, Goto, Start, ThrTypeOK, Labels
  <2>2. MsgTypeOK'
    BY <1>34 DEF TellFailure, MsgTypeOK, Push, Event, Events
  <2>3. ObjTypeOK' /\ OpTypeOK' /\ AccTypeOK' /\ CliTypeOK' /\ AppTypeOK'
    BY <1>34, Frames DEF TellFailure
  <2> QED
    BY <2>1, <2>2, <2>3 DEF TypeOK
<1>35. ASSUME NEW s \in Sessions, SendMsg(s, last[s].id), AndNoMore
      PROVE  TypeOK'
  <2>1. ObjTypeOK'
    BY <1>35 DEF SendMsg, ObjTypeOK, Statuses
  <2>2. ThrTypeOK'
    BY <1>35 DEF SendMsg, Goto, Start, ThrTypeOK, Labels, ObjTypeOK
  <2>3. OpTypeOK' /\ MsgTypeOK' /\ AccTypeOK' /\ CliTypeOK' /\ AppTypeOK'
    BY <1>35, Frames DEF SendMsg, AndNoMore
  <2> QED
    BY <2>1, <2>2, <2>3 DEF TypeOK
<1>36. ASSUME NEW s \in Sessions, AppClose(s, last[s].id), AndNoMore
      PROVE  TypeOK'
  <2>1. ObjTypeOK'
    BY <1>36 DEF AppClose, Shut, ObjTypeOK, Statuses
  <2>2. ThrTypeOK'
    BY <1>36 DEF AppClose, Goto, Start, ThrTypeOK, Labels, ObjTypeOK
  <2>3. OpTypeOK' /\ MsgTypeOK' /\ AccTypeOK' /\ CliTypeOK' /\ AppTypeOK'
    BY <1>36, Frames DEF AppClose, Shut, AndNoMore
  <2> QED
    BY <2>1, <2>2, <2>3 DEF TypeOK
<1>37. ASSUME NEW c \in Clients, ConnectTo(c)
      PROVE  TypeOK'
  <2>1. ThrTypeOK'
    BY <1>37 DEF ConnectTo, Goto, Start, ThrTypeOK, Labels, ObjTypeOK
  <2>2. CliTypeOK'
    BY <1>37 DEF ConnectTo, CliTypeOK
  <2>3. ObjTypeOK' /\ OpTypeOK' /\ MsgTypeOK' /\ AccTypeOK' /\ AppTypeOK'
    BY <1>37, Frames DEF ConnectTo
  <2> QED
    BY <2>1, <2>2, <2>3 DEF TypeOK
<1>38. ASSUME Dequeue
      PROVE  TypeOK'
  <2>1. MsgTypeOK'
    BY <1>38 DEF Dequeue, MsgTypeOK
  <2>2. AppTypeOK'
    BY <1>38 DEF Dequeue, AppTypeOK, Phases, MsgTypeOK, toldVars
  <2>3. ObjTypeOK' /\ OpTypeOK' /\ ThrTypeOK' /\ AccTypeOK' /\ CliTypeOK'
    BY <1>38, Frames DEF Dequeue
  <2> QED
    BY <2>1, <2>2, <2>3 DEF TypeOK
<1>39. ASSUME Deliver
      PROVE  TypeOK'
  <2>1. AppTypeOK'
    BY <1>39, BatchHead DEF Deliver, AppTypeOK, Phases, Events, Told, toldVars
  <2>2. ObjTypeOK' /\ OpTypeOK' /\ ThrTypeOK' /\ MsgTypeOK' /\ AccTypeOK' /\ CliTypeOK'
    BY <1>39, Frames DEF Deliver, sessVars
  <2> QED
    BY <2>1, <2>2 DEF TypeOK
<1>40. ASSUME BeginShutdown
      PROVE  TypeOK'
  <2>1. AppTypeOK'
    BY <1>40 DEF BeginShutdown, AdvanceShutdown, AppTypeOK, Phases, toldVars
  <2>2. ObjTypeOK' /\ OpTypeOK' /\ ThrTypeOK' /\ MsgTypeOK' /\ AccTypeOK' /\ CliTypeOK'
    BY <1>40, Frames DEF BeginShutdown, AdvanceShutdown, sessVars
  <2> QED
    BY <2>1, <2>2 DEF TypeOK
<1>41. ASSUME DeleteAcceptor
      PROVE  TypeOK'
  <2>1. AppTypeOK'
    BY <1>41 DEF DeleteAcceptor, AdvanceShutdown, AppTypeOK, Phases, toldVars
  <2>2. ObjTypeOK' /\ OpTypeOK' /\ ThrTypeOK' /\ MsgTypeOK' /\ AccTypeOK' /\ CliTypeOK'
    BY <1>41, Frames DEF DeleteAcceptor, AdvanceShutdown, sessVars
  <2> QED
    BY <2>1, <2>2 DEF TypeOK
<1>42. ASSUME StopService
      PROVE  TypeOK'
  <2>1. AppTypeOK'
    BY <1>42 DEF StopService, AdvanceShutdown, AppTypeOK, Phases, toldVars
  <2>2. ObjTypeOK' /\ OpTypeOK' /\ ThrTypeOK' /\ MsgTypeOK' /\ AccTypeOK' /\ CliTypeOK'
    BY <1>42, Frames DEF StopService, AdvanceShutdown, sessVars
  <2> QED
    BY <2>1, <2>2 DEF TypeOK
<1>43. ASSUME JoinThreads
      PROVE  TypeOK'
  <2>1. AppTypeOK'
    BY <1>43 DEF JoinThreads, AdvanceShutdown, AppTypeOK, Phases, toldVars
  <2>2. ObjTypeOK' /\ OpTypeOK' /\ ThrTypeOK' /\ MsgTypeOK' /\ AccTypeOK' /\ CliTypeOK'
    BY <1>43, Frames DEF JoinThreads, AdvanceShutdown, sessVars
  <2> QED
    BY <2>1, <2>2 DEF TypeOK
<1>44. CASE UNCHANGED vars
  BY <1>44, Frames DEF TypeOK, vars, sessVars
<1>45. ASSUME NEW t \in Threads, PushInput(t), AndNoMore
      PROVE  TypeOK'
  <2>1. Event("Data", cur[t], serial[cur[t]]) \in Events
    BY DEF ThrTypeOK, ObjTypeOK, Event, Events
  <2>2. MsgTypeOK'
    BY <1>45, <2>1 DEF PushInput, MsgTypeOK, Push
  <2>3. ObjTypeOK' /\ OpTypeOK' /\ ThrTypeOK' /\ AccTypeOK' /\ CliTypeOK' /\ AppTypeOK'
    BY <1>45, Frames DEF PushInput, AndNoMore
  <2> QED
    BY <2>2, <2>3 DEF TypeOK
<1>46. ASSUME NEW t \in Threads, CountAccept(t)
      PROVE  TypeOK'
  <2>1. ThrTypeOK'
    BY <1>46 DEF CountAccept, Goto, ThrTypeOK, Labels
  <2>2. AccTypeOK'
    BY <1>46 DEF CountAccept, AccTypeOK
  <2>3. ObjTypeOK' /\ OpTypeOK' /\ MsgTypeOK' /\ CliTypeOK' /\ AppTypeOK'
    BY <1>46, Frames DEF CountAccept
  <2> QED
    BY <2>1, <2>2, <2>3 DEF TypeOK
<1> QED
  BY <1>1, <1>2, <1>3, <1>4, <1>5, <1>6, <1>7, <1>8, <1>9, <1>10, <1>11,
     <1>12, <1>13, <1>14, <1>15, <1>16, <1>17, <1>18, <1>19, <1>20, <1>21,
     <1>22, <1>23, <1>24, <1>25, <1>26, <1>27, <1>28, <1>29, <1>30, <1>31,
     <1>32, <1>33, <1>34, <1>35, <1>36, <1>37, <1>38, <1>39, <1>40, <1>41,
     <1>42, <1>43, <1>44, <1>45, <1>46
  DEF Next, Dispatch, Continue, Call, SessionDispatch, SessionContinue, AndNoMore

(* Every variable always has its type. *)
THEOREM TypeCorrect == Spec => []TypeOK
<1>1. Init => TypeOK
  BY InitType
<1>2. TypeOK /\ [Next]_vars => TypeOK'
  BY NextType
<1> QED
  BY <1>1, <1>2, PTL DEF Spec

-----------------------------------------------------------------------------
\* The owner of a session

OwnerInv == TypeOK /\ PathsApart /\ SingleOwner

\* Where a thread has no server session in its hands.
ClientLabels == {"rebusy", "reconnect", "connect_busy", "connect", "connect_failed"}

QuietLabels ==
  {"idle", "announce", "received", "close", "release", "write", "written",
   "recheck", "tell_failure"} \cup ClientLabels

LEMMA InitOwner == Init => OwnerInv
<1> SUFFICES ASSUME Init PROVE OwnerInv
  OBVIOUS
<1>1. TypeOK
  BY InitType
<1> USE DEF Init, SessionInit
<1>2. /\ Len(available) = MaxSession - ClientSession
      /\ \A i \in 1..Len(available) : available[i] = MaxSession - i
  <2>1. MaxSession - ClientSession \in Nat
    OBVIOUS
  <2>2. available \in Seq(Sessions)
    BY <1>1 DEF TypeOK, AccTypeOK
  <2>3. DOMAIN available = 1..(MaxSession - ClientSession)
    OBVIOUS
  <2>4. Len(available) = MaxSession - ClientSession
    BY <2>1, <2>2, <2>3, LenProperties
  <2> QED
    BY <2>4
<1>3. \A s \in Sessions : status[s] = "Init" /\ closePosts[s] = 0 /\ acceptOps[s] = 0
  OBVIOUS
<1>4. \A t \in Threads : pc[t] = "idle"
  OBVIOUS
<1>5. \A i \in 1..Len(available) : available[i] \in Servers
  BY <1>2 DEF Servers, Sessions, Clients
<1>6. PathsApart
  BY <1>3, <1>4, <1>5, Basics DEF PathsApart
<1>7. \A t \in Threads, s \in Sessions : ~Carries(t, s) /\ ~Opens(t, s)
  BY <1>4 DEF Carries, Opens
<1>8. StackedOnce
  BY <1>2, <1>3, <1>5, <1>7, Basics DEF StackedOnce
<1>9. CarriedOnce /\ AcceptedOnce /\ ClosedOnce
  BY <1>3, <1>7, Basics DEF CarriedOnce, AcceptedOnce, ClosedOnce
<1>10. NoneLost
  <2> SUFFICES ASSUME NEW s \in Servers PROVE Stacked(s)
    BY <1>3, Basics DEF NoneLost
  <2>1. MaxSession - s \in 1..Len(available)
    BY <1>2 DEF Servers, Sessions, Clients
  <2>2. s \in Int /\ MaxSession - (MaxSession - s) = s
    BY DEF Servers, Sessions
  <2> QED
    BY <1>2, <2>1, <2>2 DEF Stacked
<1> QED
  BY <1>1, <1>6, <1>8, <1>9, <1>10 DEF OwnerInv, SingleOwner

-----------------------------------------------------------------------------
(* A step leaves every server session where it is if thread t, the only    *)
(* one to move, has none in its hands before or after, and the statuses    *)
(* change at most between those of a session that is in use.               *)

InUse == {"Open", "Shut"}

KeepsServers ==
  /\ \A s \in Servers : /\ status'[s] = status[s] \/ (status[s] \in InUse /\ status'[s] \in InUse)
                        /\ closePosts'[s] = closePosts[s]
  /\ UNCHANGED <<available, acceptOps, held, resume>>

LEMMA SameHands ==
  ASSUME OwnerInv, KeepsServers,
         \A u \in Threads, s \in Servers :
           /\ Carries(u, s)' <=> Carries(u, s)
           /\ Opens(u, s)' <=> Opens(u, s)
  PROVE  SingleOwner'
<1> USE DEF OwnerInv
<1>1. UNCHANGED <<available, acceptOps>>
  BY DEF KeepsServers, accVars
<1>2. \A s \in Servers : Stacked(s)' <=> Stacked(s)
  BY <1>1 DEF Stacked
<1>3. \A i \in 1..Len(available) : available[i] \in Servers
  BY DEF PathsApart
<1>4. \A s \in Servers : /\ status'[s] = status[s] \/ (status[s] \in InUse /\ status'[s] \in InUse)
                         /\ closePosts'[s] = closePosts[s]
                         /\ acceptOps'[s] = acceptOps[s]
  BY <1>1 DEF KeepsServers
<1>5. StackedOnce'
  BY <1>1, <1>3, <1>4 DEF StackedOnce, SingleOwner, InUse
<1>6. CarriedOnce' /\ AcceptedOnce' /\ ClosedOnce'
  BY <1>4 DEF CarriedOnce, AcceptedOnce, ClosedOnce, SingleOwner, InUse
<1>7. NoneLost'
  BY <1>2, <1>4 DEF NoneLost, SingleOwner, InUse
<1> QED
  BY <1>5, <1>6, <1>7 DEF SingleOwner

LEMMA QuietStep ==
  ASSUME OwnerInv, KeepsServers, NEW t \in Threads,
         pc[t] \in QuietLabels, pc'[t] \in QuietLabels,
         pc'[t] \in ClientLabels => cur'[t] \in Clients,
         \A u \in Threads \ {t} : pc'[u] = pc[u] /\ cur'[u] = cur[u]
  PROVE  PathsApart' /\ SingleOwner'
<1>1. UNCHANGED <<available, acceptOps, held, resume>>
  BY DEF KeepsServers, accVars
<1>2. PathsApart'
  BY <1>1 DEF OwnerInv, PathsApart, QuietLabels, ClientLabels
<1>3. \A u \in Threads, s \in Servers :
        /\ Carries(u, s)' <=> Carries(u, s)
        /\ Opens(u, s)' <=> Opens(u, s)
  BY <1>1 DEF Carries, Opens, QuietLabels, ClientLabels
<1> QED
  BY <1>2, <1>3, SameHands

\* The same when no thread moves.
LEMMA NoThreadMoves ==
  ASSUME OwnerInv, KeepsServers, UNCHANGED <<pc, cur>>
  PROVE  PathsApart' /\ SingleOwner'
<1>1. UNCHANGED <<available, acceptOps, held, resume>>
  BY DEF KeepsServers, accVars
<1>2. PathsApart'
  BY <1>1 DEF OwnerInv, PathsApart
<1>3. \A u \in Threads, s \in Servers :
        /\ Carries(u, s)' <=> Carries(u, s)
        /\ Opens(u, s)' <=> Opens(u, s)
  BY <1>1 DEF Carries, Opens
<1> QED
  BY <1>2, <1>3, SameHands

-----------------------------------------------------------------------------
(* The steps that move a server session, one lemma each.                   *)

\* What is on the stack after its top was taken.
LEMMA Popped ==
  ASSUME OwnerInv, available # <<>>, Pop
  PROVE  /\ Len(available) \in Nat \ {0}
         /\ available \in Seq(Sessions)
         /\ Len(available') = Len(available) - 1
         /\ \A i \in 1..Len(available') : available'[i] = available[i]
<1> DEFINE n == Len(available)
<1>1. n \in Nat \ {0} /\ available \in Seq(Sessions)
  BY StackTop DEF OwnerInv, TypeOK, AccTypeOK
<1>2. available' = SubSeq(available, 1, n - 1)
  BY DEF Pop
<1>3. \A i \in 1..(n - 1) : available[i] \in Sessions
  BY <1>1, ElementOfSeq
<1>4. 1 \in Int /\ n - 1 \in Int /\ n - 1 = (n - 1) - 1 + 1
  BY <1>1
<1>5. /\ Len(available') = IF 1 <= n - 1 THEN (n - 1) - 1 + 1 ELSE 0
      /\ \A i \in 1..((n - 1) - 1 + 1) : available'[i] = available[1 + i - 1]
  BY <1>2, <1>3, <1>4, SubSeqProperties
<1> HIDE DEF n
<1>6. Len(available') = n - 1 /\ \A i \in 1..(n - 1) : available'[i] = available[i]
  BY <1>1, <1>5
<1> QED
  BY <1>1, <1>6 DEF n

\* startup(): from the stack to an accept
LEMMA StartListenOwner == OwnerInv /\ StartListen => PathsApart' /\ SingleOwner'
<1> SUFFICES ASSUME OwnerInv, StartListen PROVE PathsApart' /\ SingleOwner'
  OBVIOUS
<1> DEFINE n == Len(available)
<1>1. n \in Nat \ {0} /\ available \in Seq(Sessions)
  BY Popped DEF StartListen
<1>2. Len(available') = n - 1 /\ \A i \in 1..(n - 1) : available'[i] = available[i]
  BY Popped DEF StartListen
<1>3. Top = available[n] /\ Top \in Servers /\ status[Top] = "Init" /\ acceptOps[Top] = 0
      /\ \A t \in Threads : ~Carries(t, Top) /\ ~Opens(t, Top)
  BY <1>1 DEF Top, OwnerInv, PathsApart, SingleOwner, StackedOnce, AcceptedOnce
<1>4. /\ status' = [status EXCEPT ![Top] = "Accept"]
      /\ acceptOps' = [acceptOps EXCEPT ![Top] = 1]
      /\ UNCHANGED <<pc, cur, held, resume, closePosts>>
  BY <1>3 DEF StartListen, opVars, thrVars
<1>5. status \in [Sessions -> Statuses] /\ acceptOps \in [Sessions -> Nat]
  BY DEF OwnerInv, TypeOK, ObjTypeOK, AccTypeOK
<1>6. \A t \in Threads, s \in Servers :
        /\ Carries(t, s)' <=> Carries(t, s)
        /\ Opens(t, s)' <=> Opens(t, s)
  BY <1>4 DEF Carries, Opens
<1>7. PathsApart'
  BY <1>2, <1>3, <1>4, <1>5, Basics DEF OwnerInv, PathsApart, Servers
<1>8. StackedOnce'
  <2>1. \A i \in 1..(n - 1) : available[i] \in Servers /\ available[i] # Top
    BY <1>1, <1>3 DEF OwnerInv, PathsApart, SingleOwner, StackedOnce
  <2>2. \A i \in 1..(n - 1) : status'[available[i]] = "Init" /\ \A t \in Threads : ~Carries(t, available[i])
    BY <1>1, <1>4, <1>5, <2>1, Basics DEF OwnerInv, SingleOwner, StackedOnce
  <2>3. \A i, j \in 1..(n - 1) : i # j => available[i] # available[j]
    BY <1>1 DEF OwnerInv, SingleOwner, StackedOnce
  <2>4. ASSUME NEW i \in 1..(n - 1), NEW j \in 1..(n - 1)
        PROVE  /\ i # j => available'[i] # available'[j]
               /\ status'[available'[i]] = "Init"
    BY <1>2, <2>2, <2>3
  <2>5. ASSUME NEW i \in 1..(n - 1), NEW t \in Threads PROVE ~Carries(t, available[i])'
    <3>1. available'[i] = available[i] /\ available[i] \in Servers
      BY <1>2, <2>1
    <3>2. ~Carries(t, available[i])
      BY <2>2
    <3> QED
      BY <1>4, <3>1, <3>2 DEF Carries
  <2>6. Len(available') = n - 1
    BY <1>2
  <2> HIDE DEF n
  <2> QED
    BY <2>4, <2>5, <2>6 DEF StackedOnce
<1>9. CarriedOnce'
  BY <1>3, <1>4, <1>5, <1>6, Basics DEF OwnerInv, SingleOwner, CarriedOnce
<1>10. AcceptedOnce'
  BY <1>3, <1>4, <1>5, <1>6, Basics DEF OwnerInv, SingleOwner, AcceptedOnce
<1>11. ClosedOnce'
  BY <1>3, <1>4, <1>5, Basics DEF OwnerInv, SingleOwner, ClosedOnce
<1>12. NoneLost'
  <2>1. \A s \in Servers \ {Top} : Stacked(s) => Stacked(s)'
    BY <1>1, <1>2, <1>3 DEF Stacked
  <2>2. ~(status'[Top] = "Init") /\ acceptOps'[Top] = 1
    BY <1>3, <1>4, <1>5, Basics
  <2>3. \A s \in Servers \ {Top} : status'[s] = status[s] /\ acceptOps'[s] = acceptOps[s] /\ closePosts'[s] = closePosts[s]
    BY <1>4, <1>5, Basics
  <2> QED
    BY <1>3, <1>4, <1>5, <1>6, <2>1, <2>2, <2>3, Basics DEF OwnerInv, SingleOwner, NoneLost
<1> QED
  BY <1>7, <1>8, <1>9, <1>10, <1>11, <1>12 DEF SingleOwner

\* _get_available_session(): from the stack to thread t
LEMMA TakeSessionOwner ==
  ASSUME OwnerInv, NEW t \in Threads, TakeSession(t), available # <<>>
  PROVE  PathsApart' /\ SingleOwner'
<1> DEFINE n == Len(available)
<1>1. n \in Nat \ {0} /\ available \in Seq(Sessions)
  BY Popped DEF TakeSession
<1>2. Len(available') = n - 1 /\ \A i \in 1..(n - 1) : available'[i] = available[i]
  BY Popped DEF TakeSession
<1>3. Top = available[n] /\ Top \in Servers /\ status[Top] = "Init"
      /\ \A u \in Threads : ~Carries(u, Top)
  BY <1>1 DEF Top, OwnerInv, PathsApart, SingleOwner, StackedOnce
<1>4. /\ pc[t] = "take"
      /\ pc' = [pc EXCEPT ![t] = "accept"]
      /\ held' = [held EXCEPT ![t] = Top]
      /\ UNCHANGED <<cur, resume, status, closePosts, acceptOps>>
  BY DEF TakeSession, At, Goto, objVars, opVars
<1>5. pc \in [Threads -> Labels] /\ held \in [Threads -> Sessions]
  BY DEF OwnerInv, TypeOK, ThrTypeOK, AccTypeOK
<1>6. \A u \in Threads, s \in Servers :
        /\ Carries(u, s)' <=> (Carries(u, s) \/ (u = t /\ s = Top))
        /\ Opens(u, s)' <=> Opens(u, s)
  BY <1>4, <1>5 DEF Carries, Opens
<1>7. PathsApart'
  BY <1>2, <1>3, <1>4, <1>5 DEF OwnerInv, PathsApart
<1>8. StackedOnce'
  <2>1. \A i \in 1..(n - 1) : available[i] \in Servers /\ available[i] # Top
    BY <1>1, <1>3 DEF OwnerInv, PathsApart, SingleOwner, StackedOnce
  <2>2. \A i \in 1..(n - 1) : status'[available[i]] = "Init" /\ \A u \in Threads : ~Carries(u, available[i])
    BY <1>1, <1>4 DEF OwnerInv, SingleOwner, StackedOnce
  <2>3. \A i, j \in 1..(n - 1) : i # j => available[i] # available[j]
    BY <1>1 DEF OwnerInv, SingleOwner, StackedOnce
  <2>4. \A i \in 1..(n - 1) : \A u \in Threads : ~Carries(u, available[i])'
    BY <1>2, <1>4, <1>5, <2>1, <2>2 DEF Carries
  <2> QED
    BY <1>2, <2>2, <2>3, <2>4 DEF StackedOnce
<1>9. CarriedOnce'
  BY <1>3, <1>4, <1>6 DEF OwnerInv, SingleOwner, CarriedOnce
<1>10. AcceptedOnce'
  BY <1>4, <1>6 DEF OwnerInv, SingleOwner, AcceptedOnce
<1>11. ClosedOnce'
  BY <1>4 DEF OwnerInv, SingleOwner, ClosedOnce
<1>12. NoneLost'
  BY <1>1, <1>2, <1>3, <1>4, <1>6 DEF OwnerInv, SingleOwner, NoneLost, Stacked
<1> QED
  BY <1>7, <1>8, <1>9, <1>10, <1>11, <1>12 DEF SingleOwner

\* _post_accept(): from thread t to an accept
LEMMA PostAcceptOwner ==
  ASSUME OwnerInv, NEW t \in Threads, PostAccept(t)
  PROVE  PathsApart' /\ SingleOwner'
<1> DEFINE h == held[t]
<1>1. pc[t] = "post" /\ Carries(t, h)
  BY DEF PostAccept, At, Carries
<1>2. /\ h \in Servers /\ h \in Sessions /\ status[h] = "Init" /\ acceptOps[h] = 0
      /\ \A u \in Threads : ~Opens(u, h) /\ (Carries(u, h) => u = t)
  BY <1>1, Basics DEF OwnerInv, PathsApart, SingleOwner, CarriedOnce, AcceptedOnce
<1>3. \A i \in 1..Len(available) : available[i] \in Servers /\ available[i] # h
  BY <1>1 DEF OwnerInv, PathsApart, SingleOwner, StackedOnce
<1>4. /\ status' = [status EXCEPT ![h] = "Accept"]
      /\ acceptOps' = [acceptOps EXCEPT ![h] = 1]
      /\ pc' = [pc EXCEPT ![t] = resume[t]]
      /\ resume[t] \in {"idle", "connected"}
      /\ UNCHANGED <<cur, held, resume, closePosts, available>>
  BY <1>2 DEF PostAccept, Goto, opVars, OwnerInv, TypeOK, AccTypeOK
<1>5. /\ pc \in [Threads -> Labels] /\ status \in [Sessions -> Statuses]
      /\ acceptOps \in [Sessions -> Nat]
  BY DEF OwnerInv, TypeOK, ThrTypeOK, ObjTypeOK, AccTypeOK
<1>6. \A u \in Threads, s \in Servers :
        /\ Carries(u, s)' <=> (Carries(u, s) /\ u # t)
        /\ Opens(u, s)' <=> Opens(u, s)
  BY <1>1, <1>4, <1>5 DEF Carries, Opens
<1>7. PathsApart'
  BY <1>2, <1>4, <1>5, Basics DEF OwnerInv, PathsApart, Servers
<1>8. StackedOnce'
  BY <1>2, <1>3, <1>4, <1>5, <1>6, Basics DEF OwnerInv, SingleOwner, StackedOnce
<1>9. CarriedOnce'
  BY <1>2, <1>4, <1>5, <1>6, Basics DEF OwnerInv, SingleOwner, CarriedOnce
<1>10. AcceptedOnce'
  BY <1>2, <1>4, <1>5, <1>6, Basics DEF OwnerInv, SingleOwner, AcceptedOnce
<1>11. ClosedOnce'
  BY <1>2, <1>4, <1>5, Basics DEF OwnerInv, SingleOwner, ClosedOnce
<1>12. \A s \in Servers : Carries(t, s) => s = h
  BY <1>1 DEF Carries
<1>13. NoneLost'
  BY <1>2, <1>4, <1>5, <1>6, <1>12, Basics DEF OwnerInv, SingleOwner, NoneLost, Stacked
<1> QED
  BY <1>7, <1>8, <1>9, <1>10, <1>11, <1>13 DEF SingleOwner

\* _handle_accept(): from an accept that failed to thread t
LEMMA AcceptFailsOwner ==
  ASSUME OwnerInv, NEW t \in IoThreads, NEW h \in Sessions, AcceptFails(t, h)
  PROVE  PathsApart' /\ SingleOwner'
<1>0. t \in Threads
  BY Basics
<1>1. h \in Servers /\ acceptOps[h] = 1 /\ status[h] = "Accept"
  BY DEF AcceptFails, OwnerInv, TypeOK, AccTypeOK, PathsApart, SingleOwner, AcceptedOnce, Servers
<1>2. \A u \in Threads : ~Opens(u, h) /\ ~Carries(u, h)
  BY <1>1 DEF OwnerInv, SingleOwner, AcceptedOnce, CarriedOnce
<1>3. \A i \in 1..Len(available) : available[i] \in Servers /\ available[i] # h
  BY <1>1 DEF OwnerInv, PathsApart, SingleOwner, StackedOnce
<1>4. /\ pc[t] = "idle" /\ pc' = [pc EXCEPT ![t] = "return"]
      /\ cur' = [cur EXCEPT ![t] = h]
      /\ status' = [status EXCEPT ![h] = "Init"]
      /\ acceptOps' = [acceptOps EXCEPT ![h] = 0]
      /\ UNCHANGED <<held, resume, closePosts, available>>
  BY <1>1 DEF AcceptFails, Start, Goto, opVars
<1>5. /\ pc \in [Threads -> Labels] /\ cur \in [Threads -> Sessions]
      /\ status \in [Sessions -> Statuses] /\ acceptOps \in [Sessions -> Nat]
  BY DEF OwnerInv, TypeOK, ThrTypeOK, ObjTypeOK, AccTypeOK
<1>6. \A u \in Threads, s \in Servers :
        /\ Carries(u, s)' <=> (Carries(u, s) \/ (u = t /\ s = h))
        /\ Opens(u, s)' <=> Opens(u, s)
  BY <1>0, <1>4, <1>5 DEF Carries, Opens
<1>7. PathsApart'
  BY <1>0, <1>1, <1>3, <1>4, <1>5, Basics DEF OwnerInv, PathsApart, Servers
<1>8. StackedOnce'
  <2>1. \A i \in 1..Len(available), u \in Threads : ~Carries(u, available[i])'
    BY <1>0, <1>3, <1>4, <1>5 DEF Carries, OwnerInv, SingleOwner, StackedOnce
  <2> QED
    BY <1>3, <1>4, <1>5, <2>1, Basics DEF OwnerInv, SingleOwner, StackedOnce
<1>9. CarriedOnce'
  BY <1>0, <1>1, <1>2, <1>4, <1>5, <1>6, Basics DEF OwnerInv, SingleOwner, CarriedOnce
<1>10. AcceptedOnce'
  BY <1>1, <1>2, <1>4, <1>5, <1>6, Basics DEF OwnerInv, SingleOwner, AcceptedOnce
<1>11. ClosedOnce'
  BY <1>1, <1>4, <1>5, Basics DEF OwnerInv, SingleOwner, ClosedOnce
<1>12. NoneLost'
  BY <1>0, <1>1, <1>4, <1>5, <1>6, Basics DEF OwnerInv, SingleOwner, NoneLost, Stacked
<1> QED
  BY <1>7, <1>8, <1>9, <1>10, <1>11, <1>12 DEF SingleOwner

\* _handle_accept(): from an accept that succeeded to thread t, which opens it
LEMMA AcceptSucceedsOwner ==
  ASSUME OwnerInv, NEW t \in IoThreads, NEW h \in Sessions, AcceptSucceeds(t, h)
  PROVE  PathsApart' /\ SingleOwner'
<1>0. t \in Threads
  BY Basics
<1>1. h \in Servers /\ acceptOps[h] = 1 /\ status[h] = "Accept"
  BY DEF AcceptSucceeds, OwnerInv, TypeOK, AccTypeOK, PathsApart, SingleOwner, AcceptedOnce, Servers
<1>2. \A u \in Threads : ~Opens(u, h)
  BY <1>1 DEF OwnerInv, SingleOwner, AcceptedOnce
<1>3. \A i \in 1..Len(available) : available[i] \in Servers
  BY DEF OwnerInv, PathsApart
<1>4. /\ pc[t] = "idle" /\ pc' = [pc EXCEPT ![t] = "check"]
      /\ cur' = [cur EXCEPT ![t] = h]
      /\ acceptOps' = [acceptOps EXCEPT ![h] = 0]
      /\ resume' = [resume EXCEPT ![t] = "connected"]
      /\ UNCHANGED <<status, held, closePosts, available>>
  BY <1>1 DEF AcceptSucceeds, Start, Goto, opVars
<1>5. /\ pc \in [Threads -> Labels] /\ cur \in [Threads -> Sessions]
      /\ acceptOps \in [Sessions -> Nat]
      /\ resume \in [Threads -> {"idle", "connected"}]
  BY DEF OwnerInv, TypeOK, ThrTypeOK, AccTypeOK
<1>6. \A u \in Threads, s \in Servers :
        /\ Carries(u, s)' <=> Carries(u, s)
        /\ Opens(u, s)' <=> (Opens(u, s) \/ (u = t /\ s = h))
  BY <1>0, <1>4, <1>5 DEF Carries, Opens
<1>7. PathsApart'
  BY <1>0, <1>1, <1>3, <1>4, <1>5, Basics DEF OwnerInv, PathsApart, Servers
<1>8. StackedOnce'
  BY <1>3, <1>4, <1>6 DEF OwnerInv, SingleOwner, StackedOnce
<1>9. CarriedOnce'
  BY <1>4, <1>6 DEF OwnerInv, SingleOwner, CarriedOnce
<1>10. AcceptedOnce'
  BY <1>0, <1>1, <1>2, <1>4, <1>5, <1>6, Basics DEF OwnerInv, SingleOwner, AcceptedOnce
<1>11. ClosedOnce'
  BY <1>4 DEF OwnerInv, SingleOwner, ClosedOnce
<1>12. NoneLost'
  BY <1>0, <1>1, <1>4, <1>5, <1>6, Basics DEF OwnerInv, SingleOwner, NoneLost, Stacked
<1> QED
  BY <1>7, <1>8, <1>9, <1>10, <1>11, <1>12 DEF SingleOwner

\* _return_session(): from thread t to the stack
LEMMA ReturnSessionOwner ==
  ASSUME OwnerInv, NEW t \in Threads, ReturnSession(t)
  PROVE  PathsApart' /\ SingleOwner'
<1> DEFINE h == cur[t]
           n == Len(available)
<1>1. pc[t] = "return" /\ Carries(t, h) /\ h \in Servers
  BY DEF ReturnSession, At, Carries, OwnerInv, PathsApart
<1>2. status[h] = "Init" /\ \A u \in Threads : Carries(u, h) => u = t
  BY <1>1 DEF OwnerInv, SingleOwner, CarriedOnce
<1>3. \A i \in 1..n : available[i] \in Servers /\ available[i] # h
  BY <1>1 DEF OwnerInv, PathsApart, SingleOwner, StackedOnce
<1>4. /\ pc' = [pc EXCEPT ![t] = "check"]
      /\ resume' = [resume EXCEPT ![t] = "idle"]
      /\ available' = Append(available, h)
      /\ UNCHANGED <<status, cur, held, closePosts, acceptOps>>
  BY DEF ReturnSession, Return, Goto, objVars, opVars
<1>5. /\ pc \in [Threads -> Labels] /\ available \in Seq(Sessions)
      /\ resume \in [Threads -> {"idle", "connected"}]
  BY DEF OwnerInv, TypeOK, ThrTypeOK, AccTypeOK
<1>6. \A u \in Threads, s \in Servers :
        /\ Carries(u, s)' <=> (Carries(u, s) /\ u # t)
        /\ Opens(u, s)' <=> Opens(u, s)
  BY <1>1, <1>4, <1>5 DEF Carries, Opens
<1>7. /\ n \in Nat /\ Len(available') = n + 1 /\ available'[n + 1] = h
      /\ \A i \in 1..n : available'[i] = available[i]
  BY <1>1, <1>4, <1>5, Basics, AppendProperties, LenProperties
<1> HIDE DEF h, n
<1>8. PathsApart'
  BY <1>1, <1>3, <1>4, <1>5, <1>7 DEF OwnerInv, PathsApart
<1>9. StackedOnce'
  <2>1. \A i \in 1..(n + 1) : available'[i] \in Servers /\ status'[available'[i]] = "Init"
    BY <1>1, <1>2, <1>3, <1>4, <1>7 DEF OwnerInv, SingleOwner, StackedOnce, n
  <2>2. \A i, j \in 1..(n + 1) : i # j => available'[i] # available'[j]
    BY <1>3, <1>7 DEF OwnerInv, SingleOwner, StackedOnce, n
  <2>3. \A s \in Servers : (s = h \/ \E i \in 1..n : s = available[i])
                             => \A u \in Threads : ~Carries(u, s)'
    BY <1>2, <1>6 DEF OwnerInv, SingleOwner, StackedOnce, n
  <2>4. \A i \in 1..(n + 1) : available'[i] = h \/ \E j \in 1..n : available'[i] = available[j]
    BY <1>7
  <2>5. \A i \in 1..(n + 1), u \in Threads : ~Carries(u, available[i])'
    BY <2>1, <2>3, <2>4 DEF Carries
  <2> QED
    BY <1>7, <2>1, <2>2, <2>5 DEF StackedOnce
<1>10. CarriedOnce'
  BY <1>4, <1>6 DEF OwnerInv, SingleOwner, CarriedOnce
<1>11. AcceptedOnce' /\ ClosedOnce'
  BY <1>4, <1>6 DEF OwnerInv, SingleOwner, AcceptedOnce, ClosedOnce
<1>12. \A s \in Servers : Carries(t, s) => s = h
  BY <1>1 DEF Carries, h
<1>13. \A s \in Servers : Stacked(s) \/ s = h => Stacked(s)'
  BY <1>7 DEF Stacked, n
<1>14. NoneLost'
  BY <1>4, <1>6, <1>12, <1>13 DEF OwnerInv, SingleOwner, NoneLost
<1> QED
  BY <1>8, <1>9, <1>10, <1>11, <1>14 DEF SingleOwner

\* _handle_close(): from the posted close to thread t
LEMMA HandleCloseOwner ==
  ASSUME OwnerInv, NEW t \in IoThreads, NEW h \in Sessions, HandleClose(t, h)
  PROVE  PathsApart' /\ SingleOwner'
<1>0. t \in Threads
  BY Basics
<1>1. /\ pc[t] = "idle" /\ pc' = [pc EXCEPT ![t] = "disconnect"]
      /\ cur' = [cur EXCEPT ![t] = h]
      /\ closePosts[h] > 0 /\ closePosts' = [closePosts EXCEPT ![h] = @ - 1]
      /\ status' = IF status[h] = "Close" THEN [status EXCEPT ![h] = "Init"] ELSE status
      /\ UNCHANGED <<available, acceptOps, held, resume>>
  BY DEF HandleClose, Start, Goto, Reset, accVars
<1>2. /\ pc \in [Threads -> Labels] /\ cur \in [Threads -> Sessions]
      /\ status \in [Sessions -> Statuses] /\ closePosts \in [Sessions -> Nat]
  BY DEF OwnerInv, TypeOK, ThrTypeOK, ObjTypeOK, OpTypeOK
<1>3. h \in Servers => closePosts[h] = 1 /\ status[h] = "Close"
  BY <1>1, <1>2 DEF OwnerInv, SingleOwner, ClosedOnce
<1>4. \A s \in Servers : \/ s # h /\ status'[s] = status[s] /\ closePosts'[s] = closePosts[s]
                         \/ s = h /\ status'[s] = "Init" /\ closePosts'[s] = 0
  BY <1>1, <1>2, <1>3, Basics
<1>5. \A u \in Threads, s \in Servers :
        /\ Carries(u, s)' <=> (Carries(u, s) \/ (u = t /\ s = h))
        /\ Opens(u, s)' <=> Opens(u, s)
  BY <1>0, <1>1, <1>2 DEF Carries, Opens
<1>6. PathsApart'
  BY <1>0, <1>1, <1>2 DEF OwnerInv, PathsApart
<1>7. StackedOnce'
  <2>1. \A i \in 1..Len(available) : available[i] \in Servers /\ available[i] # h
    BY <1>3 DEF OwnerInv, PathsApart, SingleOwner, StackedOnce
  <2>2. \A i \in 1..Len(available), u \in Threads : ~Carries(u, available[i])'
    BY <1>0, <1>1, <1>2, <2>1 DEF Carries, OwnerInv, SingleOwner, StackedOnce
  <2> QED
    BY <1>1, <1>4, <2>1, <2>2 DEF OwnerInv, SingleOwner, StackedOnce
<1>8. CarriedOnce'
  BY <1>0, <1>3, <1>4, <1>5 DEF OwnerInv, SingleOwner, CarriedOnce
<1>9. AcceptedOnce'
  BY <1>1, <1>3, <1>4, <1>5 DEF OwnerInv, SingleOwner, AcceptedOnce
<1>10. ClosedOnce'
  BY <1>4 DEF OwnerInv, SingleOwner, ClosedOnce
<1>11. \A s \in Servers : Stacked(s)' <=> Stacked(s)
  BY <1>1 DEF Stacked
<1>12. NoneLost'
  BY <1>0, <1>1, <1>4, <1>5, <1>11 DEF OwnerInv, SingleOwner, NoneLost
<1> QED
  BY <1>6, <1>7, <1>8, <1>9, <1>10, <1>12 DEF SingleOwner

\* connected(): thread t has opened the session it accepted or connected
LEMMA OpenSessionOwner ==
  ASSUME OwnerInv, NEW t \in Threads, OpenSession(t), UNCHANGED accVars
  PROVE  PathsApart' /\ SingleOwner'
<1> DEFINE h == cur[t]
<1>1. /\ pc[t] = "connected" /\ pc' = [pc EXCEPT ![t] = "announce"]
      /\ status' = [status EXCEPT ![h] = "Open"]
      /\ UNCHANGED <<cur, closePosts, available, acceptOps, held, resume>>
  BY DEF OpenSession, At, Goto, opVars, accVars
<1>2. /\ pc \in [Threads -> Labels] /\ h \in Sessions
      /\ status \in [Sessions -> Statuses]
  BY DEF OwnerInv, TypeOK, ThrTypeOK, ObjTypeOK
<1>3. h \in Servers => /\ status[h] = "Accept" /\ acceptOps[h] = 0
                       /\ \A u \in Threads : Opens(u, h) => u = t
  BY <1>1 DEF Opens, OwnerInv, SingleOwner, AcceptedOnce
<1>4. \A s \in Servers : \/ s # h /\ status'[s] = status[s]
                         \/ s = h /\ status'[s] = "Open"
  BY <1>1, <1>2, Basics
<1>5. \A u \in Threads, s \in Servers :
        /\ Carries(u, s)' <=> Carries(u, s)
        /\ Opens(u, s)' <=> (Opens(u, s) /\ u # t)
  BY <1>1, <1>2 DEF Carries, Opens
<1>6. PathsApart'
  BY <1>1, <1>2 DEF OwnerInv, PathsApart
<1>7. StackedOnce'
  <2>1. \A i \in 1..Len(available) : available[i] \in Servers /\ available[i] # h
    BY <1>3 DEF OwnerInv, PathsApart, SingleOwner, StackedOnce
  <2> QED
    BY <1>1, <1>4, <1>5, <2>1 DEF OwnerInv, SingleOwner, StackedOnce
<1>8. CarriedOnce'
  BY <1>3, <1>4, <1>5 DEF OwnerInv, SingleOwner, CarriedOnce
<1>9. AcceptedOnce'
  BY <1>1, <1>3, <1>4, <1>5 DEF OwnerInv, SingleOwner, AcceptedOnce
<1>10. ClosedOnce'
  BY <1>1, <1>3, <1>4 DEF OwnerInv, SingleOwner, ClosedOnce
<1>11. \A s \in Servers : (Stacked(s)' <=> Stacked(s)) /\ (Opens(t, s) => s = h)
  BY <1>1 DEF Stacked, Opens
<1>12. NoneLost'
  BY <1>1, <1>4, <1>5, <1>11 DEF OwnerInv, SingleOwner, NoneLost
<1> QED
  BY <1>6, <1>7, <1>8, <1>9, <1>10, <1>12 DEF SingleOwner

\* _release(): from a session shut down to its posted close
LEMMA ReleaseOwner ==
  ASSUME OwnerInv, NEW t \in Threads, Release(t), UNCHANGED accVars
  PROVE  PathsApart' /\ SingleOwner'
<1> DEFINE h == cur[t]
<1>1. /\ pc[t] = "release" /\ pc' = [pc EXCEPT ![t] = "idle"]
      /\ UNCHANGED <<cur, available, acceptOps, held, resume>>
  BY DEF Release, At, Goto, accVars
<1>2. /\ pc \in [Threads -> Labels] /\ h \in Sessions
      /\ status \in [Sessions -> Statuses] /\ closePosts \in [Sessions -> Nat]
  BY DEF OwnerInv, TypeOK, ThrTypeOK, ObjTypeOK, OpTypeOK
<1>3. CASE ~Releasable(h)
  <2>1. UNCHANGED <<status, closePosts>>
    BY <1>3 DEF Release
  <2> QED
    BY <1>1, <1>2, <2>1, QuietStep DEF KeepsServers, QuietLabels, ClientLabels
<1>4. CASE Releasable(h)
  <2>1. /\ status[h] = "Shut"
        /\ status' = [status EXCEPT ![h] = "Close"]
        /\ closePosts' = [closePosts EXCEPT ![h] = @ + 1]
    BY <1>4 DEF Release, Releasable
  <2>2. h \in Servers => closePosts[h] = 0
    BY <2>1 DEF OwnerInv, SingleOwner, ClosedOnce
  <2>3. \A s \in Servers : \/ s # h /\ status'[s] = status[s] /\ closePosts'[s] = closePosts[s]
                           \/ s = h /\ status[s] = "Shut" /\ status'[s] = "Close" /\ closePosts'[s] = 1
    BY <1>2, <2>1, <2>2, Basics
  <2>4. \A u \in Threads, s \in Servers :
          /\ Carries(u, s)' <=> Carries(u, s)
          /\ Opens(u, s)' <=> Opens(u, s)
    BY <1>1, <1>2 DEF Carries, Opens
  <2>5. PathsApart'
    BY <1>1, <1>2 DEF OwnerInv, PathsApart
  <2>6. StackedOnce'
    <3>1. \A i \in 1..Len(available) : available[i] \in Servers /\ available[i] # h
      BY <2>1 DEF OwnerInv, PathsApart, SingleOwner, StackedOnce
    <3> QED
      BY <1>1, <2>3, <2>4, <3>1 DEF OwnerInv, SingleOwner, StackedOnce
  <2>7. CarriedOnce'
    BY <2>3, <2>4 DEF OwnerInv, SingleOwner, CarriedOnce
  <2>8. AcceptedOnce'
    BY <1>1, <2>3, <2>4 DEF OwnerInv, SingleOwner, AcceptedOnce
  <2>9. ClosedOnce'
    BY <2>3 DEF OwnerInv, SingleOwner, ClosedOnce
  <2>10. \A s \in Servers : Stacked(s)' <=> Stacked(s)
    BY <1>1 DEF Stacked
  <2>11. NoneLost'
    BY <1>1, <2>3, <2>4, <2>10 DEF OwnerInv, SingleOwner, NoneLost
  <2> QED
    BY <2>5, <2>6, <2>7, <2>8, <2>9, <2>11 DEF SingleOwner
<1> QED
  BY <1>3, <1>4

\* The steps of _handle_accept(), _handle_close() and _handle_connect() in
\* which the thread goes on with the session it has, or with a client.
Onward(t) ==
  /\ UNCHANGED <<cur, status, closePosts, available, acceptOps, held, resume>>
  /\ pc' = [pc EXCEPT ![t] = pc'[t]]
  /\ \/ pc[t] = "check" /\ pc'[t] \in {"take", resume[t]}
     \/ pc[t] = "take" /\ pc'[t] = resume[t]
     \/ pc[t] = "accept" /\ pc'[t] = "post"
     \/ pc[t] = "disconnect" /\ cur[t] \in Servers /\ pc'[t] = "return"
     \/ pc[t] = "disconnect" /\ cur[t] \in Clients /\ pc'[t] \in {"idle", "rebusy"}

LEMMA OnwardOwner ==
  ASSUME OwnerInv, NEW t \in Threads, Onward(t)
  PROVE  PathsApart' /\ SingleOwner'
<1>1. /\ pc \in [Threads -> Labels] /\ resume[t] \in {"idle", "connected"}
      /\ UNCHANGED <<available, acceptOps, held, resume, cur>>
  BY DEF OwnerInv, TypeOK, ThrTypeOK, AccTypeOK, Onward, accVars
<1>2. \A u \in Threads : u # t => pc'[u] = pc[u]
  BY <1>1 DEF Onward
<1>3. \A u \in Threads, s \in Servers :
        /\ Carries(u, s)' <=> Carries(u, s)
        /\ Opens(u, s)' <=> Opens(u, s)
  BY <1>1, <1>2 DEF Carries, Opens, Onward, Servers
<1>4. PathsApart'
  BY <1>1, <1>2 DEF OwnerInv, PathsApart, Onward
<1>5. KeepsServers
  BY DEF Onward, KeepsServers
<1> QED
  BY <1>3, <1>4, <1>5, SameHands

-----------------------------------------------------------------------------
LEMMA NextOwner == OwnerInv /\ [Next]_vars => PathsApart' /\ SingleOwner'
<1> SUFFICES ASSUME OwnerInv, [Next]_vars PROVE PathsApart' /\ SingleOwner'
  OBVIOUS
<1>0. /\ pc \in [Threads -> Labels] /\ cur \in [Threads -> Sessions]
      /\ status \in [Sessions -> Statuses] /\ PathsApart
  BY DEF OwnerInv, TypeOK, ThrTypeOK, ObjTypeOK
<1> USE Basics
<1>1. ASSUME StartListen
      PROVE  PathsApart' /\ SingleOwner'
  BY <1>1, StartListenOwner
<1>2. ASSUME StartThreads
      PROVE  PathsApart' /\ SingleOwner'
  <2>1. KeepsServers /\ UNCHANGED <<pc, cur>>
    BY <1>2 DEF StartThreads, KeepsServers, accVars, sessVars, objVars, opVars, thrVars
  <2> QED
    BY <2>1, NoThreadMoves
<1>3. ASSUME NEW t \in IoThreads, NEW s \in Sessions, NEW n \in Serials, ReadFails(t, s, n), AndNoMore
      PROVE  PathsApart' /\ SingleOwner'
  <2>1. KeepsServers
    BY <1>3, <1>0 DEF ReadFails, opVars, AndNoMore, KeepsServers, accVars, InUse, Servers
  <2>2. /\ pc[t] \in QuietLabels /\ pc'[t] \in QuietLabels
        /\ pc'[t] \in ClientLabels => cur'[t] \in Clients
        /\ \A u \in Threads \ {t} : pc'[u] = pc[u] /\ cur'[u] = cur[u]
    BY <1>3, <1>0 DEF ReadFails, Start, Goto, QuietLabels, ClientLabels, PathsApart
  <2> QED
    BY <2>1, <2>2, QuietStep
<1>4. ASSUME NEW t \in IoThreads, NEW s \in Sessions, NEW n \in Serials, ReadSucceeds(t, s, n), AndNoMore
      PROVE  PathsApart' /\ SingleOwner'
  <2>1. KeepsServers
    BY <1>4, <1>0 DEF ReadSucceeds, objVars, AndNoMore, KeepsServers, accVars, InUse, Servers
  <2>2. /\ pc[t] \in QuietLabels /\ pc'[t] \in QuietLabels
        /\ pc'[t] \in ClientLabels => cur'[t] \in Clients
        /\ \A u \in Threads \ {t} : pc'[u] = pc[u] /\ cur'[u] = cur[u]
    BY <1>4, <1>0 DEF ReadSucceeds, Start, Goto, QuietLabels, ClientLabels, PathsApart
  <2> QED
    BY <2>1, <2>2, QuietStep
<1>5. ASSUME NEW t \in IoThreads, NEW s \in Sessions, NEW n \in Serials, WriteFails(t, s, n), AndNoMore
      PROVE  PathsApart' /\ SingleOwner'
  <2>1. KeepsServers
    BY <1>5, <1>0 DEF WriteFails, AndNoMore, KeepsServers, accVars, InUse, Servers
  <2>2. /\ pc[t] \in QuietLabels /\ pc'[t] \in QuietLabels
        /\ pc'[t] \in ClientLabels => cur'[t] \in Clients
        /\ \A u \in Threads \ {t} : pc'[u] = pc[u] /\ cur'[u] = cur[u]
    BY <1>5, <1>0 DEF WriteFails, Start, Goto, QuietLabels, ClientLabels, PathsApart
  <2> QED
    BY <2>1, <2>2, QuietStep
<1>6. ASSUME NEW t \in IoThreads, NEW s \in Sessions, NEW n \in Serials, WriteSucceeds(t, s, n), AndNoMore
      PROVE  PathsApart' /\ SingleOwner'
  <2>1. KeepsServers
    BY <1>6, <1>0 DEF WriteSucceeds, objVars, AndNoMore, KeepsServers, accVars, InUse, Servers
  <2>2. /\ pc[t] \in QuietLabels /\ pc'[t] \in QuietLabels
        /\ pc'[t] \in ClientLabels => cur'[t] \in Clients
        /\ \A u \in Threads \ {t} : pc'[u] = pc[u] /\ cur'[u] = cur[u]
    BY <1>6, <1>0 DEF WriteSucceeds, Start, Goto, QuietLabels, ClientLabels, PathsApart
  <2> QED
    BY <2>1, <2>2, QuietStep
<1>7. ASSUME NEW t \in IoThreads, NEW s \in Sessions, AcceptFails(t, s)
      PROVE  PathsApart' /\ SingleOwner'
  BY <1>7, AcceptFailsOwner
<1>8. ASSUME NEW t \in IoThreads, NEW s \in Sessions, AcceptSucceeds(t, s)
      PROVE  PathsApart' /\ SingleOwner'
  BY <1>8, AcceptSucceedsOwner
<1>9. ASSUME NEW t \in IoThreads, NEW s \in Sessions, HandleClose(t, s)
      PROVE  PathsApart' /\ SingleOwner'
  BY <1>9, HandleCloseOwner
<1>10. ASSUME NEW t \in IoThreads, NEW c \in Clients, HandleReconnect(t, c)
      PROVE  PathsApart' /\ SingleOwner'
  <2>1. KeepsServers /\ UNCHANGED <<pc, cur>>
    BY <1>10 DEF HandleReconnect, KeepsServers, accVars, sessVars, objVars, opVars, thrVars
  <2> QED
    BY <2>1, NoThreadMoves
<1>11. ASSUME NEW t \in IoThreads, NEW c \in Clients, ConnectAgain(t, c)
      PROVE  PathsApart' /\ SingleOwner'
  <2>1. KeepsServers /\ UNCHANGED <<pc, cur>>
    BY <1>11 DEF ConnectAgain, KeepsServers, accVars, objVars, opVars, thrVars
  <2> QED
    BY <2>1, NoThreadMoves
<1>12. ASSUME NEW t \in IoThreads, NEW c \in Clients, ConnectFails(t, c)
      PROVE  PathsApart' /\ SingleOwner'
  <2>1. KeepsServers
    BY <1>12, <1>0 DEF ConnectFails, opVars, KeepsServers, accVars, InUse, Servers
  <2>2. /\ pc[t] \in QuietLabels /\ pc'[t] \in QuietLabels
        /\ pc'[t] \in ClientLabels => cur'[t] \in Clients
        /\ \A u \in Threads \ {t} : pc'[u] = pc[u] /\ cur'[u] = cur[u]
    BY <1>12, <1>0 DEF ConnectFails, Start, Goto, QuietLabels, ClientLabels, PathsApart
  <2> QED
    BY <2>1, <2>2, QuietStep
<1>13. ASSUME NEW t \in IoThreads, NEW c \in Clients, ConnectSucceeds(t, c)
      PROVE  PathsApart' /\ SingleOwner'
  <2>1. KeepsServers
    BY <1>13 DEF ConnectSucceeds, KeepsServers, accVars, opVars
  <2>2. /\ pc[t] = "idle" /\ pc' = [pc EXCEPT ![t] = "connected"]
        /\ cur' = [cur EXCEPT ![t] = c]
        /\ UNCHANGED <<held, resume, available, acceptOps>>
    BY <1>13 DEF ConnectSucceeds, Start, Goto, accVars
  <2>3. PathsApart'
    BY <2>2, <1>0 DEF PathsApart
  <2>4. \A u \in Threads, s \in Servers :
          /\ Carries(u, s)' <=> Carries(u, s)
          /\ Opens(u, s)' <=> Opens(u, s)
    BY <2>2, <1>0 DEF Carries, Opens, Servers
  <2> QED
    BY <2>1, <2>3, <2>4, SameHands
<1>14. ASSUME NEW t \in Threads, OpenSession(t), AndNoMore
      PROVE  PathsApart' /\ SingleOwner'
  BY <1>14, OpenSessionOwner DEF AndNoMore, accVars
<1>15. ASSUME NEW t \in Threads, Announce(t), AndNoMore
      PROVE  PathsApart' /\ SingleOwner'
  <2>1. KeepsServers
    BY <1>15, <1>0 DEF Announce, AndNoMore, KeepsServers, accVars, InUse, Servers
  <2>2. /\ pc[t] \in QuietLabels /\ pc'[t] \in QuietLabels
        /\ pc'[t] \in ClientLabels => cur'[t] \in Clients
        /\ \A u \in Threads \ {t} : pc'[u] = pc[u] /\ cur'[u] = cur[u]
    BY <1>15, <1>0 DEF Announce, At, Goto, QuietLabels, ClientLabels, PathsApart
  <2> QED
    BY <2>1, <2>2, QuietStep
<1>16. ASSUME NEW t \in Threads, RejectInput(t), AndNoMore
      PROVE  PathsApart' /\ SingleOwner'
  <2>1. KeepsServers
    BY <1>16, <1>0 DEF RejectInput, opVars, AndNoMore, KeepsServers, accVars, InUse, Servers
  <2>2. /\ pc[t] \in QuietLabels /\ pc'[t] \in QuietLabels
        /\ pc'[t] \in ClientLabels => cur'[t] \in Clients
        /\ \A u \in Threads \ {t} : pc'[u] = pc[u] /\ cur'[u] = cur[u]
    BY <1>16, <1>0 DEF RejectInput, At, Goto, QuietLabels, ClientLabels, PathsApart
  <2> QED
    BY <2>1, <2>2, QuietStep
<1>17. ASSUME NEW t \in Threads, TakeInput(t), AndNoMore
      PROVE  PathsApart' /\ SingleOwner'
  <2>1. KeepsServers
    BY <1>17, <1>0 DEF TakeInput, objVars, AndNoMore, KeepsServers, accVars, InUse, Servers
  <2>2. /\ pc[t] \in QuietLabels /\ pc'[t] \in QuietLabels
        /\ pc'[t] \in ClientLabels => cur'[t] \in Clients
        /\ \A u \in Threads \ {t} : pc'[u] = pc[u] /\ cur'[u] = cur[u]
    BY <1>17, <1>0 DEF TakeInput, At, Goto, QuietLabels, ClientLabels, PathsApart
  <2> QED
    BY <2>1, <2>2, QuietStep
<1>18. ASSUME NEW t \in Threads, StartWrite(t), AndNoMore
      PROVE  PathsApart' /\ SingleOwner'
  <2>1. KeepsServers
    BY <1>18, <1>0 DEF StartWrite, objVars, AndNoMore, KeepsServers, accVars, InUse, Servers
  <2>2. /\ pc[t] \in QuietLabels /\ pc'[t] \in QuietLabels
        /\ pc'[t] \in ClientLabels => cur'[t] \in Clients
        /\ \A u \in Threads \ {t} : pc'[u] = pc[u] /\ cur'[u] = cur[u]
    BY <1>18, <1>0 DEF StartWrite, At, Goto, QuietLabels, ClientLabels, PathsApart
  <2> QED
    BY <2>1, <2>2, QuietStep
<1>19. ASSUME NEW t \in Threads, WriteEnds(t), AndNoMore
      PROVE  PathsApart' /\ SingleOwner'
  <2>1. KeepsServers
    BY <1>19, <1>0 DEF WriteEnds, opVars, AndNoMore, KeepsServers, accVars, InUse, Servers
  <2>2. /\ pc[t] \in QuietLabels /\ pc'[t] \in QuietLabels
        /\ pc'[t] \in ClientLabels => cur'[t] \in Clients
        /\ \A u \in Threads \ {t} : pc'[u] = pc[u] /\ cur'[u] = cur[u]
    BY <1>19, <1>0 DEF WriteEnds, At, Goto, QuietLabels, ClientLabels, PathsApart
  <2> QED
    BY <2>1, <2>2, QuietStep
<1>20. ASSUME NEW t \in Threads, RecheckStatus(t), AndNoMore
      PROVE  PathsApart' /\ SingleOwner'
  <2>1. KeepsServers
    BY <1>20, <1>0 DEF RecheckStatus, objVars, opVars, AndNoMore, KeepsServers, accVars, InUse, Servers
  <2>2. /\ pc[t] \in QuietLabels /\ pc'[t] \in QuietLabels
        /\ pc'[t] \in ClientLabels => cur'[t] \in Clients
        /\ \A u \in Threads \ {t} : pc'[u] = pc[u] /\ cur'[u] = cur[u]
    BY <1>20, <1>0 DEF RecheckStatus, At, Goto, QuietLabels, ClientLabels, PathsApart
  <2> QED
    BY <2>1, <2>2, QuietStep
<1>21. ASSUME NEW t \in Threads, HandlerClose(t), AndNoMore
      PROVE  PathsApart' /\ SingleOwner'
  <2>1. KeepsServers
    BY <1>21, <1>0 DEF HandlerClose, Shut, objVars, opVars, AndNoMore, KeepsServers, accVars, InUse, Servers
  <2>2. /\ pc[t] \in QuietLabels /\ pc'[t] \in QuietLabels
        /\ pc'[t] \in ClientLabels => cur'[t] \in Clients
        /\ \A u \in Threads \ {t} : pc'[u] = pc[u] /\ cur'[u] = cur[u]
    BY <1>21, <1>0 DEF HandlerClose, At, Goto, QuietLabels, ClientLabels, PathsApart
  <2> QED
    BY <2>1, <2>2, QuietStep
<1>22. ASSUME NEW t \in Threads, Release(t), AndNoMore
      PROVE  PathsApart' /\ SingleOwner'
  BY <1>22, ReleaseOwner DEF AndNoMore, accVars
<1>23. ASSUME NEW t \in Threads, CheckListening(t)
      PROVE  PathsApart' /\ SingleOwner'
  <2>1. Onward(t)
    BY <1>23, <1>0 DEF CheckListening, Onward, At, Goto, objVars, opVars, accVars
  <2> QED
    BY <2>1, OnwardOwner
<1>24. ASSUME NEW t \in Threads, TakeSession(t)
      PROVE  PathsApart' /\ SingleOwner'
  <2>1. CASE available = <<>>
    <3>1. Onward(t)
      BY <1>24, <2>1, <1>0 DEF TakeSession, Onward, At, Goto, objVars, opVars, accVars
    <3> QED
      BY <3>1, OnwardOwner
  <2>2. CASE available # <<>>
    BY <1>24, <2>2, TakeSessionOwner
  <2> QED
    BY <2>1, <2>2
<1>25. ASSUME NEW t \in Threads, PostAccept(t)
      PROVE  PathsApart' /\ SingleOwner'
  BY <1>25, PostAcceptOwner
<1>26. ASSUME NEW t \in Threads, AcceptorGone(t)
      PROVE  PathsApart' /\ SingleOwner'
  <2>1. KeepsServers /\ UNCHANGED <<pc, cur>>
    BY <1>26 DEF AcceptorGone, KeepsServers, accVars, sessVars, objVars, opVars, thrVars
  <2> QED
    BY <2>1, NoThreadMoves
<1>27. ASSUME NEW t \in Threads, ReturnSession(t)
      PROVE  PathsApart' /\ SingleOwner'
  BY <1>27, ReturnSessionOwner
<1>28. ASSUME NEW t \in Threads, TellDisconnect(t)
      PROVE  PathsApart' /\ SingleOwner'
  <2>1. Onward(t)
    BY <1>28, <1>0 DEF TellDisconnect, AfterClose, Onward, At, Goto, objVars, opVars, accVars, Servers
  <2> QED
    BY <2>1, OnwardOwner
<1>29. ASSUME NEW t \in Threads, MarkBusyAgain(t)
      PROVE  PathsApart' /\ SingleOwner'
  <2>1. KeepsServers
    BY <1>29, <1>0 DEF MarkBusyAgain, objVars, opVars, KeepsServers, accVars, InUse, Servers
  <2>2. /\ pc[t] \in QuietLabels /\ pc'[t] \in QuietLabels
        /\ pc'[t] \in ClientLabels => cur'[t] \in Clients
        /\ \A u \in Threads \ {t} : pc'[u] = pc[u] /\ cur'[u] = cur[u]
    BY <1>29, <1>0 DEF MarkBusyAgain, At, Goto, QuietLabels, ClientLabels, PathsApart
  <2> QED
    BY <2>1, <2>2, QuietStep
<1>30. ASSUME NEW t \in Threads, WaitToReconnect(t)
      PROVE  PathsApart' /\ SingleOwner'
  <2>1. KeepsServers
    <3>1. cur[t] \in Clients
      BY <1>30, <1>0 DEF WaitToReconnect, At, PathsApart
    <3>2. \A s \in Servers : status'[s] = status[s]
      BY <1>30, <1>0, <3>1 DEF WaitToReconnect, Servers
    <3> QED
      BY <1>30, <3>2 DEF WaitToReconnect, opVars, KeepsServers, accVars
  <2>2. /\ pc[t] \in QuietLabels /\ pc'[t] \in QuietLabels
        /\ pc'[t] \in ClientLabels => cur'[t] \in Clients
        /\ \A u \in Threads \ {t} : pc'[u] = pc[u] /\ cur'[u] = cur[u]
    BY <1>30, <1>0 DEF WaitToReconnect, At, Goto, QuietLabels, ClientLabels, PathsApart
  <2> QED
    BY <2>1, <2>2, QuietStep
<1>31. ASSUME NEW t \in Threads, MarkBusy(t)
      PROVE  PathsApart' /\ SingleOwner'
  <2>1. KeepsServers
    BY <1>31, <1>0 DEF MarkBusy, objVars, opVars, KeepsServers, accVars, InUse, Servers
  <2>2. /\ pc[t] \in QuietLabels /\ pc'[t] \in QuietLabels
        /\ pc'[t] \in ClientLabels => cur'[t] \in Clients
        /\ \A u \in Threads \ {t} : pc'[u] = pc[u] /\ cur'[u] = cur[u]
    BY <1>31, <1>0 DEF MarkBusy, At, Goto, QuietLabels, ClientLabels, PathsApart
  <2> QED
    BY <2>1, <2>2, QuietStep
<1>32. ASSUME NEW t \in Threads, StartConnect(t)
      PROVE  PathsApart' /\ SingleOwner'
  <2>1. KeepsServers
    <3>1. cur[t] \in Clients
      BY <1>32, <1>0 DEF StartConnect, At, PathsApart
    <3>2. \A s \in Servers : status'[s] = status[s]
      BY <1>32, <1>0, <3>1 DEF StartConnect, Servers
    <3> QED
      BY <1>32, <3>2 DEF StartConnect, opVars, KeepsServers, accVars
  <2>2. /\ pc[t] \in QuietLabels /\ pc'[t] \in QuietLabels
        /\ pc'[t] \in ClientLabels => cur'[t] \in Clients
        /\ \A u \in Threads \ {t} : pc'[u] = pc[u] /\ cur'[u] = cur[u]
    BY <1>32, <1>0 DEF StartConnect, At, Goto, QuietLabels, ClientLabels, PathsApart
  <2> QED
    BY <2>1, <2>2, QuietStep
<1>33. ASSUME NEW t \in Threads, GiveUpConnect(t)
      PROVE  PathsApart' /\ SingleOwner'
  <2>1. KeepsServers
    <3>1. cur[t] \in Clients
      BY <1>33, <1>0 DEF GiveUpConnect, At, PathsApart
    <3>2. \A s \in Servers : status'[s] = status[s]
      BY <1>33, <1>0, <3>1 DEF GiveUpConnect, Servers
    <3> QED
      BY <1>33, <3>2 DEF GiveUpConnect, opVars, KeepsServers, accVars
  <2>2. /\ pc[t] \in QuietLabels /\ pc'[t] \in QuietLabels
        /\ pc'[t] \in ClientLabels => cur'[t] \in Clients
        /\ \A u \in Threads \ {t} : pc'[u] = pc[u] /\ cur'[u] = cur[u]
    BY <1>33, <1>0 DEF GiveUpConnect, At, Goto, QuietLabels, ClientLabels, PathsApart
  <2> QED
    BY <2>1, <2>2, QuietStep
<1>34. ASSUME NEW t \in Threads, TellFailure(t)
      PROVE  PathsApart' /\ SingleOwner'
  <2>1. KeepsServers
    BY <1>34, <1>0 DEF TellFailure, objVars, opVars, KeepsServers, accVars, InUse, Servers
  <2>2. /\ pc[t] \in QuietLabels /\ pc'[t] \in QuietLabels
        /\ pc'[t] \in ClientLabels => cur'[t] \in Clients
        /\ \A u \in Threads \ {t} : pc'[u] = pc[u] /\ cur'[u] = cur[u]
    BY <1>34, <1>0 DEF TellFailure, At, Goto, QuietLabels, ClientLabels, PathsApart
  <2> QED
    BY <2>1, <2>2, QuietStep
<1>35. ASSUME NEW s \in Sessions, SendMsg(s, last[s].id), AndNoMore
      PROVE  PathsApart' /\ SingleOwner'
  <2>1. KeepsServers
    BY <1>35, <1>0 DEF SendMsg, opVars, AndNoMore, KeepsServers, accVars, InUse, Servers
  <2>2. /\ pc[App] \in QuietLabels /\ pc'[App] \in QuietLabels
        /\ pc'[App] \in ClientLabels => cur'[App] \in Clients
        /\ \A u \in Threads \ {App} : pc'[u] = pc[u] /\ cur'[u] = cur[u]
    BY <1>35, <1>0 DEF SendMsg, Start, Goto, QuietLabels, ClientLabels, PathsApart
  <2> QED
    BY <2>1, <2>2, QuietStep
<1>36. ASSUME NEW s \in Sessions, AppClose(s, last[s].id), AndNoMore
      PROVE  PathsApart' /\ SingleOwner'
  <2>1. KeepsServers
    BY <1>36, <1>0 DEF AppClose, Shut, opVars, AndNoMore, KeepsServers, accVars, InUse, Servers
  <2>2. /\ pc[App] \in QuietLabels /\ pc'[App] \in QuietLabels
        /\ pc'[App] \in ClientLabels => cur'[App] \in Clients
        /\ \A u \in Threads \ {App} : pc'[u] = pc[u] /\ cur'[u] = cur[u]
    BY <1>36, <1>0 DEF AppClose, Start, Goto, QuietLabels, ClientLabels, PathsApart
  <2> QED
    BY <2>1, <2>2, QuietStep
<1>37. ASSUME NEW c \in Clients, ConnectTo(c)
      PROVE  PathsApart' /\ SingleOwner'
  <2>1. KeepsServers
    BY <1>37, <1>0 DEF ConnectTo, objVars, opVars, KeepsServers, accVars, InUse, Servers
  <2>2. /\ pc[App] \in QuietLabels /\ pc'[App] \in QuietLabels
        /\ pc'[App] \in ClientLabels => cur'[App] \in Clients
        /\ \A u \in Threads \ {App} : pc'[u] = pc[u] /\ cur'[u] = cur[u]
    BY <1>37, <1>0 DEF ConnectTo, Start, Goto, QuietLabels, ClientLabels, PathsApart
  <2> QED
    BY <2>1, <2>2, QuietStep
<1>38. ASSUME Dequeue
      PROVE  PathsApart' /\ SingleOwner'
  <2>1. KeepsServers /\ UNCHANGED <<pc, cur>>
    BY <1>38 DEF Dequeue, KeepsServers, accVars, sessVars, objVars, opVars, thrVars
  <2> QED
    BY <2>1, NoThreadMoves
<1>39. ASSUME Deliver
      PROVE  PathsApart' /\ SingleOwner'
  <2>1. KeepsServers /\ UNCHANGED <<pc, cur>>
    BY <1>39 DEF Deliver, KeepsServers, accVars, sessVars, objVars, opVars, thrVars
  <2> QED
    BY <2>1, NoThreadMoves
<1>40. ASSUME BeginShutdown
      PROVE  PathsApart' /\ SingleOwner'
  <2>1. KeepsServers /\ UNCHANGED <<pc, cur>>
    BY <1>40 DEF BeginShutdown, AdvanceShutdown, KeepsServers, accVars, sessVars, objVars, opVars, thrVars
  <2> QED
    BY <2>1, NoThreadMoves
<1>41. ASSUME DeleteAcceptor
      PROVE  PathsApart' /\ SingleOwner'
  <2>1. KeepsServers /\ UNCHANGED <<pc, cur>>
    BY <1>41 DEF DeleteAcceptor, AdvanceShutdown, KeepsServers, accVars, sessVars, objVars, opVars, thrVars
  <2> QED
    BY <2>1, NoThreadMoves
<1>42. ASSUME StopService
      PROVE  PathsApart' /\ SingleOwner'
  <2>1. KeepsServers /\ UNCHANGED <<pc, cur>>
    BY <1>42 DEF StopService, AdvanceShutdown, KeepsServers, accVars, sessVars, objVars, opVars, thrVars
  <2> QED
    BY <2>1, NoThreadMoves
<1>43. ASSUME JoinThreads
      PROVE  PathsApart' /\ SingleOwner'
  <2>1. KeepsServers /\ UNCHANGED <<pc, cur>>
    BY <1>43 DEF JoinThreads, AdvanceShutdown, KeepsServers, accVars, sessVars, objVars, opVars, thrVars
  <2> QED
    BY <2>1, NoThreadMoves
<1>44. CASE UNCHANGED vars
  <2>1. KeepsServers /\ UNCHANGED <<pc, cur>>
    BY <1>44 DEF vars, KeepsServers, accVars, sessVars, objVars, opVars, thrVars
  <2> QED
    BY <2>1, NoThreadMoves
<1>45. ASSUME NEW t \in Threads, PushInput(t), AndNoMore
      PROVE  PathsApart' /\ SingleOwner'
  <2>1. KeepsServers /\ UNCHANGED <<pc, cur>>
    BY <1>45 DEF PushInput, objVars, opVars, thrVars, AndNoMore, KeepsServers, accVars
  <2> QED
    BY <2>1, NoThreadMoves
<1>46. ASSUME NEW t \in Threads, CountAccept(t)
      PROVE  PathsApart' /\ SingleOwner'
  <2>1. Onward(t)
    BY <1>46, <1>0 DEF CountAccept, Onward, At, Goto, objVars, opVars
  <2> QED
    BY <2>1, OnwardOwner
<1> QED
  BY <1>1, <1>2, <1>3, <1>4, <1>5, <1>6, <1>7, <1>8, <1>9, <1>10, <1>11,
     <1>12, <1>13, <1>14, <1>15, <1>16, <1>17, <1>18, <1>19, <1>20, <1>21,
     <1>22, <1>23, <1>24, <1>25, <1>26, <1>27, <1>28, <1>29, <1>30, <1>31,
     <1>32, <1>33, <1>34, <1>35, <1>36, <1>37, <1>38, <1>39, <1>40, <1>41,
     <1>42, <1>43, <1>44, <1>45, <1>46
  DEF Next, Dispatch, Continue, Call, SessionDispatch, SessionContinue, AndNoMore

LEMMA OwnerInvariant == Spec => []OwnerInv
<1>1. Init => OwnerInv
  BY InitOwner
<1>2. OwnerInv /\ [Next]_vars => OwnerInv'
  BY NextType, NextOwner DEF OwnerInv
<1> QED
  BY <1>1, <1>2, PTL DEF Spec

(* A server session always has exactly one owner, and none is lost.        *)
THEOREM SingleOwnerCorrect == Spec => []SingleOwner
<1>1. OwnerInv => SingleOwner
  BY DEF OwnerInv
<1> QED
  BY <1>1, OwnerInvariant, PTL

(* Server and client sessions stay on their own paths.                     *)
THEOREM PathsApartCorrect == Spec => []PathsApart
<1>1. OwnerInv => PathsApart
  BY DEF OwnerInv
<1> QED
  BY <1>1, OwnerInvariant, PTL

-----------------------------------------------------------------------------
\* The steps that check a status, with the status they may find it in.
LEMMA NextComplaint ==
  OwnerInv /\ NoServerComplaint /\ [Next]_vars => NoServerComplaint'
<1> SUFFICES ASSUME OwnerInv, NoServerComplaint, [Next]_vars
             PROVE  complaints' = complaints
                    \/ \E c \in Clients, f \in Checks : complaints' = complaints \cup {<<f, c>>}
  BY DEF NoServerComplaint
<1> USE Basics
<1>1. ASSUME StartListen PROVE complaints' = complaints
  <2>1. available # <<>> /\ Len(available) \in Nat \ {0}
    BY <1>1, StackTop DEF StartListen, OwnerInv, TypeOK
  <2>2. status[Top] = "Init"
    BY <2>1 DEF Top, OwnerInv, SingleOwner, StackedOnce
  <2> QED
    BY <1>1, <2>2 DEF StartListen, Expect
<1>2. ASSUME NEW t \in Threads, PostAccept(t) PROVE complaints' = complaints
  <2>1. status[held[t]] = "Init"
    BY <1>2 DEF PostAccept, At, Carries, OwnerInv, PathsApart, SingleOwner, CarriedOnce
  <2> QED
    BY <1>2, <2>1 DEF PostAccept, Expect
<1>3. ASSUME NEW t \in IoThreads, NEW s \in Sessions, AcceptFails(t, s) PROVE complaints' = complaints
  <2>1. s \in Servers
    BY <1>3 DEF AcceptFails, OwnerInv, PathsApart, Servers
  <2>2. status[s] = "Accept"
    BY <1>3, <2>1 DEF AcceptFails, OwnerInv, SingleOwner, AcceptedOnce
  <2> QED
    BY <1>3, <2>2 DEF AcceptFails, Expect
<1>4. ASSUME NEW t \in IoThreads, NEW s \in Sessions, HandleClose(t, s)
      PROVE  complaints' = complaints \/ (s \in Clients /\ complaints' = complaints \cup {<<"reset", s>>})
  <2>1. s \in Servers => status[s] = "Close"
    BY <1>4 DEF HandleClose, OwnerInv, SingleOwner, ClosedOnce
  <2> QED
    BY <1>4, <2>1 DEF HandleClose, Reset, Expect, Servers
<1>5. ASSUME NEW t \in Threads, OpenSession(t)
      PROVE  \/ complaints' = complaints
             \/ cur[t] \in Clients /\ complaints' = complaints \cup {<<"connected", cur[t]>>}
  <2>1. cur[t] \in Servers => status[cur[t]] = "Accept"
    BY <1>5 DEF OpenSession, At, Opens, OwnerInv, SingleOwner, AcceptedOnce
  <2>2. cur[t] \in Sessions
    BY DEF OwnerInv, TypeOK, ThrTypeOK
  <2> QED
    BY <1>5, <2>1, <2>2 DEF OpenSession, Expect, Servers
<1>6. ASSUME NEW t \in Threads, WaitToReconnect(t) \/ StartConnect(t) \/ GiveUpConnect(t)
      PROVE  \/ complaints' = complaints
             \/ \E f \in Checks : cur[t] \in Clients /\ complaints' = complaints \cup {<<f, cur[t]>>}
  <2>1. cur[t] \in Clients
    BY <1>6 DEF WaitToReconnect, StartConnect, GiveUpConnect, At, OwnerInv, PathsApart
  <2> QED
    BY <1>6, <2>1 DEF WaitToReconnect, StartConnect, GiveUpConnect, Expect, Checks
<1>7. ASSUME NEW t \in IoThreads, NEW s \in Sessions, NEW n \in Serials,
             \/ ReadFails(t, s, n) \/ ReadSucceeds(t, s, n)
             \/ WriteFails(t, s, n) \/ WriteSucceeds(t, s, n)
      PROVE  complaints' = complaints
  BY <1>7 DEF ReadFails, ReadSucceeds, WriteFails, WriteSucceeds, msgVars
<1>8. ASSUME NEW t \in Threads,
             \/ Announce(t) \/ PushInput(t) \/ RejectInput(t) \/ TakeInput(t) \/ StartWrite(t)
             \/ WriteEnds(t) \/ RecheckStatus(t) \/ HandlerClose(t) \/ Release(t)
      PROVE  complaints' = complaints
  BY <1>8 DEF Announce, PushInput, RejectInput, TakeInput, StartWrite, WriteEnds, RecheckStatus,
              HandlerClose, Shut, Release, msgVars
<1>9. ASSUME NEW t \in Threads,
             \/ CheckListening(t) \/ TakeSession(t) \/ CountAccept(t) \/ AcceptorGone(t)
             \/ ReturnSession(t)
             \/ TellDisconnect(t) \/ MarkBusyAgain(t) \/ MarkBusy(t) \/ TellFailure(t)
      PROVE  complaints' = complaints
  BY <1>9 DEF CheckListening, TakeSession, CountAccept, AcceptorGone, ReturnSession, TellDisconnect,
              MarkBusyAgain, MarkBusy, TellFailure, msgVars, sessVars
<1>10. ASSUME NEW t \in IoThreads, NEW s \in Sessions, AcceptSucceeds(t, s)
       PROVE  complaints' = complaints
  BY <1>10 DEF AcceptSucceeds, msgVars
<1>11. ASSUME NEW t \in IoThreads, NEW c \in Clients,
              \/ HandleReconnect(t, c) \/ ConnectAgain(t, c)
              \/ ConnectFails(t, c) \/ ConnectSucceeds(t, c)
       PROVE  complaints' = complaints
  BY <1>11 DEF HandleReconnect, ConnectAgain, ConnectFails, ConnectSucceeds, msgVars, sessVars
<1>12. ASSUME NEW s \in Sessions, SendMsg(s, last[s].id) \/ AppClose(s, last[s].id)
       PROVE  complaints' = complaints
  BY <1>12 DEF SendMsg, AppClose, Shut, msgVars
<1>13. ASSUME NEW c \in Clients, ConnectTo(c) PROVE complaints' = complaints
  BY <1>13 DEF ConnectTo, msgVars
<1>14. CASE StartThreads \/ Dequeue \/ Deliver
  BY <1>14 DEF StartThreads, Dequeue, Deliver, msgVars, sessVars
<1>15. CASE BeginShutdown \/ DeleteAcceptor \/ StopService \/ JoinThreads
  BY <1>15 DEF BeginShutdown, DeleteAcceptor, StopService, JoinThreads, AdvanceShutdown,
               msgVars, sessVars
<1>16. CASE UNCHANGED vars
  BY <1>16 DEF vars, msgVars, sessVars
<1>17. "reset" \in Checks /\ "connected" \in Checks
  BY DEF Checks
<1>18. ASSUME NEW t \in IoThreads, Dispatch(t) PROVE complaints' = complaints
          \/ \E c \in Clients, f \in Checks : complaints' = complaints \cup {<<f, c>>}
  BY <1>3, <1>4, <1>7, <1>10, <1>11, <1>17, <1>18 DEF Dispatch, SessionDispatch
<1>19. ASSUME NEW t \in Threads, Continue(t) PROVE complaints' = complaints
          \/ \E c \in Clients, f \in Checks : complaints' = complaints \cup {<<f, c>>}
  BY <1>2, <1>5, <1>6, <1>8, <1>9, <1>17, <1>19 DEF Continue, SessionContinue
<1>20. CASE Call
  BY <1>12, <1>13, <1>14, <1>15, <1>20 DEF Call
<1> QED
  BY <1>1, <1>14, <1>15, <1>16, <1>18, <1>19, <1>20 DEF Next

(* No status error is ever logged for a server session.                    *)
THEOREM NoServerComplaintCorrect == Spec => []NoServerComplaint
<1>1. Init => NoServerComplaint
  BY DEF Init, SessionInit, NoServerComplaint
<1> QED
  BY <1>1, NextComplaint, OwnerInvariant, PTL DEF Spec

-----------------------------------------------------------------------------
\* Where the application's thread can be: never inside _post_accept()
AppLabels == {"idle", "write", "release", "connect_busy", "connect"}

\* Nobody runs before startup() has posted its accepts, and only io threads
\* come to take a session.
Aside ==
  /\ phase = "starting" => \A t \in Threads : pc[t] = "idle"
  /\ pc[App] \in AppLabels

-----------------------------------------------------------------------------
\* What the steps do to Aside: a handler starts on an io thread, ...
Starts == \/ UNCHANGED pc
          \/ \E t \in IoThreads, l \in Labels \ {"post"} : pc[t] = "idle" /\ Goto(t, l)

\* ... a thread goes on, or the application makes a call.
GoesOn(t) ==
  \E l \in Labels :
    /\ Goto(t, l)
    /\ pc[t] \in AppLabels => l \in AppLabels
    /\ l = "post" => CountAccept(t)
    /\ pc[t] = "post" => PostAccept(t)

LEMMA DispatchStarts ==
  ASSUME NEW t \in IoThreads, Dispatch(t)
  PROVE  Starts /\ UNCHANGED phase
<1> USE DEF Goto, Start, Labels
<1>1. ASSUME SessionDispatch(t), UNCHANGED appVars PROVE Starts /\ UNCHANGED phase
  BY <1>1 DEF SessionDispatch, ReadFails, ReadSucceeds, WriteFails, WriteSucceeds, Starts, appVars
<1>2. ASSUME NEW s \in Sessions, AcceptFails(t, s) \/ AcceptSucceeds(t, s) \/ HandleClose(t, s)
      PROVE  Starts /\ UNCHANGED phase
  BY <1>2 DEF AcceptFails, AcceptSucceeds, HandleClose, Starts, appVars
<1>3. ASSUME NEW c \in Clients, HandleReconnect(t, c) \/ ConnectAgain(t, c)
      PROVE  Starts /\ UNCHANGED phase
  BY <1>3 DEF HandleReconnect, ConnectAgain, Starts, sessVars, thrVars, appVars
<1>4. ASSUME NEW c \in Clients, ConnectFails(t, c) \/ ConnectSucceeds(t, c)
      PROVE  Starts /\ UNCHANGED phase
  BY <1>4 DEF ConnectFails, ConnectSucceeds, Starts
<1> QED
  BY <1>1, <1>2, <1>3, <1>4 DEF Dispatch

LEMMA ContinueGoesOn ==
  ASSUME NEW t \in Threads, Continue(t), TypeOK
  PROVE  /\ pc[t] # "idle"
         /\ \/ GoesOn(t) /\ UNCHANGED phase
            \/ UNCHANGED pc /\ phase' = "crashed"
<1> USE DEF Goto, At, Labels, AppLabels
<1>1. ASSUME SessionContinue(t), UNCHANGED appVars
      PROVE  pc[t] # "idle" /\ GoesOn(t) /\ UNCHANGED phase
  <2>1. CASE PushInput(t)
    <3>1. /\ pc[t] = "received" /\ UNCHANGED <<pc, phase>> /\ "received" \in Labels
          /\ pc \in [Threads -> Labels]
      BY <1>1, <2>1 DEF PushInput, thrVars, appVars, TypeOK, ThrTypeOK
    <3>2. pc' = [pc EXCEPT ![t] = "received"]
      BY <3>1
    <3> QED
      BY <3>1, <3>2 DEF GoesOn
  <2>2. CASE ~PushInput(t)
    BY <1>1, <2>2 DEF SessionContinue, OpenSession, Announce, RejectInput, TakeInput, StartWrite,
                      WriteEnds, RecheckStatus, HandlerClose, Release, GoesOn, appVars
  <2> QED
    BY <2>1, <2>2
<1>2. ASSUME CheckListening(t) \/ TakeSession(t) \/ CountAccept(t) \/ PostAccept(t)
      PROVE  pc[t] # "idle" /\ GoesOn(t) /\ UNCHANGED phase
  <2>1. resume[t] \in {"idle", "connected"}
    BY DEF TypeOK, AccTypeOK
  <2>2. \/ \E l \in {"idle", "connected", "take", "accept"} : Goto(t, l)
        \/ CountAccept(t) /\ Goto(t, "post")
    BY <1>2, <2>1 DEF CheckListening, TakeSession, CountAccept, PostAccept
  <2>3. /\ pc[t] \in {"check", "take", "accept"} \/ (pc[t] = "post" /\ PostAccept(t))
        /\ UNCHANGED phase
    BY <1>2 DEF CheckListening, TakeSession, CountAccept, PostAccept, appVars
  <2> QED
    BY <2>2, <2>3 DEF GoesOn
<1>3. CASE AcceptorGone(t)
  BY <1>3 DEF AcceptorGone, sessVars, thrVars
<1>4. ASSUME ReturnSession(t) \/ TellDisconnect(t) \/ MarkBusyAgain(t) \/ WaitToReconnect(t)
      PROVE  pc[t] # "idle" /\ GoesOn(t) /\ UNCHANGED phase
  <2>1. \E l \in {"idle", "return", "check", "rebusy", "reconnect"} : Goto(t, l)
    BY <1>4 DEF ReturnSession, TellDisconnect, AfterClose, MarkBusyAgain, WaitToReconnect
  <2>2. pc[t] \in {"return", "disconnect", "rebusy", "reconnect"} /\ UNCHANGED phase
    BY <1>4 DEF ReturnSession, TellDisconnect, MarkBusyAgain, WaitToReconnect, appVars
  <2> QED
    BY <2>1, <2>2 DEF GoesOn
<1>5. ASSUME MarkBusy(t) \/ StartConnect(t) \/ GiveUpConnect(t) \/ TellFailure(t)
      PROVE  pc[t] # "idle" /\ GoesOn(t) /\ UNCHANGED phase
  <2>1. \/ Goto(t, "connect") \/ Goto(t, "idle")
        \/ pc[t] = "connect_failed" /\ Goto(t, "tell_failure")
    BY <1>5 DEF MarkBusy, StartConnect, GiveUpConnect, TellFailure
  <2>2. /\ pc[t] \in {"connect_busy", "connect", "connect_failed", "tell_failure"}
        /\ UNCHANGED phase
    BY <1>5 DEF MarkBusy, StartConnect, GiveUpConnect, TellFailure, appVars
  <2> QED
    BY <2>1, <2>2 DEF GoesOn
<1> QED
  BY <1>1, <1>2, <1>3, <1>4, <1>5 DEF Continue

LEMMA NextAside == TypeOK /\ Aside /\ [Next]_vars => Aside'
<1> SUFFICES ASSUME TypeOK, Aside, [Next]_vars PROVE Aside'
  OBVIOUS
<1> USE Basics, SessionConstants
<1>1. pc \in [Threads -> Labels]
  BY DEF TypeOK, ThrTypeOK
<1>2. CASE StartListen
  BY <1>2 DEF StartListen, Aside, thrVars, appVars
<1>3. CASE StartThreads
  BY <1>3 DEF StartThreads, Aside, sessVars, thrVars
<1>4. ASSUME Serving, NEW t \in IoThreads, Dispatch(t) PROVE Aside'
  <2>1. Starts /\ UNCHANGED phase /\ phase # "starting"
    BY <1>4, DispatchStarts DEF Serving
  <2> QED
    BY <1>1, <2>1 DEF Starts, Goto, Aside
<1>5. ASSUME NEW t \in Threads, Continue(t) PROVE Aside'
  BY <1>1, <1>5, ContinueGoesOn DEF GoesOn, Goto, Aside
<1>6. CASE phase = "running" /\ Call
  <2>1. /\ phase' # "starting"
        /\ UNCHANGED pc \/ \E l \in AppLabels : Goto(App, l)
    BY <1>6 DEF Call, SendMsg, AppClose, ConnectTo, Dequeue, Deliver, BeginShutdown, AdvanceShutdown,
                Start, AppLabels, sessVars, thrVars, appVars
  <2> QED
    BY <1>1, <2>1 DEF Goto, Aside
<1>7. CASE DeleteAcceptor \/ StopService \/ JoinThreads
  BY <1>7 DEF DeleteAcceptor, StopService, JoinThreads, AdvanceShutdown, Aside, sessVars, thrVars
<1>8. CASE UNCHANGED vars
  BY <1>8 DEF vars, Aside, sessVars, thrVars, appVars
<1> QED
  BY <1>2, <1>3, <1>4, <1>5, <1>6, <1>7, <1>8 DEF Next

LEMMA AsideInvariant == Spec => []Aside
<1>1. Init => Aside
  BY Basics DEF Init, SessionInit, Aside, AppLabels
<1> QED
  BY <1>1, NextAside, TypeCorrect, PTL DEF Spec

-----------------------------------------------------------------------------
\* An accept is posted on h, or the one posted on h is completed.
PostsOn(h) == acceptOps[h] = 0 /\ acceptOps' = [acceptOps EXCEPT ![h] = 1]

EndsOn(h) == acceptOps[h] = 1 /\ acceptOps' = [acceptOps EXCEPT ![h] = 0]

\* Only counting an accept, and posting it, move a thread to "post" or from it.
LEMMA PostingSteps ==
  ASSUME TypeOK, [Next]_vars, \A t \in Threads : ~CountAccept(t) /\ ~PostAccept(t)
  PROVE  Posting' = Posting
<1> USE Basics
<1>1. pc \in [Threads -> Labels]
  BY DEF TypeOK, ThrTypeOK
<1>2. UNCHANGED pc => Posting' = Posting
  BY DEF Posting
<1>3. ASSUME NEW t \in Threads, NEW l, pc[t] # "post", l # "post", Goto(t, l)
      PROVE  Posting' = Posting
  BY <1>1, <1>3 DEF Goto, Posting
<1>4. ASSUME NEW t \in IoThreads, Dispatch(t) PROVE Posting' = Posting
  BY <1>2, <1>3, <1>4, DispatchStarts DEF Starts
<1>5. ASSUME NEW t \in Threads, Continue(t) PROVE Posting' = Posting
  BY <1>2, <1>3, <1>5, ContinueGoesOn DEF GoesOn
<1>6. CASE Call
  <2>1. UNCHANGED pc \/ (pc[App] = "idle" /\ \E l \in AppLabels : Goto(App, l))
    BY <1>6 DEF Call, SendMsg, AppClose, ConnectTo, Dequeue, Deliver, BeginShutdown, AdvanceShutdown,
                Start, AppLabels, sessVars, thrVars
  <2> QED
    BY <1>2, <1>3, <2>1 DEF AppLabels
<1>7. CASE StartListen \/ StartThreads \/ DeleteAcceptor \/ StopService \/ JoinThreads \/ UNCHANGED vars
  BY <1>2, <1>7 DEF StartListen, StartThreads, DeleteAcceptor, StopService, JoinThreads,
                    AdvanceShutdown, vars, sessVars, thrVars
<1> QED
  BY <1>4, <1>5, <1>6, <1>7 DEF Next

LEMMA AcceptSteps ==
  ASSUME OwnerInv, [Next]_vars, \A t \in Threads : ~CountAccept(t) /\ ~PostAccept(t)
  PROVE  \/ UNCHANGED <<listening, acceptOps>>
         \/ \E h \in Sessions : PostsOn(h) /\ listening' = listening + 1
         \/ \E h \in Sessions : EndsOn(h) /\ listening' = listening - 1
<1> USE Basics
<1>1. ASSUME StartListen PROVE PostsOn(Top) /\ Top \in Sessions /\ listening' = listening + 1
  <2>1. available # <<>> /\ Len(available) \in Nat \ {0} /\ Top \in Sessions
    BY <1>1, StackTop DEF StartListen, OwnerInv, TypeOK
  <2>2. Top \in Servers /\ status[Top] = "Init"
    BY <2>1 DEF Top, OwnerInv, PathsApart, SingleOwner, StackedOnce
  <2>3. acceptOps[Top] = 0
    BY <2>2 DEF OwnerInv, SingleOwner, AcceptedOnce
  <2> QED
    BY <1>1, <2>1, <2>3 DEF StartListen, PostsOn
<1>3. ASSUME NEW t \in IoThreads, NEW s \in Sessions, AcceptFails(t, s) \/ AcceptSucceeds(t, s)
      PROVE  EndsOn(s) /\ listening' = listening - 1
  <2>1. s \in Servers
    BY <1>3 DEF AcceptFails, AcceptSucceeds, OwnerInv, PathsApart, Servers
  <2>2. acceptOps[s] = 1
    BY <1>3, <2>1 DEF AcceptFails, AcceptSucceeds, OwnerInv, SingleOwner, AcceptedOnce
  <2> QED
    BY <1>3, <2>2 DEF AcceptFails, AcceptSucceeds, EndsOn
<1> DEFINE Same == UNCHANGED <<listening, acceptOps>>
<1>4. CASE UNCHANGED accVars
  BY <1>4 DEF accVars
<1>5. ASSUME NEW t \in IoThreads, NEW s \in Sessions, HandleClose(t, s) PROVE UNCHANGED accVars
  BY <1>5 DEF HandleClose
<1>6. ASSUME NEW t \in IoThreads, NEW c \in Clients,
             \/ HandleReconnect(t, c) \/ ConnectAgain(t, c)
             \/ ConnectFails(t, c) \/ ConnectSucceeds(t, c)
      PROVE  UNCHANGED accVars
  BY <1>6 DEF HandleReconnect, ConnectAgain, ConnectFails, ConnectSucceeds
<1>7. ASSUME NEW t \in Threads, TakeSession(t) \/ ReturnSession(t) PROVE Same
  BY <1>7 DEF TakeSession, ReturnSession
<1>8. ASSUME NEW t \in Threads,
             \/ CheckListening(t) \/ AcceptorGone(t) \/ TellDisconnect(t) \/ MarkBusyAgain(t)
             \/ WaitToReconnect(t) \/ MarkBusy(t) \/ StartConnect(t) \/ GiveUpConnect(t)
             \/ TellFailure(t)
      PROVE  UNCHANGED accVars
  BY <1>8 DEF CheckListening, AcceptorGone, TellDisconnect, MarkBusyAgain, WaitToReconnect,
              MarkBusy, StartConnect, GiveUpConnect, TellFailure
<1>9. ASSUME NEW c \in Clients, ConnectTo(c) PROVE UNCHANGED accVars
  BY <1>9 DEF ConnectTo
<1>10. CASE StartThreads \/ Dequeue \/ Deliver
  BY <1>4, <1>10 DEF StartThreads, Dequeue, Deliver
<1>11. CASE BeginShutdown \/ DeleteAcceptor \/ StopService \/ JoinThreads
  BY <1>4, <1>11 DEF BeginShutdown, DeleteAcceptor, StopService, JoinThreads, AdvanceShutdown
<1>12. CASE UNCHANGED vars
  BY <1>4, <1>12 DEF vars
<1>13. ASSUME NEW t \in IoThreads, Dispatch(t)
       PROVE  Same \/ \E h \in Sessions : EndsOn(h) /\ listening' = listening - 1
  BY <1>3, <1>5, <1>6, <1>13 DEF Dispatch, accVars
<1>14. ASSUME NEW t \in Threads, Continue(t) PROVE Same
  BY <1>7, <1>8, <1>14 DEF Continue, accVars
<1>15. CASE Call
  BY <1>4, <1>9, <1>10, <1>11, <1>15 DEF Call
<1> QED
  BY <1>1, <1>10, <1>11, <1>12, <1>13, <1>14, <1>15 DEF Next

Accepting == {s \in Sessions : acceptOps[s] > 0}

\* One more session has an accept outstanding, or one less.
LEMMA AcceptsChange ==
  ASSUME TypeOK, NEW h \in Sessions
  PROVE  /\ Cardinality(Accepting) \in Nat
         /\ PostsOn(h) => Cardinality(Accepting') = Cardinality(Accepting) + 1
         /\ EndsOn(h) => Cardinality(Accepting') = Cardinality(Accepting) - 1
<1>1. acceptOps \in [Sessions -> Nat]
  BY DEF TypeOK, AccTypeOK
<1>2. IsFiniteSet(Accepting)
  <2>1. MaxSession - 1 \in Int
    BY SessionConstants
  <2>2. IsFiniteSet(Sessions)
    BY <2>1, FS_Interval DEF Sessions
  <2> QED
    BY <2>2, FS_Subset DEF Accepting
<1>3. ASSUME PostsOn(h) PROVE Cardinality(Accepting') = Cardinality(Accepting) + 1
  <2>1. Accepting' = Accepting \cup {h} /\ h \notin Accepting
    BY <1>1, <1>3 DEF PostsOn, Accepting
  <2> QED
    BY <1>2, <2>1, FS_AddElement
<1>4. ASSUME EndsOn(h) PROVE Cardinality(Accepting') = Cardinality(Accepting) - 1
  <2>1. Accepting' = Accepting \ {h} /\ h \in Accepting
    BY <1>1, <1>4 DEF EndsOn, Accepting
  <2> QED
    BY <1>2, <2>1, FS_RemoveElement
<1> QED
  BY <1>2, <1>3, <1>4, FS_CardinalityType

LEMMA NextListening ==
  ASSUME IsFiniteSet(IoThreads)
  PROVE  OwnerInv /\ ListeningExact /\ [Next]_vars => ListeningExact'
<1> SUFFICES ASSUME OwnerInv, ListeningExact, [Next]_vars PROVE ListeningExact'
  OBVIOUS
<1> DEFINE n == Cardinality(Accepting)
           m == Cardinality(Posting)
<1>1. /\ listening \in Int /\ 0 \in Sessions
      /\ pc \in [Threads -> Labels] /\ held \in [Threads -> Sessions]
  BY Basics DEF OwnerInv, TypeOK, AccTypeOK, ThrTypeOK
<1>2. n \in Nat /\ listening = n + m
  BY <1>1, AcceptsChange DEF OwnerInv, ListeningExact, Accepting
<1>3. IsFiniteSet(Posting) /\ m \in Nat
  <2>1. IsFiniteSet(Threads)
    BY FS_AddElement DEF Threads
  <2> QED
    BY <2>1, FS_Subset, FS_CardinalityType DEF Posting
<1>4. SUFFICES listening' = Cardinality(Accepting') + Cardinality(Posting')
  BY DEF ListeningExact, Accepting
<1> HIDE DEF n, m
<1>5. ASSUME NEW t \in Threads, CountAccept(t) PROVE listening' = Cardinality(Accepting') + Cardinality(Posting')
  <2>1. /\ pc[t] = "accept" /\ pc' = [pc EXCEPT ![t] = "post"]
        /\ listening' = listening + 1 /\ acceptOps' = acceptOps
    BY <1>5 DEF CountAccept, At, Goto
  <2>2. Posting' = Posting \cup {t} /\ t \notin Posting
    BY <1>1, <2>1 DEF Posting
  <2>3. Cardinality(Posting') = m + 1
    BY <1>3, <2>2, FS_AddElement DEF m
  <2>4. Cardinality(Accepting') = n
    BY <2>1 DEF Accepting, n
  <2> QED
    BY <1>1, <1>2, <1>3, <2>1, <2>3, <2>4
<1>6. ASSUME NEW t \in Threads, PostAccept(t) PROVE listening' = Cardinality(Accepting') + Cardinality(Posting')
  <2>1. held[t] \in Servers /\ status[held[t]] = "Init"
    BY <1>6 DEF PostAccept, At, Carries, OwnerInv, PathsApart, SingleOwner, CarriedOnce
  <2>2. acceptOps[held[t]] = 0
    BY <2>1 DEF OwnerInv, SingleOwner, AcceptedOnce
  <2>3. PostsOn(held[t]) /\ listening' = listening
    BY <1>6, <2>2 DEF PostAccept, PostsOn
  <2>4. Cardinality(Accepting') = n + 1
    BY <1>1, <2>3, AcceptsChange DEF OwnerInv, n
  <2>5. pc[t] = "post" /\ pc' = [pc EXCEPT ![t] = resume[t]] /\ resume[t] # "post"
    BY <1>6 DEF PostAccept, At, Goto, OwnerInv, TypeOK, AccTypeOK
  <2>6. Posting' = Posting \ {t} /\ t \in Posting
    BY <1>1, <2>5 DEF Posting
  <2>7. Cardinality(Posting') = m - 1
    BY <1>3, <2>6, FS_RemoveElement DEF m
  <2> QED
    BY <1>1, <1>2, <1>3, <2>3, <2>4, <2>7
<1>7. ASSUME \A t \in Threads : ~CountAccept(t) /\ ~PostAccept(t)
      PROVE  listening' = Cardinality(Accepting') + Cardinality(Posting')
  <2>1. Cardinality(Posting') = m
    BY <1>7, PostingSteps DEF OwnerInv, m
  <2>2. CASE UNCHANGED <<listening, acceptOps>>
    BY <1>2, <2>1, <2>2 DEF Accepting, n
  <2>3. ASSUME NEW h \in Sessions, PostsOn(h), listening' = listening + 1
        PROVE  listening' = Cardinality(Accepting') + Cardinality(Posting')
    <3>1. Cardinality(Accepting') = n + 1
      BY <2>3, AcceptsChange DEF OwnerInv, n
    <3> QED
      BY <1>1, <1>2, <1>3, <2>1, <2>3, <3>1
  <2>4. ASSUME NEW h \in Sessions, EndsOn(h), listening' = listening - 1
        PROVE  listening' = Cardinality(Accepting') + Cardinality(Posting')
    <3>1. Cardinality(Accepting') = n - 1
      BY <2>4, AcceptsChange DEF OwnerInv, n
    <3> QED
      BY <1>1, <1>2, <1>3, <2>1, <2>4, <3>1
  <2> QED
    BY <1>7, <2>2, <2>3, <2>4, AcceptSteps
<1> QED
  BY <1>5, <1>6, <1>7

(* m_listening_num counts the accepts outstanding or about to be posted,   *)
(* so it is never negative and accepting stops only when it is meant to.   *)
THEOREM ListeningExactCorrect ==
  ASSUME IsFiniteSet(IoThreads) PROVE Spec => []ListeningExact
<1>1. Init => ListeningExact
  <2> SUFFICES ASSUME Init PROVE ListeningExact
    OBVIOUS
  <2>1. {s \in Sessions : acceptOps[s] > 0} = {} /\ Posting = {}
    BY DEF Init, SessionInit, Posting
  <2>2. Cardinality({s \in Sessions : acceptOps[s] > 0}) = 0 /\ Cardinality(Posting) = 0
    BY <2>1, FS_EmptySet
  <2>3. listening = 0
    BY DEF Init
  <2> QED
    BY <2>2, <2>3 DEF ListeningExact
<1>2. OwnerInv /\ ListeningExact /\ [Next]_vars => ListeningExact'
  BY NextListening
<1> QED
  BY <1>1, <1>2, OwnerInvariant, PTL DEF Spec

-----------------------------------------------------------------------------
(* What the steps do to the count of accepts, and to the threads that are  *)
(* to raise it: they do not raise it, ...                                  *)
Falls == listening' <= listening /\ Taking' \subseteq Taking

\* ... a thread finds that there is room, ...
Finds == listening' = listening /\ listening < ListenMax

\* ... startup() or a thread posts an accept.
Begins == listening < ListenMax /\ listening' = listening + 1 /\ Taking' = {}

Posts == \E t \in Taking : listening' = listening + 1 /\ Taking' \subseteq Taking \ {t}

\* A thread that goes elsewhere than to take a session leaves Taking smaller.
LEMMA Elsewhere ==
  ASSUME ThrTypeOK, NEW t \in Threads, NEW l, l \notin {"take", "accept"}, Goto(t, l)
  PROVE  Taking' \subseteq Taking \ {t}
BY DEF ThrTypeOK, Goto, Taking

LEMMA DispatchFalls ==
  ASSUME OwnerInv, NEW t \in IoThreads, Dispatch(t) PROVE Falls
<1> USE Basics DEF Start, accVars
<1>1. ThrTypeOK /\ listening \in Int
  BY DEF OwnerInv, TypeOK, AccTypeOK
<1>2. UNCHANGED pc => Taking' = Taking
  BY DEF Taking
<1>3. ASSUME SessionDispatch(t), UNCHANGED accVars PROVE Falls
  BY <1>1, <1>3, Elsewhere DEF SessionDispatch, ReadFails, ReadSucceeds, WriteFails, WriteSucceeds,
                               Falls
<1>4. ASSUME NEW s \in Sessions, AcceptFails(t, s) \/ AcceptSucceeds(t, s) \/ HandleClose(t, s)
      PROVE  Falls
  BY <1>1, <1>4, Elsewhere DEF AcceptFails, AcceptSucceeds, HandleClose, Falls
<1>5. ASSUME NEW c \in Clients, HandleReconnect(t, c) \/ ConnectAgain(t, c) PROVE Falls
  BY <1>1, <1>2, <1>5 DEF HandleReconnect, ConnectAgain, Falls, sessVars, thrVars
<1>6. ASSUME NEW c \in Clients, ConnectFails(t, c) \/ ConnectSucceeds(t, c) PROVE Falls
  BY <1>1, <1>6, Elsewhere DEF ConnectFails, ConnectSucceeds, Falls
<1> QED
  BY <1>3, <1>4, <1>5, <1>6 DEF Dispatch

LEMMA ContinueCounts ==
  ASSUME OwnerInv, NEW t \in Threads, Continue(t) PROVE Falls \/ Finds \/ Posts
<1> USE DEF At, accVars
<1>1. ThrTypeOK /\ listening \in Int /\ ListenMax \in Nat
  BY ManagerConstants DEF OwnerInv, TypeOK, AccTypeOK
<1>2. resume[t] \in {"idle", "connected"}
  BY DEF OwnerInv, TypeOK, AccTypeOK
<1>3. ASSUME SessionContinue(t), UNCHANGED accVars PROVE Falls
  <2>1. CASE PushInput(t)
    BY <1>1, <1>3, <2>1 DEF PushInput, thrVars, Taking, Falls
  <2>2. CASE ~PushInput(t)
    BY <1>1, <1>3, <2>2, Elsewhere DEF SessionContinue, OpenSession, Announce, RejectInput,
       TakeInput, StartWrite, WriteEnds, RecheckStatus, HandlerClose, Release, Falls
  <2> QED
    BY <2>1, <2>2
<1>4. CASE CheckListening(t)
  <2>1. CASE EnoughAccepts
    BY <1>1, <1>2, <1>4, <2>1, Elsewhere DEF CheckListening, Falls
  <2>2. CASE ~EnoughAccepts
    BY <1>1, <1>4, <2>2 DEF CheckListening, EnoughAccepts, Finds
  <2> QED
    BY <2>1, <2>2
<1>5. CASE TakeSession(t)
  <2>1. t \in Taking /\ UNCHANGED listening
    BY <1>5 DEF TakeSession, Taking
  <2>2. Taking' \subseteq Taking \cup {t}
    BY <1>1, <1>5 DEF TakeSession, Goto, ThrTypeOK, Taking
  <2> QED
    BY <1>1, <2>1, <2>2 DEF Falls
<1>6. CASE CountAccept(t)
  BY <1>1, <1>6, Elsewhere DEF CountAccept, Taking, Posts
<1>10. CASE PostAccept(t)
  BY <1>1, <1>2, <1>10, Elsewhere DEF PostAccept, Falls
<1>7. CASE AcceptorGone(t)
  BY <1>1, <1>7 DEF AcceptorGone, sessVars, thrVars, Taking, Falls
<1>8. CASE ReturnSession(t) \/ TellDisconnect(t) \/ MarkBusyAgain(t) \/ WaitToReconnect(t)
  BY <1>1, <1>8, Elsewhere DEF ReturnSession, TellDisconnect, AfterClose, MarkBusyAgain,
                               WaitToReconnect, Falls
<1>9. CASE MarkBusy(t) \/ StartConnect(t) \/ GiveUpConnect(t) \/ TellFailure(t)
  BY <1>1, <1>9, Elsewhere DEF MarkBusy, StartConnect, GiveUpConnect, TellFailure, Falls
<1> QED
  BY <1>3, <1>4, <1>5, <1>6, <1>7, <1>8, <1>9, <1>10 DEF Continue

LEMMA CountSteps ==
  ASSUME OwnerInv, Aside, [Next]_vars PROVE Falls \/ Finds \/ Begins \/ Posts
<1>1. ThrTypeOK /\ listening \in Int
  BY DEF OwnerInv, TypeOK, AccTypeOK
<1>2. ASSUME UNCHANGED <<pc, listening>> PROVE Falls
  BY <1>1, <1>2 DEF Falls, Taking
<1>3. CASE StartListen
  BY <1>3 DEF StartListen, Aside, Taking, Begins, thrVars
<1>4. CASE phase = "running" /\ Call
  <2>1. UNCHANGED listening
    BY <1>4 DEF Call, ConnectTo, Dequeue, Deliver, BeginShutdown, AdvanceShutdown, accVars
  <2>2. UNCHANGED pc \/ Goto(App, "write") \/ Goto(App, "release") \/ Goto(App, "connect_busy")
    BY <1>4 DEF Call, SendMsg, AppClose, ConnectTo, Dequeue, Deliver, BeginShutdown,
                AdvanceShutdown, Start, sessVars, thrVars
  <2> QED
    BY <1>1, <1>2, <2>1, <2>2, Basics, Elsewhere DEF Falls
<1>5. CASE StartThreads \/ DeleteAcceptor \/ StopService \/ JoinThreads \/ UNCHANGED vars
  BY <1>2, <1>5 DEF StartThreads, DeleteAcceptor, StopService, JoinThreads, AdvanceShutdown, vars,
                    sessVars, thrVars, accVars
<1> QED
  BY <1>3, <1>4, <1>5, DispatchFalls, ContinueCounts DEF Next

-----------------------------------------------------------------------------
LEMMA NextBound ==
  ASSUME IsFiniteSet(IoThreads), IoThreads # {}
  PROVE  OwnerInv /\ Aside /\ Aside' /\ ListenBound /\ [Next]_vars => ListenBound'
<1> SUFFICES ASSUME OwnerInv, Aside, Aside', ListenBound, [Next]_vars PROVE ListenBound'
  OBVIOUS
<1> DEFINE N == Cardinality(IoThreads)
<1>1. N \in Nat /\ N > 0 /\ listening \in Int /\ ListenMax \in Nat
  BY FS_CardinalityType, FS_EmptySet, ManagerConstants DEF OwnerInv, TypeOK, AccTypeOK
<1>2. Taking \subseteq IoThreads /\ Taking' \subseteq IoThreads
  BY DEF Aside, AppLabels, Taking, Threads
<1>3. /\ IsFiniteSet(Taking) /\ Cardinality(Taking) \in 0..N
      /\ IsFiniteSet(Taking') /\ Cardinality(Taking') \in 0..N
  BY <1>1, <1>2, FS_Subset, FS_CardinalityType
<1>4. listening + Cardinality(Taking) <= ListenMax + N - 1
  BY DEF ListenBound
<1> SUFFICES listening' + Cardinality(Taking') <= ListenMax + N - 1
  BY DEF ListenBound
<1> HIDE DEF N
<1>5. CASE Falls
  <2>1. Cardinality(Taking') <= Cardinality(Taking) /\ listening' <= listening
    BY <1>3, <1>5, FS_Subset DEF Falls
  <2>2. listening' \in Int
    BY NextType DEF OwnerInv, TypeOK, AccTypeOK
  <2> QED
    BY <1>1, <1>3, <1>4, <2>1, <2>2
<1>6. CASE Finds
  BY <1>1, <1>3, <1>6 DEF Finds
<1>7. CASE Begins
  BY <1>1, <1>7, FS_EmptySet DEF Begins
<1>8. CASE Posts
  <2>1. PICK t \in Taking : listening' = listening + 1 /\ Taking' \subseteq Taking \ {t}
    BY <1>8 DEF Posts
  <2>2. IsFiniteSet(Taking \ {t}) /\ Cardinality(Taking \ {t}) = Cardinality(Taking) - 1
    BY <1>3, <2>1, FS_RemoveElement
  <2>3. Cardinality(Taking') <= Cardinality(Taking) - 1
    BY <2>1, <2>2, FS_Subset
  <2> QED
    BY <1>1, <1>3, <1>4, <2>1, <2>3
<1> QED
  BY <1>5, <1>6, <1>7, <1>8, CountSteps

(* The accepts outstanding exceed m_listening_max by one less than there   *)
(* are io threads, at most, although _post_accept() checks and counts in   *)
(* separate steps (cnet_mgr.cpp:424).                                      *)
THEOREM ListenBoundCorrect ==
  ASSUME IsFiniteSet(IoThreads), IoThreads # {}
  PROVE  Spec => []ListenBound
<1>1. Init => ListenBound
  <2> SUFFICES ASSUME Init PROVE ListenBound
    OBVIOUS
  <2>1. Taking = {}
    BY DEF Init, SessionInit, Taking
  <2>2. Cardinality(IoThreads) \in Nat /\ Cardinality(IoThreads) > 0
    BY FS_CardinalityType, FS_EmptySet
  <2> QED
    BY <2>1, <2>2, FS_EmptySet, ManagerConstants DEF Init, ListenBound
<1>2. OwnerInv /\ Aside /\ Aside' /\ ListenBound /\ [Next]_vars => ListenBound'
  BY NextBound
<1> QED
  BY <1>1, <1>2, OwnerInvariant, AsideInvariant, PTL DEF Spec
-----------------------------------------------------------------------------
(* The accepts that are missing: how a step changes the numbers of threads *)
(* that will look whether to post one, that will count one, and that return*)
(* a session.                                                              *)
Counts(l, labels) == IF l \in labels THEN 1 ELSE 0

LEMMA Moved ==
  ASSUME IsFiniteSet(Threads), ThrTypeOK, NEW t \in Threads, NEW l, Goto(t, l), NEW labels
  PROVE  /\ Cardinality({u \in Threads : pc[u] \in labels}) \in Nat
         /\ Cardinality({u \in Threads : pc'[u] \in labels})
              = Cardinality({u \in Threads : pc[u] \in labels})
                + Counts(l, labels) - Counts(pc[t], labels)
<1> DEFINE before == {u \in Threads : pc[u] \in labels}
           after  == {u \in Threads : pc'[u] \in labels}
           others == before \ {t}
<1>1. IsFiniteSet(before) /\ IsFiniteSet(after) /\ IsFiniteSet(others)
  BY FS_Subset
<1>2. Cardinality(before) \in Nat /\ Cardinality(others) \in Nat
  BY <1>1, FS_CardinalityType
<1>3. Cardinality(before) = Cardinality(others) + Counts(pc[t], labels)
  <2>1. CASE t \in before
    <3>1. Cardinality(others) = Cardinality(before) - 1
      BY <1>1, <2>1, FS_RemoveElement
    <3> QED
      BY <1>2, <2>1, <3>1 DEF Counts
  <2>2. CASE t \notin before
    <3>1. others = before
      BY <2>2
    <3> QED
      BY <1>2, <2>2, <3>1 DEF Counts
  <2> QED
    BY <2>1, <2>2
<1>4. Cardinality(after) = Cardinality(others) + Counts(l, labels)
  <2>1. pc'[t] = l /\ after \ {t} = others
    BY DEF ThrTypeOK, Goto
  <2>2. CASE l \in labels
    <3>1. after = others \cup {t} /\ t \notin others
      BY <2>1, <2>2
    <3>2. Cardinality(after) = Cardinality(others) + 1
      BY <1>1, <3>1, FS_AddElement
    <3> QED
      BY <2>2, <3>2 DEF Counts
  <2>3. CASE l \notin labels
    <3>1. Cardinality(after) = Cardinality(others)
      BY <2>1, <2>3
    <3>2. Counts(l, labels) = 0
      BY <2>3 DEF Counts
    <3> HIDE DEF after, others
    <3> QED
      BY <1>2, <3>1, <3>2
  <2> QED
    BY <2>2, <2>3
<1> HIDE DEF before, after, others
<1>5. Counts(pc[t], labels) \in {0, 1} /\ Counts(l, labels) \in {0, 1}
  BY DEF Counts
<1>6. Cardinality(after) = Cardinality(before) + Counts(l, labels) - Counts(pc[t], labels)
  BY <1>2, <1>3, <1>4, <1>5
<1> QED
  BY <1>2, <1>6 DEF before, after

Looking == {"return", "check", "take"}

LEMMA Shifted ==
  ASSUME IsFiniteSet(Threads), ThrTypeOK, NEW t \in Threads, NEW l, Goto(t, l)
  PROVE  /\ Cardinality(Pending') = Cardinality(Pending) + Counts(l, Looking) - Counts(pc[t], Looking)
         /\ Cardinality(Counting') = Cardinality(Counting) + Counts(l, {"accept"}) - Counts(pc[t], {"accept"})
         /\ Cardinality(Returning')
              = Cardinality(Returning) + Counts(l, {"return"}) - Counts(pc[t], {"return"})
<1>1. Pending = {u \in Threads : pc[u] \in Looking} /\ Pending' = {u \in Threads : pc'[u] \in Looking}
  BY DEF Pending, Looking
<1>2. /\ Counting = {u \in Threads : pc[u] \in {"accept"}}
      /\ Counting' = {u \in Threads : pc'[u] \in {"accept"}}
  BY DEF Counting
<1>3. /\ Returning = {u \in Threads : pc[u] \in {"return"}}
      /\ Returning' = {u \in Threads : pc'[u] \in {"return"}}
  BY DEF Returning
<1> QED
  BY <1>1, <1>2, <1>3, Moved

LEMMA Sizes ==
  ASSUME IsFiniteSet(Threads)
  PROVE  /\ Cardinality(Pending) \in Nat /\ Cardinality(Counting) \in Nat
         /\ Cardinality(Returning) \in Nat /\ Cardinality(Returning) <= Cardinality(Pending)
<1>1. IsFiniteSet(Pending) /\ IsFiniteSet(Counting) /\ IsFiniteSet(Returning)
  BY FS_Subset DEF Pending, Counting, Returning
<1>2. Returning \subseteq Pending
  BY DEF Returning, Pending
<1> QED
  BY <1>1, <1>2, FS_Subset, FS_CardinalityType

-----------------------------------------------------------------------------
\* Most steps move no thread into _post_accept(), through it or out of it.
Doors == {"return", "check", "take", "accept"}

Quiet == /\ UNCHANGED <<listening, available>>
         /\ \/ UNCHANGED pc
            \/ \E t \in Threads, l \in Labels \ Doors : pc[t] \notin Doors /\ Goto(t, l)

\* AcceptsRefilled, but for the phase
Refilled == Lesser(ListenMax - listening - Cardinality(Counting),
                   Len(available) + Cardinality(Returning))
              <= Cardinality(Pending)

LEMMA QuietKeeps ==
  ASSUME IsFiniteSet(Threads), ThrTypeOK, Refilled, Quiet PROVE Refilled'
<1>1. CASE UNCHANGED pc
  BY <1>1 DEF Quiet, Refilled, Counting, Pending, Returning
<1>2. ASSUME NEW t \in Threads, NEW l \in Labels \ Doors, pc[t] \notin Doors, Goto(t, l)
      PROVE  Refilled'
  <2>1. /\ Counts(l, Looking) = 0 /\ Counts(l, {"accept"}) = 0 /\ Counts(l, {"return"}) = 0
        /\ Counts(pc[t], Looking) = 0 /\ Counts(pc[t], {"accept"}) = 0
        /\ Counts(pc[t], {"return"}) = 0
    BY <1>2 DEF Counts, Looking, Doors
  <2>2. /\ Cardinality(Pending') = Cardinality(Pending)
        /\ Cardinality(Counting') = Cardinality(Counting)
        /\ Cardinality(Returning') = Cardinality(Returning)
    BY <1>2, <2>1, Shifted, Sizes
  <2> QED
    BY <2>2 DEF Quiet, Refilled
<1> QED
  BY <1>1, <1>2 DEF Quiet

LEMMA DispatchRefills ==
  ASSUME IsFiniteSet(Threads), TypeOK, Refilled, NEW t \in IoThreads, Dispatch(t)
  PROVE  Refilled'
<1> USE Basics DEF Start, accVars
<1>1. ThrTypeOK /\ listening \in Int /\ Len(available) \in Nat /\ ListenMax \in Nat
  BY ManagerConstants DEF TypeOK, AccTypeOK
<1>2. ASSUME SessionDispatch(t), UNCHANGED accVars PROVE Quiet
  BY <1>2 DEF SessionDispatch, ReadFails, ReadSucceeds, WriteFails, WriteSucceeds, Quiet, Doors, Labels
<1>3. ASSUME NEW s \in Sessions, HandleClose(t, s) PROVE Quiet
  BY <1>3 DEF HandleClose, Quiet, Doors, Labels
<1>4. ASSUME NEW c \in Clients, HandleReconnect(t, c) \/ ConnectAgain(t, c) PROVE Quiet
  BY <1>4 DEF HandleReconnect, ConnectAgain, Quiet, sessVars, thrVars
<1>5. ASSUME NEW c \in Clients, ConnectFails(t, c) \/ ConnectSucceeds(t, c) PROVE Quiet
  BY <1>5 DEF ConnectFails, ConnectSucceeds, Quiet, Doors, Labels
<1>6. ASSUME NEW s \in Sessions, AcceptFails(t, s) PROVE Refilled'
  <2>1. /\ pc[t] = "idle" /\ Goto(t, "return")
        /\ listening' = listening - 1 /\ available' = available
    BY <1>6 DEF AcceptFails
  <2>2. /\ Cardinality(Pending') = Cardinality(Pending) + 1
        /\ Cardinality(Counting') = Cardinality(Counting)
        /\ Cardinality(Returning') = Cardinality(Returning) + 1
    BY <1>1, <2>1, Shifted, Sizes DEF Counts, Looking
  <2> QED
    BY <1>1, <2>1, <2>2, Sizes DEF Refilled, Lesser
<1>7. ASSUME NEW s \in Sessions, AcceptSucceeds(t, s) PROVE Refilled'
  <2>1. /\ pc[t] = "idle" /\ Goto(t, "check")
        /\ listening' = listening - 1 /\ available' = available
    BY <1>7 DEF AcceptSucceeds
  <2>2. /\ Cardinality(Pending') = Cardinality(Pending) + 1
        /\ Cardinality(Counting') = Cardinality(Counting)
        /\ Cardinality(Returning') = Cardinality(Returning)
    <3>1. /\ Counts("check", Looking) = 1 /\ Counts("idle", Looking) = 0
          /\ Counts("check", {"accept"}) = 0 /\ Counts("idle", {"accept"}) = 0
          /\ Counts("check", {"return"}) = 0 /\ Counts("idle", {"return"}) = 0
      BY DEF Counts, Looking
    <3> QED
      BY <1>1, <2>1, <3>1, Shifted, Sizes
  <2> QED
    BY <1>1, <2>1, <2>2, Sizes DEF Refilled, Lesser
<1> QED
  BY <1>1, <1>2, <1>3, <1>4, <1>5, <1>6, <1>7, QuietKeeps DEF Dispatch

LEMMA ContinueRefills ==
  ASSUME IsFiniteSet(Threads), TypeOK, Refilled, ~Shuting, NEW t \in Threads, Continue(t)
  PROVE  Refilled'
<1> USE DEF At, accVars
<1>1. ThrTypeOK /\ listening \in Int /\ Len(available) \in Nat /\ ListenMax \in Nat
  BY ManagerConstants DEF TypeOK, AccTypeOK
<1>2. resume[t] \in {"idle", "connected"}
  BY DEF TypeOK, AccTypeOK
<1>3. ASSUME SessionContinue(t), UNCHANGED accVars PROVE Quiet
  BY <1>3 DEF SessionContinue, OpenSession, Announce, PushInput, RejectInput, TakeInput, StartWrite,
     WriteEnds, RecheckStatus, HandlerClose, Release, Quiet, Doors, Labels, thrVars
<1>4. CASE CheckListening(t)
  <2>1. pc[t] = "check" /\ UNCHANGED <<listening, available>>
    BY <1>4 DEF CheckListening
  <2>2. CASE EnoughAccepts
    <3>1. Goto(t, resume[t]) /\ listening >= ListenMax
      BY <1>4, <2>2 DEF CheckListening, EnoughAccepts
    <3>2. /\ Cardinality(Pending') = Cardinality(Pending) - 1
          /\ Cardinality(Counting') = Cardinality(Counting)
          /\ Cardinality(Returning') = Cardinality(Returning)
      BY <1>1, <1>2, <2>1, <3>1, Shifted, Sizes DEF Counts, Looking
    <3>3. Cardinality(Pending') \in Nat
      BY <3>2, Sizes, FS_Subset, FS_CardinalityType DEF Pending
    <3> QED
      BY <1>1, <2>1, <3>1, <3>2, <3>3, Sizes DEF Refilled, Lesser
  <2>3. CASE ~EnoughAccepts
    <3>1. Goto(t, "take")
      BY <1>4, <2>3 DEF CheckListening
    <3>2. /\ Cardinality(Pending') = Cardinality(Pending)
          /\ Cardinality(Counting') = Cardinality(Counting)
          /\ Cardinality(Returning') = Cardinality(Returning)
      BY <1>1, <2>1, <3>1, Shifted, Sizes DEF Counts, Looking
    <3> QED
      BY <2>1, <3>2 DEF Refilled
  <2> QED
    BY <2>2, <2>3
<1>5. CASE TakeSession(t)
  <2>1. pc[t] = "take" /\ UNCHANGED listening
    BY <1>5 DEF TakeSession
  <2>2. CASE available = <<>>
    <3>1. Goto(t, resume[t]) /\ UNCHANGED available
      BY <1>5, <2>2 DEF TakeSession
    <3>2. /\ Cardinality(Returning') = Cardinality(Returning)
          /\ Cardinality(Counting') = Cardinality(Counting)
      BY <1>1, <1>2, <2>1, <3>1, Shifted, Sizes DEF Counts
    <3>3. IsFiniteSet(Pending') /\ Returning' \subseteq Pending'
      BY FS_Subset DEF Pending, Returning
    <3>4. Cardinality(Pending') \in Nat /\ Cardinality(Returning') <= Cardinality(Pending')
      BY <3>3, FS_Subset, FS_CardinalityType
    <3>5. Len(available') = 0
      BY <2>2, <3>1
    <3> QED
      BY <1>1, <2>1, <3>2, <3>4, <3>5, Sizes DEF Refilled, Lesser
  <2>3. CASE available # <<>>
    <3>1. /\ Goto(t, "accept")
          /\ available' = SubSeq(available, 1, Len(available) - 1)
      BY <1>5, <2>3 DEF TakeSession, Pop
    <3>2. Len(available') = Len(available) - 1
      <4>1. available \in Seq(Sessions) /\ Len(available) \in Nat \ {0}
        BY <2>3, StackTop DEF TypeOK, AccTypeOK
      <4>2. ASSUME NEW q \in Seq(Sessions), NEW n \in Nat \ {0}, Len(q) = n
            PROVE  Len(SubSeq(q, 1, n - 1)) = n - 1
        BY <4>2
      <4> QED
        BY <3>1, <4>1, <4>2
    <3>3. /\ Cardinality(Pending') = Cardinality(Pending) - 1
          /\ Cardinality(Counting') = Cardinality(Counting) + 1
          /\ Cardinality(Returning') = Cardinality(Returning)
      <4>1. /\ Counts("accept", Looking) = 0 /\ Counts("take", Looking) = 1
            /\ Counts("accept", {"accept"}) = 1 /\ Counts("take", {"accept"}) = 0
            /\ Counts("accept", {"return"}) = 0 /\ Counts("take", {"return"}) = 0
        BY DEF Counts, Looking
      <4> QED
        BY <1>1, <2>1, <3>1, <4>1, Shifted, Sizes
    <3> QED
      BY <1>1, <2>1, <3>2, <3>3, Sizes DEF Refilled, Lesser
  <2> QED
    BY <2>2, <2>3
<1>6. CASE CountAccept(t)
  <2>1. /\ pc[t] = "accept" /\ Goto(t, "post")
        /\ listening' = listening + 1 /\ available' = available
    BY <1>6 DEF CountAccept
  <2>2. /\ Cardinality(Pending') = Cardinality(Pending)
        /\ Cardinality(Counting') = Cardinality(Counting) - 1
        /\ Cardinality(Returning') = Cardinality(Returning)
    <3>1. /\ Counts("post", Looking) = 0 /\ Counts("accept", Looking) = 0
          /\ Counts("post", {"accept"}) = 0 /\ Counts("accept", {"accept"}) = 1
          /\ Counts("post", {"return"}) = 0 /\ Counts("accept", {"return"}) = 0
      BY DEF Counts, Looking
    <3> QED
      BY <1>1, <2>1, <3>1, Shifted, Sizes
  <2> QED
    BY <1>1, <2>1, <2>2, Sizes DEF Refilled, Lesser
<1>10. CASE PostAccept(t)
  <2>1. Quiet
    BY <1>2, <1>10 DEF PostAccept, Quiet, Doors, Labels
  <2> QED
    BY <1>1, <2>1, QuietKeeps
<1>7. CASE ReturnSession(t)
  <2>1. /\ pc[t] = "return" /\ Goto(t, "check") /\ UNCHANGED listening
        /\ available' = Append(available, cur[t])
    BY <1>7 DEF ReturnSession, Return
  <2>2. Len(available') = Len(available) + 1
    BY <2>1 DEF TypeOK, AccTypeOK, ThrTypeOK
  <2>3. /\ Cardinality(Pending') = Cardinality(Pending)
        /\ Cardinality(Counting') = Cardinality(Counting)
        /\ Cardinality(Returning') = Cardinality(Returning) - 1
    <3>1. /\ Counts("return", Looking) = 1 /\ Counts("check", Looking) = 1
          /\ Counts("return", {"accept"}) = 0 /\ Counts("check", {"accept"}) = 0
          /\ Counts("return", {"return"}) = 1 /\ Counts("check", {"return"}) = 0
      BY DEF Counts, Looking
    <3> QED
      BY <1>1, <2>1, <3>1, Shifted, Sizes
  <2> QED
    BY <1>1, <2>1, <2>2, <2>3, Sizes DEF Refilled, Lesser
<1>8. CASE TellDisconnect(t)
  <2>1. pc[t] = "disconnect" /\ UNCHANGED <<listening, available>> /\ Goto(t, AfterClose(cur[t]))
    BY <1>8 DEF TellDisconnect
  <2>2. CASE AfterClose(cur[t]) = "return"
    <3>1. /\ Cardinality(Pending') = Cardinality(Pending) + 1
          /\ Cardinality(Counting') = Cardinality(Counting)
          /\ Cardinality(Returning') = Cardinality(Returning) + 1
      <4>1. /\ Counts("return", Looking) = 1 /\ Counts("disconnect", Looking) = 0
            /\ Counts("return", {"accept"}) = 0 /\ Counts("disconnect", {"accept"}) = 0
            /\ Counts("return", {"return"}) = 1 /\ Counts("disconnect", {"return"}) = 0
        BY DEF Counts, Looking
      <4> QED
        BY <1>1, <2>1, <2>2, <4>1, Shifted, Sizes
    <3> QED
      BY <1>1, <2>1, <3>1, Sizes DEF Refilled, Lesser
  <2>3. CASE AfterClose(cur[t]) # "return"
    <3>1. Quiet
      BY <2>1, <2>3 DEF AfterClose, Quiet, Doors, Labels
    <3> QED
      BY <1>1, <3>1, QuietKeeps
  <2> QED
    BY <2>2, <2>3
<1>9. ASSUME \/ AcceptorGone(t) \/ MarkBusyAgain(t) \/ WaitToReconnect(t)
             \/ MarkBusy(t) \/ StartConnect(t) \/ GiveUpConnect(t) \/ TellFailure(t)
      PROVE  Quiet
  BY <1>9 DEF AcceptorGone, MarkBusyAgain, WaitToReconnect, MarkBusy, StartConnect, GiveUpConnect,
              TellFailure, Quiet, Doors, Labels, sessVars, thrVars
<1> QED
  BY <1>1, <1>3, <1>4, <1>5, <1>6, <1>7, <1>8, <1>9, <1>10, QuietKeeps DEF Continue

LEMMA NextRefilled ==
  ASSUME IsFiniteSet(Threads) PROVE TypeOK /\ AcceptsRefilled /\ [Next]_vars => AcceptsRefilled'
<1> SUFFICES ASSUME TypeOK, AcceptsRefilled, [Next]_vars, phase' = "running" PROVE Refilled'
  BY DEF AcceptsRefilled, Refilled
<1>1. ThrTypeOK /\ listening \in Int /\ Len(available) \in Nat /\ ListenMax \in Nat
  BY ManagerConstants DEF TypeOK, AccTypeOK
<1>2. CASE StartThreads
  <2>1. UNCHANGED <<listening, available, pc>> /\ (listening >= ListenMax \/ available = <<>>)
    BY <1>2 DEF StartThreads, sessVars, thrVars, accVars
  <2>2. Refilled
    BY <1>1, <2>1, Sizes DEF Refilled, Lesser
  <2> QED
    BY <1>1, <2>1, <2>2, QuietKeeps DEF Quiet
<1>3. CASE phase = "running"
  <2>1. Refilled
    BY <1>3 DEF AcceptsRefilled, Refilled
  <2>2. ~Shuting
    BY <1>3 DEF Shuting
  <2>3. ASSUME NEW t \in IoThreads, Dispatch(t) PROVE Refilled'
    BY <2>1, <2>3, DispatchRefills
  <2>4. ASSUME NEW t \in Threads, Continue(t) PROVE Refilled'
    BY <2>1, <2>2, <2>4, ContinueRefills
  <2>5. ASSUME Call PROVE Quiet
    <3>1. UNCHANGED <<listening, available>>
      BY <2>5 DEF Call, ConnectTo, Dequeue, Deliver, BeginShutdown, AdvanceShutdown, accVars
    <3>2. \/ UNCHANGED pc
          \/ pc[App] = "idle" /\ \E l \in {"write", "release", "connect_busy"} : Goto(App, l)
      BY <2>5 DEF Call, SendMsg, AppClose, ConnectTo, Dequeue, Deliver, BeginShutdown, AdvanceShutdown,
                  Start, sessVars, thrVars
    <3> QED
      BY <3>1, <3>2, Basics DEF Quiet, Doors, Labels
  <2>6. ASSUME UNCHANGED vars PROVE Quiet
    BY <2>6 DEF vars, Quiet, sessVars, thrVars, accVars
  <2>7. ~StartListen /\ ~StartThreads /\ ~DeleteAcceptor /\ ~StopService /\ ~JoinThreads
    BY <1>3 DEF StartListen, StartThreads, DeleteAcceptor, StopService, JoinThreads, AdvanceShutdown
  <2> QED
    BY <1>1, <2>1, <2>3, <2>4, <2>5, <2>6, <2>7, QuietKeeps DEF Next
<1>4. CASE phase # "running"
  <2>1. ASSUME NEW t \in IoThreads, Dispatch(t) PROVE phase' = phase
    BY <2>1, DispatchStarts
  <2>2. ASSUME NEW t \in Threads, Continue(t) PROVE phase' # "running"
    BY <1>4, <2>2, ContinueGoesOn
  <2>3. StartListen \/ UNCHANGED vars => phase' = phase
    BY DEF StartListen, vars, appVars
  <2>4. ~DeleteAcceptor /\ ~StopService /\ ~JoinThreads
    BY DEF DeleteAcceptor, StopService, JoinThreads, AdvanceShutdown
  <2> QED
    BY <1>2, <1>4, <2>1, <2>2, <2>3, <2>4 DEF Next
<1> QED
  BY <1>3, <1>4

(* While it serves, the manager never goes deaf with free sessions at hand *)
(* (_post_accept, _handle_accept, _handle_close), though the count of      *)
(* accepts is checked and changed in separate steps by several threads.    *)
THEOREM AcceptsRefilledCorrect ==
  ASSUME IsFiniteSet(IoThreads) PROVE Spec => []AcceptsRefilled
<1>1. IsFiniteSet(Threads)
  BY FS_AddElement DEF Threads
<1>2. Init => AcceptsRefilled
  BY DEF Init, AcceptsRefilled
<1>3. TypeOK /\ AcceptsRefilled /\ [Next]_vars => AcceptsRefilled'
  BY <1>1, NextRefilled
<1> QED
  BY <1>2, <1>3, TypeCorrect, PTL DEF Spec

-----------------------------------------------------------------------------
\* The client path

CalledOnce == Reconnect => MaxCalls <= 1

\* thread t recycles client c and is to connect it again; the application's
\* thread is in connect_to()
Again(t, c)  == cur[t] = c /\ pc[t] \in {"disconnect", "rebusy", "reconnect"}
InConnectTo(t, c) == cur[t] = c /\ pc[t] \in {"connect_busy", "connect"}

Under(c) == connectOps[c] + timers[c]

\* An attempt is a connect, a timer or a handler, and makes the status ConnectTo.
AttemptOnce(c) ==
  /\ Under(c) \in {0, 1}
  /\ Under(c) = 1 => status[c] = "ConnectTo" /\ \A t \in Threads : ~Attempting(t, c)
  /\ \A t \in Threads :
       Attempting(t, c) => status[c] = "ConnectTo" /\ \A u \in Threads : Attempting(u, c) => u = t
  /\ status[c] = "ConnectTo" => Under(c) = 1 \/ \E t \in Threads : Attempting(t, c)

\* _handle_close is posted once for each connection.
EndsOnce(c) == closePosts[c] = IF status[c] = "Close" THEN 1 ELSE 0

\* Who is about to begin one finds the status Init, and is alone.
BeginsAlone(c) ==
  /\ \A t \in Threads : InConnectTo(t, c) => t = App /\ status[c] = "Init"
  /\ Reconnect =>
       /\ \A t \in Threads : Again(t, c) =>
            /\ status[c] = "Init"
            /\ calls > 0
            /\ \A u \in Threads : ~InConnectTo(u, c) /\ (Again(u, c) => u = t)
       /\ calls = 0 => status[c] = "Init" /\ \A t \in Threads : ~InConnectTo(t, c)

Client(c) == AttemptOnce(c) /\ EndsOnce(c) /\ BeginsAlone(c)

\* connect_to() does not begin while the library is to connect c again.
NotCrossed(c) == Reconnect /\ ConnectTo(c) => \A t \in Threads : ~Again(t, c)

\* Only servers come to _post_accept(), only clients wait for another attempt.
AcceptLabels == {"check", "take", "accept", "post"}

Labelled ==
  \A t \in Threads :
    /\ pc[t] \in {"rebusy", "reconnect"} => Reconnect
    /\ pc[t] \in AcceptLabels => cur[t] \in Servers

-----------------------------------------------------------------------------
\* Thread t moves to label l, and works for session d from then on.
Moves(t, l, d) ==
  \A u \in Threads : /\ pc'[u] = IF u = t THEN l ELSE pc[u]
                     /\ cur'[u] = IF u = t THEN d ELSE cur[u]

LEMMA Movements ==
  ASSUME TypeOK, NEW t \in Threads, NEW l
  PROVE  /\ \A s, n : Start(t, s, n, l) => Moves(t, l, s)
         /\ Goto(t, l) /\ UNCHANGED cur => Moves(t, l, cur[t])
BY DEF TypeOK, ThrTypeOK, Start, Goto, Moves

LEMMA NextLabelled ==
  ASSUME OwnerInv, Labelled, [Next]_vars PROVE Labelled'
<1>0. TypeOK
  BY DEF OwnerInv
<1> USE Basics
<1>1. ASSUME UNCHANGED <<pc, cur>> PROVE Labelled'
  BY <1>1 DEF Labelled
<1>2. ASSUME NEW t \in Threads, NEW l, NEW d, NEW n, Start(t, d, n, l),
             l \notin {"rebusy", "reconnect"}, l \in AcceptLabels => d \in Servers
      PROVE  Labelled'
  <2>1. Moves(t, l, d)
    BY <1>0, <1>2, Movements
  <2> QED
    BY <1>2, <2>1 DEF Labelled, Moves
<1>3. ASSUME NEW t \in IoThreads, Dispatch(t) PROVE Labelled'
  <2>1. CASE SessionDispatch(t)
    <3>1. \E l \in {"close", "received", "write", "written"} : \E d, n : Start(t, d, n, l)
      BY <2>1 DEF SessionDispatch, ReadFails, ReadSucceeds, WriteFails, WriteSucceeds
    <3> QED
      BY <1>2, <3>1 DEF AcceptLabels
  <2>2. ASSUME NEW s \in Sessions, AcceptFails(t, s) \/ AcceptSucceeds(t, s) \/ HandleClose(t, s)
        PROVE  Labelled'
    <3>1. \/ \E l \in {"return", "disconnect"} : \E n : Start(t, s, n, l)
          \/ Start(t, s, serial[s], "check") /\ acceptOps[s] > 0
      BY <2>2 DEF AcceptFails, AcceptSucceeds, HandleClose
    <3>2. acceptOps[s] > 0 => s \in Servers
      BY DEF OwnerInv, PathsApart, Servers
    <3> QED
      BY <1>2, <3>1, <3>2 DEF AcceptLabels
  <2>3. ASSUME NEW c \in Clients, ConnectFails(t, c) \/ ConnectSucceeds(t, c) PROVE Labelled'
    <3>1. \E l \in {"connect_failed", "connected"} : \E n : Start(t, c, n, l)
      BY <2>3 DEF ConnectFails, ConnectSucceeds
    <3> QED
      BY <1>2, <3>1 DEF AcceptLabels
  <2>4. ASSUME NEW c \in Clients, HandleReconnect(t, c) \/ ConnectAgain(t, c) PROVE Labelled'
    BY <1>1, <2>4 DEF HandleReconnect, ConnectAgain, sessVars, thrVars
  <2> QED
    BY <1>3, <2>1, <2>2, <2>3, <2>4 DEF Dispatch
<1>4. ASSUME NEW t \in Threads, Continue(t) PROVE Labelled'
  <2>1. CASE PushInput(t) \/ AcceptorGone(t)
    BY <1>1, <2>1 DEF PushInput, AcceptorGone, sessVars, thrVars
  <2>2. ASSUME NEW l, Goto(t, l), UNCHANGED cur, l \in {"rebusy", "reconnect"} => Reconnect,
               l \in AcceptLabels => cur[t] \in Servers
        PROVE  Labelled'
    BY <1>0, <2>2, Movements DEF Labelled, Moves
  <2>3. CASE SessionContinue(t) /\ ~PushInput(t)
    <3>1. UNCHANGED cur /\ \E l \in {"announce", "idle", "close", "recheck", "release"} : Goto(t, l)
      BY <2>3 DEF SessionContinue, OpenSession, Announce, RejectInput, TakeInput, StartWrite,
                  WriteEnds, RecheckStatus, HandlerClose, Release
    <3> QED
      BY <2>2, <3>1 DEF AcceptLabels
  <2>4. CASE \/ CheckListening(t) \/ TakeSession(t) \/ CountAccept(t) \/ PostAccept(t)
             \/ ReturnSession(t)
    <3>1. cur[t] \in Servers
      BY <2>4 DEF CheckListening, TakeSession, CountAccept, PostAccept, ReturnSession, At,
                  Labelled, AcceptLabels, OwnerInv, PathsApart
    <3>2. UNCHANGED cur /\ \E l \in AcceptLabels \cup {resume[t]} : Goto(t, l)
      BY <2>4 DEF CheckListening, TakeSession, CountAccept, PostAccept, ReturnSession, AcceptLabels
    <3>3. resume[t] \in {"idle", "connected"}
      BY <1>0 DEF TypeOK, AccTypeOK
    <3> QED
      BY <2>2, <3>1, <3>2, <3>3 DEF AcceptLabels
  <2>5. CASE TellDisconnect(t) \/ MarkBusyAgain(t)
    <3>1. UNCHANGED cur /\ \E l \in {"return", "rebusy", "idle", "reconnect"} :
                             Goto(t, l) /\ (l \in {"rebusy", "reconnect"} => Reconnect)
      BY <2>5 DEF TellDisconnect, AfterClose, MarkBusyAgain, At, Labelled
    <3> QED
      BY <2>2, <3>1 DEF AcceptLabels
  <2>6. CASE \/ WaitToReconnect(t) \/ MarkBusy(t) \/ StartConnect(t)
             \/ GiveUpConnect(t) \/ TellFailure(t)
    <3>1. UNCHANGED cur /\ \E l \in {"idle", "connect", "tell_failure"} : Goto(t, l)
      BY <2>6 DEF WaitToReconnect, MarkBusy, StartConnect, GiveUpConnect, TellFailure
    <3> QED
      BY <2>2, <3>1 DEF AcceptLabels
  <2> QED
    BY <1>4, <2>1, <2>3, <2>4, <2>5, <2>6 DEF Continue
<1>5. CASE Call
  <2>1. \/ UNCHANGED <<pc, cur>>
        \/ \E l \in {"write", "release", "connect_busy"} : \E d, n : Start(App, d, n, l)
    BY <1>5 DEF Call, SendMsg, AppClose, ConnectTo, Dequeue, Deliver, BeginShutdown,
                AdvanceShutdown, sessVars, thrVars
  <2> QED
    BY <1>1, <1>2, <2>1 DEF AcceptLabels
<1>6. CASE \/ StartListen \/ StartThreads \/ DeleteAcceptor \/ StopService \/ JoinThreads
           \/ UNCHANGED vars
  BY <1>1, <1>6 DEF StartListen, StartThreads, DeleteAcceptor, StopService, JoinThreads,
                    AdvanceShutdown, vars, sessVars, thrVars
<1> QED
  BY <1>3, <1>4, <1>5, <1>6 DEF Next

-----------------------------------------------------------------------------
(* A step that leaves client c as it is: what is under way for it, and the *)
(* threads that are at it.                                                 *)
Roles == {"connected", "connect_failed", "disconnect", "rebusy", "reconnect",
          "connect_busy", "connect"}

SameFor(c) ==
  /\ Under(c)' = Under(c)
  /\ closePosts'[c] = closePosts[c]
  /\ status'[c] = status[c] \/ (status[c] \in InUse /\ status'[c] \in InUse)
  /\ calls' \in {calls, calls + 1}

LEMMA SameRoles ==
  ASSUME TypeOK, NEW c \in Clients, Client(c), SameFor(c),
         \A u \in Threads : /\ Attempting(u, c)' <=> Attempting(u, c)
                            /\ Again(u, c)' <=> Again(u, c)
                            /\ InConnectTo(u, c)' <=> InConnectTo(u, c)
  PROVE  Client(c)'
<1>1. calls \in Nat
  BY DEF TypeOK, CliTypeOK
<1>3. AttemptOnce(c)'
  BY DEF Client, AttemptOnce, SameFor, InUse
<1>4. EndsOnce(c)'
  BY DEF Client, EndsOnce, SameFor, InUse
<1>5. BeginsAlone(c)'
  BY <1>1 DEF Client, BeginsAlone, SameFor, InUse
<1> QED
  BY <1>3, <1>4, <1>5 DEF Client

Passes(c) ==
  /\ SameFor(c)
  /\ \/ UNCHANGED <<pc, cur>>
     \/ \E t \in Threads, l \in Labels, d \in Sessions :
          /\ Moves(t, l, d)
          /\ pc[t] \in Roles => cur[t] # c
          /\ l \in Roles => d # c

LEMMA PassesKeeps ==
  ASSUME TypeOK, NEW c \in Clients, Client(c), Passes(c) PROVE Client(c)'
<1>1. \A u \in Threads : /\ Attempting(u, c)' <=> Attempting(u, c)
                         /\ Again(u, c)' <=> Again(u, c)
                         /\ InConnectTo(u, c)' <=> InConnectTo(u, c)
  <2>1. CASE UNCHANGED <<pc, cur>>
    BY <2>1 DEF Attempting, Again, InConnectTo
  <2>2. ASSUME NEW t \in Threads, NEW l \in Labels, NEW d \in Sessions, Moves(t, l, d),
               pc[t] \in Roles => cur[t] # c, l \in Roles => d # c, NEW u \in Threads
        PROVE  /\ Attempting(u, c)' <=> Attempting(u, c)
               /\ Again(u, c)' <=> Again(u, c)
               /\ InConnectTo(u, c)' <=> InConnectTo(u, c)
    BY <2>2 DEF Moves, Attempting, Again, InConnectTo, Roles
  <2> QED
    BY <2>1, <2>2 DEF Passes
<1> QED
  BY <1>1, SameRoles DEF Passes

LEMMA InitClient == Init => Labelled /\ \A c \in Clients : Client(c)
<1> SUFFICES ASSUME Init PROVE Labelled /\ \A c \in Clients : Client(c)
  OBVIOUS
<1>1. \A t \in Threads : pc[t] = "idle"
  BY DEF Init, SessionInit
<1>2. \A c \in Clients : /\ connectOps[c] = 0 /\ timers[c] = 0
                         /\ closePosts[c] = 0 /\ status[c] = "Init"
  BY Basics DEF Init, SessionInit
<1> QED
  BY <1>1, <1>2 DEF Labelled, AcceptLabels, Client, AttemptOnce, EndsOnce, BeginsAlone,
                    Under, Attempting, Again, InConnectTo

-----------------------------------------------------------------------------
(* The steps that are beside client c.                                     *)

\* Nothing that SameFor looks at changes for c.
ClientSame(c) == /\ c \in Clients => UNCHANGED <<connectOps[c], timers[c]>>
                 /\ calls' \in {calls, calls + 1}
                 /\ UNCHANGED <<status[c], closePosts[c]>>

LEMMA ClientSameFor ==
  ASSUME NEW c \in Clients, ClientSame(c) PROVE SameFor(c)
BY DEF ClientSame, SameFor, Under

LEMMA SessionPasses ==
  ASSUME TypeOK, NEW c \in Clients, NEW t \in Threads, UNCHANGED cliVars,
         \/ SessionDispatch(t)
         \/ Announce(t) \/ PushInput(t) \/ RejectInput(t) \/ TakeInput(t) \/ StartWrite(t)
         \/ WriteEnds(t) \/ RecheckStatus(t) \/ HandlerClose(t)
  PROVE  Passes(c)
<1> DEFINE Steps == {"idle", "close", "received", "write", "written", "recheck", "release"}
<1>0. cur[t] \in Sessions
  BY DEF TypeOK, ThrTypeOK
<1>1. UNCHANGED <<connectOps, timers, calls, closePosts>>
  BY DEF cliVars, SessionDispatch, ReadFails, ReadSucceeds, WriteFails, WriteSucceeds, Announce,
         PushInput, RejectInput, TakeInput, StartWrite, WriteEnds, RecheckStatus, HandlerClose,
         Shut, opVars
<1>2. \A s \in Sessions : status'[s] = status[s] \/ (status[s] \in InUse /\ status'[s] \in InUse)
  <2>1. CASE HandlerClose(t)
    BY <2>1 DEF HandlerClose, Shut, objVars, InUse, TypeOK, ObjTypeOK
  <2>2. CASE ~HandlerClose(t)
    BY <2>2 DEF SessionDispatch, ReadFails, ReadSucceeds, WriteFails, WriteSucceeds, Announce,
         PushInput, RejectInput, TakeInput, StartWrite, WriteEnds, RecheckStatus, objVars
  <2> QED
    BY <2>1, <2>2
<1>3. SameFor(c)
  BY <1>1, <1>2, Basics DEF SameFor, Under
<1>4. \/ UNCHANGED <<pc, cur>>
      \/ \E l \in Steps, d \in Sessions : Moves(t, l, d) /\ pc[t] \notin Roles
  <2>1. CASE SessionDispatch(t)
    <3>1. PICK s \in Sessions, n \in Serials : \E l \in Steps : Start(t, s, n, l)
      BY <2>1 DEF SessionDispatch, ReadFails, ReadSucceeds, WriteFails, WriteSucceeds
    <3> QED
      BY <3>1, Movements DEF Start, Roles
  <2>2. CASE PushInput(t)
    BY <2>2 DEF PushInput, thrVars
  <2>3. CASE ~SessionDispatch(t) /\ ~PushInput(t)
    <3>1. /\ \E l \in Steps : Goto(t, l)
          /\ UNCHANGED cur
          /\ pc[t] \notin Roles
      BY <2>3 DEF Announce, RejectInput, TakeInput, StartWrite, WriteEnds, RecheckStatus,
                  HandlerClose, At, Roles
    <3> QED
      BY <1>0, <3>1, Movements
  <2> QED
    BY <2>1, <2>2, <2>3
<1>5. Steps \subseteq Labels /\ \A l \in Steps : l \notin Roles
  BY DEF Labels, Roles
<1> HIDE DEF Steps
<1> QED
  BY <1>3, <1>4, <1>5 DEF Passes

\* the steps of another session
LEMMA OtherPasses ==
  ASSUME TypeOK, NEW c \in Clients, NEW t \in Threads, NEW s \in Sessions, s # c,
         \/ AcceptFails(t, s) \/ AcceptSucceeds(t, s) \/ HandleClose(t, s)
         \/ s \in Clients /\ (ConnectFails(t, s) \/ ConnectSucceeds(t, s))
         \/ s \in Clients /\ t = App /\ ConnectTo(s)
         \/ s = cur[t] /\ UNCHANGED cliVars /\ (OpenSession(t) \/ Release(t))
         \/ s = cur[t] /\ (TellDisconnect(t) \/ ReturnSession(t))
         \/ s = cur[t] /\ (MarkBusyAgain(t) \/ MarkBusy(t))
         \/ s = cur[t] /\ (GiveUpConnect(t) \/ WaitToReconnect(t) \/ StartConnect(t))
  PROVE  Passes(c)
<1> DEFINE Steps == {"return", "check", "disconnect", "connect_failed", "connected", "connect_busy",
                     "announce", "idle", "rebusy", "reconnect", "connect", "tell_failure"}
<1>0. c \in Sessions
  BY Basics
<1>1. SameFor(c)
  <2>1. /\ status \in [Sessions -> Statuses] /\ closePosts \in [Sessions -> Nat]
        /\ connectOps \in [Clients -> Nat] /\ timers \in [Clients -> Nat]
    BY DEF TypeOK, ObjTypeOK, OpTypeOK, CliTypeOK
  <2>2. status'[c] = status[c]
    BY <1>0, <2>1 DEF AcceptFails, AcceptSucceeds, HandleClose, Reset, ConnectFails, ConnectSucceeds,
           ConnectTo, OpenSession, Release, TellDisconnect, ReturnSession, MarkBusyAgain, MarkBusy,
           GiveUpConnect, WaitToReconnect, StartConnect, objVars
  <2>3. closePosts'[c] = closePosts[c]
    BY <1>0, <2>1 DEF AcceptFails, AcceptSucceeds, HandleClose, ConnectFails, ConnectSucceeds,
           ConnectTo, OpenSession, Release, TellDisconnect, ReturnSession, MarkBusyAgain, MarkBusy,
           GiveUpConnect, WaitToReconnect, StartConnect, opVars
  <2>4. connectOps'[c] = connectOps[c] /\ timers'[c] = timers[c]
    BY <2>1 DEF AcceptFails, AcceptSucceeds, HandleClose, ConnectFails, ConnectSucceeds,
           ConnectTo, TellDisconnect, ReturnSession, MarkBusyAgain, MarkBusy,
           GiveUpConnect, WaitToReconnect, StartConnect, cliVars
  <2>5. calls' \in {calls, calls + 1}
    BY DEF AcceptFails, AcceptSucceeds, HandleClose, ConnectFails, ConnectSucceeds,
           ConnectTo, TellDisconnect, ReturnSession, MarkBusyAgain, MarkBusy,
           GiveUpConnect, WaitToReconnect, StartConnect, cliVars
  <2> QED
    BY <2>2, <2>3, <2>4, <2>5, ClientSameFor DEF ClientSame
<1>2. \E l \in Steps : Moves(t, l, s) /\ (pc[t] \in Roles => cur[t] # c)
  <2>1. \/ \E l \in Steps : Start(t, s, serial[s], l)
        \/ s = cur[t] /\ UNCHANGED cur /\ \E l \in Steps : Goto(t, l)
    BY DEF AcceptFails, AcceptSucceeds, HandleClose, ConnectFails, ConnectSucceeds,
           ConnectTo, OpenSession, Release, TellDisconnect, AfterClose, ReturnSession,
           MarkBusyAgain, MarkBusy, GiveUpConnect, WaitToReconnect, StartConnect
  <2> QED
    BY <2>1, Movements DEF Start, Roles
<1>3. Steps \subseteq Labels
  BY DEF Labels
<1> HIDE DEF Steps
<1> QED
  BY <1>1, <1>2, <1>3 DEF Passes

LEMMA AcceptPasses ==
  ASSUME OwnerInv, NEW c \in Clients, Labelled, NEW t \in Threads,
         \/ CheckListening(t) \/ TakeSession(t) \/ CountAccept(t) \/ PostAccept(t)
         \/ TellFailure(t)
  PROVE  Passes(c)
<1> DEFINE Steps == {"check", "take", "accept", "post", "idle", "connected"}
<1>0. TypeOK /\ cur[t] \in Sessions /\ resume[t] \in {"idle", "connected"} /\ c \in Sessions
  BY Basics DEF OwnerInv, TypeOK, ThrTypeOK, AccTypeOK
<1>1. UNCHANGED <<connectOps, timers, calls, closePosts, cur>>
  BY DEF cliVars, opVars, CheckListening, TakeSession, CountAccept, PostAccept, TellFailure
<1>2. status'[c] = status[c]
  <2>1. CASE PostAccept(t)
    <3>1. held[t] # c /\ status \in [Sessions -> Statuses]
      BY <2>1 DEF PostAccept, At, OwnerInv, PathsApart, Servers, TypeOK, ObjTypeOK
    <3> QED
      BY <1>0, <2>1, <3>1 DEF PostAccept
  <2>2. CASE ~PostAccept(t)
    BY <2>2 DEF CheckListening, TakeSession, CountAccept, TellFailure, objVars
  <2> QED
    BY <2>1, <2>2
<1>3. SameFor(c)
  BY <1>1, <1>2, ClientSameFor DEF ClientSame
<1>4. pc[t] \notin Roles /\ (pc[t] = "tell_failure" \/ cur[t] # c)
  BY DEF CheckListening, TakeSession, CountAccept, PostAccept, TellFailure, At, Roles, Labelled,
         AcceptLabels, Servers
<1>5. \E l \in Steps : Goto(t, l) /\ (pc[t] = "tell_failure" => l = "idle")
  BY <1>0 DEF CheckListening, TakeSession, CountAccept, PostAccept, TellFailure, At
<1>6. PICK l \in Steps : Moves(t, l, cur[t]) /\ (pc[t] = "tell_failure" => l = "idle")
  BY <1>0, <1>1, <1>5, Movements
<1>7. l \in Labels /\ (l \in Roles => cur[t] # c)
  BY <1>4, <1>6 DEF Labels, Roles
<1> QED
  BY <1>0, <1>3, <1>4, <1>6, <1>7 DEF Passes

\* Timers that go off and connects that are made again leave the attempt one.
LEMMA RetryPasses ==
  ASSUME TypeOK, NEW c \in Clients, NEW t \in Threads, NEW d \in Clients,
         HandleReconnect(t, d) \/ ConnectAgain(t, d)
  PROVE  Passes(c)
<1>1. connectOps \in [Clients -> Nat] /\ timers \in [Clients -> Nat]
  BY DEF TypeOK, CliTypeOK
<1>2. Under(c)' = Under(c)
  BY <1>1 DEF HandleReconnect, ConnectAgain, Under
<1>3. UNCHANGED <<pc, cur, status, closePosts, calls>>
  BY DEF HandleReconnect, ConnectAgain, sessVars, thrVars, objVars, opVars
<1> QED
  BY <1>2, <1>3 DEF Passes, SameFor

\* startup(), shutdown(), process_msg() and the application's calls
LEMMA CallPasses ==
  ASSUME OwnerInv, NEW c \in Clients,
         \/ StartListen \/ StartThreads \/ (\E t \in Threads : AcceptorGone(t))
         \/ \E s \in Sessions : /\ SendMsg(s, last[s].id) \/ AppClose(s, last[s].id)
                                /\ UNCHANGED cliVars
         \/ Dequeue \/ Deliver \/ BeginShutdown \/ DeleteAcceptor \/ StopService \/ JoinThreads
         \/ UNCHANGED vars
  PROVE  Passes(c)
<1>0. TypeOK /\ status \in [Sessions -> Statuses] /\ c \in Sessions
  BY Basics DEF OwnerInv, TypeOK, ObjTypeOK
<1>1. ASSUME NEW s \in Sessions, UNCHANGED cliVars,
             SendMsg(s, last[s].id) \/ AppClose(s, last[s].id)
      PROVE  Passes(c)
  <2>1. \E l \in {"write", "release"} : Start(App, s, last[s].id, l)
    BY <1>1 DEF SendMsg, AppClose
  <2>2. \E l \in {"write", "release"} : Moves(App, l, s) /\ pc[App] = "idle"
    BY <1>0, <2>1, Movements, Basics DEF Start
  <2>3. SameFor(c)
    BY <1>0, <1>1 DEF SendMsg, AppClose, Shut, SameFor, Under, InUse, cliVars, opVars
  <2> QED
    BY <1>0, <2>2, <2>3, Basics DEF Passes, Labels, Roles
<1>2. CASE StartListen
  <2>1. Top # c
    BY <1>2, StackTop DEF StartListen, OwnerInv, TypeOK, PathsApart, Top, Servers
  <2> QED
    BY <1>0, <1>2, <2>1 DEF StartListen, Passes, SameFor, Under, thrVars, opVars, cliVars
<1>3. ASSUME UNCHANGED <<objVars, opVars, thrVars, cliVars>> PROVE Passes(c)
  BY <1>3 DEF Passes, SameFor, Under, objVars, opVars, thrVars, cliVars
<1>4. ASSUME \/ StartThreads \/ (\E t \in Threads : AcceptorGone(t)) \/ Dequeue \/ Deliver
             \/ BeginShutdown \/ DeleteAcceptor \/ StopService \/ JoinThreads
             \/ UNCHANGED vars
      PROVE  Passes(c)
  BY <1>3, <1>4 DEF StartThreads, AcceptorGone, Dequeue, Deliver, BeginShutdown, DeleteAcceptor,
                    StopService, JoinThreads, AdvanceShutdown, vars, sessVars
<1> QED
  BY <1>1, <1>2, <1>4

-----------------------------------------------------------------------------
(* The steps of a client, one lemma each.                                  *)

\* An attempt ends, one way or the other, in a handler ...
LEMMA AttemptEnds ==
  ASSUME TypeOK, NEW t \in IoThreads, NEW d \in Clients, Client(d),
         ConnectFails(t, d) \/ ConnectSucceeds(t, d)
  PROVE  Client(d)'
<1>0. /\ t \in Threads /\ d \in Sessions
      /\ connectOps \in [Clients -> Nat] /\ timers \in [Clients -> Nat]
  BY Basics DEF TypeOK, CliTypeOK
<1>1. PICK l \in {"connect_failed", "connected"} : Start(t, d, serial[d], l)
  BY DEF ConnectFails, ConnectSucceeds
<1>2. Moves(t, l, d) /\ pc[t] = "idle"
  BY <1>0, <1>1, Movements DEF Start
<1>3. /\ connectOps' = [connectOps EXCEPT ![d] = @ - 1] /\ connectOps[d] > 0
      /\ UNCHANGED <<timers, calls, closePosts, status>>
  BY DEF ConnectFails, ConnectSucceeds, opVars
<1>5. /\ Under(d) = 1 /\ Under(d)' = 0
      /\ status[d] = "ConnectTo" /\ \A u \in Threads : ~Attempting(u, d)
  BY <1>0, <1>3 DEF Client, AttemptOnce, Under
<1>6. \A u \in Threads : Attempting(u, d)' <=> u = t
  BY <1>0, <1>2, <1>5 DEF Moves, Attempting
<1>7. \A u \in Threads : /\ Again(u, d)' <=> Again(u, d)
                         /\ InConnectTo(u, d)' <=> InConnectTo(u, d)
  BY <1>2 DEF Moves, Again, InConnectTo
<1>8. AttemptOnce(d)'
  BY <1>0, <1>3, <1>5, <1>6 DEF AttemptOnce
<1>9. EndsOnce(d)' /\ BeginsAlone(d)'
  BY <1>0, <1>3, <1>7 DEF Client, EndsOnce, BeginsAlone
<1> QED
  BY <1>8, <1>9 DEF Client

\* ... and then the status is Open, or Init again.
LEMMA AttemptOver ==
  ASSUME TypeOK, NEW t \in Threads, NEW d \in Clients, Client(d), d = cur[t],
         (OpenSession(t) /\ UNCHANGED cliVars) \/ GiveUpConnect(t)
  PROVE  Client(d)'
<1>0. d \in Clients /\ d \in Sessions /\ status \in [Sessions -> Statuses]
  BY Basics DEF TypeOK, ObjTypeOK
<1>1. PICK l \in {"announce", "tell_failure"} : Goto(t, l) /\ UNCHANGED cur
  BY DEF OpenSession, GiveUpConnect
<1>2. Moves(t, l, d) /\ Attempting(t, d)
  BY <1>0, <1>1, Movements DEF OpenSession, GiveUpConnect, At, Attempting
<1>3. /\ UNCHANGED <<connectOps, timers, calls, closePosts>>
      /\ \E x \in {"Open", "Init"} : status' = [status EXCEPT ![d] = x]
  BY DEF OpenSession, GiveUpConnect, opVars, cliVars
<1>5. /\ status[d] = "ConnectTo" /\ status'[d] \in {"Open", "Init"}
      /\ \A u \in Threads : Attempting(u, d) => u = t
  BY <1>0, <1>2, <1>3 DEF Client, AttemptOnce
<1>6. Under(d)' = Under(d) /\ Under(d) = 0
  BY <1>0, <1>2, <1>3 DEF Client, AttemptOnce, Under
<1>7. \A u \in Threads : /\ ~Attempting(u, d)'
                         /\ Again(u, d)' => Again(u, d)
                         /\ InConnectTo(u, d)' => InConnectTo(u, d)
  BY <1>2, <1>5 DEF Moves, Attempting, Again, InConnectTo
<1>8. AttemptOnce(d)'
  BY <1>5, <1>6, <1>7 DEF AttemptOnce
<1>9. EndsOnce(d)'
  BY <1>0, <1>3, <1>5 DEF Client, EndsOnce
<1>10. BeginsAlone(d)'
  BY <1>0, <1>3, <1>5, <1>7 DEF Client, BeginsAlone
<1> QED
  BY <1>8, <1>9, <1>10 DEF Client

\* _release(): the end of a client's connection
LEMMA ReleaseClient ==
  ASSUME TypeOK, NEW t \in Threads, NEW d \in Clients, Client(d), d = cur[t],
         Release(t), UNCHANGED cliVars
  PROVE  Client(d)'
<1>0. /\ d \in Clients /\ d \in Sessions
      /\ status \in [Sessions -> Statuses] /\ closePosts \in [Sessions -> Nat]
  BY Basics DEF TypeOK, ObjTypeOK, OpTypeOK
<1>1. Moves(t, "idle", d) /\ pc[t] = "release"
  BY <1>0, Movements DEF Release, At
<1>2. UNCHANGED <<connectOps, timers, calls>>
  BY DEF cliVars
<1>3. \A u \in Threads : /\ Attempting(u, d)' <=> Attempting(u, d)
                         /\ Again(u, d)' <=> Again(u, d)
                         /\ InConnectTo(u, d)' <=> InConnectTo(u, d)
  BY <1>1 DEF Moves, Attempting, Again, InConnectTo
<1>4. CASE ~Releasable(d)
  <2>1. SameFor(d)
    BY <1>2, <1>4, ClientSameFor DEF Release, ClientSame
  <2> QED
    BY <1>0, <1>3, <2>1, SameRoles
<1>5. CASE Releasable(d)
  <2>1. /\ status[d] = "Shut"
        /\ status' = [status EXCEPT ![d] = "Close"]
        /\ closePosts' = [closePosts EXCEPT ![d] = @ + 1]
    BY <1>5 DEF Release, Releasable
  <2>3. AttemptOnce(d)'
    BY <1>0, <1>2, <1>3, <2>1 DEF Client, AttemptOnce, Under
  <2>4. EndsOnce(d)'
    BY <1>0, <2>1 DEF Client, EndsOnce
  <2>5. BeginsAlone(d)'
    BY <1>0, <1>2, <1>3, <2>1 DEF Client, BeginsAlone
  <2> QED
    BY <2>3, <2>4, <2>5 DEF Client
<1> QED
  BY <1>4, <1>5

\* _handle_close(): the client's session is reset ...
LEMMA HandleCloseClient ==
  ASSUME TypeOK, NEW t \in IoThreads, NEW d \in Clients, Client(d), HandleClose(t, d)
  PROVE  Client(d)'
<1>0. /\ t \in Threads /\ d \in Sessions
      /\ status \in [Sessions -> Statuses] /\ closePosts \in [Sessions -> Nat] /\ calls \in Nat
  BY Basics DEF TypeOK, ObjTypeOK, OpTypeOK, CliTypeOK
<1>1. Moves(t, "disconnect", d) /\ pc[t] = "idle"
  BY <1>0, Movements DEF HandleClose, Start
<1>2. UNCHANGED <<connectOps, timers, calls>>
  BY DEF HandleClose, cliVars
<1>3. /\ status[d] = "Close"
      /\ status' = [status EXCEPT ![d] = "Init"]
      /\ closePosts[d] = 1 /\ closePosts' = [closePosts EXCEPT ![d] = 0]
  <2>1. closePosts[d] # 0 /\ closePosts' = [closePosts EXCEPT ![d] = closePosts[d] - 1]
    BY <1>0 DEF HandleClose
  <2>2. closePosts[d] = 1 /\ status[d] = "Close"
    BY <1>0, <2>1 DEF Client, EndsOnce
  <2> QED
    BY <2>1, <2>2 DEF HandleClose, Reset
<1>4. \A u \in Threads : /\ Attempting(u, d)' <=> Attempting(u, d)
                         /\ Again(u, d)' <=> Again(u, d) \/ u = t
                         /\ InConnectTo(u, d)' <=> InConnectTo(u, d)
  BY <1>1 DEF Moves, Attempting, Again, InConnectTo
<1>6. AttemptOnce(d)'
  BY <1>0, <1>2, <1>3, <1>4 DEF Client, AttemptOnce, Under
<1>7. EndsOnce(d)'
  BY <1>0, <1>3 DEF EndsOnce
<1>8. BeginsAlone(d)'
  BY <1>0, <1>2, <1>3, <1>4 DEF Client, BeginsAlone
<1> QED
  BY <1>6, <1>7, <1>8 DEF Client

\* ... and goes on to be connected again.
LEMMA AgainClient ==
  ASSUME TypeOK, Labelled, NEW t \in Threads, NEW d \in Clients, Client(d), d = cur[t],
         TellDisconnect(t) \/ MarkBusyAgain(t)
  PROVE  Client(d)'
<1>0. d \in Clients /\ d \notin Servers
  BY DEF Servers
<1>1. PICK l \in {"idle", "rebusy", "reconnect"} :
        /\ Goto(t, l) /\ UNCHANGED cur
        /\ Reconnect <=> l # "idle"
  BY <1>0 DEF TellDisconnect, AfterClose, MarkBusyAgain, At, Labelled
<1>2. Moves(t, l, d) /\ Again(t, d) /\ pc[t] \in {"disconnect", "rebusy"}
  BY <1>0, <1>1, Movements DEF TellDisconnect, MarkBusyAgain, At, Again
<1>3. ClientSame(d)
  BY <1>0 DEF TellDisconnect, MarkBusyAgain, ClientSame, objVars, opVars, cliVars
<1>4. \A u \in Threads : /\ Attempting(u, d)' <=> Attempting(u, d)
                         /\ Reconnect => (Again(u, d)' <=> Again(u, d))
                         /\ InConnectTo(u, d)' <=> InConnectTo(u, d)
  BY <1>1, <1>2 DEF Moves, Attempting, Again, InConnectTo
<1>5. AttemptOnce(d)'
  BY <1>0, <1>3, <1>4 DEF Client, AttemptOnce, Under, ClientSame
<1>6. EndsOnce(d)'
  BY <1>0, <1>3 DEF Client, EndsOnce, ClientSame
<1>7. BeginsAlone(d)'
  <2>1. calls' = calls
    BY DEF TellDisconnect, MarkBusyAgain, cliVars
  <2> QED
    BY <1>0, <1>3, <1>4, <2>1 DEF Client, BeginsAlone, ClientSame
<1> QED
  BY <1>5, <1>6, <1>7 DEF Client

\* connect_to(): the application is about to begin an attempt.
LEMMA ConnectToClient ==
  ASSUME TypeOK, NEW d \in Clients, Client(d), NotCrossed(d), ConnectTo(d)
  PROVE  Client(d)'
<1>0. App \in Threads /\ calls \in Nat
  BY Basics DEF TypeOK, CliTypeOK
<1>1. Moves(App, "connect_busy", d) /\ pc[App] = "idle"
  BY <1>0, Movements DEF ConnectTo, Start
<1>2. /\ UNCHANGED <<connectOps, timers, status, closePosts>> /\ calls' = calls + 1
      /\ status[d] = "Init"
  BY <1>0 DEF ConnectTo, objVars, opVars
<1>3. \A u \in Threads : /\ Attempting(u, d)' <=> Attempting(u, d)
                         /\ Again(u, d)' <=> Again(u, d)
                         /\ InConnectTo(u, d)' <=> InConnectTo(u, d) \/ u = App
  BY <1>0, <1>1 DEF Moves, Attempting, Again, InConnectTo
<1>5. AttemptOnce(d)' /\ EndsOnce(d)'
  BY <1>0, <1>2, <1>3 DEF Client, AttemptOnce, EndsOnce, Under
<1>6. Reconnect => \A u \in Threads : ~Again(u, d)
  BY DEF NotCrossed
<1>7. BeginsAlone(d)'
  BY <1>0, <1>2, <1>3, <1>6 DEF Client, BeginsAlone
<1> QED
  BY <1>5, <1>7 DEF Client

LEMMA MarkBusyClient ==
  ASSUME TypeOK, NEW t \in Threads, NEW d \in Clients, Client(d), d = cur[t], MarkBusy(t)
  PROVE  Client(d)'
<1>1. Moves(t, "connect", d) /\ pc[t] = "connect_busy"
  BY Movements DEF MarkBusy, At
<1>2. SameFor(d)
  BY ClientSameFor DEF MarkBusy, ClientSame, objVars, opVars
<1>3. \A u \in Threads : /\ Attempting(u, d)' <=> Attempting(u, d)
                         /\ Again(u, d)' <=> Again(u, d)
                         /\ InConnectTo(u, d)' <=> InConnectTo(u, d)
  BY <1>1 DEF Moves, Attempting, Again, InConnectTo
<1> QED
  BY <1>2, <1>3, SameRoles

\* Who starts an attempt finds the status Init.
LEMMA InitFound ==
  ASSUME Labelled, NEW t \in Threads, Client(cur[t]), StartConnect(t) \/ WaitToReconnect(t)
  PROVE  /\ status[cur[t]] = "Init"
         /\ InConnectTo(t, cur[t]) \/ (Reconnect /\ Again(t, cur[t]))
<1>1. InConnectTo(t, cur[t]) \/ (Reconnect /\ Again(t, cur[t]))
  BY DEF StartConnect, WaitToReconnect, At, Labelled, InConnectTo, Again
<1> QED
  BY <1>1 DEF Client, BeginsAlone

\* The attempt begins: with a connect, or with a timer before it.
LEMMA AttemptBegins ==
  ASSUME TypeOK, Labelled, NEW t \in Threads, NEW d \in Clients, Client(d), d = cur[t],
         StartConnect(t) \/ WaitToReconnect(t)
  PROVE  Client(d)'
<1>0. /\ d \in Clients /\ d \in Sessions
      /\ status \in [Sessions -> Statuses] /\ calls \in Nat
      /\ connectOps \in [Clients -> Nat] /\ timers \in [Clients -> Nat]
  BY Basics DEF TypeOK, ObjTypeOK, CliTypeOK
<1>1. Moves(t, "idle", d) /\ (InConnectTo(t, d) \/ (Reconnect /\ Again(t, d)))
  BY <1>0, Movements, InitFound DEF StartConnect, WaitToReconnect
<1>2. /\ status[d] = "Init" /\ status' = [status EXCEPT ![d] = "ConnectTo"]
      /\ UNCHANGED <<closePosts, calls>>
  BY InitFound DEF StartConnect, WaitToReconnect, opVars
<1>3. \/ connectOps' = [connectOps EXCEPT ![d] = @ + 1] /\ UNCHANGED timers
      \/ timers' = [timers EXCEPT ![d] = @ + 1] /\ UNCHANGED connectOps
  BY DEF StartConnect, WaitToReconnect
<1>5. Under(d) = 0 /\ \A u \in Threads : ~Attempting(u, d)
  BY <1>0, <1>2 DEF Client, AttemptOnce
<1>6. Under(d)' = 1
  BY <1>0, <1>3, <1>5 DEF Under
<1>7. \A u \in Threads : /\ ~Attempting(u, d)'
                         /\ Again(u, d)' => Again(u, d) /\ u # t
                         /\ InConnectTo(u, d)' => InConnectTo(u, d) /\ u # t
  BY <1>1, <1>5 DEF Moves, Attempting, Again, InConnectTo
<1>8. AttemptOnce(d)'
  BY <1>0, <1>2, <1>6, <1>7 DEF AttemptOnce
<1>9. EndsOnce(d)'
  BY <1>0, <1>2 DEF Client, EndsOnce
<1>10. BeginsAlone(d)'
  <2>1. \A u \in Threads : ~InConnectTo(u, d)'
    BY <1>0, <1>1, <1>7 DEF Client, BeginsAlone
  <2>2. Reconnect => calls # 0 /\ \A u \in Threads : ~Again(u, d)'
    BY <1>0, <1>1, <1>7 DEF Client, BeginsAlone
  <2> QED
    BY <1>2, <2>1, <2>2 DEF BeginsAlone
<1> QED
  BY <1>8, <1>9, <1>10 DEF Client

-----------------------------------------------------------------------------
LEMMA NextClient ==
  ASSUME OwnerInv, Labelled, NEW c \in Clients, Client(c), NotCrossed(c), [Next]_vars
  PROVE  Client(c)'
<1>0. TypeOK /\ cur \in [Threads -> Sessions] /\ acceptOps \in [Sessions -> Nat] /\ c \in Sessions
  BY Basics DEF OwnerInv, TypeOK, ThrTypeOK, AccTypeOK
<1> USE Basics
<1>1. CASE \/ StartListen \/ StartThreads \/ DeleteAcceptor \/ StopService \/ JoinThreads
           \/ UNCHANGED vars
  BY <1>0, <1>1, CallPasses, PassesKeeps
<1>2. ASSUME NEW t \in IoThreads, Dispatch(t) PROVE Client(c)'
  <2>1. CASE SessionDispatch(t) /\ AndNoMore
    BY <1>0, <2>1, SessionPasses, PassesKeeps DEF AndNoMore
  <2>2. ASSUME NEW s \in Sessions, AcceptFails(t, s) \/ AcceptSucceeds(t, s)
        PROVE  Client(c)'
    <3>1. s # c
      BY <1>0, <2>2 DEF AcceptFails, AcceptSucceeds, OwnerInv, PathsApart
    <3> QED
      BY <1>0, <2>2, <3>1, OtherPasses, PassesKeeps
  <2>3. ASSUME NEW s \in Sessions, HandleClose(t, s) PROVE Client(c)'
    BY <1>0, <2>3, OtherPasses, PassesKeeps, HandleCloseClient
  <2>4. ASSUME NEW d \in Clients, HandleReconnect(t, d) \/ ConnectAgain(t, d)
        PROVE  Client(c)'
    BY <1>0, <2>4, RetryPasses, PassesKeeps
  <2>5. ASSUME NEW d \in Clients, ConnectFails(t, d) \/ ConnectSucceeds(t, d)
        PROVE  Client(c)'
    BY <1>0, <2>5, OtherPasses, PassesKeeps, AttemptEnds
  <2> QED
    BY <1>2, <2>1, <2>2, <2>3, <2>4, <2>5 DEF Dispatch, AndNoMore
<1>3. ASSUME NEW t \in Threads, Continue(t) PROVE Client(c)'
  <2>0. cur[t] \in Sessions
    BY <1>0
  <2>1. CASE AndNoMore /\ (OpenSession(t) \/ Release(t))
    BY <1>0, <2>0, <2>1, OtherPasses, PassesKeeps, AttemptOver, ReleaseClient DEF AndNoMore
  <2>2. CASE SessionContinue(t) /\ ~OpenSession(t) /\ ~Release(t) /\ AndNoMore
    BY <1>0, <2>2, SessionPasses, PassesKeeps DEF SessionContinue, AndNoMore
  <2>3. CASE \/ CheckListening(t) \/ TakeSession(t) \/ CountAccept(t) \/ PostAccept(t)
             \/ TellFailure(t)
    BY <1>0, <2>3, AcceptPasses, PassesKeeps
  <2>4. CASE AcceptorGone(t)
    BY <1>0, <2>4, CallPasses, PassesKeeps
  <2>5. CASE ReturnSession(t)
    <3>1. cur[t] # c
      BY <2>5 DEF ReturnSession, At, OwnerInv, PathsApart, Servers
    <3> QED
      BY <1>0, <2>0, <2>5, <3>1, OtherPasses, PassesKeeps
  <2>6. CASE TellDisconnect(t) \/ MarkBusyAgain(t) \/ MarkBusy(t)
    BY <1>0, <2>0, <2>6, OtherPasses, PassesKeeps, AgainClient, MarkBusyClient
  <2>7. CASE GiveUpConnect(t) \/ WaitToReconnect(t) \/ StartConnect(t)
    BY <1>0, <2>0, <2>7, OtherPasses, PassesKeeps, AttemptOver, AttemptBegins
  <2> QED
    BY <1>3, <2>1, <2>2, <2>3, <2>4, <2>5, <2>6, <2>7 DEF Continue, AndNoMore
<1>4. CASE Call
  <2>1. ASSUME NEW d \in Clients, ConnectTo(d) PROVE Client(c)'
    BY <1>0, <2>1, OtherPasses, PassesKeeps, ConnectToClient
  <2>2. CASE \/ \E s \in Sessions : /\ SendMsg(s, last[s].id) \/ AppClose(s, last[s].id)
                                    /\ AndNoMore
             \/ Dequeue \/ Deliver \/ BeginShutdown
    BY <1>0, <2>2, CallPasses, PassesKeeps DEF AndNoMore
  <2> QED
    BY <1>4, <2>1, <2>2 DEF Call, AndNoMore
<1> QED
  BY <1>1, <1>2, <1>3, <1>4 DEF Next

ClientInv == Labelled /\ \A c \in Clients : Client(c)

LEMMA ClientInvariant ==
  ASSUME CalledOnce PROVE Spec => [](OwnerInv /\ ClientInv)
<1>1. Init => OwnerInv /\ ClientInv
  BY InitOwner, InitClient DEF ClientInv
<1>2. ASSUME OwnerInv, ClientInv, [Next]_vars PROVE OwnerInv' /\ ClientInv'
  <2>1. ASSUME NEW c \in Clients PROVE Client(c)'
    <3>1. NotCrossed(c)
      <4>1. Reconnect /\ ConnectTo(c) => calls = 0
        BY <1>2 DEF CalledOnce, ConnectTo, OwnerInv, TypeOK, CliTypeOK
      <4> QED
        BY <1>2, <4>1 DEF NotCrossed, ClientInv, Client, BeginsAlone
    <3> QED
      BY <1>2, <3>1, NextClient DEF ClientInv
  <2> QED
    BY <1>2, <2>1, NextType, NextOwner, NextLabelled DEF OwnerInv, ClientInv
<1> QED
  BY <1>1, <1>2, PTL DEF Spec

(* A client session has one attempt to connect under way exactly while its *)
(* status is ConnectTo, when connect_to() and the library's reconnecting   *)
(* do not both begin attempts (connect_to, _handle_close, _handle_connect, *)
(* _handle_reconnect).                                                     *)
THEOREM OneAttemptCorrect ==
  ASSUME CalledOnce PROVE Spec => []OneAttempt
<1>1. OwnerInv /\ ClientInv => OneAttempt
  <2> SUFFICES ASSUME OwnerInv, ClientInv, NEW c \in Clients
               PROVE  Under(c) + Cardinality({t \in Threads : Attempting(t, c)})
                        = IF status[c] = "ConnectTo" THEN 1 ELSE 0
    BY DEF OneAttempt, Under
  <2> DEFINE Handlers == {t \in Threads : Attempting(t, c)}
  <2>1. AttemptOnce(c)
    BY DEF ClientInv, Client
  <2>2. CASE \A t \in Threads : ~Attempting(t, c)
    <3>1. Handlers = {}
      BY <2>2
    <3>2. Cardinality(Handlers) = 0
      BY <3>1, FS_EmptySet
    <3> QED
      BY <2>1, <2>2, <3>2 DEF AttemptOnce
  <2>3. ASSUME NEW t \in Threads, Attempting(t, c)
        PROVE  Under(c) + Cardinality(Handlers) = IF status[c] = "ConnectTo" THEN 1 ELSE 0
    <3>1. Handlers = {t}
      BY <2>1, <2>3 DEF AttemptOnce
    <3>2. Cardinality(Handlers) = 1
      BY <3>1, FS_Singleton
    <3> QED
      BY <2>1, <2>3, <3>2 DEF AttemptOnce
  <2> QED
    BY <2>2, <2>3
<1> QED
  BY <1>1, ClientInvariant, PTL

-----------------------------------------------------------------------------
\* A function that checks the status of a client finds the one it expects.
LEMMA Expected ==
  ASSUME complaints = {}, NoServerComplaint', NEW f, NEW s \in Sessions, NEW ok,
         Expect(f, s, ok), s \in Clients => ok
  PROVE  complaints' = {}
BY DEF Expect, NoServerComplaint, Clients, Sessions

LEMMA NextNoComplaint ==
  ASSUME OwnerInv, ClientInv, complaints = {}, NoServerComplaint', [Next]_vars
  PROVE  complaints' = {}
<1> USE Basics
<1>0. cur \in [Threads -> Sessions] /\ closePosts \in [Sessions -> Nat]
  BY DEF OwnerInv, TypeOK, ThrTypeOK, OpTypeOK
<1>1. \A c \in Clients : Client(c)
  BY DEF ClientInv
<1>2. ASSUME StartListen PROVE complaints' = {}
  <2>1. Top \in Servers
    BY <1>2, StackTop DEF StartListen, OwnerInv, TypeOK, PathsApart, Top
  <2> QED
    BY <1>2, <2>1, Expected DEF StartListen, Servers
<1>3. ASSUME NEW t \in Threads, PostAccept(t) PROVE complaints' = {}
  <2>1. held[t] \in Servers
    BY <1>3 DEF PostAccept, At, OwnerInv, PathsApart
  <2> QED
    BY <1>3, <2>1, Expected DEF PostAccept, Servers
<1>4. ASSUME NEW t \in IoThreads, NEW s \in Sessions, AcceptFails(t, s) PROVE complaints' = {}
  BY <1>4, Expected DEF AcceptFails, OwnerInv, PathsApart
<1>5. ASSUME NEW t \in IoThreads, NEW s \in Sessions, HandleClose(t, s) PROVE complaints' = {}
  <2>1. s \in Clients => status[s] = "Close"
    BY <1>0, <1>1, <1>5 DEF HandleClose, Client, EndsOnce
  <2> QED
    BY <1>5, <2>1, Expected DEF HandleClose, Reset
<1>6. ASSUME NEW t \in Threads, OpenSession(t) \/ GiveUpConnect(t) PROVE complaints' = {}
  <2>1. cur[t] \in Clients => status[cur[t]] = "ConnectTo"
    BY <1>1, <1>6 DEF OpenSession, GiveUpConnect, At, Attempting, Client, AttemptOnce
  <2>2. cur[t] \in Sessions
    BY <1>0
  <2> QED
    BY <1>6, <2>1, <2>2, Expected DEF OpenSession, GiveUpConnect
<1>7. ASSUME NEW t \in Threads, StartConnect(t) \/ WaitToReconnect(t) PROVE complaints' = {}
  <2>1. cur[t] \in Clients
    BY <1>7 DEF StartConnect, WaitToReconnect, At, OwnerInv, PathsApart
  <2>2. Labelled /\ Client(cur[t]) /\ cur[t] \in Sessions
    BY <1>1, <2>1 DEF ClientInv
  <2>3. status[cur[t]] = "Init"
    BY <1>7, <2>2, InitFound
  <2> QED
    BY <1>7, <2>2, <2>3, Expected DEF StartConnect, WaitToReconnect
<1>8. ASSUME NEW t \in IoThreads, NEW s \in Sessions, NEW n \in Serials,
             \/ ReadFails(t, s, n) \/ ReadSucceeds(t, s, n)
             \/ WriteFails(t, s, n) \/ WriteSucceeds(t, s, n)
      PROVE  complaints' = {}
  BY <1>8 DEF ReadFails, ReadSucceeds, WriteFails, WriteSucceeds, msgVars
<1>9. ASSUME NEW t \in IoThreads, NEW c \in Clients,
             \/ HandleReconnect(t, c) \/ ConnectAgain(t, c)
             \/ ConnectFails(t, c) \/ ConnectSucceeds(t, c)
      PROVE  complaints' = {}
  BY <1>9 DEF HandleReconnect, ConnectAgain, ConnectFails, ConnectSucceeds, msgVars, sessVars
<1>10. ASSUME NEW t \in Threads,
              \/ Announce(t) \/ PushInput(t) \/ RejectInput(t) \/ TakeInput(t) \/ StartWrite(t)
              \/ WriteEnds(t) \/ RecheckStatus(t) \/ HandlerClose(t) \/ Release(t)
       PROVE  complaints' = {}
  BY <1>10 DEF Announce, PushInput, RejectInput, TakeInput, StartWrite, WriteEnds, RecheckStatus,
               HandlerClose, Shut, Release, msgVars
<1>11. ASSUME NEW t \in Threads,
              \/ CheckListening(t) \/ TakeSession(t) \/ CountAccept(t) \/ AcceptorGone(t) \/ ReturnSession(t)
              \/ TellDisconnect(t) \/ MarkBusyAgain(t) \/ MarkBusy(t) \/ TellFailure(t)
       PROVE  complaints' = {}
  BY <1>11 DEF CheckListening, TakeSession, CountAccept, AcceptorGone, ReturnSession, TellDisconnect,
               MarkBusyAgain, MarkBusy, TellFailure, msgVars, sessVars
<1>12. CASE Call
  BY <1>12 DEF Call, SendMsg, AppClose, Shut, ConnectTo, Dequeue, Deliver, BeginShutdown,
               AdvanceShutdown, msgVars, sessVars
<1>13. CASE StartThreads \/ DeleteAcceptor \/ StopService \/ JoinThreads \/ UNCHANGED vars
  BY <1>13 DEF StartThreads, DeleteAcceptor, StopService, JoinThreads, AdvanceShutdown,
               msgVars, sessVars, vars
<1>14. ASSUME NEW t \in IoThreads, Dispatch(t) PROVE complaints' = {}
  <2>1. ASSUME NEW s \in Sessions, AcceptSucceeds(t, s) PROVE complaints' = {}
    BY <2>1 DEF AcceptSucceeds, msgVars
  <2> QED
    BY <1>4, <1>5, <1>8, <1>9, <1>14, <2>1 DEF Dispatch, SessionDispatch
<1>15. ASSUME NEW t \in Threads, Continue(t) PROVE complaints' = {}
  BY <1>3, <1>6, <1>7, <1>10, <1>11, <1>15 DEF Continue, SessionContinue
<1> QED
  BY <1>2, <1>12, <1>13, <1>14, <1>15 DEF Next

(* No function ever meets a status it logs as an error, of a server or of  *)
(* a client (reset, connected, set_status_init, set_accept_status,         *)
(* set_connect_status).                                                    *)
NoComplaint == complaints = {}

THEOREM NoComplaintCorrect ==
  ASSUME CalledOnce PROVE Spec => []NoComplaint
<1>1. Init => NoComplaint
  BY DEF Init, SessionInit, NoComplaint
<1>2. /\ OwnerInv /\ ClientInv /\ NoComplaint
      /\ [Next]_vars /\ NoServerComplaint'
      => NoComplaint'
  BY NextNoComplaint DEF NoComplaint
<1> QED
  BY <1>1, <1>2, ClientInvariant, NoServerComplaintCorrect, PTL DEF Spec

(* Whoever starts to connect a client finds its status Init.               *)
THEOREM ConnectFromInitCorrect ==
  ASSUME CalledOnce PROVE Spec => []ConnectFromInit
<1>1. NoComplaint => ConnectFromInit
  BY DEF NoComplaint, ConnectFromInit
<1> QED
  BY <1>1, NoComplaintCorrect, PTL

-----------------------------------------------------------------------------
(* What is under way on a session that has not gone astray.                *)
Receives(t, s)  == cur[t] = s /\ pc[t] = "received"
Writes(t, s)    == cur[t] = s /\ pc[t] \in {"write", "written"}
Announces(t, s) == cur[t] = s /\ pc[t] = "announce"
Closes(t, s)    == cur[t] = s /\ pc[t] = "close"
Recycles(t, s)  == cur[t] = s /\ pc[t] = "disconnect"

Used   == {"Open", "Shut", "Close"}
Unused == {"Init", "Accept", "ConnectTo"}

\* A read that is outstanding is one on the connection the session has now;
\* it, and its handler, are under way only while m_reading_atomic is set.
ReadsOnly(s) ==
  /\ \A n \in Serials : readOps[s][n] > 0 => n = serial[s] /\ reading[s]
  /\ \A t \in Threads : Receives(t, s) => reading[s]

\* The same for the write, and there is one at most.
WriteOnce(s) ==
  /\ \A n \in Serials : writeOps[s][n] > 0 =>
       /\ n = serial[s] /\ writeOps[s][n] = 1 /\ writing[s]
       /\ \A t \in Threads : ~Writes(t, s)
  /\ \A t \in Threads : Writes(t, s) => writing[s] /\ \A u \in Threads : Writes(u, s) => u = t

\* Neither is set on a session that is not in use.
AtRest(s) == status[s] \notin InUse => ~reading[s] /\ ~writing[s]

\* What a thread that is at work for s finds.
Working(s) ==
  \A t \in Threads :
    /\ Receives(t, s) => born[t] = serial[s]
    /\ Closes(t, s) => born[t] = serial[s] /\ status[s] \in Used
    /\ Announces(t, s) =>
         /\ status[s] = "Open" /\ ~reading[s] /\ ~writing[s]
         /\ \A u \in Threads : ~Closes(u, s) /\ (Announces(u, s) => u = t)
    /\ Recycles(t, s) =>
         /\ status[s] = "Init" /\ born[t] # serial[s]
         /\ \A u \in Threads : ~InConnectTo(u, s) /\ (Recycles(u, s) => u = t)

-----------------------------------------------------------------------------
(* What the application was told about s last, and is to be told.          *)
Untold == batch \o queue

Of(e, s) == e.type # "Failure" /\ e.s = s

\* The word at 0 is the one told last, l; those of p are pending.
Seen(p, i, s) == i = 0 \/ Of(p[i], s)
Word(p, l, i) == IF i = 0 THEN l ELSE p[i]

\* Word b may follow word a.
Follows(a, b) ==
  IF a.type = "Disconnect"
    THEN b.type = "Connect" /\ b.id \in Serials /\ b.id # a.id
    ELSE b.type \in {"Data", "Disconnect"} /\ b.id = a.id

Chain(p, l, s) ==
  \A i, k \in 0..Len(p) :
    /\ i < k /\ Seen(p, i, s) /\ Seen(p, k, s)
    /\ \A j \in (i + 1)..(k - 1) : ~Seen(p, j, s)
    => Follows(Word(p, l, i), Word(p, l, k))

\* the last word about s is at i
Final(p, i, s) == Seen(p, i, s) /\ \A j \in (i + 1)..Len(p) : ~Seen(p, j, s)

\* Word a, the last one, says that connection n stands, or that none does.
Fits(a, n, stands) ==
  IF stands THEN a.type # "Disconnect" /\ a.id = n ELSE a.type = "Disconnect"

\* The words are in order, of the connections ids, and end as they should.
Story(p, l, s, ids, n, stands) ==
  /\ Chain(p, l, s)
  /\ \A i \in 0..Len(p) : Seen(p, i, s) => Word(p, l, i).id \in ids
  /\ \A i \in 0..Len(p) : Final(p, i, s) => Fits(Word(p, l, i), n, stands)

Announced(s) == status[s] \in Used /\ \A t \in Threads : ~Announces(t, s)

\* A session has a serial nobody was told of until it is announced under it.
Known(s) == {id \in Serials \cup {0} : Announced(s) \/ id # serial[s]}

\* whether a connection stands when all is told, and which
Standing(s) == Announced(s) \/ \E t \in Threads : Recycles(t, s)

Stands(s, n) == /\ Announced(s) => n = serial[s]
                /\ \A t \in Threads : Recycles(t, s) => n = born[t]

Telling(s) ==
  \E n \in Serials : Stands(s, n) /\ Story(Untold, last[s], s, Known(s), n, Standing(s))

Loop(s) == ReadsOnly(s) /\ WriteOnce(s) /\ AtRest(s) /\ Working(s) /\ Telling(s)

-----------------------------------------------------------------------------
(* What becomes of a story: a word is added, or the first one is told.     *)

LEMMA Appended ==
  ASSUME NEW p \in Seq(Events), NEW e \in Events
  PROVE  /\ Append(p, e) \in Seq(Events)
         /\ Len(p) \in Nat /\ Len(Append(p, e)) = Len(p) + 1
         /\ Append(p, e)[Len(p) + 1] = e
         /\ \A i \in 1..Len(p) : Append(p, e)[i] = p[i]
BY AppendProperties, LenProperties

\* A word about another session changes nothing ...
LEMMA OtherWord ==
  ASSUME NEW p \in Seq(Events), NEW e \in Events, NEW l, NEW s, NEW ids, NEW n, NEW stands,
         ~Of(e, s), Story(p, l, s, ids, n, stands)
  PROVE  Story(Append(p, e), l, s, ids, n, stands)
<1> DEFINE q == Append(p, e)
<1>1. Len(p) \in Nat /\ Len(q) = Len(p) + 1
  BY Appended
<1>2. ~Seen(q, Len(p) + 1, s)
  BY <1>1, Appended DEF Seen
<1>3. \A i \in 0..Len(p) : /\ Seen(q, i, s) <=> Seen(p, i, s)
                           /\ Word(q, l, i) = Word(p, l, i)
  BY Appended DEF Seen, Word
<1>4. \A i \in 0..Len(q) : Seen(q, i, s) => i \in 0..Len(p)
  BY <1>1, <1>2
<1> HIDE DEF q
<1>5. Chain(q, l, s)
  <2> SUFFICES ASSUME NEW i \in 0..Len(q), NEW k \in 0..Len(q),
                      i < k, Seen(q, i, s), Seen(q, k, s),
                      \A j \in (i + 1)..(k - 1) : ~Seen(q, j, s)
               PROVE  Follows(Word(q, l, i), Word(q, l, k))
    BY DEF Chain
  <2>1. i \in 0..Len(p) /\ k \in 0..Len(p)
    BY <1>4
  <2>2. \A j \in (i + 1)..(k - 1) : ~Seen(p, j, s)
    BY <1>1, <1>3, <2>1
  <2>3. Follows(Word(p, l, i), Word(p, l, k))
    BY <1>3, <2>1, <2>2 DEF Story, Chain
  <2> QED
    BY <1>3, <2>1, <2>3
<1>6. ASSUME NEW i \in 0..Len(q), Seen(q, i, s) PROVE Word(q, l, i).id \in ids
  BY <1>3, <1>4, <1>6 DEF Story
<1>7. ASSUME NEW i \in 0..Len(q), Final(q, i, s) PROVE Fits(Word(q, l, i), n, stands)
  <2>1. i \in 0..Len(p)
    BY <1>4, <1>7 DEF Final
  <2>2. Final(p, i, s)
    BY <1>1, <1>3, <1>7, <2>1 DEF Final
  <2> QED
    BY <1>3, <2>1, <2>2 DEF Story
<1> QED
  BY <1>5, <1>6, <1>7 DEF Story, q

\* ... and one that may follow every last word makes a longer story.
LEMMA NextWord ==
  ASSUME NEW p \in Seq(Events), NEW e \in Events, NEW l \in Told, NEW s,
         NEW ids, NEW n, NEW stands, NEW more, NEW m, NEW standing,
         Of(e, s), Story(p, l, s, ids, n, stands),
         \A a : a.id \in ids /\ Fits(a, n, stands) => Follows(a, e),
         \A id \in ids : id \in more, e.id \in more, Fits(e, m, standing)
  PROVE  Story(Append(p, e), l, s, more, m, standing)
<1> DEFINE q == Append(p, e)
           z == Len(p) + 1
<1>1. Len(p) \in Nat /\ Len(q) = z
  BY Appended
<1>2. Seen(q, z, s) /\ Word(q, l, z) = e
  BY <1>1, Appended DEF Seen, Word
<1>3. \A i \in 0..Len(p) : /\ Seen(q, i, s) <=> Seen(p, i, s)
                           /\ Word(q, l, i) = Word(p, l, i)
  BY Appended DEF Seen, Word
<1>4. \A i \in 0..Len(q) : i \in 0..Len(p) \/ i = z
  BY <1>1
<1> HIDE DEF q
<1>5. Chain(q, l, s)
  <2> SUFFICES ASSUME NEW i \in 0..Len(q), NEW k \in 0..Len(q),
                      i < k, Seen(q, i, s), Seen(q, k, s),
                      \A j \in (i + 1)..(k - 1) : ~Seen(q, j, s)
               PROVE  Follows(Word(q, l, i), Word(q, l, k))
    BY DEF Chain
  <2>1. i \in 0..Len(p)
    BY <1>1
  <2>2. CASE k \in 0..Len(p)
    <3>1. \A j \in (i + 1)..(k - 1) : ~Seen(p, j, s)
      BY <1>1, <1>3, <2>1, <2>2
    <3>2. Follows(Word(p, l, i), Word(p, l, k))
      BY <1>3, <2>1, <2>2, <3>1 DEF Story, Chain
    <3> QED
      BY <1>3, <2>1, <2>2, <3>2
  <2>3. CASE k = z
    <3>1. Final(p, i, s)
      BY <1>1, <1>3, <2>1, <2>3 DEF Final
    <3>2. Fits(Word(p, l, i), n, stands) /\ Word(p, l, i).id \in ids
      BY <1>3, <2>1, <3>1 DEF Story, Final
    <3> QED
      BY <1>2, <1>3, <2>1, <2>3, <3>2
  <2> QED
    BY <1>4, <2>2, <2>3
<1>6. ASSUME NEW i \in 0..Len(q), Seen(q, i, s) PROVE Word(q, l, i).id \in more
  <2>1. CASE i \in 0..Len(p)
    <3>1. Word(p, l, i).id \in ids
      BY <1>3, <1>6, <2>1 DEF Story
    <3> QED
      BY <1>3, <2>1, <3>1
  <2> QED
    BY <1>2, <1>4, <2>1
<1>7. ASSUME NEW i \in 0..Len(q), Final(q, i, s) PROVE Fits(Word(q, l, i), m, standing)
  <2>1. i = z
    BY <1>1, <1>2, <1>4, <1>7 DEF Final
  <2> QED
    BY <1>2, <2>1
<1> QED
  BY <1>5, <1>6, <1>7 DEF Story, q

\* What the application was told last when it has been told e.
Heard(e, l, s) == IF Of(e, s) THEN [type |-> e.type, id |-> e.id] ELSE l

LEMMA WordTold ==
  ASSUME NEW p \in Seq(Events), p # <<>>, NEW l, NEW s, NEW ids, NEW n, NEW stands,
         Story(p, l, s, ids, n, stands)
  PROVE  Story(Tail(p), Heard(p[1], l, s), s, ids, n, stands)
<1> DEFINE q == Tail(p)
           h == Heard(p[1], l, s)
<1>1. /\ Len(p) \in Nat \ {0} /\ Len(q) = Len(p) - 1
      /\ \A i \in 1..Len(q) : q[i] = p[i + 1]
  BY HeadTailProperties, LenProperties
<1>2. \A i \in 1..Len(q) : Seen(q, i, s) <=> Seen(p, i + 1, s)
  BY <1>1 DEF Seen
<1>3. \A i \in 1..Len(q) : Word(q, h, i) = Word(p, l, i + 1)
  BY <1>1 DEF Word
<1> DEFINE Old(i) == IF i = 0 /\ ~Of(p[1], s) THEN 0 ELSE i + 1
<1>4. \A i \in 0..Len(q) : Seen(q, i, s) <=> Seen(p, Old(i), s)
  BY <1>1, <1>2 DEF Seen
<1>5. \A i \in 0..Len(q) : /\ Word(q, h, i).type = Word(p, l, Old(i)).type
                           /\ Word(q, h, i).id = Word(p, l, Old(i)).id
  BY <1>1, <1>3 DEF Word, Heard
<1>6. \A i \in 0..Len(q) : Old(i) \in 0..Len(p)
  BY <1>1
<1>7. Old(0) = 0 => ~Seen(p, 1, s)
  BY DEF Seen
<1> HIDE DEF q, h
<1>8. ASSUME NEW i \in 0..Len(q), NEW k \in (i + 1)..(Len(q) + 1),
             \A j \in (i + 1)..(k - 1) : ~Seen(q, j, s)
      PROVE  \A j \in (Old(i) + 1)..k : ~Seen(p, j, s)
  <2> SUFFICES ASSUME NEW j \in (Old(i) + 1)..k PROVE ~Seen(p, j, s)
    OBVIOUS
  <2>1. CASE j - 1 \in (i + 1)..(k - 1)
    <3>1. j - 1 \in 1..Len(q) /\ (j - 1) + 1 = j
      BY <1>1, <2>1
    <3> QED
      BY <1>2, <1>8, <2>1, <3>1
  <2>2. CASE j - 1 \notin (i + 1)..(k - 1)
    <3>1. i = 0 /\ Old(i) = 0 /\ j = 1
      BY <1>1, <2>2
    <3> QED
      BY <1>7, <3>1
  <2> QED
    BY <2>1, <2>2
<1>9. Chain(q, h, s)
  <2> SUFFICES ASSUME NEW i \in 0..Len(q), NEW k \in 0..Len(q),
                      i < k, Seen(q, i, s), Seen(q, k, s),
                      \A j \in (i + 1)..(k - 1) : ~Seen(q, j, s)
               PROVE  Follows(Word(q, h, i), Word(q, h, k))
    BY DEF Chain
  <2>1. Old(k) = k + 1 /\ Old(i) < Old(k) /\ k \in (i + 1)..(Len(q) + 1)
    BY <1>1
  <2>2. \A j \in (Old(i) + 1)..k : ~Seen(p, j, s)
    BY <1>8, <2>1
  <2>3. Follows(Word(p, l, Old(i)), Word(p, l, Old(k)))
    <3>1. Old(k) - 1 = k
      BY <2>1
    <3> QED
      BY <1>4, <1>6, <2>1, <2>2, <3>1 DEF Story, Chain
  <2> QED
    BY <1>5, <2>3 DEF Follows
<1>10. ASSUME NEW i \in 0..Len(q), Seen(q, i, s) PROVE Word(q, h, i).id \in ids
  BY <1>4, <1>5, <1>6, <1>10 DEF Story
<1>11. ASSUME NEW i \in 0..Len(q), Final(q, i, s) PROVE Fits(Word(q, h, i), n, stands)
  <2>1. \A j \in (Old(i) + 1)..(Len(q) + 1) : ~Seen(p, j, s)
    BY <1>1, <1>8, <1>11 DEF Final
  <2>2. Final(p, Old(i), s)
    BY <1>1, <1>4, <1>11, <2>1 DEF Final
  <2>3. Fits(Word(p, l, Old(i)), n, stands)
    BY <1>6, <2>2 DEF Story
  <2> QED
    BY <1>5, <2>3 DEF Fits
<1> QED
  BY <1>9, <1>10, <1>11 DEF Story, q, h

\* The first word may follow the one told last, ...
LEMMA FirstWord ==
  ASSUME NEW p \in Seq(Events), p # <<>>, NEW l, NEW s, NEW ids, NEW n, NEW stands,
         Story(p, l, s, ids, n, stands), Of(p[1], s)
  PROVE  Follows(l, p[1])
<1>1. 0 \in 0..Len(p) /\ 1 \in 0..Len(p)
  BY LenProperties, EmptySeq
<1>2. Seen(p, 0, s) /\ Seen(p, 1, s) /\ Word(p, l, 0) = l /\ Word(p, l, 1) = p[1]
  BY DEF Seen, Word
<1> QED
  BY <1>1, <1>2 DEF Story, Chain

\* ... and when there is none, the one told last says how it stands.
LEMMA AllTold ==
  ASSUME NEW l, NEW s, NEW ids, NEW n, NEW stands, Story(<<>>, l, s, ids, n, stands)
  PROVE  Fits(l, n, stands)
<1>1. Final(<<>>, 0, s) /\ Word(<<>>, l, 0) = l
  BY DEF Final, Seen, Word
<1> QED
  BY <1>1 DEF Story

\* A story stays one when more ids are known.
LEMMA StoryWider ==
  ASSUME NEW p, NEW l, NEW s, NEW ids, NEW n, NEW stands, Story(p, l, s, ids, n, stands),
         NEW more, \A id \in ids : id \in more, NEW standing, standing <=> stands
  PROVE  Story(p, l, s, more, n, standing)
BY DEF Story, Fits

-----------------------------------------------------------------------------
(* What the steps do to the words that are pending.                        *)

LEMMA UntoldType ==
  ASSUME TypeOK PROVE Untold \in Seq(Events)
BY ConcatProperties DEF TypeOK, MsgTypeOK, AppTypeOK, Untold

LEMMA Pushed ==
  ASSUME TypeOK, NEW e \in Events, Push(e), UNCHANGED batch
  PROVE  Untold' = Append(Untold, e)
<1>1. queue \in Seq(Events) /\ batch \in Seq(Events) /\ <<e>> \in Seq(Events)
  BY DEF TypeOK, MsgTypeOK, AppTypeOK
<1>2. Append(queue, e) = queue \o <<e>>
  BY <1>1, AppendIsConcat
<1>3. Append(Untold, e) = Untold \o <<e>>
  BY UntoldType, AppendIsConcat
<1>4. batch \o (queue \o <<e>>) = (batch \o queue) \o <<e>>
  BY <1>1, ConcatAssociative
<1> QED
  BY <1>2, <1>3, <1>4 DEF Push, Untold

LEMMA Dequeued ==
  ASSUME TypeOK, Dequeue PROVE Untold' = Untold
<1>1. queue \in Seq(Events)
  BY DEF TypeOK, MsgTypeOK
<1>2. queue \o <<>> = queue /\ <<>> \o queue = queue
  BY <1>1, ConcatEmptySeq
<1> QED
  BY <1>2 DEF Dequeue, Untold

LEMMA Delivered ==
  ASSUME TypeOK, Deliver
  PROVE  Untold # <<>> /\ Head(batch) = Untold[1] /\ Untold' = Tail(Untold)
<1>1. queue \in Seq(Events) /\ batch \in Seq(Events) /\ batch # <<>>
  BY DEF TypeOK, MsgTypeOK, AppTypeOK, Deliver
<1>2. /\ Tail(batch) \in Seq(Events) /\ Len(Tail(batch)) = Len(batch) - 1
      /\ \A i \in 1..Len(Tail(batch)) : Tail(batch)[i] = batch[i + 1]
      /\ Head(batch) = batch[1] /\ Len(batch) \in Nat \ {0} /\ Len(queue) \in Nat
  BY <1>1, HeadTailProperties, LenProperties
<1>3. /\ Untold \in Seq(Events) /\ Len(Untold) = Len(batch) + Len(queue)
      /\ \A i \in 1..Len(batch) + Len(queue) :
           Untold[i] = IF i <= Len(batch) THEN batch[i] ELSE queue[i - Len(batch)]
  BY <1>1, ConcatProperties DEF Untold
<1>4. Untold # <<>> /\ Head(batch) = Untold[1]
  BY <1>2, <1>3, EmptySeq
<1> DEFINE q == Tail(batch) \o queue
<1>5. /\ q \in Seq(Events) /\ Len(q) = Len(batch) - 1 + Len(queue)
      /\ \A i \in 1..(Len(batch) - 1 + Len(queue)) :
           q[i] = IF i <= Len(batch) - 1 THEN Tail(batch)[i] ELSE queue[i - (Len(batch) - 1)]
  BY <1>1, <1>2, ConcatProperties
<1>6. /\ Tail(Untold) \in Seq(Events) /\ Len(Tail(Untold)) = Len(Untold) - 1
      /\ \A i \in 1..Len(Tail(Untold)) : Tail(Untold)[i] = Untold[i + 1]
  BY <1>3, <1>4, HeadTailProperties
<1> HIDE DEF q
<1>7. Len(q) = Len(Tail(Untold))
  BY <1>2, <1>3, <1>5, <1>6
<1>8. ASSUME NEW i \in 1..Len(q) PROVE q[i] = Tail(Untold)[i]
  <2>1. Tail(Untold)[i] = IF i + 1 <= Len(batch) THEN batch[i + 1] ELSE queue[i + 1 - Len(batch)]
    BY <1>2, <1>3, <1>5, <1>6, <1>7
  <2>2. CASE i <= Len(batch) - 1
    <3>1. i \in 1..Len(Tail(batch)) /\ i + 1 <= Len(batch)
      BY <1>2, <1>5, <2>2
    <3>2. q[i] = Tail(batch)[i]
      BY <1>5, <1>7, <2>2
    <3> QED
      BY <1>2, <2>1, <3>1, <3>2
  <2>3. CASE ~(i <= Len(batch) - 1)
    <3>1. i - (Len(batch) - 1) = i + 1 - Len(batch) /\ ~(i + 1 <= Len(batch))
      BY <1>2, <1>5, <2>3
    <3> QED
      BY <1>2, <1>5, <2>1, <2>3, <3>1
  <2> QED
    BY <2>2, <2>3
<1>9. q = Tail(Untold)
  BY <1>5, <1>6, <1>7, <1>8, SeqEqual
<1> QED
  BY <1>4, <1>9 DEF Deliver, sessVars, msgVars, Untold, q


-----------------------------------------------------------------------------
(* A step beside session s: no thread begins work for it, its flags and    *)
(* operations stay, it stays in use or out of use, and what the            *)
(* application is to be told about it stays.                               *)

LessWork(s) ==
  \A u \in Threads :
    /\ Receives(u, s)' => Receives(u, s) /\ born'[u] = born[u]
    /\ Closes(u, s)' => Closes(u, s) /\ born'[u] = born[u]
    /\ Writes(u, s)' => Writes(u, s)
    /\ Announces(u, s)' <=> Announces(u, s)
    /\ Recycles(u, s)' <=> Recycles(u, s)
    /\ Recycles(u, s) => born'[u] = born[u]
    /\ InConnectTo(u, s)' => InConnectTo(u, s) \/ \A v \in Threads : ~Recycles(v, s)

SameFlags(s) ==
  /\ serial'[s] = serial[s] /\ reading'[s] = reading[s] /\ writing'[s] = writing[s]
  /\ readOps'[s] = readOps[s] /\ writeOps'[s] = writeOps[s]

SameUse(s) ==
  \/ status'[s] = status[s]
  \/ /\ status[s] \in Unused /\ status'[s] \in Unused
     /\ \A u \in Threads : ~Recycles(u, s)
  \/ /\ status[s] \in Used /\ status'[s] \in Used
     /\ \A u \in Threads : ~Announces(u, s)
     /\ status'[s] = "Close" => ~reading[s] /\ ~writing[s]

SameStory(s) ==
  /\ last'[s] = last[s]
  /\ \/ Untold' = Untold
     \/ \E e \in Events : ~Of(e, s) /\ Untold' = Append(Untold, e)

Beside(s) == LessWork(s) /\ SameFlags(s) /\ SameUse(s) /\ SameStory(s)

LEMMA WorkKept ==
  ASSUME NEW s \in Sessions, Loop(s), LessWork(s), SameFlags(s), SameUse(s)
  PROVE  ReadsOnly(s)' /\ WriteOnce(s)' /\ AtRest(s)' /\ Working(s)'
<1> USE DEF Loop
<1>1. ReadsOnly(s)'
  BY DEF ReadsOnly, LessWork, SameFlags
<1>2. WriteOnce(s)'
  BY DEF WriteOnce, LessWork, SameFlags
<1>3. AtRest(s)'
  BY DEF AtRest, SameFlags, SameUse, InUse, Used, Unused
<1>4. Working(s)'
  <2> SUFFICES ASSUME NEW t \in Threads
               PROVE  /\ Receives(t, s)' => born'[t] = serial'[s]
                      /\ Closes(t, s)' => born'[t] = serial'[s] /\ status'[s] \in Used
                      /\ Announces(t, s)' =>
                           /\ status'[s] = "Open" /\ ~reading'[s] /\ ~writing'[s]
                           /\ \A u \in Threads : ~(Closes(u, s)') /\ (Announces(u, s)' => u = t)
                      /\ Recycles(t, s)' =>
                           /\ status'[s] = "Init" /\ born'[t] # serial'[s]
                           /\ \A u \in Threads : ~(InConnectTo(u, s)') /\ (Recycles(u, s)' => u = t)
    BY DEF Working
  <2>1. Receives(t, s)' => born'[t] = serial'[s]
    BY DEF Working, LessWork, SameFlags
  <2>2. Closes(t, s)' => born'[t] = serial'[s] /\ status'[s] \in Used
    BY DEF Working, LessWork, SameFlags, SameUse, Unused, Used
  <2>3. Announces(t, s)' =>
          /\ status'[s] = "Open" /\ ~reading'[s] /\ ~writing'[s]
          /\ \A u \in Threads : ~(Closes(u, s)') /\ (Announces(u, s)' => u = t)
    BY DEF Working, LessWork, SameFlags, SameUse, Unused
  <2>4. Recycles(t, s)' =>
          /\ status'[s] = "Init" /\ born'[t] # serial'[s]
          /\ \A u \in Threads : ~(InConnectTo(u, s)') /\ (Recycles(u, s)' => u = t)
    BY DEF Working, LessWork, SameFlags, SameUse, Used
  <2> QED
    BY <2>1, <2>2, <2>3, <2>4
<1> QED
  BY <1>1, <1>2, <1>3, <1>4

LEMMA TellingKept ==
  ASSUME TypeOK, NEW s \in Sessions, Telling(s), SameStory(s), serial'[s] = serial[s],
         Announced(s)' <=> Announced(s),
         \A u \in Threads : /\ Recycles(u, s)' <=> Recycles(u, s)
                            /\ Recycles(u, s) => born'[u] = born[u]
  PROVE  Telling(s)'
<1>1. PICK n \in Serials : Stands(s, n) /\ Story(Untold, last[s], s, Known(s), n, Standing(s))
  BY DEF Telling
<1>2. Stands(s, n)'
  BY <1>1 DEF Stands
<1>3. (\A id \in Known(s) : id \in Known(s)') /\ (Standing(s)' <=> Standing(s))
  BY DEF Known, Standing
<1>4. Story(Untold', last'[s], s, Known(s), n, Standing(s))
  BY <1>1, UntoldType, OtherWord DEF SameStory
<1>5. Story(Untold', last'[s], s, Known(s)', n, Standing(s)')
  BY <1>3, <1>4, StoryWider
<1> QED
  BY <1>2, <1>5 DEF Telling

LEMMA LoopBeside ==
  ASSUME TypeOK, NEW s \in Sessions, Loop(s), Beside(s)
  PROVE  Loop(s)'
<1> USE DEF Beside
<1>1. ReadsOnly(s)' /\ WriteOnce(s)' /\ AtRest(s)' /\ Working(s)'
  BY WorkKept
<1>2. Announced(s)' <=> Announced(s)
  BY DEF Announced, LessWork, SameUse, Unused, Used
<1>3. Telling(s)'
  BY <1>2, TellingKept DEF Loop, SameFlags, LessWork
<1> QED
  BY <1>1, <1>3 DEF Loop

-----------------------------------------------------------------------------
(* The steps that leave a session out of use, or shut it down.             *)

\* Thread t alone moves.
OnlyMoves(t, l, d) ==
  Moves(t, l, d) /\ \A u \in Threads \ {t} : born'[u] = born[u]

LEMMA Steps ==
  ASSUME TypeOK, NEW t \in Threads, NEW l
  PROVE  /\ \A s, n : Start(t, s, n, l) => OnlyMoves(t, l, s) /\ pc[t] = "idle"
         /\ \A s : \A n \in Serials : Start(t, s, n, l) => born'[t] = n
         /\ Goto(t, l) /\ UNCHANGED <<cur, born>> => OnlyMoves(t, l, cur[t])
BY Movements DEF OnlyMoves, Start, TypeOK, ThrTypeOK

WorkLabels == {"received", "write", "written", "announce", "close", "disconnect"}

\* A thread that moves from no work for s to none, or gives some up.
LEMMA WorkElsewhere ==
  ASSUME NEW t \in Threads, NEW l, NEW d, OnlyMoves(t, l, d), NEW s,
         cur[t] = s => pc[t] \notin {"announce", "disconnect"},
         d = s => l \notin WorkLabels,
         d = s /\ l \in {"connect_busy", "connect"} =>
           InConnectTo(t, s) \/ \A v \in Threads : ~Recycles(v, s)
  PROVE  LessWork(s)
<1>1. \A u \in Threads \ {t} : pc'[u] = pc[u] /\ cur'[u] = cur[u] /\ born'[u] = born[u]
  BY DEF OnlyMoves, Moves
<1>2. pc'[t] = l /\ cur'[t] = d
  BY DEF OnlyMoves, Moves
<1>3. ASSUME NEW u \in Threads \ {t}
      PROVE  /\ Receives(u, s)' <=> Receives(u, s)
             /\ Closes(u, s)' <=> Closes(u, s)
             /\ Writes(u, s)' <=> Writes(u, s)
             /\ Announces(u, s)' <=> Announces(u, s)
             /\ Recycles(u, s)' <=> Recycles(u, s)
             /\ InConnectTo(u, s)' <=> InConnectTo(u, s)
  BY <1>1 DEF Receives, Closes, Writes, Announces, Recycles, InConnectTo
<1>4. /\ ~(Receives(t, s)') /\ ~(Closes(t, s)') /\ ~(Writes(t, s)')
      /\ ~(Announces(t, s)') /\ ~Announces(t, s) /\ ~(Recycles(t, s)') /\ ~Recycles(t, s)
      /\ InConnectTo(t, s)' => InConnectTo(t, s) \/ \A v \in Threads : ~Recycles(v, s)
  BY <1>2 DEF Receives, Closes, Writes, Announces, Recycles, InConnectTo, WorkLabels
<1> QED
  BY <1>1, <1>3, <1>4 DEF LessWork

LEMMA NothingMoves ==
  ASSUME NEW s, UNCHANGED <<pc, cur, born>> PROVE LessWork(s)
BY DEF LessWork, Receives, Closes, Writes, Announces, Recycles, InConnectTo

\* The steps that move no thread
LEMMA IdleLoop ==
  ASSUME TypeOK, NEW s \in Sessions, Loop(s),
         \/ StartThreads \/ (\E t \in Threads : AcceptorGone(t)) \/ Dequeue
         \/ BeginShutdown \/ DeleteAcceptor \/ StopService \/ JoinThreads \/ UNCHANGED vars
         \/ \E t \in IoThreads, c \in Clients : HandleReconnect(t, c) \/ ConnectAgain(t, c)
  PROVE  Loop(s)'
<1>1. UNCHANGED <<status, serial, reading, writing, readOps, writeOps, last, pc, cur, born>>
  BY DEF StartThreads, AcceptorGone, Dequeue, BeginShutdown, DeleteAcceptor, StopService,
         JoinThreads, AdvanceShutdown, HandleReconnect, ConnectAgain, vars, sessVars, objVars,
         opVars, thrVars, appVars, toldVars
<1>2. Untold' = Untold
  <2>1. CASE Dequeue
    BY <2>1, Dequeued
  <2>2. CASE ~Dequeue
    <3>1. UNCHANGED <<queue, batch>>
      BY <2>2 DEF StartThreads, AcceptorGone, BeginShutdown, DeleteAcceptor, StopService,
         JoinThreads, AdvanceShutdown, HandleReconnect, ConnectAgain, vars, sessVars,
         msgVars, appVars, toldVars
    <3> QED
      BY <3>1 DEF Untold
  <2> QED
    BY <2>1, <2>2
<1> QED
  BY <1>1, <1>2, NothingMoves, LoopBeside DEF Beside, SameFlags, SameUse, SameStory

\* The steps that do no more for a session than move a thread that is not
\* at work for it, at most to call connect_to() when nobody recycles it
LEMMA CalmLoop ==
  ASSUME TypeOK, NEW s \in Sessions, Loop(s), ~ConnectCrosses(s), NEW t \in Threads,
         \/ CheckListening(t) \/ TakeSession(t) \/ CountAccept(t) \/ ReturnSession(t)
         \/ MarkBusyAgain(t) \/ MarkBusy(t)
         \/ RecheckStatus(t) /\ AndNoMore
         \/ \E d \in Sessions : AcceptSucceeds(t, d)
         \/ \E c \in Clients : \/ ConnectFails(t, c) \/ ConnectSucceeds(t, c)
                               \/ t = App /\ ConnectTo(c)
  PROVE  Loop(s)'
<1>1. UNCHANGED <<status, serial, reading, writing, readOps, writeOps, last, batch, queue>>
  BY DEF CheckListening, TakeSession, CountAccept, ReturnSession, MarkBusyAgain, MarkBusy,
         RecheckStatus, AndNoMore, AcceptSucceeds, ConnectFails, ConnectSucceeds, ConnectTo,
         objVars, opVars, msgVars, appVars, toldVars
<1>2. LessWork(s)
  <2>1. CASE CheckListening(t) \/ TakeSession(t) \/ CountAccept(t) \/ ReturnSession(t)
    <3>1. UNCHANGED <<cur, born>> /\ pc[t] \notin {"announce", "disconnect"}
      BY <2>1 DEF CheckListening, TakeSession, CountAccept, ReturnSession, At
    <3>2. \E l \in {"take", "accept", "post", "check", resume[t]} : Goto(t, l)
      BY <2>1 DEF CheckListening, TakeSession, CountAccept, ReturnSession
    <3>3. resume[t] \in {"idle", "connected"}
      BY DEF TypeOK, AccTypeOK
    <3>4. PICK l \in {"take", "accept", "post", "check", "idle", "connected"} : Goto(t, l)
      BY <3>2, <3>3
    <3> QED
      BY <3>1, <3>4, Steps, WorkElsewhere DEF WorkLabels
  <2>2. CASE MarkBusyAgain(t) \/ MarkBusy(t) \/ RecheckStatus(t)
    <3>1. PICK l \in {"reconnect", "connect", "idle", "release"} :
            /\ Goto(t, l) /\ UNCHANGED <<cur, born>>
            /\ pc[t] \in {"rebusy", "connect_busy", "recheck"}
            /\ l = "connect" => pc[t] = "connect_busy"
      BY <2>2 DEF MarkBusyAgain, MarkBusy, RecheckStatus, At
    <3>2. OnlyMoves(t, l, cur[t])
      BY <3>1, Steps
    <3> QED
      BY <3>1, <3>2, WorkElsewhere DEF WorkLabels, InConnectTo
  <2>3. ASSUME NEW d \in Sessions, NEW l \in {"check", "connect_failed", "connected"},
               Start(t, d, serial[d], l)
        PROVE  LessWork(s)
    <3>1. OnlyMoves(t, l, d) /\ pc[t] = "idle"
      BY <2>3, Steps
    <3> QED
      BY <3>1, WorkElsewhere DEF WorkLabels
  <2>4. ASSUME NEW c \in Clients, t = App, ConnectTo(c) PROVE LessWork(s)
    <3>1. OnlyMoves(App, "connect_busy", c) /\ pc[App] = "idle"
      BY <2>4, Steps DEF ConnectTo
    <3>2. pc'[App] = "connect_busy" /\ cur'[App] = c
      BY <2>4, <3>1 DEF OnlyMoves, Moves
    <3>3. c = s => \A v \in Threads : ~Recycles(v, s)
      BY <3>1, <3>2 DEF ConnectCrosses, Recycles
    <3> QED
      BY <2>4, <3>1, <3>3, WorkElsewhere DEF WorkLabels
  <2>5. ASSUME NEW d \in Sessions,
               AcceptSucceeds(t, d) \/ (d \in Clients /\ (ConnectFails(t, d) \/ ConnectSucceeds(t, d)))
        PROVE  LessWork(s)
    BY <2>3, <2>5 DEF AcceptSucceeds, ConnectFails, ConnectSucceeds
  <2>6. ASSUME NEW c \in Clients, ConnectFails(t, c) \/ ConnectSucceeds(t, c) PROVE LessWork(s)
    BY <2>5, <2>6, Basics
  <2> QED
    BY <2>1, <2>2, <2>4, <2>5, <2>6
<1>3. Untold' = Untold
  BY <1>1 DEF Untold
<1> QED
  BY <1>1, <1>2, <1>3, LoopBeside DEF Beside, SameFlags, SameUse, SameStory

\* The message of a failed attempt is about no session.
LEMMA FailureLoop ==
  ASSUME TypeOK, NEW s \in Sessions, Loop(s), NEW t \in Threads, TellFailure(t)
  PROVE  Loop(s)'
<1> DEFINE e == Event("Failure", 0, 0)
<1>1. e \in Events /\ ~Of(e, s)
  BY Basics DEF Event, Events, Of
<1>2. Untold' = Append(Untold, e)
  BY <1>1, Pushed DEF TellFailure, appVars, toldVars
<1>3. OnlyMoves(t, "idle", cur[t]) /\ pc[t] = "tell_failure"
  BY Steps DEF TellFailure, At
<1>4. LessWork(s)
  BY <1>3, WorkElsewhere DEF WorkLabels
<1>5. UNCHANGED <<status, serial, reading, writing, readOps, writeOps, last>>
  BY DEF TellFailure, objVars, opVars, appVars, toldVars
<1> HIDE DEF e
<1> QED
  BY <1>1, <1>2, <1>4, <1>5, LoopBeside DEF Beside, SameFlags, SameUse, SameStory

\* Session d alone may change its status; its flags stay.
Touches(d) ==
  /\ UNCHANGED <<serial, reading, writing, readOps, writeOps, last>>
  /\ \A s \in Sessions \ {d} : status'[s] = status[s]
  /\ Untold' = Untold

LEMMA TouchesKeeps ==
  ASSUME TypeOK, NEW s \in Sessions, Loop(s), NEW d \in Sessions, Touches(d),
         d = s => SameUse(s), LessWork(s)
  PROVE  Loop(s)'
<1>1. SameUse(s)
  BY DEF Touches, SameUse
<1> QED
  BY <1>1, LoopBeside DEF Beside, SameFlags, SameStory, Touches

\* _post_accept() and startup(): nobody has yet to tell of the session's end.
LEMMA AcceptLoop ==
  ASSUME OwnerInv, NEW s \in Sessions, Loop(s), StartListen \/ \E t \in Threads : PostAccept(t)
  PROVE  Loop(s)'
<1>0. /\ status \in [Sessions -> Statuses] /\ held \in [Threads -> Sessions] /\ TypeOK
  BY DEF OwnerInv, TypeOK, ObjTypeOK, AccTypeOK
<1>1. Untold' = Untold
  BY DEF StartListen, PostAccept, Untold, appVars, toldVars
<1>2. CASE StartListen
  <2>1. /\ Top \in Sessions /\ status[Top] = "Init"
        /\ \A u \in Threads : ~Carries(u, Top)
    <3>1. Len(available) \in Nat \ {0} /\ Top \in Sessions
      BY <1>0, <1>2, StackTop DEF StartListen, TypeOK
    <3> QED
      BY <3>1 DEF Top, OwnerInv, SingleOwner, StackedOnce
  <2>2. \A u \in Threads : ~Recycles(u, Top)
    BY <2>1 DEF Carries, Recycles
  <2>3. Touches(Top) /\ SameUse(Top)
    BY <1>0, <1>1, <1>2, <2>1, <2>2
    DEF StartListen, Touches, SameUse, Unused, opVars, appVars, toldVars
  <2>4. UNCHANGED <<pc, cur, born>>
    BY <1>2 DEF StartListen, thrVars
  <2> QED
    BY <1>0, <2>1, <2>3, <2>4, NothingMoves, TouchesKeeps
<1>3. ASSUME NEW t \in Threads, PostAccept(t) PROVE Loop(s)'
  <2>1. /\ Carries(t, held[t]) /\ held[t] \in Sessions /\ held[t] \in Servers
        /\ pc[t] = "post" /\ resume[t] \in {"idle", "connected"}
    BY <1>0, <1>3 DEF PostAccept, At, Carries, OwnerInv, PathsApart, TypeOK, AccTypeOK
  <2>2. /\ status[held[t]] = "Init"
        /\ \A u \in Threads : ~Recycles(u, held[t])
    BY <2>1 DEF OwnerInv, SingleOwner, CarriedOnce, Carries, Recycles
  <2>3. Touches(held[t]) /\ SameUse(held[t])
    BY <1>0, <1>1, <1>3, <2>1, <2>2
    DEF PostAccept, Touches, SameUse, Unused, opVars, appVars, toldVars
  <2>4. OnlyMoves(t, resume[t], cur[t])
    BY <1>0, <1>3, Steps DEF PostAccept
  <2>5. resume[t] \notin WorkLabels \cup {"connect_busy", "connect"}
    BY <2>1 DEF WorkLabels
  <2>6. LessWork(s)
    BY <2>1, <2>4, <2>5, WorkElsewhere
  <2> QED
    BY <1>0, <2>1, <2>3, <2>6, TouchesKeeps
<1> QED
  BY <1>2, <1>3

\* The handler of an accept that failed, and the steps that begin an attempt
\* to connect and give it up.
LEMMA AttemptLoop ==
  ASSUME OwnerInv, Labelled, NEW s \in Sessions, Loop(s), s \in Clients => Client(s),
         NEW t \in Threads, NEW d \in Sessions,
         \/ AcceptFails(t, d)
         \/ d = cur[t] /\ (WaitToReconnect(t) \/ StartConnect(t) \/ GiveUpConnect(t))
  PROVE  Loop(s)'
<1>0. status \in [Sessions -> Statuses] /\ acceptOps \in [Sessions -> Nat] /\ TypeOK
  BY DEF OwnerInv, TypeOK, ObjTypeOK, AccTypeOK
<1>1. Touches(d)
  <2>1. UNCHANGED <<serial, reading, writing, readOps, writeOps, last, batch, queue>>
    BY DEF AcceptFails, WaitToReconnect, StartConnect, GiveUpConnect, opVars, appVars, toldVars
  <2>2. \A x \in Sessions \ {d} : status'[x] = status[x]
    BY <1>0 DEF AcceptFails, WaitToReconnect, StartConnect, GiveUpConnect
  <2> QED
    BY <2>1, <2>2 DEF Touches, Untold
<1>2. LessWork(s)
  <2>1. PICK l \in {"return", "idle", "tell_failure"} :
          \/ Start(t, d, serial[d], l)
          \/ /\ d = cur[t] /\ Goto(t, l) /\ UNCHANGED <<cur, born>>
             /\ pc[t] \in {"reconnect", "connect", "connect_failed"}
    BY DEF AcceptFails, WaitToReconnect, StartConnect, GiveUpConnect, At
  <2>2. OnlyMoves(t, l, d) /\ pc[t] \notin {"announce", "disconnect"}
    BY <1>0, <2>1, Steps
  <2> QED
    BY <2>2, WorkElsewhere DEF WorkLabels
<1>3. ASSUME d = s PROVE SameUse(s)
  <2>1. CASE AcceptFails(t, d)
    <3>1. status[d] = "Accept"
      BY <1>0, <2>1 DEF AcceptFails, OwnerInv, PathsApart, Servers, SingleOwner, AcceptedOnce
    <3>2. \A u \in Threads : ~Recycles(u, d)
      BY <1>3, <3>1 DEF Loop, Working
    <3> QED
      BY <1>0, <1>3, <2>1, <3>1, <3>2 DEF AcceptFails, SameUse, Unused
  <2>2. CASE d = cur[t] /\ (WaitToReconnect(t) \/ StartConnect(t))
    <3>1. cur[t] \in Clients
      BY <2>2 DEF StartConnect, WaitToReconnect, At, OwnerInv, PathsApart
    <3>2. /\ Client(s) /\ status[s] = "Init"
          /\ InConnectTo(t, s) \/ (Reconnect /\ Again(t, s))
      BY <1>3, <2>2, <3>1, InitFound
    <3>3. pc[t] \in {"reconnect", "connect"}
      BY <2>2 DEF StartConnect, WaitToReconnect, At
    <3>4. \A u \in Threads : ~Recycles(u, s)
      <4>1. CASE InConnectTo(t, s)
        BY <4>1 DEF Loop, Working
      <4>2. CASE Reconnect /\ Again(t, s)
        BY <3>2, <3>3, <4>2 DEF Client, BeginsAlone, Again, Recycles
      <4> QED
        BY <3>2, <4>1, <4>2
    <3> QED
      BY <1>0, <1>3, <2>2, <3>2, <3>4 DEF WaitToReconnect, StartConnect, SameUse, Unused
  <2>3. CASE d = cur[t] /\ GiveUpConnect(t)
    <3>1. status[d] = "ConnectTo"
      <4>1. d \in Clients /\ Attempting(t, d)
        BY <2>3 DEF GiveUpConnect, At, OwnerInv, PathsApart, Attempting
      <4> QED
        BY <1>3, <4>1 DEF Client, AttemptOnce
    <3>2. \A u \in Threads : ~Recycles(u, d)
      BY <1>3, <3>1 DEF Loop, Working
    <3> QED
      BY <1>0, <1>3, <2>3, <3>1, <3>2 DEF GiveUpConnect, SameUse, Unused
  <2> QED
    BY <2>1, <2>2, <2>3
<1> QED
  BY <1>0, <1>1, <1>2, <1>3, TouchesKeeps

\* The application knows the serial of a connection once it is announced.
LEMMA KnownAnnounced ==
  ASSUME TypeOK, NEW s \in Sessions, Telling(s), last[s].id = serial[s]
  PROVE  Announced(s)
<1>1. Seen(Untold, 0, s) /\ Word(Untold, last[s], 0) = last[s] /\ 0 \in 0..Len(Untold)
  BY UntoldType, LenProperties DEF Seen, Word
<1>2. last[s].id \in Known(s)
  BY <1>1 DEF Telling, Story
<1> QED
  BY <1>2 DEF Known

\* close(), _close() and _release(): the connection is shut down and closed.
LEMMA EndLoop ==
  ASSUME TypeOK, NEW s \in Sessions, Loop(s), NEW t \in Threads, NEW d \in Sessions, AndNoMore,
         \/ d = cur[t] /\ (HandlerClose(t) \/ Release(t))
         \/ t = App /\ AppClose(d, last[d].id)
  PROVE  Loop(s)'
<1>0. status \in [Sessions -> Statuses] /\ last \in [Sessions -> Told]
  BY DEF TypeOK, ObjTypeOK, AppTypeOK
<1>1. Touches(d)
  <2>1. UNCHANGED <<serial, reading, writing, readOps, writeOps, last, batch, queue>>
    BY DEF HandlerClose, Release, AppClose, Shut, AndNoMore, objVars, opVars, msgVars, appVars,
           toldVars
  <2>2. \A x \in Sessions \ {d} : status'[x] = status[x]
    BY <1>0 DEF HandlerClose, Release, AppClose, Shut, objVars
  <2> QED
    BY <2>1, <2>2 DEF Touches, Untold
<1>2. LessWork(s)
  <2>1. PICK l \in {"release", "idle"} :
          \/ \E n : Start(t, d, n, l)
          \/ d = cur[t] /\ Goto(t, l) /\ UNCHANGED <<cur, born>> /\ pc[t] \in {"close", "release"}
    BY DEF HandlerClose, Release, AppClose, At
  <2>2. OnlyMoves(t, l, d) /\ pc[t] \notin {"announce", "disconnect"}
    BY <2>1, Steps
  <2> QED
    BY <2>2, WorkElsewhere DEF WorkLabels
<1>3. ASSUME d = s PROVE SameUse(s)
  <2>1. CASE d = cur[t] /\ HandlerClose(t)
    <3>1. Closes(t, s)
      BY <1>3, <2>1 DEF HandlerClose, At, Closes
    <3>2. \A u \in Threads : ~Announces(u, s)
      BY <3>1 DEF Loop, Working
    <3> QED
      BY <1>0, <1>3, <2>1, <3>2 DEF HandlerClose, Shut, objVars, SameUse, Used
  <2>2. CASE d = cur[t] /\ Release(t)
    <3>1. status[s] = "Shut" => \A u \in Threads : ~Announces(u, s)
      BY DEF Loop, Working
    <3> QED
      BY <1>0, <1>3, <2>2, <3>1 DEF Release, Releasable, SameUse, Used
  <2>3. CASE AppClose(d, last[d].id)
    <3>1. Announced(s)
      BY <1>3, <2>3, KnownAnnounced DEF AppClose, Loop
    <3> QED
      BY <1>0, <1>3, <2>3, <3>1 DEF AppClose, Shut, Announced, SameUse, Used
  <2> QED
    BY <2>1, <2>2, <2>3
<1> QED
  BY <1>1, <1>2, <1>3, TouchesKeeps

-----------------------------------------------------------------------------
(* The steps on a connection of another session.                           *)

LEMMA OtherLoop ==
  ASSUME TypeOK, NEW s \in Sessions, Loop(s), NEW d \in Sessions, d # s,
         \/ UNCHANGED <<pc, cur, born>>
         \/ \E t \in Threads, l \in Labels :
              OnlyMoves(t, l, d) /\ (pc[t] = "idle" \/ cur[t] = d),
         SameFlags(s), status'[s] = status[s], last'[s] = last[s],
         Untold' = Untold \/ \E e \in Events : e.s = d /\ Untold' = Append(Untold, e)
  PROVE  Loop(s)'
<1>1. LessWork(s)
  BY NothingMoves, WorkElsewhere
<1>2. SameStory(s)
  BY DEF SameStory, Of
<1> QED
  BY <1>1, <1>2, LoopBeside DEF Beside, SameUse

LEMMA OtherSteps ==
  ASSUME TypeOK, NEW s \in Sessions, Loop(s), NEW t \in Threads, NEW d \in Sessions, d # s,
         \/ /\ AndNoMore
            /\ \/ \E n \in Serials : \/ ReadFails(t, d, n) \/ ReadSucceeds(t, d, n)
                                     \/ WriteFails(t, d, n) \/ WriteSucceeds(t, d, n)
               \/ t = App /\ SendMsg(d, last[d].id)
               \/ /\ d = cur[t]
                  /\ \/ OpenSession(t) \/ Announce(t) \/ PushInput(t) \/ RejectInput(t)
                     \/ TakeInput(t) \/ StartWrite(t) \/ WriteEnds(t)
         \/ HandleClose(t, d)
         \/ d = cur[t] /\ TellDisconnect(t)
  PROVE  Loop(s)'
<1>0. /\ status \in [Sessions -> Statuses] /\ serial \in [Sessions -> Serials]
      /\ reading \in [Sessions -> BOOLEAN] /\ writing \in [Sessions -> BOOLEAN]
      /\ readOps \in [Sessions -> [Serials -> Nat]] /\ writeOps \in [Sessions -> [Serials -> Nat]]
      /\ born \in [Threads -> Serials]
  BY DEF TypeOK, ObjTypeOK, OpTypeOK, ThrTypeOK
<1> DEFINE Labs == {"close", "received", "write", "written", "announce", "idle", "recheck",
                    "disconnect", "return", "rebusy"}
<1>1. /\ status'[s] = status[s] /\ serial'[s] = serial[s]
      /\ reading'[s] = reading[s] /\ writing'[s] = writing[s]
  BY <1>0 DEF ReadFails, ReadSucceeds, WriteFails, WriteSucceeds, SendMsg, OpenSession, Announce,
              PushInput, RejectInput, TakeInput, StartWrite, WriteEnds, HandleClose, Reset,
              TellDisconnect, objVars
<1>2. readOps'[s] = readOps[s] /\ writeOps'[s] = writeOps[s] /\ UNCHANGED <<last, batch>>
  BY <1>0 DEF ReadFails, ReadSucceeds, WriteFails, WriteSucceeds, SendMsg, OpenSession, Announce,
              PushInput, RejectInput, TakeInput, StartWrite, WriteEnds, HandleClose,
              TellDisconnect, opVars, AndNoMore, appVars, toldVars
<1>3. UNCHANGED queue \/ \E e \in Events : e.s = d /\ Push(e)
  <2>1. CASE /\ ~(d = cur[t] /\ (Announce(t) \/ PushInput(t)))
             /\ ~(d = cur[t] /\ TellDisconnect(t))
    BY <2>1 DEF ReadFails, ReadSucceeds, WriteFails, WriteSucceeds, SendMsg, OpenSession,
                RejectInput, TakeInput, StartWrite, WriteEnds, HandleClose, msgVars
  <2>2. ASSUME NEW n \in Serials, NEW y \in {"Connect", "Data", "Disconnect"}
        PROVE  Event(y, d, n) \in Events /\ Event(y, d, n).s = d
    BY DEF Event, Events
  <2>3. serial[d] \in Serials /\ born[t] \in Serials
    BY <1>0
  <2>4. CASE d = cur[t] /\ (Announce(t) \/ PushInput(t) \/ TellDisconnect(t))
    <3>1. \E n \in Serials, y \in {"Connect", "Data", "Disconnect"} : Push(Event(y, d, n))
      BY <2>3, <2>4 DEF Announce, PushInput, TellDisconnect
    <3> QED
      BY <2>2, <3>1
  <2> QED
    BY <2>1, <2>4
<1>4. Untold' = Untold \/ \E e \in Events : e.s = d /\ Untold' = Append(Untold, e)
  BY <1>2, <1>3, Pushed DEF Untold
<1>5. \/ UNCHANGED <<pc, cur, born>>
      \/ \E l \in Labs : \/ \E n : Start(t, d, n, l)
                         \/ d = cur[t] /\ Goto(t, l) /\ UNCHANGED <<cur, born>>
  <2>1. ASSUME NEW n \in Serials, \/ ReadFails(t, d, n) \/ ReadSucceeds(t, d, n)
                                  \/ WriteFails(t, d, n) \/ WriteSucceeds(t, d, n)
        PROVE  \E l \in Labs : Start(t, d, n, l)
    <3>1. \E l \in {"close", "received", "write", "written"} : Start(t, d, n, l)
      BY <2>1 DEF ReadFails, ReadSucceeds, WriteFails, WriteSucceeds
    <3> QED
      BY <3>1
  <2>2. CASE t = App /\ SendMsg(d, last[d].id)
    <3>1. Start(App, d, last[d].id, "write") /\ "write" \in Labs
      BY <2>2 DEF SendMsg
    <3> QED
      BY <2>2, <3>1
  <2>3. CASE HandleClose(t, d)
    BY <2>3 DEF HandleClose
  <2>4. CASE PushInput(t)
    BY <2>4 DEF PushInput, thrVars
  <2>5. CASE /\ d = cur[t]
             /\ \/ OpenSession(t) \/ Announce(t) \/ RejectInput(t) \/ TakeInput(t)
                \/ StartWrite(t) \/ WriteEnds(t) \/ TellDisconnect(t)
    <3>1. CASE TellDisconnect(t)
      <4>1. UNCHANGED <<cur, born>> /\ \E l \in {"return", "rebusy", "idle"} : Goto(t, l)
        BY <3>1 DEF TellDisconnect, AfterClose
      <4> QED
        BY <2>5, <4>1
    <3>2. CASE ~TellDisconnect(t)
      <4>1. /\ UNCHANGED <<cur, born>>
            /\ \E l \in {"announce", "idle", "close", "recheck"} : Goto(t, l)
        BY <2>5, <3>2 DEF OpenSession, Announce, RejectInput, TakeInput, StartWrite, WriteEnds
      <4> QED
        BY <2>5, <4>1
    <3> QED
      BY <3>1, <3>2
  <2> QED
    BY <2>1, <2>2, <2>3, <2>4, <2>5
<1>6. Labs \subseteq Labels
  BY DEF Labels
<1> HIDE DEF Labs
<1>7. \/ UNCHANGED <<pc, cur, born>>
      \/ \E l \in Labels : OnlyMoves(t, l, d) /\ (pc[t] = "idle" \/ cur[t] = d)
  BY <1>5, <1>6, Steps
<1> QED
  BY <1>1, <1>2, <1>4, <1>7, OtherLoop DEF SameFlags

-----------------------------------------------------------------------------
(* The steps on the session's own connection.                              *)

\* The other threads' work stays; thread t's is what l says.
LEMMA OwnMove ==
  ASSUME NEW t \in Threads, NEW l, NEW s, OnlyMoves(t, l, s)
  PROVE  /\ \A u \in Threads \ {t} : /\ Receives(u, s)' <=> Receives(u, s)
                                     /\ Writes(u, s)' <=> Writes(u, s)
                                     /\ Announces(u, s)' <=> Announces(u, s)
                                     /\ Closes(u, s)' <=> Closes(u, s)
                                     /\ Recycles(u, s)' <=> Recycles(u, s)
                                     /\ InConnectTo(u, s)' <=> InConnectTo(u, s)
                                     /\ born'[u] = born[u]
         /\ Receives(t, s)' <=> l = "received"
         /\ Writes(t, s)' <=> l \in {"write", "written"}
         /\ Announces(t, s)' <=> l = "announce"
         /\ Closes(t, s)' <=> l = "close"
         /\ Recycles(t, s)' <=> l = "disconnect"
         /\ InConnectTo(t, s)' <=> l \in {"connect_busy", "connect"}
<1>1. /\ pc'[t] = l /\ cur'[t] = s
      /\ \A u \in Threads \ {t} : pc'[u] = pc[u] /\ cur'[u] = cur[u] /\ born'[u] = born[u]
  BY DEF OnlyMoves, Moves
<1> QED
  BY <1>1 DEF Receives, Writes, Announces, Closes, Recycles, InConnectTo

\* The two halves of what is under way that a step does not touch.
LEMMA ReadsKept ==
  ASSUME NEW s \in Sessions, ReadsOnly(s), serial'[s] = serial[s],
         reading'[s] = reading[s], readOps'[s] = readOps[s],
         \A u \in Threads : Receives(u, s)' => Receives(u, s)
  PROVE  ReadsOnly(s)'
BY DEF ReadsOnly

LEMMA WritesKept ==
  ASSUME NEW s \in Sessions, WriteOnce(s), serial'[s] = serial[s],
         writing'[s] = writing[s], writeOps'[s] = writeOps[s],
         \A u \in Threads : Writes(u, s)' => Writes(u, s)
  PROVE  WriteOnce(s)'
BY DEF WriteOnce

\* With neither flag set nothing is under way.
LEMMA NothingUnderWay ==
  ASSUME TypeOK, NEW s \in Sessions, Loop(s)
  PROVE  /\ ~reading[s] => /\ \A n \in Serials : readOps[s][n] = 0
                           /\ \A u \in Threads : ~Receives(u, s)
         /\ ~writing[s] => /\ \A n \in Serials : writeOps[s][n] = 0
                           /\ \A u \in Threads : ~Writes(u, s)
         /\ reading[s] \/ writing[s] => status[s] \in InUse
BY DEF Loop, ReadsOnly, WriteOnce, AtRest, TypeOK, ObjTypeOK, OpTypeOK

\* A session in use whose reader or writer is under way is announced.
LEMMA InUseAnnounced ==
  ASSUME NEW s \in Sessions, Loop(s), reading[s] \/ writing[s]
  PROVE  /\ status[s] \in InUse /\ Announced(s)
         /\ \A u \in Threads : ~Announces(u, s) /\ ~Recycles(u, s)
BY DEF Loop, AtRest, Working, InUse, Used, Announced

\* connected(): the status, ...
LEMMA OpenLoop ==
  ASSUME OwnerInv, NEW s \in Sessions, Loop(s), s \in Clients => Client(s),
         NEW t \in Threads, s = cur[t], AndNoMore, OpenSession(t)
  PROVE  Loop(s)'
<1>0. status \in [Sessions -> Statuses] /\ pc[t] = "connected" /\ TypeOK
  BY DEF OwnerInv, TypeOK, ObjTypeOK, OpenSession, At
<1>1. UNCHANGED <<serial, reading, writing, readOps, writeOps, last, batch, queue>>
  BY DEF OpenSession, AndNoMore, opVars, appVars, toldVars
<1>2. OnlyMoves(t, "announce", s)
  BY <1>0, Steps DEF OpenSession
<1>3. status[s] \in {"Accept", "ConnectTo"} /\ status'[s] = "Open"
  <2>1. status'[s] = "Open" /\ Opens(t, s)
    BY <1>0 DEF OpenSession, Opens
  <2>2. s \in Clients => status[s] = "ConnectTo"
    BY <1>0 DEF Client, AttemptOnce, Attempting
  <2>3. s \notin Clients => status[s] = "Accept"
    BY <2>1 DEF OwnerInv, SingleOwner, AcceptedOnce, Servers
  <2> QED
    BY <2>1, <2>2, <2>3
<1>4. ~reading[s] /\ ~writing[s]
  BY <1>3 DEF Loop, AtRest, InUse
<1>5. \A u \in Threads : ~Announces(u, s) /\ ~Recycles(u, s) /\ ~Closes(u, s)
  BY <1>3 DEF Loop, Working, Used
<1>6. \A u \in Threads : ~Receives(u, s) /\ ~Writes(u, s)
  BY <1>0, <1>4, NothingUnderWay
<1>7. \A u \in Threads : /\ Announces(u, s)' <=> u = t
                         /\ ~(Recycles(u, s)') /\ ~(Closes(u, s)')
                         /\ ~(Receives(u, s)') /\ ~(Writes(u, s)')
  BY <1>2, <1>5, <1>6, OwnMove
<1>8. ReadsOnly(s)' /\ WriteOnce(s)'
  BY <1>1, <1>7, ReadsKept, WritesKept DEF Loop
<1>9. AtRest(s)' /\ Working(s)'
  BY <1>1, <1>3, <1>4, <1>7 DEF AtRest, Working, InUse
<1>10. Telling(s)'
  <2>1. ~Announced(s) /\ ~(Announced(s)')
    BY <1>3, <1>7 DEF Announced, Used
  <2>2. SameStory(s)
    BY <1>1 DEF SameStory, Untold
  <2> QED
    BY <1>0, <1>1, <1>5, <1>7, <2>1, <2>2, TellingKept DEF Loop
<1> QED
  BY <1>8, <1>9, <1>10 DEF Loop

\* ... and then the Connect message and the first read.
LEMMA AnnounceLoop ==
  ASSUME TypeOK, NEW s \in Sessions, Loop(s), NEW t \in Threads, s = cur[t], AndNoMore,
         Announce(t)
  PROVE  Loop(s)'
<1> DEFINE e == Event("Connect", s, serial[s])
<1>0. /\ serial[s] \in Serials /\ reading \in [Sessions -> BOOLEAN]
      /\ readOps \in [Sessions -> [Serials -> Nat]] /\ Announces(t, s)
  BY DEF TypeOK, ObjTypeOK, OpTypeOK, Announce, At, Announces
<1>1. UNCHANGED <<status, serial, writing, writeOps, last, batch>>
  BY DEF Announce, AndNoMore, opVars, appVars, toldVars
<1>2. OnlyMoves(t, "idle", s)
  BY Steps DEF Announce
<1>3. /\ status[s] = "Open" /\ ~reading[s] /\ ~writing[s]
      /\ \A u \in Threads : ~Closes(u, s) /\ ~Recycles(u, s) /\ (Announces(u, s) => u = t)
  BY <1>0 DEF Loop, Working
<1>4. /\ reading'[s] = TRUE
      /\ \A n \in Serials : readOps'[s][n] > 0 => n = serial[s]
  <2>1. \A n \in Serials : readOps[s][n] = 0
    BY <1>3, NothingUnderWay
  <2> QED
    BY <1>0, <2>1 DEF Announce
<1>5. \A u \in Threads : /\ ~(Announces(u, s)') /\ ~(Recycles(u, s)') /\ ~(Closes(u, s)')
                         /\ ~(Receives(u, s)')
                         /\ Writes(u, s)' => Writes(u, s)
  BY <1>2, <1>3, NothingUnderWay, OwnMove
<1>6. ReadsOnly(s)' /\ WriteOnce(s)'
  BY <1>1, <1>4, <1>5, WritesKept DEF Loop, ReadsOnly
<1>7. AtRest(s)' /\ Working(s)'
  BY <1>1, <1>3, <1>5 DEF AtRest, Working, InUse
<1>8. Telling(s)'
  <2>1. ~Announced(s) /\ Announced(s)' /\ ~Standing(s) /\ Standing(s)'
    BY <1>0, <1>1, <1>3, <1>5 DEF Announced, Standing, Used
  <2>2. PICK n \in Serials : Story(Untold, last[s], s, Known(s), n, Standing(s))
    BY DEF Loop, Telling
  <2>3. Stands(s, serial[s])'
    BY <1>1, <1>5 DEF Stands
  <2>4. Known(s) = (Serials \cup {0}) \ {serial[s]} /\ Known(s)' = Serials \cup {0}
    BY <2>1 DEF Known
  <2>5. /\ e \in Events /\ Of(e, s) /\ e.type = "Connect" /\ e.id = serial[s]
        /\ Untold \in Seq(Events) /\ last[s] \in Told
    BY <1>0, UntoldType DEF Event, Events, Of, TypeOK, AppTypeOK
  <2>6. Untold' = Append(Untold, e)
    BY <1>1, <2>5, Pushed DEF Announce
  <2> HIDE DEF e
  <2>7. \A a : a.id \in Known(s) /\ Fits(a, n, Standing(s)) => Follows(a, e)
    BY <1>0, <2>1, <2>4, <2>5 DEF Fits, Follows
  <2>8. \A id \in Known(s) : id \in Known(s)'
    BY <2>4
  <2>9. e.id \in Known(s)' /\ Fits(e, serial[s], Standing(s)')
    BY <1>0, <2>1, <2>4, <2>5 DEF Fits
  <2>10. Story(Append(Untold, e), last[s], s, Known(s)', serial[s], Standing(s)')
    BY <2>2, <2>5, <2>7, <2>8, <2>9, NextWord
  <2> QED
    BY <1>0, <1>1, <2>3, <2>6, <2>10 DEF Telling
<1> QED
  BY <1>6, <1>7, <1>8 DEF Loop

\* _handle_read(): a read ends, and its input is refused ...
LEMMA ReadLoop ==
  ASSUME TypeOK, NEW s \in Sessions, Loop(s), ~ReadLeftOver(s), NEW t \in Threads, AndNoMore,
         \/ \E n \in Serials : ReadFails(t, s, n) \/ ReadSucceeds(t, s, n)
         \/ s = cur[t] /\ RejectInput(t)
  PROVE  Loop(s)'
<1>0. /\ readOps \in [Sessions -> [Serials -> Nat]] /\ reading \in [Sessions -> BOOLEAN]
      /\ serial[s] \in Serials /\ born \in [Threads -> Serials]
  BY DEF TypeOK, ObjTypeOK, OpTypeOK, ThrTypeOK
<1>1. UNCHANGED <<status, serial, writing, writeOps, last, batch, queue>>
  BY DEF ReadFails, ReadSucceeds, RejectInput, AndNoMore, objVars, opVars, msgVars, appVars,
         toldVars
<1>2. PICK l \in {"close", "received"} :
        /\ OnlyMoves(t, l, s) /\ born'[t] = serial[s]
        /\ reading[s] /\ reading'[s] = (l = "received")
        /\ pc[t] \in {"idle", "received"}
        /\ \A n \in Serials : readOps'[s][n] > 0 => readOps[s][n] > 0
  <2>1. ASSUME NEW n \in Serials, ReadFails(t, s, n) \/ ReadSucceeds(t, s, n)
        PROVE  \E l \in {"close", "received"} :
                 /\ Start(t, s, serial[s], l) /\ reading[s]
                 /\ reading'[s] = (l = "received")
                 /\ \A m \in Serials : readOps'[s][m] > 0 => readOps[s][m] > 0
    <3>1. readOps[s][n] > 0 /\ readOps' = [readOps EXCEPT ![s][n] = @ - 1]
      BY <2>1 DEF ReadFails, ReadSucceeds
    <3>2. n = serial[s] /\ reading[s]
      BY <3>1 DEF Loop, ReadsOnly
    <3>3. \A m \in Serials : readOps'[s][m] > 0 => readOps[s][m] > 0
      BY <1>0, <3>1
    <3> QED
      BY <1>0, <2>1, <3>2, <3>3 DEF ReadFails, ReadSucceeds, objVars
  <2>2. CASE \E n \in Serials : ReadFails(t, s, n) \/ ReadSucceeds(t, s, n)
    <3>1. PICK l \in {"close", "received"} :
            /\ Start(t, s, serial[s], l) /\ reading[s]
            /\ reading'[s] = (l = "received")
            /\ \A n \in Serials : readOps'[s][n] > 0 => readOps[s][n] > 0
      BY <2>1, <2>2
    <3>2. OnlyMoves(t, l, s) /\ pc[t] = "idle" /\ born'[t] = serial[s]
      BY <1>0, <3>1, Steps
    <3> QED
      BY <3>1, <3>2
  <2>3. CASE s = cur[t] /\ RejectInput(t)
    <3>1. Receives(t, s) /\ pc[t] = "received"
      BY <2>3 DEF RejectInput, At, Receives
    <3>2. reading[s] /\ born[t] = serial[s]
      BY <3>1 DEF Loop, ReadsOnly, Working
    <3>3. OnlyMoves(t, "close", s) /\ born' = born
      BY <2>3, Steps DEF RejectInput
    <3> QED
      BY <1>0, <2>3, <3>1, <3>2, <3>3 DEF RejectInput, opVars
  <2> QED
    BY <2>2, <2>3
<1>3. status[s] \in InUse /\ Announced(s) /\ \A u \in Threads : ~Announces(u, s) /\ ~Recycles(u, s)
  BY <1>2, InUseAnnounced
<1>4. \A u \in Threads : /\ ~(Announces(u, s)') /\ ~(Recycles(u, s)')
                         /\ Receives(u, s)' => Receives(u, s) \/ (u = t /\ l = "received")
                         /\ Closes(u, s)' => Closes(u, s) \/ u = t
                         /\ Writes(u, s)' => Writes(u, s)
                         /\ u # t => born'[u] = born[u]
  BY <1>2, <1>3, OwnMove
<1>5. l = "close" => /\ \A n \in Serials : ~(readOps'[s][n] > 0)
                     /\ \A u \in Threads : ~(Receives(u, s)')
  BY <1>2 DEF ReadLeftOver, Reads, Receives
<1>6. ReadsOnly(s)'
  BY <1>1, <1>2, <1>4, <1>5 DEF Loop, ReadsOnly
<1>7. WriteOnce(s)'
  BY <1>1, <1>4, WritesKept DEF Loop
<1>8. AtRest(s)' /\ Working(s)'
  BY <1>1, <1>2, <1>3, <1>4 DEF Loop, AtRest, Working, InUse, Used
<1>9. Telling(s)'
  <2>1. Announced(s)'
    BY <1>1, <1>3, <1>4 DEF Announced
  <2>2. SameStory(s)
    BY <1>1 DEF SameStory, Untold
  <2> QED
    BY <1>1, <1>3, <1>4, <2>1, <2>2, TellingKept DEF Loop
<1> QED
  BY <1>6, <1>7, <1>8, <1>9 DEF Loop

\* ... or the application is told of a message ...
LEMMA PushLoop ==
  ASSUME TypeOK, NEW s \in Sessions, Loop(s), NEW t \in Threads, s = cur[t], AndNoMore,
         PushInput(t)
  PROVE  Loop(s)'
<1> DEFINE e == Event("Data", s, serial[s])
<1>0. serial[s] \in Serials /\ reading[s]
  BY DEF TypeOK, ObjTypeOK, PushInput, At, Receives, Loop, ReadsOnly
<1>1. UNCHANGED <<status, serial, reading, writing, readOps, writeOps, last, batch, pc, cur, born>>
  BY DEF PushInput, AndNoMore, objVars, opVars, thrVars, appVars, toldVars
<1>2. LessWork(s) /\ SameFlags(s) /\ SameUse(s)
  BY <1>1, NothingMoves DEF SameFlags, SameUse
<1>3. Announced(s) /\ \A u \in Threads : ~Recycles(u, s)
  BY <1>0, InUseAnnounced
<1>4. Announced(s)' /\ Known(s)' = Known(s) /\ (Stands(s, serial[s]))'
  BY <1>1, <1>3 DEF Announced, Announces, Known, Stands, Recycles
<1>5. PICK n \in Serials : Stands(s, n) /\ Story(Untold, last[s], s, Known(s), n, Standing(s))
  BY DEF Loop, Telling
<1>6. n = serial[s] /\ Standing(s) /\ Standing(s)' /\ serial[s] \in Known(s)
  BY <1>0, <1>3, <1>4, <1>5 DEF Stands, Standing, Known
<1>7. /\ e \in Events /\ Of(e, s) /\ e.type = "Data" /\ e.id = serial[s]
      /\ Untold \in Seq(Events) /\ last[s] \in Told
  BY <1>0, UntoldType DEF Event, Events, Of, TypeOK, AppTypeOK
<1>8. Untold' = Append(Untold, e)
  BY <1>1, <1>7, Pushed DEF PushInput
<1> HIDE DEF e
<1>9. \A a : a.id \in Known(s) /\ Fits(a, n, Standing(s)) => Follows(a, e)
  BY <1>6, <1>7 DEF Fits, Follows
<1>10. Fits(e, serial[s], Standing(s)')
  BY <1>6, <1>7 DEF Fits
<1>11. Story(Append(Untold, e), last[s], s, Known(s)', serial[s], Standing(s)')
  BY <1>4, <1>5, <1>6, <1>7, <1>9, <1>10, NextWord
<1>12. Telling(s)'
  BY <1>0, <1>1, <1>4, <1>8, <1>11 DEF Telling
<1> QED
  BY <1>2, <1>12, WorkKept DEF Loop

\* ... and the next read is posted, or two.
LEMMA TakeLoop ==
  ASSUME TypeOK, NEW s \in Sessions, Loop(s), NEW t \in Threads, s = cur[t], AndNoMore,
         TakeInput(t)
  PROVE  Loop(s)'
<1>0. /\ serial[s] \in Serials /\ readOps \in [Sessions -> [Serials -> Nat]]
      /\ pc[t] = "received" /\ reading[s]
  BY DEF TypeOK, ObjTypeOK, OpTypeOK, TakeInput, At, Receives, Loop, ReadsOnly
<1>1. UNCHANGED <<status, serial, reading, writing, writeOps, last, batch, queue>>
  BY DEF TakeInput, AndNoMore, objVars, msgVars, appVars, toldVars
<1>2. OnlyMoves(t, "idle", s)
  BY Steps DEF TakeInput
<1>3. \A u \in Threads : /\ Announces(u, s)' <=> Announces(u, s)
                         /\ Recycles(u, s)' <=> Recycles(u, s)
                         /\ Receives(u, s)' => Receives(u, s) /\ born'[u] = born[u]
                         /\ Closes(u, s)' => Closes(u, s) /\ born'[u] = born[u]
                         /\ Writes(u, s)' => Writes(u, s)
                         /\ Recycles(u, s) => born'[u] = born[u]
                         /\ ~Announces(u, s) /\ ~Recycles(u, s)
  BY <1>0, <1>2, OwnMove, InUseAnnounced DEF Announces, Recycles
<1>4. \A n \in Serials : readOps'[s][n] > 0 => readOps[s][n] > 0 \/ n = serial[s]
  BY <1>0 DEF TakeInput
<1>5. ReadsOnly(s)'
  BY <1>0, <1>1, <1>3, <1>4 DEF Loop, ReadsOnly
<1>6. WriteOnce(s)'
  BY <1>1, <1>3, WritesKept DEF Loop
<1>7. AtRest(s)' /\ Working(s)'
  BY <1>1, <1>3 DEF Loop, AtRest, Working
<1>8. Telling(s)'
  <2>1. Announced(s)' <=> Announced(s)
    BY <1>1, <1>3 DEF Announced
  <2>2. SameStory(s)
    BY <1>1 DEF SameStory, Untold
  <2> QED
    BY <1>1, <1>3, <2>1, <2>2, TellingKept DEF Loop
<1> QED
  BY <1>5, <1>6, <1>7, <1>8 DEF Loop

\* send_msg() and _handle_write(): what a step does to the one write.
LEMMA WriteLoop ==
  ASSUME TypeOK, NEW s \in Sessions, Loop(s), NEW t \in Threads, AndNoMore,
         \/ t = App /\ SendMsg(s, last[s].id)
         \/ \E n \in Serials : WriteFails(t, s, n) \/ WriteSucceeds(t, s, n)
         \/ s = cur[t] /\ (StartWrite(t) \/ WriteEnds(t))
  PROVE  Loop(s)'
<1>0. /\ writeOps \in [Sessions -> [Serials -> Nat]] /\ writing \in [Sessions -> BOOLEAN]
      /\ serial[s] \in Serials /\ born \in [Threads -> Serials]
  BY DEF TypeOK, ObjTypeOK, OpTypeOK, ThrTypeOK
<1>1. UNCHANGED <<status, serial, reading, readOps, last, batch, queue>>
  BY DEF SendMsg, WriteFails, WriteSucceeds, StartWrite, WriteEnds, AndNoMore, objVars, opVars,
         msgVars, appVars, toldVars
<1> DEFINE Writer(l) == l \in {"write", "written"}
           Idle == \A n \in Serials : writeOps[s][n] = 0
           IdleThen == \A n \in Serials : writeOps'[s][n] = 0
\* a thread takes the write, gives it to the io_service, or ends it
<1>2. PICK l \in {"write", "written", "close", "idle", "recheck"} :
        /\ OnlyMoves(t, l, s) /\ pc[t] \in {"idle", "write", "written"}
        /\ l = "close" => born'[t] = serial[s]
        /\ \A u \in Threads \ {t} : ~Writes(u, s)
        /\ \A u \in Threads : ~Announces(u, s)
        /\ \/ Writer(l) /\ writing'[s] /\ IdleThen
           \/ /\ l = "idle" /\ writing'[s]
              /\ \A n \in Serials : writeOps'[s][n] > 0 => n = serial[s] /\ writeOps'[s][n] = 1
           \/ l \in {"close", "recheck"} /\ ~writing'[s] /\ IdleThen
        /\ status[s] \in InUse
  <2>1. CASE t = App /\ SendMsg(s, last[s].id)
    <3>1. /\ OnlyMoves(t, "write", s) /\ pc[t] = "idle"
      BY <2>1, Steps DEF SendMsg
    <3>2. status[s] = "Open" /\ ~writing[s] /\ writing'[s] /\ writeOps' = writeOps
      BY <1>0, <2>1 DEF SendMsg, opVars
    <3>3. Announced(s)
      BY <2>1, KnownAnnounced DEF SendMsg, Loop
    <3> QED
      BY <3>1, <3>2, <3>3, NothingUnderWay DEF Announced, InUse
  <2>2. ASSUME NEW n \in Serials, WriteFails(t, s, n) \/ WriteSucceeds(t, s, n)
        PROVE  \E l \in {"write", "written", "close"} :
                 /\ Start(t, s, serial[s], l) /\ IdleThen /\ writing[s]
                 /\ \A u \in Threads : ~Writes(u, s)
                 /\ writing'[s] = (l # "close")
    <3>1. writeOps[s][n] > 0 /\ writeOps' = [writeOps EXCEPT ![s][n] = @ - 1]
      BY <2>2 DEF WriteFails, WriteSucceeds
    <3>2. /\ n = serial[s] /\ writeOps[s][n] = 1 /\ writing[s]
          /\ \A u \in Threads : ~Writes(u, s)
      BY <3>1 DEF Loop, WriteOnce
    <3>3. \A m \in Serials \ {n} : writeOps[s][m] = 0
      BY <1>0, <3>2 DEF Loop, WriteOnce
    <3>4. IdleThen
      BY <1>0, <3>1, <3>2, <3>3
    <3> QED
      BY <1>0, <2>2, <3>2, <3>4 DEF WriteFails, WriteSucceeds, objVars
  <2>3. CASE \E n \in Serials : WriteFails(t, s, n) \/ WriteSucceeds(t, s, n)
    <3>1. PICK l \in {"write", "written", "close"} :
                 /\ Start(t, s, serial[s], l) /\ IdleThen /\ writing[s]
                 /\ \A u \in Threads : ~Writes(u, s)
                 /\ writing'[s] = (l # "close")
      BY <2>2, <2>3
    <3>2. OnlyMoves(t, l, s) /\ pc[t] = "idle" /\ born'[t] = serial[s]
      BY <1>0, <3>1, Steps
    <3> QED
      BY <3>1, <3>2, InUseAnnounced
  <2>4. CASE s = cur[t] /\ (StartWrite(t) \/ WriteEnds(t))
    <3>1. Writes(t, s) /\ pc[t] \in {"write", "written"}
      BY <2>4 DEF StartWrite, WriteEnds, At, Writes
    <3>2. /\ writing[s] /\ Idle
          /\ \A u \in Threads \ {t} : ~Writes(u, s)
      BY <1>0, <3>1 DEF Loop, WriteOnce
    <3>3. CASE StartWrite(t)
      <4>1. OnlyMoves(t, "idle", s) /\ writing' = writing
        BY <2>4, <3>3, Steps DEF StartWrite, objVars
      <4>2. \A n \in Serials : writeOps'[s][n] > 0 => n = serial[s] /\ writeOps'[s][n] = 1
        BY <1>0, <2>4, <3>2, <3>3 DEF StartWrite
      <4> QED
        BY <3>1, <3>2, <4>1, <4>2, InUseAnnounced
    <3>4. CASE WriteEnds(t)
      <4>1. OnlyMoves(t, "recheck", s) /\ ~writing'[s] /\ writeOps' = writeOps
        BY <1>0, <2>4, <3>4, Steps DEF WriteEnds, opVars
      <4> QED
        BY <3>1, <3>2, <4>1, InUseAnnounced
    <3> QED
      BY <2>4, <3>3, <3>4
  <2> QED
    BY <2>1, <2>3, <2>4
<1>3. \A u \in Threads :
        /\ ~(Announces(u, s)') /\ ~Announces(u, s)
        /\ Recycles(u, s)' <=> Recycles(u, s)
        /\ ~Recycles(u, s)
        /\ Receives(u, s)' => Receives(u, s) /\ born'[u] = born[u]
        /\ Closes(u, s)' => (Closes(u, s) /\ born'[u] = born[u]) \/ (u = t /\ l = "close")
        /\ Writes(u, s)' <=> u = t /\ Writer(l)
  <2>1. \A u \in Threads : ~Recycles(u, s)
    BY <1>2 DEF Loop, Working, InUse
  <2> QED
    BY <1>2, <2>1, OwnMove
<1>4. ReadsOnly(s)'
  BY <1>1, <1>3, ReadsKept DEF Loop
<1>5. WriteOnce(s)'
  BY <1>1, <1>2, <1>3 DEF WriteOnce
<1>6. AtRest(s)' /\ Working(s)'
  BY <1>1, <1>2, <1>3 DEF Loop, AtRest, Working, InUse, Used
<1>7. Telling(s)'
  <2>1. Announced(s)' <=> Announced(s)
    BY <1>1, <1>3 DEF Announced
  <2>2. SameStory(s)
    BY <1>1 DEF SameStory, Untold
  <2> QED
    BY <1>1, <1>3, <2>1, <2>2, TellingKept DEF Loop
<1> QED
  BY <1>4, <1>5, <1>6, <1>7 DEF Loop

\* _handle_close(): the session becomes its next incarnation, ...
LEMMA RecycleLoop ==
  ASSUME OwnerInv, NEW s \in Sessions, Loop(s), s \in Clients => Client(s),
         ~ClosedLate(s), ~SerialReused(s), NEW t \in IoThreads, HandleClose(t, s)
  PROVE  Loop(s)'
<1>0. /\ TypeOK /\ t \in Threads /\ serial \in [Sessions -> Serials] /\ status \in [Sessions -> Statuses]
      /\ reading \in [Sessions -> BOOLEAN] /\ writing \in [Sessions -> BOOLEAN]
      /\ closePosts \in [Sessions -> Nat]
  BY Basics DEF OwnerInv, TypeOK, ObjTypeOK, OpTypeOK
<1>1. status[s] = "Close"
  <2>1. closePosts[s] # 0
    BY <1>0 DEF HandleClose
  <2>2. s \in Clients => status[s] = "Close"
    BY <2>1 DEF Client, EndsOnce
  <2>3. s \notin Clients => status[s] = "Close"
    BY <2>1 DEF OwnerInv, SingleOwner, ClosedOnce, Servers
  <2> QED
    BY <2>2, <2>3
<1>2. /\ status'[s] = "Init" /\ ~reading'[s] /\ ~writing'[s] /\ serial'[s] = NextSerial(serial[s])
      /\ UNCHANGED <<readOps, writeOps, last, batch, queue>>
  BY <1>0, <1>1 DEF HandleClose, Reset, appVars, toldVars
<1>3. Recycled(s)
  BY <1>0 DEF HandleClose, Recycled
<1>4. serial'[s] \notin IdsAbout(s) /\ serial'[s] # serial[s] /\ serial'[s] \in Serials
  BY <1>0, <1>2, <1>3, Basics DEF SerialReused
<1>5. OnlyMoves(t, "disconnect", s) /\ pc[t] = "idle" /\ born'[t] = serial[s]
  BY <1>0, Steps DEF HandleClose
<1>6. ~reading[s] /\ ~writing[s]
  BY <1>1 DEF Loop, AtRest, InUse
<1>7. \A u \in Threads : ~Announces(u, s) /\ ~Recycles(u, s) /\ ~Receives(u, s) /\ ~Writes(u, s)
  BY <1>0, <1>1, <1>6, NothingUnderWay DEF Loop, Working
<1>8. \A u \in Threads : ~Closes(u, s)
  BY <1>3 DEF ClosedLate, Closes
<1>9. \A u \in Threads : ~InConnectTo(u, s)
  <2>1. s \in Clients => \A u \in Threads : ~InConnectTo(u, s)
    BY <1>1 DEF Client, BeginsAlone
  <2>2. s \notin Clients => \A u \in Threads : ~InConnectTo(u, s)
    BY DEF OwnerInv, PathsApart, InConnectTo
  <2> QED
    BY <2>1, <2>2
<1>10. \A u \in Threads : /\ ~(Announces(u, s)') /\ ~(Receives(u, s)') /\ ~(Writes(u, s)')
                          /\ ~(Closes(u, s)') /\ ~(InConnectTo(u, s)')
                          /\ Recycles(u, s)' <=> u = t
  BY <1>0, <1>5, <1>7, <1>8, <1>9, OwnMove
<1>11. \A n \in Serials : ~(readOps'[s][n] > 0) /\ ~(writeOps'[s][n] > 0)
  BY <1>0, <1>2, <1>6, NothingUnderWay
<1>12. ReadsOnly(s)' /\ WriteOnce(s)' /\ AtRest(s)'
  BY <1>2, <1>10, <1>11 DEF ReadsOnly, WriteOnce, AtRest
<1>13. Working(s)'
  BY <1>2, <1>4, <1>5, <1>10 DEF Working
<1>14. Telling(s)'
  <2>1. PICK n \in Serials : Stands(s, n) /\ Story(Untold, last[s], s, Known(s), n, Standing(s))
    BY DEF Loop, Telling
  <2>2. Announced(s) /\ Standing(s) /\ n = serial[s]
    BY <1>1, <1>7, <2>1 DEF Announced, Used, Standing, Stands
  <2>3. ~(Announced(s)') /\ Standing(s)' /\ Stands(s, n)'
    BY <1>0, <1>2, <1>5, <1>10, <2>2 DEF Announced, Used, Standing, Stands
  <2>4. Untold' = Untold /\ Untold \in Seq(Events)
    BY <1>0, <1>2, UntoldType DEF Untold
  <2>5. ASSUME NEW i \in 0..Len(Untold), Seen(Untold, i, s)
        PROVE  Word(Untold, last[s], i).id \in Known(s)'
    <3>1. Word(Untold, last[s], i).id \in Serials \cup {0}
      BY <2>1, <2>5 DEF Story, Known
    <3>2. Word(Untold, last[s], i).id \in IdsAbout(s)
      <4>1. CASE i = 0
        BY <4>1 DEF Word, IdsAbout
      <4>2. CASE i # 0
        <5>1. /\ i \in {j \in 1..Len(Untold) : Untold[j].type # "Failure" /\ Untold[j].s = s}
              /\ Word(Untold, last[s], i) = Untold[i]
          BY <2>4, <2>5, <4>2, LenProperties DEF Seen, Of, Word
        <5> QED
          BY <5>1 DEF IdsAbout, Untold
      <4> QED
        BY <4>1, <4>2
    <3> QED
      BY <1>4, <3>1, <3>2 DEF Known
  <2>6. Story(Untold, last[s], s, Known(s)', n, Standing(s)')
    BY <2>1, <2>2, <2>3, <2>5 DEF Story, Fits
  <2> QED
    BY <1>2, <2>3, <2>4, <2>6 DEF Telling
<1> QED
  BY <1>12, <1>13, <1>14 DEF Loop

\* ... and the application is told of the end of the last one.
LEMMA EndTold ==
  ASSUME TypeOK, NEW s \in Sessions, Loop(s), NEW t \in Threads, s = cur[t], TellDisconnect(t)
  PROVE  Loop(s)'
<1> DEFINE e == Event("Disconnect", s, born[t])
<1>0. born[t] \in Serials /\ serial[s] \in Serials /\ Recycles(t, s) /\ pc[t] = "disconnect"
  BY DEF TypeOK, ObjTypeOK, ThrTypeOK, TellDisconnect, At, Recycles
<1>1. UNCHANGED <<status, serial, reading, writing, readOps, writeOps, last, batch>>
  BY DEF TellDisconnect, objVars, opVars, appVars, toldVars
<1>2. PICK l \in {"return", "rebusy", "idle"} : OnlyMoves(t, l, s)
  <2>1. \E l \in {"return", "rebusy", "idle"} : Goto(t, l) /\ UNCHANGED <<cur, born>>
    BY DEF TellDisconnect, AfterClose
  <2> QED
    BY <2>1, Steps
<1>3. /\ status[s] = "Init" /\ born[t] # serial[s]
      /\ \A u \in Threads : ~InConnectTo(u, s) /\ (Recycles(u, s) => u = t)
  BY <1>0 DEF Loop, Working
<1>4. \A u \in Threads : ~Announces(u, s) /\ ~Closes(u, s)
  BY <1>3 DEF Loop, Working, Used
<1>5. \A u \in Threads : /\ ~(Announces(u, s)') /\ ~(Recycles(u, s)') /\ ~(Closes(u, s)')
                         /\ Receives(u, s)' => Receives(u, s) /\ born'[u] = born[u]
                         /\ Writes(u, s)' => Writes(u, s)
  BY <1>2, <1>3, <1>4, OwnMove
<1>6. ReadsOnly(s)' /\ WriteOnce(s)'
  BY <1>1, <1>5, ReadsKept, WritesKept DEF Loop
<1>7. AtRest(s)' /\ Working(s)'
  BY <1>1, <1>5 DEF Loop, AtRest, Working
<1>8. Telling(s)'
  <2>1. ~Announced(s) /\ ~(Announced(s)') /\ Standing(s) /\ ~(Standing(s)')
    BY <1>0, <1>1, <1>3, <1>5 DEF Announced, Standing, Used
  <2>2. PICK n \in Serials : Stands(s, n) /\ Story(Untold, last[s], s, Known(s), n, Standing(s))
    BY DEF Loop, Telling
  <2>3. n = born[t] /\ Stands(s, n)'
    BY <1>0, <1>5, <2>1, <2>2 DEF Stands
  <2>4. Known(s)' = Known(s) /\ born[t] \in Known(s)
    BY <1>0, <1>1, <1>3, <2>1 DEF Known
  <2>5. /\ e \in Events /\ Of(e, s) /\ e.type = "Disconnect" /\ e.id = born[t]
        /\ Untold \in Seq(Events) /\ last[s] \in Told
    BY <1>0, UntoldType DEF Event, Events, Of, TypeOK, AppTypeOK
  <2>6. Untold' = Append(Untold, e)
    BY <1>1, <2>5, Pushed DEF TellDisconnect
  <2> HIDE DEF e
  <2>7. \A a : a.id \in Known(s) /\ Fits(a, n, Standing(s)) => Follows(a, e)
    BY <2>1, <2>3, <2>5 DEF Fits, Follows
  <2>8. Fits(e, n, Standing(s)')
    BY <2>1, <2>5 DEF Fits
  <2>9. Story(Append(Untold, e), last[s], s, Known(s)', n, Standing(s)')
    BY <2>2, <2>4, <2>5, <2>7, <2>8, NextWord
  <2> QED
    BY <1>1, <2>3, <2>6, <2>9 DEF Telling
<1> QED
  BY <1>6, <1>7, <1>8 DEF Loop

\* process_msg(): one message is handed to the callback.
LEMMA ToldNow ==
  ASSUME TypeOK, Deliver, NEW s \in Sessions
  PROVE  last'[s] = Heard(Untold[1], last[s], s)
<1>1. Head(batch) = Untold[1] /\ last \in [Sessions -> Told]
  BY Delivered DEF TypeOK, AppTypeOK
<1> QED
  BY <1>1 DEF Deliver, Heard, Of

LEMMA DeliverLoop ==
  ASSUME TypeOK, NEW s \in Sessions, Loop(s), Deliver
  PROVE  Loop(s)'
<1>1. UNCHANGED <<status, serial, reading, writing, readOps, writeOps, pc, cur, born>>
  BY DEF Deliver, sessVars, objVars, opVars, thrVars
<1>2. LessWork(s) /\ SameFlags(s) /\ SameUse(s)
  BY <1>1, NothingMoves DEF SameFlags, SameUse
<1>3. PICK n \in Serials : Stands(s, n) /\ Story(Untold, last[s], s, Known(s), n, Standing(s))
  BY DEF Loop, Telling
<1>4. Stands(s, n)' /\ Known(s)' = Known(s) /\ (Standing(s)' <=> Standing(s))
  BY <1>1, <1>3 DEF Stands, Known, Standing, Announced, Announces, Recycles
<1>5. Story(Untold', last'[s], s, Known(s), n, Standing(s))
  <2>1. Untold \in Seq(Events) /\ Untold # <<>> /\ Untold' = Tail(Untold)
    BY UntoldType, Delivered
  <2>2. Story(Tail(Untold), Heard(Untold[1], last[s], s), s, Known(s), n, Standing(s))
    BY <1>3, <2>1, WordTold
  <2> QED
    BY <2>1, <2>2, ToldNow
<1>6. Story(Untold', last'[s], s, Known(s)', n, Standing(s)')
  BY <1>4, <1>5, StoryWider
<1>7. Telling(s)'
  BY <1>4, <1>6 DEF Telling
<1> QED
  BY <1>2, <1>7, WorkKept DEF Loop

-----------------------------------------------------------------------------
LEMMA InitLoop == ASSUME Init, NEW s \in Sessions PROVE Loop(s)
<1>1. /\ Untold = <<>> /\ \A t \in Threads : pc[t] = "idle"
      /\ status[s] = "Init" /\ serial[s] = 1 /\ ~reading[s] /\ ~writing[s]
      /\ \A n \in Serials : readOps[s][n] = 0 /\ writeOps[s][n] = 0
      /\ last[s] = NothingYet
  BY ConcatEmptySeq, EmptySeq DEF Init, SessionInit, Untold
<1>2. ReadsOnly(s) /\ WriteOnce(s) /\ AtRest(s) /\ Working(s)
  BY <1>1 DEF ReadsOnly, WriteOnce, AtRest, Working, Receives, Writes, Closes, Announces, Recycles
<1>3. ~Standing(s) /\ 0 \in Known(s) /\ Stands(s, 1) /\ 1 \in Serials
  BY <1>1 DEF Standing, Announced, Recycles, Used, Known, Stands, Serials
<1>4. 0..Len(Untold) = {0} /\ Word(Untold, last[s], 0) = NothingYet
  BY <1>1, EmptySeq DEF Word
<1>5. Story(Untold, last[s], s, Known(s), 1, Standing(s))
  BY <1>3, <1>4 DEF Story, Chain, Fits, NothingYet
<1> QED
  BY <1>2, <1>3, <1>5 DEF Loop, Telling

LEMMA DispatchLoop ==
  ASSUME OwnerInv, Labelled, NEW s \in Sessions, s \in Clients => Client(s), Loop(s),
         ~GoesAstray(s), NEW t \in IoThreads, Dispatch(t)
  PROVE  Loop(s)'
<1>0. TypeOK /\ t \in Threads /\ Clients \subseteq Sessions
  BY Basics DEF OwnerInv
<1>1. ASSUME NEW d \in Sessions, NEW n \in Serials, AndNoMore,
             \/ ReadFails(t, d, n) \/ ReadSucceeds(t, d, n)
             \/ WriteFails(t, d, n) \/ WriteSucceeds(t, d, n)
      PROVE  Loop(s)'
  <2>1. CASE d # s
    BY <1>0, <1>1, <2>1, OtherSteps
  <2>2. CASE d = s
    BY <1>0, <1>1, <2>2, ReadLoop, WriteLoop DEF GoesAstray
  <2> QED
    BY <2>1, <2>2
<1>2. ASSUME NEW d \in Sessions, HandleClose(t, d) PROVE Loop(s)'
  <2>1. CASE d # s
    BY <1>0, <1>2, <2>1, OtherSteps
  <2>2. CASE d = s
    BY <1>2, <2>2, RecycleLoop DEF GoesAstray
  <2> QED
    BY <2>1, <2>2
<1>3. ASSUME NEW d \in Sessions, AcceptFails(t, d) PROVE Loop(s)'
  BY <1>0, <1>3, AttemptLoop
<1>4. ASSUME \/ \E d \in Sessions : AcceptSucceeds(t, d)
             \/ \E c \in Clients : ConnectFails(t, c) \/ ConnectSucceeds(t, c)
      PROVE  Loop(s)'
  BY <1>0, <1>4, CalmLoop DEF GoesAstray
<1>5. ASSUME \E c \in Clients : HandleReconnect(t, c) \/ ConnectAgain(t, c) PROVE Loop(s)'
  BY <1>0, <1>5, IdleLoop
<1> QED
  BY <1>1, <1>2, <1>3, <1>4, <1>5 DEF Dispatch, SessionDispatch, AndNoMore

LEMMA ContinueLoop ==
  ASSUME OwnerInv, Labelled, NEW s \in Sessions, s \in Clients => Client(s), Loop(s),
         ~GoesAstray(s), NEW t \in Threads, Continue(t)
  PROVE  Loop(s)'
<1>0. TypeOK /\ cur[t] \in Sessions
  BY DEF OwnerInv, TypeOK, ThrTypeOK
<1>1. CASE /\ AndNoMore
           /\ \/ OpenSession(t) \/ Announce(t) \/ PushInput(t) \/ RejectInput(t)
              \/ TakeInput(t) \/ StartWrite(t) \/ WriteEnds(t)
  <2>1. CASE cur[t] # s
    BY <1>0, <1>1, <2>1, OtherSteps
  <2>2. CASE cur[t] = s
    BY <1>0, <1>1, <2>2, OpenLoop, AnnounceLoop, PushLoop, ReadLoop, TakeLoop, WriteLoop
    DEF GoesAstray
  <2> QED
    BY <2>1, <2>2
<1>2. CASE AndNoMore /\ (HandlerClose(t) \/ Release(t))
  BY <1>0, <1>2, EndLoop
<1>3. CASE \/ AndNoMore /\ RecheckStatus(t)
           \/ CheckListening(t) \/ TakeSession(t) \/ CountAccept(t) \/ ReturnSession(t)
           \/ MarkBusyAgain(t) \/ MarkBusy(t)
  BY <1>0, <1>3, CalmLoop DEF GoesAstray
<1>4. CASE PostAccept(t) \/ AcceptorGone(t) \/ TellFailure(t)
  BY <1>0, <1>4, AcceptLoop, IdleLoop, FailureLoop
<1>5. CASE TellDisconnect(t)
  <2>1. CASE cur[t] # s
    BY <1>0, <1>5, <2>1, OtherSteps
  <2>2. CASE cur[t] = s
    BY <1>0, <1>5, <2>2, EndTold
  <2> QED
    BY <2>1, <2>2
<1>6. CASE WaitToReconnect(t) \/ StartConnect(t) \/ GiveUpConnect(t)
  BY <1>0, <1>6, AttemptLoop
<1> QED
  BY <1>1, <1>2, <1>3, <1>4, <1>5, <1>6 DEF Continue, SessionContinue, AndNoMore

\* A session that does not go astray in a step keeps its order.
LEMMA NextLoop ==
  ASSUME OwnerInv, Labelled, NEW s \in Sessions, s \in Clients => Client(s), Loop(s),
         ~GoesAstray(s), [Next]_vars
  PROVE  Loop(s)'
<1>0. TypeOK /\ App \in Threads
  BY Basics DEF OwnerInv
<1>1. CASE StartListen
  BY <1>1, AcceptLoop
<1>2. CASE \/ StartThreads \/ DeleteAcceptor \/ StopService \/ JoinThreads \/ UNCHANGED vars
  BY <1>0, <1>2, IdleLoop
<1>3. ASSUME NEW t \in IoThreads, Dispatch(t) PROVE Loop(s)'
  BY <1>3, DispatchLoop
<1>4. ASSUME NEW t \in Threads, Continue(t) PROVE Loop(s)'
  BY <1>4, ContinueLoop
<1>5. CASE Call
  <2>1. ASSUME NEW d \in Sessions, AndNoMore, SendMsg(d, last[d].id) PROVE Loop(s)'
    <3>1. CASE d # s
      BY <1>0, <2>1, <3>1, OtherSteps
    <3>2. CASE d = s
      BY <1>0, <2>1, <3>2, WriteLoop
    <3> QED
      BY <3>1, <3>2
  <2>2. ASSUME NEW d \in Sessions, AndNoMore, AppClose(d, last[d].id) PROVE Loop(s)'
    BY <1>0, <2>2, EndLoop
  <2>3. CASE \E c \in Clients : ConnectTo(c)
    BY <1>0, <2>3, CalmLoop DEF GoesAstray
  <2>4. CASE Dequeue \/ Deliver \/ BeginShutdown
    BY <1>0, <2>4, IdleLoop, DeliverLoop
  <2> QED
    BY <1>5, <2>1, <2>2, <2>3, <2>4 DEF Call, AndNoMore
<1> QED
  BY <1>1, <1>2, <1>3, <1>4, <1>5 DEF Next

\* connect_to() that does not cross a handler at work leaves the client's
\* path in order, too.
LEMMA NextBoth ==
  ASSUME OwnerInv, Labelled, NEW s \in Sessions, s \in Clients => Client(s), Loop(s),
         ~GoesAstray(s), [Next]_vars
  PROVE  Loop(s)' /\ (s \in Clients => Client(s)')
<1>1. Loop(s)'
  BY NextLoop
<1>2. ASSUME s \in Clients PROVE Client(s)'
  <2>1. NotCrossed(s)
    <3> SUFFICES ASSUME ConnectTo(s), NEW t \in Threads, Again(t, s) PROVE FALSE
      BY DEF NotCrossed
    <3>1. pc[App] = "idle" /\ pc'[App] = "connect_busy" /\ cur'[App] = s
      BY Basics DEF ConnectTo, Start, Goto, OwnerInv, TypeOK, ThrTypeOK
    <3> QED
      BY <3>1 DEF Again, GoesAstray, ConnectCrosses
  <2>2. Client(s)
    BY <1>2
  <2>3. \A c \in Clients : Client(c) /\ NotCrossed(c) => Client(c)'
    BY NextClient
  <2> QED
    BY <1>2, <2>1, <2>2, <2>3
<1> QED
  BY <1>1, <1>2

-----------------------------------------------------------------------------
(* The invariant: of the sessions that have not gone astray.               *)
WatchedInv ==
  /\ Labelled
  /\ \A s \in Sessions \ astray : Loop(s) /\ (s \in Clients => Client(s))


LEMMA NextWatched ==
  ASSUME OwnerInv, WatchedInv, [Next /\ Watch]_watched PROVE WatchedInv'
<1>1. [Next]_vars
  BY DEF watched
<1>2. Labelled'
  BY <1>1, NextLabelled DEF WatchedInv
<1>3. ASSUME NEW s \in Sessions, s \notin astray'
      PROVE  Loop(s)' /\ (s \in Clients => Client(s)')
  <2>1. s \notin astray
    BY <1>3 DEF Watch, watched
  <2>2. CASE Next /\ Watch
    <3>1. ~GoesAstray(s)
      BY <1>3, <2>2 DEF Watch
    <3> QED
      BY <1>1, <2>1, <3>1, NextBoth DEF WatchedInv
  <2>3. CASE UNCHANGED watched
    <3>1. ~GoesAstray(s)
      BY <2>3 DEF watched, vars, sessVars, objVars, opVars, thrVars, GoesAstray, ReadLeftOver,
                  ClosedLate, SerialReused, Recycled, ConnectCrosses, OwnerInv, TypeOK, ObjTypeOK, OpTypeOK
    <3> QED
      BY <1>1, <2>1, <3>1, NextBoth DEF WatchedInv
  <2> QED
    BY <2>2, <2>3
<1> QED
  BY <1>2, <1>3 DEF WatchedInv

LEMMA WatchedInvariant ==
  WatchedSpec => [](OwnerInv /\ WatchedInv) /\ [][Next /\ Watch]_watched
<1>1. WatchedInit => Init
  BY DEF WatchedInit
<1>2. WatchedInit => WatchedInv
  BY InitLoop, InitClient DEF WatchedInit, WatchedInv
<1>3. [Next /\ Watch]_watched => [Next]_vars
  BY DEF watched
<1>4. WatchedSpec => Spec
  BY <1>1, <1>3, PTL DEF WatchedSpec, Spec
<1>5. OwnerInv /\ WatchedInv /\ [Next /\ Watch]_watched => WatchedInv'
  BY NextWatched
<1> QED
  BY <1>2, <1>4, <1>5, OwnerInvariant, PTL DEF WatchedSpec

(* On any number of io threads and however the stream is cut, a session    *)
(* that has not gone astray is released, recycled and accepted on again    *)
(* only when neither a read nor a write is outstanding on it (_release,    *)
(* reset, and the flags m_reading_atomic and m_writeing_atomic).           *)
THEOREM RecycledQuietCorrect == WatchedSpec => []RecycledQuiet
<1>1. WatchedInv => RecycledQuiet
  BY DEF WatchedInv, Loop, ReadsOnly, WriteOnce, AtRest, InUse, RecycledQuiet, Operating
<1> QED
  BY <1>1, WatchedInvariant, PTL

(* A handler shuts down and tells of no connection but the one it was      *)
(* started for, on whatever thread it runs, unless the session has gone    *)
(* astray (_handle_read, _handle_write, _close).                           *)
THEOREM NoStaleHandlerCorrect == WatchedSpec => NoStaleHandler
<1>1. OwnerInv /\ WatchedInv =>
        [\A t \in IoThreads :
           LET s == cur[t] IN
           (\/ pc[t] = "close" /\ status[s] = "Open" /\ status'[s] = "Shut"
            \/ pc[t] = "received" /\ pc'[t] = "received" /\ queue' # queue)
             => s \in astray \/ born[t] = serial[s]]_watched
  BY Basics DEF OwnerInv, TypeOK, ThrTypeOK, WatchedInv, Loop, Working, Receives, Closes
<1> QED
  BY <1>1, WatchedInvariant, PTL DEF NoStaleHandler

(* What the application was told about an index that has not gone astray   *)
(* is, when everything has been handled, how things stand there            *)
(* (connected, _handle_close, process_msg).                                *)
THEOREM ViewSettlesCorrect == WatchedSpec => []ViewSettles
<1>1. OwnerInv /\ WatchedInv => ViewSettles
  <2> SUFFICES ASSUME OwnerInv, WatchedInv, Settled, NEW s \in Sessions \ astray
               PROVE  IF status[s] \in {"Open", "Shut"}
                        THEN last[s].type # "Disconnect" /\ last[s].id = serial[s]
                        ELSE last[s].type = "Disconnect"
    BY DEF ViewSettles
  <2>1. PICK n \in Serials : Stands(s, n) /\ Fits(last[s], n, Standing(s))
    <3>1. Untold = <<>>
      BY ConcatEmptySeq, EmptySeq DEF Settled, Untold
    <3>2. PICK n \in Serials : Stands(s, n) /\ Story(<<>>, last[s], s, Known(s), n, Standing(s))
      BY <3>1 DEF WatchedInv, Loop, Telling
    <3> QED
      BY <3>2, AllTold
  <2>2. status[s] # "Close"
    <3>1. s \in Clients => status[s] # "Close"
      BY DEF Settled, WatchedInv, Client, EndsOnce
    <3>2. s \notin Clients => status[s] # "Close"
      BY DEF Settled, OwnerInv, SingleOwner, NoneLost, Servers
    <3> QED
      BY <3>1, <3>2
  <2>3. \A t \in Threads : ~Announces(t, s) /\ ~Recycles(t, s)
    BY DEF Settled, Announces, Recycles
  <2>4. Standing(s) <=> status[s] \in {"Open", "Shut"}
    BY <2>2, <2>3 DEF Announced, Used, Standing
  <2> QED
    BY <2>1, <2>3, <2>4 DEF Fits, Stands, Standing
<1> QED
  BY <1>1, WatchedInvariant, PTL

-----------------------------------------------------------------------------
(* The manager implements SessionService.                                  *)

LEMMA OnlyDeliver == [Next]_vars /\ ~Deliver => UNCHANGED last
<1> SUFFICES ASSUME [Next]_vars, ~Deliver PROVE UNCHANGED last
  OBVIOUS
<1> USE DEF appVars, toldVars
<1>1. ASSUME NEW t \in IoThreads, Dispatch(t) PROVE UNCHANGED last
  BY <1>1 DEF Dispatch, AcceptFails, AcceptSucceeds, HandleClose, HandleReconnect, ConnectAgain,
              ConnectFails, ConnectSucceeds
<1>2. ASSUME NEW t \in Threads, Continue(t) PROVE UNCHANGED last
  BY <1>2 DEF Continue, CheckListening, TakeSession, CountAccept, PostAccept, AcceptorGone,
              ReturnSession, TellDisconnect, MarkBusyAgain, WaitToReconnect, MarkBusy,
              StartConnect, GiveUpConnect, TellFailure
<1>3. CASE Call
  BY <1>3 DEF Call, ConnectTo, Dequeue, BeginShutdown, AdvanceShutdown
<1>4. CASE \/ StartListen \/ StartThreads \/ DeleteAcceptor \/ StopService \/ JoinThreads
           \/ UNCHANGED vars
  BY <1>4 DEF StartListen, StartThreads, DeleteAcceptor, StopService, JoinThreads,
              AdvanceShutdown, vars
<1> QED
  BY <1>1, <1>2, <1>3, <1>4 DEF Next

\* No session goes astray while a message is handed over.
LEMMA DeliverSafe ==
  ASSUME TypeOK, Deliver, Watch PROVE astray' = astray
<1>1. ASSUME NEW s \in Sessions PROVE ~GoesAstray(s)
  <2>1. UNCHANGED <<reading, closePosts, pc>> /\ closePosts[s] \in Nat /\ pc[App] = "idle"
    BY DEF Deliver, sessVars, objVars, opVars, thrVars, At, TypeOK, OpTypeOK
  <2> QED
    BY <2>1 DEF GoesAstray, ReadLeftOver, ClosedLate, SerialReused, Recycled, ConnectCrosses
<1> QED
  BY <1>1 DEF Watch

\* A message handed over is one that the service may tell next.
LEMMA DeliverTells ==
  ASSUME TypeOK, WatchedInv, Deliver, Watch PROVE [Service!Next]_<<last, Sessions \ astray>>
<1> DEFINE e == Untold[1]
<1>1. Untold \in Seq(Events) /\ Untold # <<>> /\ Head(batch) = e
  BY UntoldType, Delivered
<1>2. e \in Events /\ last \in [Sessions -> Told]
  BY <1>1, ElementOfSeq, EmptySeq, LenProperties DEF TypeOK, AppTypeOK
<1>3. astray' = astray
  BY DeliverSafe
<1> HIDE DEF e
<1>4. CASE e.type = "Failure"
  BY <1>1, <1>3, <1>4 DEF Deliver
<1>5. CASE e.type # "Failure"
  <2> DEFINE s == e.s
  <2>1. /\ s \in Sessions /\ e.type \in {"Connect", "Data", "Disconnect"}
        /\ e.id \in Serials \cup {0}
        /\ last[s].type \in {"Connect", "Data", "Disconnect"}
    BY <1>2, <1>5 DEF Events, Told
  <2>2. Service!Tell(s, e.type, e.id)
    BY <1>1, <1>3, <1>5 DEF Deliver, Service!Tell
  <2>3. CASE s \in astray
    BY <2>1, <2>2, <2>3 DEF Service!Next, Service!Anything
  <2>4. CASE s \notin astray
    <3>1. Follows(last[s], e)
      BY <1>1, <1>5, <2>1, <2>4, FirstWord DEF WatchedInv, Loop, Telling, Of, e
    <3>2. CASE last[s].type = "Disconnect"
      BY <2>1, <2>2, <2>4, <3>1, <3>2 DEF Follows, Service!Next, Service!Connect, Service!Connected
    <3>3. CASE last[s].type # "Disconnect"
      BY <2>1, <2>2, <2>4, <3>1, <3>3
      DEF Follows, Service!Next, Service!Message, Service!Disconnect, Service!Connected
    <3> QED
      BY <3>2, <3>3
  <2> QED
    BY <2>3, <2>4
<1> QED
  BY <1>4, <1>5

(* The callbacks tell of connections as SessionService promises, for each  *)
(* index that has not gone astray: connected, then messages, then          *)
(* disconnected, each under the connection's id, before the next           *)
(* connection (connected, _handle_read, _handle_close, process_msg).       *)
THEOREM ToldAsPromisedCorrect == WatchedSpec => ToldAsPromised
<1>1. WatchedInit => Service!Init
  BY DEF WatchedInit, Init, Service!Init, NothingYet
<1>2. OwnerInv /\ WatchedInv /\ [Next /\ Watch]_watched => [Service!Next]_<<last, Sessions \ astray>>
  <2> SUFFICES ASSUME OwnerInv, WatchedInv, [Next /\ Watch]_watched
               PROVE  [Service!Next]_<<last, Sessions \ astray>>
    OBVIOUS
  <2>1. CASE Next /\ Watch /\ Deliver
    BY <2>1, DeliverTells DEF OwnerInv
  <2>2. CASE Next /\ Watch /\ ~Deliver
    BY <2>2, OnlyDeliver DEF Watch, Service!Next, Service!Distrust
  <2>3. CASE UNCHANGED watched
    BY <2>3 DEF watched, vars, appVars, toldVars
  <2> QED
    BY <2>1, <2>2, <2>3
<1> QED
  BY <1>1, <1>2, WatchedInvariant, PTL DEF WatchedSpec, ToldAsPromised, Service!Spec
=============================================================================
