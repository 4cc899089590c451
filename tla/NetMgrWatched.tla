----------------------------- MODULE NetMgrWatched --------------------------
(***************************************************************************)
(* What the application may rely on, on any number of io threads and       *)
(* however the stream is cut into reads, but for the sessions on which     *)
(* the code has gone astray.  A history variable watches for that: it      *)
(* records four events and restricts no step.                              *)
(***************************************************************************)
EXTENDS NetMgrProps

VARIABLE astray   \* the sessions on which one of the events has happened

Reads(s) == \/ \E n \in Serials : readOps[s][n] > 0
            \/ \E t \in Threads : cur[t] = s /\ pc[t] = "received"

\* m_reading_atomic is cleared while another read of the connection is
\* outstanding or handled: it had two, for a read had ended inside a message.
ReadLeftOver(s) == reading[s] /\ ~reading'[s] /\ Reads(s)'

\* _handle_close() resets the session.
Recycled(s) == closePosts'[s] < closePosts[s]

\* Another handler has cleared its flag and has yet to call _close().
ClosedLate(s) == Recycled(s) /\ \E t \in Threads : cur[t] = s /\ pc[t] = "close"

\* What the application was told about s last, and is to be told.
IdsAbout(s) ==
  LET untold == batch \o queue IN
  {last[s].id}
    \cup {untold[i].id : i \in {j \in 1..Len(untold) :
                                 untold[j].type # "Failure" /\ untold[j].s = s}}

\* The new serial has come round to one that the application still has, or
\* is yet to be told of.
SerialReused(s) == Recycled(s) /\ serial'[s] \in IdsAbout(s) \cup {serial[s]}

\* connect_to() passes its checks while _handle_close() is still at work.
ConnectCrosses(s) ==
  /\ pc[App] = "idle" /\ pc'[App] = "connect_busy" /\ cur'[App] = s
  /\ \E t \in Threads : cur[t] = s /\ pc[t] \in {"disconnect", "rebusy", "reconnect"}

GoesAstray(s) ==
  ReadLeftOver(s) \/ ClosedLate(s) \/ SerialReused(s) \/ ConnectCrosses(s)

watched == <<vars, astray>>

WatchedInit == Init /\ astray = {}

Watch == astray' = astray \cup {s \in Sessions : GoesAstray(s)}

WatchedSpec == WatchedInit /\ [][Next /\ Watch]_watched

-----------------------------------------------------------------------------
Operating(s) == \E n \in Serials : readOps[s][n] > 0 \/ writeOps[s][n] > 0

\* A session is released, recycled and accepted on again only when neither
\* a read nor a write is outstanding on it (_release, reset).
RecycledQuiet ==
  \A s \in Sessions \ astray :
    status[s] \in {"Init", "Accept", "ConnectTo", "Close"} => ~Operating(s)

\* A handler acts on no connection but the one it was started for: it shuts
\* down no later one, and tells of no message under a later one's id.
NoStaleHandler ==
  [][\A t \in IoThreads :
       LET s == cur[t] IN
       (\/ pc[t] = "close" /\ status[s] = "Open" /\ status'[s] = "Shut"
        \/ pc[t] = "received" /\ pc'[t] = "received" /\ queue' # queue)
         => s \in astray \/ born[t] = serial[s]]_watched

Service == INSTANCE SessionService
             WITH Indexes <- Sessions, Ids <- Serials, trusted <- Sessions \ astray

\* The callbacks tell the application of connections as SessionService says.
ToldAsPromised == Service!Spec

\* When everything has been handled, what the application was told about an
\* index is how things stand there.
Settled == /\ \A t \in Threads : pc[t] = "idle"
           /\ \A s \in Sessions : closePosts[s] = 0
           /\ queue = <<>> /\ batch = <<>>

ViewSettles ==
  Settled =>
    \A s \in Sessions \ astray :
      IF status[s] \in {"Open", "Shut"}
        THEN last[s].type # "Disconnect" /\ last[s].id = serial[s]
        ELSE last[s].type = "Disconnect"
=============================================================================
