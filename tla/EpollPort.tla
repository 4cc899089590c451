------------------------------ MODULE EpollPort ------------------------------
(***************************************************************************)
(* libepoll (cwepoll.c): threads call epoll_ctl(), epoll_wait() and        *)
(* epoll_close() on one epoll handle.  A call finds the port in the handle *)
(* tree and takes a reference on it; the port's lock is held from one      *)
(* action to the next only where a single action stands for the whole time *)
(* it is held.  epoll_wait() gives it back while it waits for completions, *)
(* which the AFD driver queues on the port's completion handle.            *)
(***************************************************************************)
EXTENDS EpollSock, FiniteSets

CONSTANTS
  Threads,       \* threads of the application
  Requests,      \* what epoll_ctl() asks for: events, perhaps with "oneshot"
  Ready,         \* AFD events that come and go on a socket
  MaxCtls,       \* bound: calls of epoll_ctl()
  MaxFailures    \* bound: calls of the driver, and polls, that fail

ASSUME RequestAssumption == Requests \subseteq SUBSET (DOMAIN Asks \cup {"oneshot"})

VARIABLES
  port,
  inTree,        \* is the handle in epoll__handle_tree?
  lock,          \* the reflock: references, "destroy" or "poison" in its state
  alive,         \* has the port not been freed?
  packets,       \* completions queued on the completion handle
  ready,         \* what is true of a socket at the moment
  open,          \* sockets that the application has not closed
  pc,            \* where a thread is
  got,           \* completions it has dequeued
  ctls,          \* history: how many calls of epoll_ctl() were made
  failures       \* history: how many calls of the driver, and polls, failed

vars == <<port, inTree, lock, alive, packets, ready, open, pc, got, ctls, failures>>

kernel == <<packets, ready, open>>
handle == <<inTree, lock, alive>>

Init ==
  /\ port = NewPort
  /\ inTree = TRUE
  /\ lock = [refs |-> 0, state |-> "live"]
  /\ alive = TRUE
  /\ packets = <<>>
  /\ ready = [o \in OsSockets |-> {}]
  /\ open = OsSockets
  /\ pc = [t \in Threads |-> "idle"]
  /\ got = [t \in Threads |-> <<>>]
  /\ ctls = 0
  /\ failures = 0

Goto(t, l) == pc' = [pc EXCEPT ![t] = l]
At(t, l) == pc[t] = l /\ port.failed = None

-----------------------------------------------------------------------------
(* References: ts_tree_find_and_ref(), ts_tree_del_and_ref() and the       *)
(* reflock.  Its two kinds of state are changed by one interlocked         *)
(* operation each.                                                         *)
CallWait(t) ==
  /\ At(t, "idle") /\ inTree
  /\ lock' = [lock EXCEPT !.refs = @ + 1]
  /\ Goto(t, "wait")
  /\ UNCHANGED <<port, inTree, alive, kernel, got, ctls, failures>>

CallCtl(t) ==
  /\ At(t, "idle") /\ inTree
  /\ ctls < MaxCtls
  /\ ctls' = ctls + 1
  /\ lock' = [lock EXCEPT !.refs = @ + 1]
  /\ Goto(t, "ctl")
  /\ UNCHANGED <<port, inTree, alive, kernel, got, failures>>

\* mistake: the handle can still be found
CallCloseInTree(t) ==
  /\ At(t, "idle") /\ inTree
  /\ lock' = [lock EXCEPT !.refs = @ + 1]
  /\ Goto(t, "close")
  /\ UNCHANGED <<port, inTree, alive, kernel, got, ctls, failures>>

CallClose(t) ==
  /\ At(t, "idle") /\ inTree
  /\ inTree' = FALSE
  /\ lock' = [lock EXCEPT !.refs = @ + 1]
  /\ Goto(t, "close")
  /\ UNCHANGED <<port, alive, kernel, got, ctls, failures>>

\* Who gives back the last reference of a lock that is being destroyed
\* signals the thread that waits; NtReleaseKeyedEvent() itself waits for it.
Unref(t) ==
  /\ At(t, "unref")
  /\ lock' = [lock EXCEPT !.refs = @ - 1]
  /\ Goto(t, IF lock' = [refs |-> 0, state |-> "destroy"] THEN "signal" ELSE "idle")
  /\ port' = IF lock.state = "poison" \/ lock.refs = 0 THEN Fail(port, "reflock_unref") ELSE port
  /\ UNCHANGED <<inTree, alive, kernel, got, ctls, failures>>

\* mistake: only a lock with more than one reference is waited for
AwaitTwo(refs) == refs > 1

Await(refs) == refs > 0

UnrefAndDestroy(t) ==
  /\ At(t, "destroy")
  /\ lock' = [refs |-> lock.refs - 1, state |-> "destroy"]
  /\ port' = IF lock.state # "live" \/ lock.refs = 0 THEN Fail(port, "reflock_unref_and_destroy")
             ELSE port
  /\ Goto(t, IF Await(lock.refs - 1) THEN "await" ELSE "poison")
  /\ UNCHANGED <<inTree, alive, kernel, got, ctls, failures>>

Signal(t, u) ==
  /\ At(t, "signal") /\ At(u, "await")
  /\ pc' = [pc EXCEPT ![t] = "idle", ![u] = "poison"]
  /\ UNCHANGED <<port, handle, kernel, got, ctls, failures>>

Poison(t) ==
  /\ At(t, "poison")
  /\ lock' = [refs |-> 0, state |-> "poison"]
  /\ port' = IF lock # [refs |-> 0, state |-> "destroy"] THEN Fail(port, "reflock_unref_and_destroy")
             ELSE port
  /\ Goto(t, "delete")
  /\ UNCHANGED <<inTree, alive, kernel, got, ctls, failures>>

-----------------------------------------------------------------------------
(* The updates of the queue: all of it, or until a call of the driver      *)
(* fails.                                                                  *)
UpdatesAll(p, q) == q = UpdateFirst(p, Len(p.update), open) /\ UNCHANGED failures

UpdatesSome(p, q) ==
  /\ failures < MaxFailures
  /\ \E n \in 0..(Len(p.update) - 1) :
       /\ q = UpdateFirst(p, n, open)
       /\ CallsDriver(q, q.update[1])
  /\ failures' = failures + 1

\* port__update_events_if_polling(); its result is not looked at
UpdatesIfPolling(p, q) ==
  IF p.active > 0 THEN UpdatesAll(p, q) \/ UpdatesSome(p, q)
                  ELSE q = p /\ UNCHANGED failures

-----------------------------------------------------------------------------
(* epoll_ctl()                                                             *)
CtlAdd(t, o, request) ==
  LET free == {s \in SockIds : ~port.sock[s].used}
      s    == Min(free)
      g    == GroupFor(port)
  IN
  /\ At(t, "ctl")
  /\ port.tree[o] = NoId /\ o \in open
  /\ free # {} /\ g \in Groups
  /\ UpdatesIfPolling(SetEvent(SockNew(port, o, s, g), s, request), port')
  /\ Goto(t, "unref")
  /\ UNCHANGED <<handle, kernel, got, ctls>>

\* The socket is known already, or there is no memory for it.
CtlAddFails(t) ==
  /\ At(t, "ctl")
  /\ GroupFor(port) \in Groups
  /\ port' = SockNewFails(port, GroupFor(port))
  /\ Goto(t, "unref")
  /\ UNCHANGED <<handle, kernel, got, ctls, failures>>

CtlMod(t, o, request) ==
  /\ At(t, "ctl")
  /\ port.tree[o] # NoId
  /\ UpdatesIfPolling(SetEvent(port, port.tree[o], request), port')
  /\ Goto(t, "unref")
  /\ UNCHANGED <<handle, kernel, got, ctls>>

\* sock_delete(); the call of the driver that cancels the poll may fail.
Deletes(p, s, q) ==
  \/ q = SockDelete(p, s) /\ UNCHANGED failures
  \/ /\ p.sock[s].status = "pending" /\ failures < MaxFailures
     /\ q = SockDeleteUncancelled(p, s)
     /\ failures' = failures + 1

CtlDel(t, o) ==
  /\ At(t, "ctl")
  /\ port.tree[o] # NoId
  /\ Deletes(port, port.tree[o], port')
  /\ Goto(t, "unref")
  /\ UNCHANGED <<handle, kernel, got, ctls>>

\* No group or no such socket, or no such operation
CtlRefused(t) ==
  /\ At(t, "ctl")
  /\ Goto(t, "unref")
  /\ UNCHANGED <<port, handle, kernel, got, ctls, failures>>

-----------------------------------------------------------------------------
(* epoll_wait()                                                            *)
\* port_wait() ends: with events, an error or the timeout
Leave(t, p) ==
  /\ UpdatesIfPolling(p, port')
  /\ Goto(t, "unref")

\* port__poll(), up to where it gives the lock back
StartPolling(t, p) ==
  /\ UpdatesAll([p EXCEPT !.active = @ + 1], port')
  /\ Goto(t, "polling")

\* ... or its update fails, and the one at the end of port_wait() fails
\* again or goes through.
FailPolling(t, p) ==
  /\ failures < MaxFailures
  /\ \E n \in 0..(Len(p.update) - 1) :
       LET q == UpdateFirst(p, n, open) IN
       /\ CallsDriver(q, q.update[1])
       /\ \/ port' = q
          \/ q.active > 0 /\ port' = UpdateFirst(q, Len(q.update), open)
  /\ failures' = failures + 1
  /\ Goto(t, "unref")

Poll(t) ==
  /\ At(t, "wait")
  /\ StartPolling(t, port) \/ FailPolling(t, port)
  /\ UNCHANGED <<handle, kernel, got, ctls>>

\* GetQueuedCompletionStatusEx() gives the first n completions,
Dequeued(t, n) ==
  /\ At(t, "polling") /\ port.iocp
  /\ n \in 1..Len(packets)
  /\ got' = [got EXCEPT ![t] = SubSeq(packets, 1, n)]
  /\ packets' = SubSeq(packets, n + 1, Len(packets))
  /\ Goto(t, "woken")
  /\ UNCHANGED <<port, handle, ready, open, ctls, failures>>

\* or none: its time is over, which it need not have, or the handle was closed.
TimedOut(t) ==
  /\ At(t, "polling")
  /\ Goto(t, "woken")
  /\ UNCHANGED <<port, handle, kernel, got, ctls, failures>>

\* port__feed_events() of the port p, for the first n of the completions
FeedFirst(p, completions, n) ==
  LET after[k \in 0..n] == IF k = 0 THEN p ELSE SockFeed(after[k - 1], completions[k]) IN after[n]

Fed(t) == FeedFirst([port EXCEPT !.active = @ - 1], got[t], Len(got[t]))

\* The sockets of which a round of port__feed_events() tells
Told(t) == {port.sock[c.sock].base : c \in {c \in ToSet(got[t]) : Reported(port, c) # {}}}

WokenWithout(t) ==
  /\ At(t, "woken") /\ got[t] = <<>>
  /\ Leave(t, [port EXCEPT !.active = @ - 1])
  /\ UNCHANGED <<handle, kernel, got, ctls>>

WokenWithEvents(t) ==
  /\ At(t, "woken") /\ Told(t) # {}
  /\ Leave(t, Fed(t))
  /\ got' = [got EXCEPT ![t] = <<>>]
  /\ UNCHANGED <<handle, kernel, ctls>>

\* Completions, but none to tell of: it goes on, or its time is over.
WokenInVain(t) ==
  /\ At(t, "woken") /\ got[t] # <<>> /\ Told(t) = {}
  /\ got' = [got EXCEPT ![t] = <<>>]
  /\ \/ StartPolling(t, Fed(t))
     \/ FailPolling(t, Fed(t))
     \/ Leave(t, Fed(t))
  /\ UNCHANGED <<handle, kernel, ctls>>

-----------------------------------------------------------------------------
(* epoll_close()                                                           *)
\* mistake: the threads that wait for completions are not woken
PortCloseLater(t) ==
  /\ At(t, "close")
  /\ Goto(t, "destroy")
  /\ UNCHANGED <<port, handle, kernel, got, ctls, failures>>

PortClose(t) ==
  /\ At(t, "close")
  /\ port' = [port EXCEPT !.iocp = FALSE]
  /\ packets' = <<>>
  /\ Goto(t, "destroy")
  /\ UNCHANGED <<handle, ready, open, got, ctls, failures>>

\* port_delete() frees the sockets it finds in the tree and the queue of
\* deleted ones, then the groups, whose handles end the polls that are left.
PortDelete(t) ==
  LET found == {port.tree[o] : o \in OsSockets} \cup ToSet(port.deleted)
      lost  == {s \in SockIds : port.sock[s].used} \ found
  IN
  /\ At(t, "delete")
  /\ port' = IF port.iocp \/ ToSet(port.update) \ found # {} THEN Fail(port, "port_delete")
             ELSE IF lost # {} THEN Fail(port, "poll_group_delete")
             ELSE [NewPort EXCEPT !.iocp = FALSE]
  /\ alive' = FALSE
  /\ Goto(t, "closed")
  /\ UNCHANGED <<inTree, lock, kernel, got, ctls, failures>>

-----------------------------------------------------------------------------
(* The AFD driver and the application's sockets                            *)
Queue(s, events) ==
  /\ port' = [port EXCEPT !.afd[s].state = "done"]
  /\ packets' = IF port.iocp THEN Append(packets, [sock |-> s, events |-> events]) ELSE packets
  /\ UNCHANGED <<handle, ready, open, pc, got, ctls>>

\* Which of the events that the poll asked for are there
Here(s) ==
  LET poll == port.afd[s]
      now  == IF poll.base \in open THEN ready[poll.base] ELSE {"local_close"}
  IN poll.asked \cap now

PollEnds(s) ==
  /\ port.failed = None
  /\ port.afd[s].state \in {"pending", "cancelled"}
  /\ Here(s) # {}
  /\ Queue(s, Here(s))
  /\ UNCHANGED failures

\* The request itself fails, with a status that is not STATUS_CANCELLED.
PollFails(s) ==
  /\ port.failed = None
  /\ port.afd[s].state \in {"pending", "cancelled"}
  /\ failures < MaxFailures
  /\ Queue(s, {"failed"})
  /\ failures' = failures + 1

PollCancelled(s) ==
  /\ port.failed = None
  /\ port.afd[s].state = "cancelled"
  /\ Queue(s, {})
  /\ UNCHANGED failures

BecomesReady(o, e) ==
  /\ port.failed = None
  /\ o \in open /\ e \notin ready[o]
  /\ ready' = [ready EXCEPT ![o] = @ \cup {e}]
  /\ UNCHANGED <<port, handle, packets, open, pc, got, ctls, failures>>

NotReady(o, e) ==
  /\ port.failed = None
  /\ o \in open /\ e \in ready[o]
  /\ ready' = [ready EXCEPT ![o] = @ \ {e}]
  /\ UNCHANGED <<port, handle, packets, open, pc, got, ctls, failures>>

CloseSocket(o) ==
  /\ port.failed = None
  /\ o \in open
  /\ open' = open \ {o}
  /\ ready' = [ready EXCEPT ![o] = {}]
  /\ UNCHANGED <<port, handle, packets, pc, got, ctls, failures>>

-----------------------------------------------------------------------------
Ctl(t) ==
  \/ \E o \in OsSockets, request \in Requests : CtlAdd(t, o, request) \/ CtlMod(t, o, request)
  \/ CtlAddFails(t)
  \/ \E o \in OsSockets : CtlDel(t, o)
  \/ CtlRefused(t)

\* What a thread does by itself within a call, but for a timeout
Step(t) ==
  \/ Poll(t)
  \/ \E n \in 1..Cardinality(SockIds) : Dequeued(t, n)
  \/ ~port.iocp /\ TimedOut(t)
  \/ WokenWithout(t) \/ WokenWithEvents(t) \/ WokenInVain(t)
  \/ Ctl(t)
  \/ PortClose(t) \/ UnrefAndDestroy(t) \/ Poison(t) \/ PortDelete(t)
  \/ Unref(t)
  \/ \E u \in Threads : Signal(t, u)

Next ==
  \/ \E t \in Threads : CallWait(t) \/ CallCtl(t) \/ CallClose(t) \/ Step(t) \/ TimedOut(t)
  \/ \E s \in SockIds : PollEnds(s) \/ PollCancelled(s) \/ PollFails(s)
  \/ \E o \in OsSockets, e \in Ready : BecomesReady(o, e) \/ NotReady(o, e)
  \/ \E o \in OsSockets : CloseSocket(o)

Spec == Init /\ [][Next]_vars

\* Some call goes on, and the driver completes a poll that can be completed.
FairSpec ==
  /\ Spec
  /\ WF_vars(\E t \in Threads : Step(t))
  /\ WF_vars(\E s \in SockIds : PollEnds(s) \/ PollCancelled(s))
=============================================================================
