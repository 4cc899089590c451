------------------------------ MODULE EpollSock ------------------------------
(***************************************************************************)
(* The data of one epoll port of libepoll (cwepoll.c) and the functions    *)
(* that change it under the port's lock: sockets, their two queues, and    *)
(* the poll groups.  Each operator takes a port and gives the port after   *)
(* the function of the source it is named for.                             *)
(*                                                                         *)
(* Socket states lie in places 1..MaxSocks; the next one is made in the    *)
(* first place that is free, as malloc() may.  afd[s] is what the AFD      *)
(* driver knows: the poll whose status block lies in the socket state s.   *)
(***************************************************************************)
EXTENDS Integers, Sequences, SequencesExt

CONSTANTS
  OsSockets,     \* sockets of the application
  MaxSocks,      \* bound: places for a sock_state
  MaxGroups,     \* bound: poll groups
  MaxGroupSize   \* POLL_GROUP__MAX_GROUP_SIZE

None == "none"

ASSUME GroupAssumption == MaxSocks \in Nat /\ MaxGroups \in Nat /\ MaxGroupSize \in Nat \ {0}

SockIds == 1..MaxSocks
Groups == 1..MaxGroups
NoId == 0

\* EPOLLERR and EPOLLHUP are "err"; EPOLLIN stands for all that is read.
Asks == [in |-> "receive", out |-> "send", err |-> "connect_fail"]
\* A request that fails in an unexpected way tells of an error.
Tells == [receive |-> {"in"}, send |-> {"out"}, connect_fail |-> {"in", "out", "err"},
          failed |-> {"err"}]

EpollToAfd(events) == {"local_close"} \cup {Asks[e] : e \in events}
AfdToEpoll(events) == UNION {Tells[e] : e \in events \ {"local_close"}}

NoPoll == [state |-> None, base |-> None, asked |-> {}]

FreeSock == [used |-> FALSE, group |-> NoId, base |-> None, user |-> {}, oneshot |-> FALSE,
             pending |-> {}, status |-> "idle", deleting |-> FALSE]

NewPort ==
  [iocp    |-> TRUE,                             \* iocp_handle is not NULL
   tree    |-> [o \in OsSockets |-> NoId],       \* sock_tree
   sock    |-> [s \in SockIds |-> FreeSock],
   afd     |-> [s \in SockIds |-> NoPoll],
   update  |-> <<>>,                             \* sock_update_queue
   deleted |-> <<>>,                             \* sock_deleted_queue
   groups  |-> <<>>,                             \* poll_group_queue
   size    |-> [g \in Groups |-> 0],             \* group_size
   active  |-> 0,                                \* active_poll_count
   failed  |-> None]                             \* the assertion that failed

Fail(p, function) == [p EXCEPT !.failed = IF @ = None THEN function ELSE @]

-----------------------------------------------------------------------------
\* Queues.  A socket has one node, for either queue.
Enqueued(p, s) == Contains(p.update, s) \/ Contains(p.deleted, s)

RequestUpdate(p, s) ==
  IF Enqueued(p, s) THEN p ELSE [p EXCEPT !.update = Append(@, s)]

AddDeleted(p, s) ==
  IF Enqueued(p, s) THEN p ELSE [p EXCEPT !.deleted = Append(@, s)]

\* queue_remove() of the node of e, where it is in the queue q
Without(q, e) ==
  IF Contains(q, e) THEN RemoveAt(q, CHOOSE i \in DOMAIN q : q[i] = e) ELSE q

\* port_cancel_socket_update() and port_remove_deleted_socket()
Dequeue(p, s) == [p EXCEPT !.update = Without(@, s), !.deleted = Without(@, s)]

-----------------------------------------------------------------------------
\* Poll groups.  The last of the queue has room, when any has.
LastHasRoom(p) == p.groups # <<>> /\ p.size[Last(p.groups)] < MaxGroupSize

GroupTaken(p, g) ==
  LET q == [p EXCEPT !.size[g] = @ + 1] IN
  IF q.size[g] = MaxGroupSize THEN [q EXCEPT !.groups = <<g>> \o Without(@, g)] ELSE q

\* poll_group_acquire() of the group g: the last, or a new one
GroupAcquire(p, g) ==
  IF LastHasRoom(p) THEN GroupTaken(p, g)
  ELSE GroupTaken(IF p.iocp THEN [p EXCEPT !.groups = Append(@, g)]
                            ELSE Fail(p, "port_get_iocp_handle"), g)

GroupFor(p) == IF LastHasRoom(p) THEN Last(p.groups) ELSE Len(p.groups) + 1

GroupRelease(p, g) ==
  LET q == IF p.size[g] \in 1..MaxGroupSize THEN p ELSE Fail(p, "poll_group_release") IN
  [q EXCEPT !.size[g] = @ - 1, !.groups = Append(Without(@, g), g)]

-----------------------------------------------------------------------------
\* Sockets.  The driver may have completed the poll that is cancelled.
CancelPoll(p, s) ==
  [p EXCEPT !.sock[s] = [@ EXCEPT !.status = "cancelled", !.pending = {}],
            !.afd[s].state = IF @ = "pending" THEN "cancelled" ELSE @]

SockFree(p, s) ==
  [GroupRelease(Dequeue(p, s), p.sock[s].group) EXCEPT !.sock[s] = FreeSock]

\* mistake: the socket stays in the update queue
UnlinkQueued(p, s) ==
  [p EXCEPT !.tree[p.sock[s].base] = NoId, !.sock[s].deleting = TRUE]

\* A socket that is deleted is in neither the tree nor the update queue.
Unlink(p, s) ==
  [Dequeue(p, s) EXCEPT !.tree[p.sock[s].base] = NoId, !.sock[s].deleting = TRUE]

\* mistake: a poll that was cancelled is taken for one that has ended
MustKeepPending(p, s) == p.sock[s].status = "pending"

\* The driver still writes to a socket state whose poll has not ended.
MustKeep(p, s) == p.sock[s].status # "idle"

\* The result of sock__cancel_poll() is not looked at: when it fails, the poll
\* of a socket that is deleted stays pending.
SockDeleteUncancelled(p, s) == AddDeleted(Unlink(p, s), s)

SockDelete(p, s) ==
  LET c == IF p.sock[s].status = "pending" THEN CancelPoll(p, s) ELSE p
      q == IF p.sock[s].deleting THEN p ELSE Unlink(c, s)
  IN IF MustKeep(q, s) THEN AddDeleted(q, s) ELSE SockFree(q, s)

SockNew(p, o, s, g) ==
  [GroupAcquire(p, g) EXCEPT
     !.tree[o] = s,
     !.sock[s] = [FreeSock EXCEPT !.used = TRUE, !.base = o, !.group = g]]

\* sock_new() without memory, or for a socket that is known already
SockNewFails(p, g) == GroupRelease(GroupAcquire(p, g), g)

\* What is asked for and not watched by the pending poll
Unwatched(p, s) == p.sock[s].user \ p.sock[s].pending

User(request) == (request \ {"oneshot"}) \cup {"err"}
WithRequest(p, s, request) ==
  [p EXCEPT !.sock[s] = [@ EXCEPT !.user = User(request), !.oneshot = "oneshot" \in request]]

\* mistake: only a socket without a poll is updated
SetEventIdle(p, s, request) ==
  LET q == WithRequest(p, s, request) IN
  IF p.sock[s].status = "idle" THEN RequestUpdate(q, s) ELSE q

SetEvent(p, s, request) ==
  LET q == WithRequest(p, s, request) IN
  IF Unwatched(q, s) # {} THEN RequestUpdate(q, s) ELSE q

StartPoll(p, s) ==
  [p EXCEPT !.sock[s] = [@ EXCEPT !.status = "pending", !.pending = p.sock[s].user],
            !.afd[s] = [state |-> "pending", base |-> p.sock[s].base,
                        asked |-> EpollToAfd(p.sock[s].user)]]

\* Does sock_update() call the driver, so that it can fail?
CallsDriver(p, s) ==
  \/ p.sock[s].status = "idle"
  \/ p.sock[s].status = "pending" /\ Unwatched(p, s) # {}

SockUpdate(p, s, open) ==
  LET c == p.sock[s] IN
  IF c.deleting THEN Dequeue(Fail(p, "sock_update"), s)
  ELSE IF c.status = "idle" /\ c.base \notin open THEN SockDelete(p, s)
  ELSE Dequeue(IF c.status = "idle" THEN StartPoll(p, s)
               ELSE IF CallsDriver(p, s) THEN CancelPoll(p, s)
               ELSE p, s)

\* port__update_events() for the first n of the queue
UpdateFirst(p, n, open) ==
  LET after[k \in 0..n] == IF k = 0 THEN p ELSE SockUpdate(after[k - 1], p.update[k], open)
  IN after[n]

\* What a completion tells the user.
Reported(p, c) ==
  IF p.sock[c.sock].deleting \/ "local_close" \in c.events THEN {}
  ELSE AfdToEpoll(c.events) \cap p.sock[c.sock].user

\* mistake: no new poll is asked for after one that told nothing
RequeueReported(p, s, told) == IF told = {} THEN p ELSE RequestUpdate(p, s)

Requeue(p, s, told) == RequestUpdate(p, s)

\* sock_feed_event() for the completion c
SockFeed(p, c) ==
  LET s    == c.sock
      told == Reported(p, c)
      q    == [p EXCEPT !.sock[s] = [@ EXCEPT !.status = "idle", !.pending = {}], !.afd[s] = NoPoll]
  IN IF p.sock[s].deleting \/ "local_close" \in c.events THEN SockDelete(q, s)
     ELSE Requeue(IF told # {} /\ p.sock[s].oneshot
                  THEN [q EXCEPT !.sock[s] = [@ EXCEPT !.user = {}, !.oneshot = FALSE]]
                  ELSE q,
                  s, told)
=============================================================================
