------------------------------ MODULE EpollProps ------------------------------
(***************************************************************************)
(* What epoll_ctl(), epoll_wait() and epoll_close() of libepoll rely on,   *)
(* and what they promise.                                                  *)
(***************************************************************************)
EXTENDS EpollPort

Used == {s \in SockIds : port.sock[s].used}
InHand == ToSet(packets) \cup UNION {ToSet(got[t]) : t \in Threads}
NoDuplicates(s) == Cardinality(ToSet(s)) = Len(s)

\* The threads that hold a reference
Holding == {t \in Threads : pc[t] \in {"wait", "ctl", "polling", "woken", "unref",
                                       "close", "destroy"}}

\* The variables have the types of the code's fields, and active_poll_count
\* counts the threads that wait for completions.
TypeOK ==
  /\ port.sock \in [SockIds -> [used : BOOLEAN, group : 0..MaxGroups,
                                base : OsSockets \cup {None}, user : SUBSET DOMAIN Asks,
                                oneshot : BOOLEAN, pending : SUBSET DOMAIN Asks,
                                status : {"idle", "pending", "cancelled"}, deleting : BOOLEAN]]
  /\ port.tree \in [OsSockets -> 0..MaxSocks]
  /\ port.active = Cardinality({t \in Threads : pc[t] \in {"polling", "woken"}})

\* The reflock counts the threads that have found the port, and the port is
\* freed once nobody else can use it: all references are given back, the
\* handle cannot be found, no thread is waiting to signal.
FreedAlone ==
  /\ lock.refs = Cardinality(Holding)
  /\ ~alive => ~inTree /\ \A t \in Threads : pc[t] \in {"idle", "closed"}

\* No assertion fails, but for the one of port_get_iocp_handle(), which an
\* epoll_ctl() meets that has found the port before epoll_close() closes it.
AssertionsHold ==
  /\ port.failed \in {None, "port_get_iocp_handle"}
  /\ port.failed # None => ~inTree

\* Memory that was freed is left alone: neither the driver nor a completion
\* queued or in a thread's hands refers to a socket state that is not in use.
FreedQuiet ==
  alive => \A s \in SockIds \ Used : port.afd[s] = NoPoll /\ \A c \in InHand : c.sock # s

\* A group counts its sockets and takes no more than it may; full groups are
\* before the others, so that no group is made while there is room in one.
GroupsSound ==
  alive /\ port.failed = None =>
  /\ NoDuplicates(port.groups)
  /\ \A g \in Groups :
       /\ port.size[g] = Cardinality({s \in Used : port.sock[s].group = g})
       /\ port.size[g] \in 0..MaxGroupSize
  /\ \A i, j \in DOMAIN port.groups :
       i < j /\ port.size[port.groups[i]] < MaxGroupSize => port.size[port.groups[j]] < MaxGroupSize

\* Each socket state in use is known by the tree or waits for its poll to end;
\* only the former are in the update queue, all of the latter in the other.
\* And their groups are sound.
QueuesRight ==
  /\ TypeOK
  /\ GroupsSound
  /\ alive /\ port.failed = None =>
       /\ NoDuplicates(port.update) /\ NoDuplicates(port.deleted)
       /\ ToSet(port.deleted) = {s \in Used : port.sock[s].deleting}
       /\ ToSet(port.update) \subseteq Used \ ToSet(port.deleted)
       /\ \A s \in Used \ ToSet(port.deleted) : port.tree[port.sock[s].base] = s
       /\ \A s \in ToSet(port.deleted) : port.afd[s] # NoPoll

\* While threads wait for completions no socket is left waiting for a poll,
\* unless a call of the driver has failed.
QueueServed == port.active > 0 /\ failures = 0 => port.update = <<>>

\* What the user asks for is watched by a pending poll, or there will be a
\* new poll: the socket is queued for it, or its old one has still to end.
\* The queue is not left to itself.
WantedWatched ==
  /\ QueueServed
  /\ \A o \in OsSockets : alive /\ port.tree[o] # NoId =>
       LET s == port.tree[o] IN
       \/ Contains(port.update, s)
       \/ port.sock[s].status # "idle" /\ Unwatched(port, s) = {} /\ port.afd[s] # NoPoll
       \/ port.sock[s].status = "cancelled" /\ port.afd[s] # NoPoll

-----------------------------------------------------------------------------
\* Something the user asked for is there on a socket of the port.
Due(o) ==
  /\ port.tree[o] # NoId
  /\ AfdToEpoll(ready[o]) \cap port.sock[port.tree[o]].user # {}
  /\ port.iocp

Waiting == {t \in Threads : pc[t] \in {"wait", "polling", "woken"}}

\* When all threads wait and something that was asked for is there, it does
\* not go on like that: one of them leaves, because it is told or because a
\* call of the driver fails, unless what was there goes away.
DueIsTold ==
  \A o \in OsSockets :
    (Due(o) /\ Waiting = Threads) ~> (~Due(o) \/ Waiting # Threads)

\* epoll_close() returns, however many threads wait in epoll_wait().
CloseReturns ==
  (\E t \in Threads : pc[t] = "close") ~> (port.failed # None \/ \E t \in Threads : pc[t] = "closed")
=============================================================================
