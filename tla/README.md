# A TLA+ model of cmedia_server's libraries

cmedia_server is to become a media server. Its logic so far is the network
library under `clib/`: sessions over boost::asio, driven by a pool of io threads
and by one application thread that polls for messages; under it a memory pool, an
asynchronous log, a configuration reader and small algorithms; and beside it
libepoll, an epoll for Windows. This directory holds models of these, the TLC runs
that check them, and proofs that TLAPS checks.

## 1. The system

| component | state | operations | what is hard about it | what makes it correct |
|---|---|---|---|---|
| **Network manager** `clib/cnet_mgr` | stack of free server sessions, `m_listening_num`, `busy` and timer of each client, `m_shuting`, acceptor, io_service, threads | `init`, `startup`, `connect_to`, `send_msg`, `close`, `process_msg`, `shutdown`, `destroy`; handlers of accept, connect, timer, close | several io threads run the handlers with only two short mutexes; shutdown against handlers | a session has one owner; accepts are replaced; one connect attempt per client; the callbacks tell a consistent story |
| **Session** `clib/cnet_session` | status, id with serial, reading and writing flags, socket, receive buffer and message, two send buffers, queue of waiting messages | `connected`, `send_msg`, `close`, `reset`; handlers of read and write; `_close`, `_release`, `_parse_msg`, `_msg_queue_buf` | the object is recycled: operations and handlers of one connection may meet the next; framing of a stream | released once and only when quiet; messages delivered intact and in order |
| **Messages and their queue** `clib/cnet_msg*` | intrusive list under a mutex; reference counts | `enqueue`, `dequeue`, `clear`; `alloc_me`, `free_me`, `fill` | producers on io threads, consumer takes the whole list | first in, first out, nothing lost |
| **Buffers** `clib/cmsg_buffer` | size, data size, bytes | `append`, `reset`, `deducted` | partial appends | bytes in order |
| **Memory pool** `clib/cmem_pool` | per size class a list of blocks, per block a free list, counters | `alloc`, `free`, `gc`, `destroy` | block lists edited by hand, counters kept on the side | no node given twice; counters match |
| **Asynchronous log** `clib/casync_log`, `clib/clog` | list of items, mutex, condition variable, stop flag, worker | `append_fix`, `append_var`, `destroy` | lost wake-ups, early returns with the lock held | everything appended before `destroy` is written; `destroy` returns |
| **libepoll** `libepoll/cwepoll.c` | ports in a locked tree with reference counts; per port: sockets, update and deleted queues, poll groups | `epoll_create/ctl/wait/close` | lock left during a wait, close against ctl and wait, cancelled polls | no state freed while used; each wanted event is polled for |
| Configuration, command line, small algorithms (`cconfig`, `ccmd_param`, `cdigit2str`, `cbase64`, `ccrypto`, `crandom`, `ctime_api`, ...) | none, or a map | parsing, formatting, encoding | boundaries | agree with a definition |
| Stubs (`common/ctiming_wheel*`, `clib/cevent*`, `media/cflv_context`, `cmedia_server/main.cpp`) | | empty bodies | | |
| Vendored: sigar, peb, wmi, httplib, cmd5 | | | | |

How they interact. `startup()` posts accepts and starts the threads, which all run
one `io_service`. A completed accept or connect calls `cnet_session::connected()`,
which pushes a Connect message to the manager's queue and starts to read. Each read's handler parses messages,
pushes them to the same queue and reads again. `send_msg()` on
the application's thread fills a send buffer and, when no write is under way,
starts one, which its handler continues. Whoever first finds a connection broken,
or `close()`, shuts the socket down; `_release()` posts `_handle_close` once
neither flag is set; that handler resets the session to its next incarnation,
pushes Disconnect, and gives the session back to the stack (server) or waits to
connect again (client). `process_msg()` takes the whole queue and calls the
application back. Messages come from the memory pool, and every part writes to
the log.

The hazards of this code, each at its line and with the properties that cover
it, are listed under "hazards" in PROJECT.json.

## 2. The modules

| module | what it is |
|---|---|
| `NetSession` | a session's control: its status, flags, serial, socket and outstanding operations, and the steps of `connected`, `_handle_read`, `send_msg`, `_handle_write`, `close`, `_close`, `_release`, `reset`. No specification of its own |
| `NetMgr` | EXTENDS NetSession: the manager's variables and steps, `Init`, `Next`, `Spec` |
| `SessionService` | the abstract specification: what an application is told about a session index |
| `NetMgrProps` | EXTENDS NetMgr: type invariant, safety, action and liveness properties, fairness |
| `NetMgrWatched` | EXTENDS NetMgrProps: the sessions gone astray, what holds of the others, the refinement of `SessionService` |
| `MCNetMgr` | what TLC needs on top: the symmetry of the io threads |
| `RecvPath` | the receive path byte by byte: `_handle_read`, `_parse_msg`, the receive buffer; with its properties |
| `SendPath` | the send path byte by byte: `send_msg`, `_handle_write`, the two send buffers, the waiting queue; with its properties |
| `MsgList`, `MsgFifo` | the intrusive lists of messages, and the sequences they implement |
| `Links` | what a loop along links meets, for `MsgList` and `MemPool` |
| `MemPool` | the memory pool: block lists, chains of free pieces, counters |
| `AsyncLog` | the asynchronous log: producers, worker, `destroy()` |
| `EpollSock` | the data of an epoll port, and the functions that change it under the port's lock |
| `EpollPort` | EXTENDS EpollSock: threads in `epoll_ctl`, `epoll_wait`, `epoll_close`, the reflock, the AFD driver |
| `EpollProps` | EXTENDS EpollPort: its properties |
| `RbTree` | libepoll's red-black tree |
| `Texts` | reading the configuration file, splitting a command, decimal digits, base64 |
| `StreamCipher` | the stream cipher and the pair of keys of `ccrypto` |
| `MCStructures` | `MemPool`, `RbTree`, `MsgList`, `Texts` and `StreamCipher` in one run |
| `NetMgrProofs` | theorems about the manager: types and owners of sessions; the accept path and the client path; connections kept apart on recycled sessions |
| `SendProofs`, `RecvProofs` | theorems about the two byte paths |
| `StructureProofs`, `PoolProofs` | theorems about the lists of messages and the red-black tree; about the memory pool |
| `StreamProofs`, `EpollProofs` | theorems about the log and the cipher; about libepoll |
| `SequenceLemmas` | what these rest on: induction over numbers, byte streams read off sequences of frames, chains of linked nodes |

### The manager and its sessions

A thread has a program counter `pc`, the session `cur` it works for, and `born`,
the incarnation its handler was started for. A step reaches from one access of
shared state to the next, or over a whole critical section. For example
`_handle_read` with an error is `ReadFails` (the completion, and clearing
`m_reading_atomic`), then `HandlerClose` (the critical section of `_close`), then
`Release` (that of `_release`): three steps, since other threads run in between.
`_handle_close` is `HandleClose` (`reset`), `TellDisconnect`, then
`ReturnSession`, `CheckListening`, `TakeSession`, `CountAccept` and `PostAccept`, or
`MarkBusyAgain` and `WaitToReconnect`.

| code | model |
|---|---|
| `m_status`, serial half of `m_session_id`, `m_reading_atomic`, `m_writeing_atomic`, `m_socket` | `status`, `serial`, `reading`, `writing`, `sock` |
| operations given to boost::asio | `readOps`, `writeOps` (by session and the incarnation whose socket they are on), `acceptOps`, `connectOps`, `timers`, `closePosts` |
| `m_available_sessions`, `m_listening_num` | `available` (top of the stack last), `listening` |
| `cconnect_para::busy` | `busy` |
| `m_msgs`; the list `process_msg()` walks; what the callbacks said last | `queue`, `batch`, `last` |
| `m_shuting`, acceptor, `stop()`, `join()` | `phase` |
| `LOG_ERROR` of the status checks | `complaints`: function and session |

What was merged, and why nothing is lost by it:

- The unlocked first check of `close()` and `send_msg()` repeats the one under
  the mutex, and only the latter decides.
- `connected()` sets the reading flag, pushes Connect and starts the first read
  in one step (`Announce`): until that read is posted no other thread has an
  operation of this incarnation. The application could use the id between push
  and read; its `close()` then finds the reading flag set, as after the read.
- The parsing of one read is `PushInput` for each whole message, then `RejectInput` or `TakeInput`.
- An accept is outstanding in `acceptOps` from `async_accept` until its handler begins, which starts by counting it off
  (`AcceptSucceeds`, `AcceptFails`). When the system completes it is nobody's step: no variable of the
  program tells of it, and `m_listening_num` is then still what it was. Between the count
  in `_post_accept()` and `async_accept` there are two steps, and `ListeningExact` counts the threads in between.
- A failed allocation in `_handle_close` posts the handler again before it has
  changed anything: a stuttering step.
- `send_msg()` is a step only when it starts a write. What it does to the
  buffers is in `SendPath`.
- Connection data (addresses, ports, error codes, message ids) is left out.

The application uses the id it was told last for an index, and makes no calls
once it has called `shutdown()`. Its `send_msg` to an old id is refused by the
first check and changes nothing.

`AcceptorGone` is undefined behaviour made explicit: a handler past the check of
`m_shuting` uses the acceptor that `shutdown()` has deleted. The model goes to
phase `crashed`.

### The byte paths

In `RecvPath` byte `<<m, k>>` is the k-th byte of the m-th message, so that a
property can say which byte is where. `Complete` is boost::asio: the oldest read
takes the next bytes of the stream, as many as it likes. A read that ends inside a body makes the code
post two reads (the second `if` of `_handle_read` is not an `else`); the history variable `straddled`
remembers it.

In `SendPath` byte `<<c, k>>` is the k-th byte of the c-th call's frame. A call of
`send_msg()` is one step, since it holds `m_mutex` for all it does to the
buffers, and `m_sending_buf_ptr`, which it reads after that, is no one else's while
the flag is set. The handler is one step up to the unlock and, when it found
nothing to send, a second (`Settle`) that clears the flag. `_msg_queue_buf` is one
operator: `Encodings` is what its loop would append, `QueueToBuf` cuts that to the
buffer's size. Four slips of the code are modelled as they are: a header
cut when 4 or 5 bytes are free (202), `TakeBack` after it (212), id and size
swapped (218), and pointer arithmetic that is right only for a header cut at 0 or 2
(474, 484; other places give the byte `Junk`). The history variable `mangled`
tells that one has happened on this connection, `due` what the accepted calls amount to,
and `overtaken` that a call found the flag set between the unlock and its clearing.
A connection that ends is `Close` or `WriteFails`, then `Recycle`, which happens only
with no write under way: `RecycledQuiet` shows that of a session that has not gone astray (section 3).

### Messages in memory

`MsgList` has the link `next` of each message and the ends of the lists: the
manager's queue (`queued`), the batch that `process_msg()` walks (`at`), the session's waiting list
(`wait`), and the messages in a handler's hands (`hand`) or partly received (`recv`). `Enqueue`, `PushRecv`, `Dequeue`, `Handled`, `Wait`,
`Sent` and `Reset` are the functions. `lost` is where messages go that nothing frees:
`Reset` frees from the newest waiting message on, so all others.

`MemPool` has the blocks by address, with `pre`, `next`, the head of their free
chain and the offsets in the pieces. `AllocFirst`, `AllocNew`, `Free`, `Gc` and `SetMaxBlock` are
whole functions, as they hold the lock throughout; a large piece is `LargeRead` and
`LargeWrite`, because its counters are changed outside the lock. A pool update
in between makes the counter `Unknown`. `m_block_count` starts anywhere in `FirstCounts`,
since no constructor sets it.

### The log

A producer makes an item under the mutex (`PushItem`), then notifies. The worker has
a step for each unlocked look at `m_stoped` and the list (`Outer`, `Inner`), for the look at
the condition (`Check`, `CheckFails`), falling asleep, `Pop` and `Write`. `destroy()` is
`Stop`, `NotifyAll`, `Finish`. Between `CheckFails` and `FallAsleep` the worker holds
the mutex, but `destroy()` takes none: `missed` remembers that its notification fell there. An
append that fails may leave with the mutex (`lost`). One that finds `m_log_buf` freed is undefined: either the item is
appended, or the process ends (`UseFreedBuffer`). `WakeUp` is the wake-up by nobody that
condition variables allow.

### libepoll

`EpollSock` has one operator for each function that runs under the port's lock
(`port.sock`, the two queues, the poll groups): it takes a port and gives the port after it. A failed
assertion is recorded in `port.failed`. `EpollPort` has the threads: `CallWait`, `CallCtl`,
`CallClose` find the port in the handle tree and take a reference; `Ctl`, `Poll`, the `Woken...` steps
and `PortClose` hold the lock once each; `Unref`, `UnrefAndDestroy`, `Signal`, `Poison`
and `PortDelete` are the reflock and the end of the port. `epoll_wait()` is split where it gives
the lock back to wait for completions. The AFD driver ends a poll when
what it asked for is there, or it is cancelled, or with an error (`PollFails`), and queues the completion (`packets`);
cancelling may fail, which `sock__delete()` does not notice (`Deletes`);
sockets become ready, stop being so, and are closed behind the port's back.

`RbTree` follows `tree_add` and `tree_del` by rounds of their loops, written as
recursive functions of the number of rounds (`Rounds`, twice the number of keys and two), more than any of them
needs: the proof shows it. The macros that the code expands for both sides are operators with the side as a parameter.

### Functions

`Texts` translates the functions as operators on sequences of characters or bytes, and its only variable shows one call
at a time with what it returned; the properties compare that with a
reference definition (`MeaningOfFile` says what the lines of a file mean, of each key the first). `StreamCipher` keeps the two key streams of `ccrypto` and the bytes under way
between them. `^` is the parameter `XorByte`: of it the code relies on nothing but that it undoes itself, and the run
gives it the bits.

## 3. The runs

| run | instance | what it shows |
|---|---|---|
| `server_threads` | 2 io threads, 2 server sessions, 1 accept wanted, 2 connections | `TypeOK`, `SingleOwner`, `NoServerComplaint`, `AcceptsRefilled`, `ListeningExact`, `ListenBound`, `ViewSettles`, `NoStaleHandler`, and `ToldAsPromised`: the callbacks implement `SessionService` |
| `watched_client` | 2 io threads, 1 client, 3 calls of `connect_to()`, 2 connections, 2 serials, 1 message, up to 2 reads outstanding | `RecycledQuiet`, `ToldAsPromised` |
| `client_reconnect` | 2 io threads, 1 client with reconnect, one `connect_to()`, up to 2 reads outstanding | `OneAttempt`, and `ShutIsRecycled` under fairness |
| `server_live` | 2 io threads, 1 server session, shutdown at any time | under fairness `EndIsTold` and `ShutdownEnds` |
| `connect_status_claim` | 1 io thread, 1 client with reconnect, several `connect_to()` | violated: `ConnectFromInit` |
| `recv_path` | 3 messages of 0 or 2 bytes, header of 2, buffer of 6, up to 3 reads | `DeliveredIntact`, `Accounted`, and `AllDelivered` under fairness |
| `recv_assert_claim` | a body longer than the buffer | violated: `AssertHolds` |
| `send_path` | 4 messages of 1, 2 or 6 bytes, buffers of 11, 2 connections, with and without memory | `Intact`, `NeverReordered`, `WriterAwake`, and `AllSent` under fairness |
| `send_claim` | 3 messages of 1 or 6 bytes | violated: `SentInTheEnd` |
| `epoll_port` | 2 threads, 1 socket, 2 places for a socket state, 2 groups of 1, 3 calls of `epoll_ctl`, 1 failing call of the driver or poll | `FreedAlone`, `AssertionsHold`, `FreedQuiet`, `QueuesRight`, `WantedWatched`, and under fairness `DueIsTold` and `CloseReturns` |
| `async_log` | 2 producers, 3 items | `InOrder`, `WrittenAtStop`, and under fairness `AllWritten` and `DestroyReturns` |
| `structures` | below | `PoolSound`, `CountersAccounted`, `FreeReclaims`; `TreeSound`; `RefinesFifo`; `TextsRight`; `Deciphered` |

All runs but `structures` set `CHECK_DEADLOCK FALSE`: the bounds end every behaviour, and
after `shutdown()`, `destroy()` or `epoll_close()` the program stops.

Bounds. Two io threads are what every race found here needs, each race being
between two handlers. Two sessions with one
accept wanted let both threads pass the check at once, which is where `ListenBound`'s
bound of two comes from. Two connections let a session be recycled twice and its serial
wrap (`SerialMax` 2 for 16#FFFF). `MaxData`, `MaxReads`, `MaxCalls`, `MaxConns`
bound what the environment does, never a handler's branches, except that with
`MaxReads` at 1 a second read is not posted. `Symmetry` permutes the io threads in
`server_threads` and `watched_client`, whose properties are all safety properties and name no thread. In `RecvPath` a header of 2 and bodies of 0 and 2 bytes make a rest
shorter than, equal to and longer than a header, and the buffer
holds more than one message. In `SendPath` a frame of 7 or 8 bytes leaves 4 or 3 of the
11 free, on either side of the code's test, one of 12 overflows, and each slip above occurs.
Any number of bytes may be taken by a write.

In `epoll_port` groups of one socket are full as soon as they are used, so that taking a
new one and moving a full one to the front both happen; three
calls let a socket be added, changed while its poll is pending, and deleted while
another thread waits. Two places are for one socket that is deleted and
added again while the poll of its first state ends. The one request is for a single report, after which the poll asks for nothing,
so that asking again finds a pending poll that watches too little. Two sockets at once, and requests for nothing, are left to the theorems of section 4;
the safety properties were also checked on such an instance, of 2.3 million states. In `structures` the parts share nothing, and one moves only while the others are
as they were made, so that the states add up: 4 blocks of up to 4 pieces in two size
classes, so that a list has three blocks; 9 keys for the tree, which reaches all cases of
its insertion and removal; 4 messages; all files of one line of up to 5 characters or two of
up to 3, over the four characters the reader tells apart; all byte texts up to 4
bytes, which is beyond base64's period of 3. `Alike` permutes the blocks; the
temporal formulas of this run, `FreeReclaims` and `RefinesFifo`, are safety properties and name no block.

Fairness. For the manager (`Fairness` in NetMgrProps) threads keep running: weak fairness for each
thread's next step. `io_service` runs what is posted, first come first served:
strong fairness for each session's `_handle_close`, since an io thread may be busy
each time. A read or write completes when its socket is shut down or closed, which
is what `shutdown(shutdown_both)` is for; on an open socket nothing is assumed, as
the peer may be silent. A connect and a timer end. The application keeps calling
`process_msg()`. In `RecvPath` the peer's bytes arrive and handlers run. In `SendPath` handlers run and writes come to an end (`WF` of
`HandleWrite` and `Settle`): the peer keeps reading. Calls and closes are never
forced. In `EpollPort` some thread that can go on in its call does, but for a timeout,
and the driver completes polls that can be completed; no thread is favoured, and
none need call. In `AsyncLog` the worker, each producer and `destroy()`, once called, go on; `WakeUp`
is not forced, or it would hide the lost notification.

### Sessions gone astray

`RecycledQuiet`, `NoStaleHandler`, `ViewSettles` and `ToldAsPromised` do not hold of the code as it is on every session. Instead of an instance
in which nothing can go wrong, `NetMgrWatched` adds a history variable, `astray`, that records the sessions on which one of four
events has happened. It restricts no step: threads, reads, calls and serials are as in `NetMgr`. Each property speaks of the sessions
that are not in `astray`, in any behaviour and whatever happens to the others.

| event | code | without it |
|---|---|---|
| `ReadLeftOver`: a handler clears `m_reading_atomic` while another read of the connection is outstanding | `cnet_session.cpp:333-348` posts two reads | `watched_client` violates `RecycledQuiet` |
| `ClosedLate`: the session is recycled while a handler that has cleared its flag has not called `_close()` | `cnet_session.cpp:291-294` | `watched_client` violates `RecycledQuiet`, a server session with two reads `NoStaleHandler` |
| `SerialReused`: the new serial is one the application still has, or is yet to be told of | `cnet_session.cpp:138-145` | `watched_client` with 3 connections and no message violates `ToldAsPromised` |
| `ConnectCrosses`: `connect_to()` passes its checks while `_handle_close()` is at work on the client | `cnet_mgr.cpp:247-258`, `605-633` | `watched_client` violates `ToldAsPromised` |

The last column is what TLC reports when the event is taken out of `GoesAstray`: each is needed, and by the theorems of section 4
nothing else is. The events are moments of the code, not its consequences: a session is astray before
any of the properties is violated on it. What holds of those sessions too is `SingleOwner`, `ShutIsRecycled`,
`EndIsTold`, `ShutdownEnds` and, with one call of `connect_to()`, `OneAttempt`.

All four properties were also checked on other instances of two io threads, each of one session: a server session with two reads, two connections and one message, a client with three connections, and one that reconnects.

### What the runs found

Three findings (PROJECT.json):

- `connect_to()` races the automatic reconnect: a status error, and two attempts for one socket.
- The assertion on the receive buffer fails for a body longer than it.
- A `send_msg()` that falls between the
  writer's last look and its clearing of `m_writeing_atomic` returns true and is not
  sent; if it overflowed the buffer, no later call restarts the writer.

Also seen, without a line in the repository that says otherwise, or without a run:

- `epoll_close()` sets the completion handle to NULL before it waits for the references: an
  `epoll_ctl()` that found the port earlier fails the assertion of `port_get_iocp_handle()`.
  `AssertionsHold` makes an exception of it.
- All threads run one `io_service`, so two threads handle one session at once, although
  the README speaks of a loop per thread (`README.md:19`, `:21`).
- With two io threads a stale handler can act on the next connection: it clears its flag first and closes later. With reads
  that end inside bodies one of two reads may be left on a recycled session, even on one thread. A `close()` with an
  id that has come round meets a connection the application has not been told of. A `connect_to()` that passes its checks while a handler of a close is still at work
  has its attempt reset. On such a session `RecycledQuiet`, `NoStaleHandler` and `ToldAsPromised` fail: these are the four ways of going
  astray below.
- With reads that end inside bodies bytes are misplaced: `DeliveredIntact` excepts it (`straddled`), `Accounted` does not.
- The slips of the send path named in section 2 put frames on the wire that the receiver
  cannot parse. `Intact` excepts them; `NeverReordered` says what still holds.
- A handler in `_post_accept` may use the deleted acceptor, and `append_var()` the freed `m_log_buf`. Both are undefined; the models have
  an outcome for each in which the program goes no further.
- `reset()` with messages waiting frees the newest and loses the others.
- The log's `destroy()` may wait for ever: its notification takes no mutex (`missed`), and
  `append_fix()` without memory returns with the mutex held (`lost`). A level equal to `ELogLevel_Num` passes the check of levels.
- The pool's counters: `m_block_count` starts uninitialised, `m_free_size` still counts what
  `gc()` released, large pieces stay counted and change the sizes outside the lock. `CountersAccounted`
  says what they are, given that.
- Digits of negative numbers come out below `'0'` (`cdigit2str.cpp:170`), each as far as it should be above, which is what `NumberReadsBack` says of them; `set_int32(std::string)` stores its
  index argument (`cconfig.cpp:95`), and the index one past the end is accepted there.

## 4. What is proved

TLAPS proves these for every value of the constants that satisfies the modules'
assumptions: any number of sessions, clients, io threads, producers, items, sockets or poll groups, any serial width, any
sizes and bounds. Where a theorem counts threads it assumes that there are finitely many.

| theorem | module | says |
|---|---|---|
| `TypeCorrect` | NetMgrProofs | `Spec => []TypeOK` |
| `SingleOwnerCorrect` | NetMgrProofs | `Spec => []SingleOwner` |
| `PathsApartCorrect` | NetMgrProofs | `Spec => []PathsApart` |
| `NoServerComplaintCorrect` | NetMgrProofs | `Spec => []NoServerComplaint` |
| `ListeningExactCorrect` | NetMgrProofs | finitely many io threads: `Spec => []ListeningExact` |
| `ListenBoundCorrect` | NetMgrProofs | finitely many io threads, and one at least: `Spec => []ListenBound` |
| `AcceptsRefilledCorrect` | NetMgrProofs | finitely many io threads: `Spec => []AcceptsRefilled` |
| `OneAttemptCorrect` | NetMgrProofs | `CalledOnce`: `Spec => []OneAttempt` |
| `ConnectFromInitCorrect`, `NoComplaintCorrect` | NetMgrProofs | `CalledOnce`: `Spec => []ConnectFromInit`; no status error at all is ever logged |
| `RecycledQuietCorrect`, `NoStaleHandlerCorrect` | NetMgrProofs | `WatchedSpec => []RecycledQuiet`, `WatchedSpec => NoStaleHandler` |
| `ToldAsPromisedCorrect` | NetMgrProofs | `WatchedSpec => ToldAsPromised`: on the sessions not gone astray the manager implements `SessionService` |
| `ViewSettlesCorrect` | NetMgrProofs | `WatchedSpec => []ViewSettles` |
| `WriterAwakeCorrect`, `IntactCorrect`, `NeverReorderedCorrect` | SendProofs | `Spec => []WriterAwake`, `Spec => []Intact`, `Spec => []NeverReordered` |
| `DeliveredIntactCorrect`, `AccountedCorrect` | RecvProofs | `Spec => []DeliveredIntact`, `Spec => []Accounted` |
| `ListsAreFifo` | StructureProofs | finitely many messages: `MsgSpec => RefinesFifo`, the linked lists implement `MsgFifo`, and no message is in two places |
| `PoolCorrect`, `CountersCorrect` | PoolProofs | `PoolSpec => []PoolSound`, `PoolSpec => []CountersAccounted` |
| `ReclaimCorrect` | PoolProofs | `Cardinality(Blocks) * (MaxGc + 1) < Modulus`: `PoolSpec => FreeReclaims` |
| `TreeCorrect` | StructureProofs | finitely many keys: `TreeSpec => []TreeSound` |
| `DecipheredCorrect` | StreamProofs | `XorByte(XorByte(a, b), b) = a`: `CipherSpec => []Deciphered` |
| `InOrderCorrect`, `WrittenAtStopCorrect` | StreamProofs | `Spec => []InOrder`, `Spec => []WrittenAtStop` |
| `FreedAloneCorrect`, `AssertionsHoldCorrect` | EpollProofs | finitely many threads: `Spec => []FreedAlone`, `Spec => []AssertionsHold` |
| `FreedQuietCorrect`, `WantedWatchedCorrect`, `QueuesRightCorrect` | EpollProofs | finitely many threads: `Spec => []FreedQuiet`, `Spec => []WantedWatched`, `Spec => []QueuesRight` |

**The manager.** The inductive invariant is `OwnerInv`: `TypeOK`, `PathsApart` and `SingleOwner`
together. `SingleOwner` by itself is not inductive. That a popped session is
not also waiting in a closing thread's hands needs `CarriedOnce`; that a session
found with status `Close` is in nobody else's hands needs `ClosedOnce`; that the
accept path never meets a client, whose statuses obey other rules, needs
`PathsApart`. The parts also need each other, so they are proved together. Two lemmas
(`SameHands`, `QuietStep`) say that most steps leave the hands of every server
session as they were; each action that moves a session has a lemma of its
own, and `NextOwner` has one step per action. `NoServerComplaint`
follows since each check is made where `SingleOwner` gives the expected status.
`ListeningExact` counts the sessions with an accept outstanding, and the threads that have counted one and are yet to post it; each
action adds or removes exactly one, by `AcceptedOnce`, or moves one from the threads to the sessions.

`ListenBound` is inductive given `Aside`: nobody runs before `startup()` has posted its
accepts, and only io threads are inside `_post_accept()`. Every step then lowers the
count and the set of threads about to raise it, or finds room, or moves one from the set to the count
(`CountSteps`). `AcceptsRefilled` is inductive by itself; `Moved` says how a step of one thread
changes the number of threads at given labels, and each action's effect on the four
numbers is a step of the proof.

**Clients.** `CalledOnce` is `Reconnect => MaxCalls <= 1`: where clients reconnect by themselves,
`connect_to()` is called once. The run `connect_status_claim` shows that without it the
theorems are false. Without reconnecting any number of calls is allowed. `ClientInv` adds to
`OneAttempt` what makes it inductive: a client's `_handle_close` is posted exactly while its
status is Close (`EndsOnce`), and who is about to begin an attempt, in `connect_to()`
or in the handler of a close, finds the status Init and is alone (`BeginsAlone`).
The latter needs to count the calls: that a client which reconnects has its one call behind it is
what keeps the application out of the handler's way.

**Connections kept apart.** Nothing is assumed here: any number of io threads, any cut into reads, any width of the serials,
any calls. The inductive invariant is `WatchedInv`: `Labelled`, and for each session not in `astray` what `Loop` says of it and, for a client, what
`Client` says. That it speaks of one session at a time is what makes the exception possible: no step disturbs it for a session other than
the one the step is about, astray or not.

`Loop` has two halves. One is about operations: a flag is set exactly while the one
read or write of the connection is outstanding or its handler runs (`ReadOnce`,
`WriteOnce`), neither is set on a session out of use (`AtRest`), and a handler's incarnation is the session's
(`Working`). The other is about words: `Story` says of the messages that wait in the queue and the
batch, and the one told last, that each may follow the one before, that their ids are those of connections up to the newest,
and that the last one says how things stand (`Telling`). The halves need each other: `close()` and `send_msg()`
are safe because an id the application knows is that of a connection already announced (`KnownAnnounced`), which is a fact
about words; and a word is right because no handler is stale, which is a fact about operations.
`NextWord` and `WordTold` are what happens to a story when a message is
pushed and when one is delivered; `LoopBeside` is for the sessions a step is not about; each action has its lemma.
Each event of `GoesAstray` is used at one place: `ReadLeftOver` where a read's handler ends, `ClosedLate` and `SerialReused` in `RecycleLoop`,
where the session is reset, and `ConnectCrosses` where `connect_to()` begins.
The refinement maps `last` to itself and `trusted` to the sessions not astray: every step but `Deliver` leaves `last` alone, and `FirstWord`
makes a delivery a step of `SessionService`. What the application is told of a session astray is anything of its type (`Anything`).

Before they were proved, TLC checked `ClientInv` and `WatchedInv` on small instances with two io threads, clients and servers, with and without reconnecting.

**Sending.** `AwakeInv` adds to `WriterAwake` that the flag is set exactly while a write or its handler is under
way, and that from the handler's last look on all buffers are empty unless a call
overtook it. `TakenBack` is the lemma that needs arithmetic: `deducted()` on an empty buffer leaves it empty.

`IntactInv` adds to `Intact` the types of the bytes (`BytesTyped`), that the flag is set exactly while a write is
under way (`FlagRight`), that without one the sending buffer is empty (`IdleIsEmpty`: the first call of `send_msg()`
swaps the buffers, and what it swaps out must be nothing), and that the first waiting message
was not cut where `_msg_queue_buf()` reads it wrongly (`ReadableHead`: such a cut is a mistake of its own, made
a step before its bytes are written). The work is in `QueueToBufKeeps`: that as many whole messages as fit, and a part of the next one, are
together the first bytes of the queue, and that what is left in the queue, with the new `m_send_size`, is the rest.

`NeverReordered` excepts no mistake, so it cannot follow from `Intact`. `OrderInv` adds to it, and to the types in `IntactInv`,
that no byte is of a call still to come. Each call adds bytes of its own frame behind the others (`Adds`), or takes some from the
end (`TakeBackCuts`); each write leaves the bytes where they are, but for some that a cut header turns into bytes of no
message (`Thins`). That a byte so lost does not come back elsewhere is `EncodedThins`: wherever a header has been cut,
`_msg_queue_buf()` reads each of its bytes from the right place or from outside the message.

**Receiving.** `RecvInv` has three parts. `Typed` says what can be in each field; `Counted` is the sum of
`Accounted`; `Whole` says that, while no read has ended inside a body, no body is awaited, the one read is posted, has ended, or
is being parsed, and the buffer holds the bytes that follow the messages delivered. `HeaderRead` is the step that matters:
the header at the offset is then the next one of the stream, and its body is all there.

**Bytes and induction.** Both paths need what `FlattenSeq` makes of a sequence of frames, for any number of them,
and the sums of `Accounted` need the same of a recursive function. The library's induction theorems take an operator, which
no installed prover can instantiate. `SequenceLemmas` goes another way: `LeastNumber` gets from the library's
theorem on well-founded relations that a set of natural numbers has a least element, and `UpTo` is induction over
membership in a set. `FlatExists` and `FlatUnique` say that the recursive function exists and
depends on no more than the sequences up to there; `FlattenAppend` and `FlattenConcat` follow.

**The log.** `InOrder` needs only types and order. `WrittenAtStop` is not inductive: what the
worker saw at its last look is gone when it ends. `IInv` adds `Taker` (what the worker
may rely on where it is), `StopOrder` (when `destroy()` has gone how far) and `Left`
(what is in the list at the worker's end was appended after it).

**libepoll.** `LifeInv` says that one thread at most closes the port and only when it is out of
the handle tree (`OneCloser`), that who signals does so when no reference is left, alone and to a thread that
waits (`OneSignal`), and that from then on all others are idle (`CloserAlone`).
Steps inside `epoll_ctl` and `epoll_wait` keep all of it at once (`StaysKeeps`).
`FreedAlone` follows.

The other four rest on what a port holds. `PortInv` says of its data: the status of a socket and the driver's poll for it
go together (`PollRight`); tree and sockets name each other (`TreeRight`); the deleted queue is the sockets that are
being deleted, and no queue has a socket twice (`QueueRight`); a group counts its sockets, and the
groups with room are at the end of their queue (`GroupsRight`: `poll_group_acquire()` looks at the last one only); and a socket's wishes are watched, or it is queued,
or its poll is being cancelled (`Served`). Each operator of `EpollSock` has a lemma: it keeps the first four, called `Shape` together, touches one socket only (`Only`), and leaves
that one served. Those that do not (`SockNew`, the change of wishes in `SetEvent`) are mended by the rest of the call they are made in.
`GroupsRight` is stated up to the failed assertion, after which the code goes no further.
`port__update_events()` and `port__feed_events()` go through a queue: they are recursive functions here, and what they keep is
proved by the induction of `SequenceLemmas`.

`EpollInv` adds to `LifeInv` and `PortInv` what the threads hold: each completion, queued or in a thread's hands, is for a poll that is done, and no
socket has two (`HandsRight`: else the second would be fed to a state that the first one freed); `active_poll_count` is
the number of threads that wait or come back from it (`ActiveRight`); while there are such, the update queue is empty unless the driver
refused a poll (`QueueServed`); and how far the reflock and the completion handle are on the way to the end (`LockRight`,
`CloseRight`: it is only on a port whose handle `epoll_close()` has cleared that an assertion fails).
TLC checked `EpollInv` on the instance of `epoll_port` and, but for the last two parts, on a larger one with two sockets and groups of two.
That there are finitely many threads is needed for the counts: of the references and of the active polls.

TLC checked `IntactInv`, `OrderInv` and `RecvInv` too before they were proved, on the instances of `send_path` and `recv_path`.

**Lists.** The models of lists follow links, as the code does: `Follow` of `Links` is what a loop meets, node by node. The proofs turn that
round. `IsChain` says that a sequence of different nodes is what the links make, from a first node on, and `Followed` that a
walk then meets this sequence. `ChainPushes` and `ChainShrinks` are the changes of a chain that all the lists here make.

`ListInv` says that there are three sequences for the queue, the batch and what waits, each ending at its newest message (`ListsRight`);
that every message is in one of them, or in a thread's hand, partly received or lost, and nowhere else (`HeldApart`);
and that a message in nobody's list is linked to nothing (`LinkedToNothing`): `enqueue()` and the waiting list append it without
clearing its link, and one that pointed on would join two lists. That last part is nowhere in the code
but in the constructor of the message. The refinement of `MsgFifo` and `OneOwner` both follow, since a chain is unique (`ChainFound`, `ChainFoundNext`).

**The pool.** Nothing is assumed of the pool but that `malloc` has finitely many blocks to give, that no block is at
NULL, and that the block size is the start size doubled some number of times, without which `init()` does not end.
`PoolInv` is `Sound` and the types of the counters. `Sound` says of each class that its list is a sequence of exactly the live blocks with a piece left
(`ListRight`, `Linked`), linked in both directions except that nothing is said of the first block's `pre`, nor of `m_tail` when
the list is empty: the code leaves both pointing at released memory. Of each block it says that the offsets chain exactly the pieces no caller holds,
and that a piece that is held has no piece behind it (`PiecesRight`). That is what `return_node()` relies on: it leaves the offset alone when
the block was full, and only the offset `tack_node()` cleared ends the new chain there.

Each operation of the pool is proved right in two halves: what it does to one class's list, with all other lists
untouched (`Touches`), and what it does to one block's pieces, with all others alike (`Kept`); `ListsAfter` and
`PiecesAfter` put them together. `_remove_block()` has a lemma for each place a block can have in its list, because its code differs there: for
the first block it leaves `m_tail` and the next block's `pre` as they are. `MoveFrontKeeps` is the removal followed by `InsertBehind`;
it holds because the function returns early when the block is second already. `gc()` is a loop
over a list that its body takes blocks out of: the lemma goes over the sequence as it was at the start, and says that the rest of it is still the list.

TLC checked on the instance of `structures`, before the proof, what `PoolInv` adds to `PoolSound` of the pieces: that those held have no offset.

The counters are proved on top of that. `Counted` is `CountersAccounted` with the type of `past` and with the finiteness of what is
held; every operation changes the blocks in use, those unused, the sizes held and the counters together, and
wrapped sums are equal when the sums are (`WrapAdds`). `m_use_size` and `m_current_size` may be unknown for good, once a large
piece was counted outside the lock while the pool counted another. `HeldSize` is a sum over the pieces held. The prover
has no induction that takes an operator, so `SequenceLemmas` says what such a sum is with a set of the
numbers up to which it holds, as it does for sequences: a sum over a finite set exists, there is one only, it splits into any member and the rest
(`SumsExist`, `SumsUnique`, `SumAdds`), and `SumFunction` is it.

`FreeReclaims` is about the counters' width, too. `free()` looks for a block to release only when `m_free_size` is not 0, and that number
still counts what `gc()` released. With as many such blocks as the counter has values it comes round to 0 while unused blocks are
in the lists, and nothing is released. `ReclaimCorrect` therefore assumes that all calls of `gc()` together do not release that many
(`GcBounded`): `Cardinality(Blocks) * (MaxGc + 1) < Modulus`, which is 8 < 16 in the run. Under it a counter
above the limit shows that an unused block is in a list, the loop of `free()` finds it (`VictimFound`), and releasing it makes up for the one that became unused.

**The tree.** `TreeSound` speaks of the links and of walks along them. What `tree_add()` and `tree_del()` rely on is about whole
subtrees, and that is what the invariant `TreeInv` says: there are two functions, `sub[k]`, the keys in the tree below `k`,
and `bh[k]`, the black nodes on a path down from `k`, such that the tree is a search tree (`Shape`: what
is below the left child is less, parents and children agree, nodes outside have no links), every path down from a
node has its `bh` (`Even`), and no red node has a red child nor is the root red (`Valid`). Neither function is in the program: each step of the proof
says what they are afterwards. A rotation exchanges what is below two nodes (`Turned`); where the heights of the
three subtrees it moves fit, it keeps the paths even (`RotateEven`).

Between two rounds of a rebalancing one thing is out of order. In `tree_add()` the node may be red under red, or a red root,
and nothing else (`Adding`): a round ends that, or the node becomes its grandparent. In `tree_del()` the paths on one side of one
node lack a black one, `Lack` in `EvenAt`, and only the node there may be red under red (`Removing`):
a round ends that, or the lack moves up. Where a path lacks a black node its
sibling has one, so `sibling` is never NULL, nor is `sibling->cis` in the second rotation (`SiblingIs`, `FarRedIs`): the code reads and writes both unchecked. A node with two
children leaves as if its successor had left with one child (`SplicedIs`) and had then been put in its place (`RenamedIs`), which is no change
of the order, because nothing lies between the two.

A loop is a function of its rounds, and the proof has to say that there are enough of them. On the way down each round meets fewer
keys below, on the way up more, and there are finitely many: a search, the search for the successor, either rebalancing and the count in
`Blacks` are over after as many rounds as there are keys. That the functions exist at all is `LoopExists`, by the induction over
numbers of `SequenceLemmas`.

**The cipher.** `CipherInv` says that to decrypt what is under way gives what has not been read, and brings the decrypting side to
the place of the other. The states of the key stream do not depend on the bytes (`KeyStream`): `process()` mixes byte `i` with the `i`-th of
them (`ProcessedIs`), so that a stream can be cut anywhere (`KeyStreamFrom`), and mixing twice gives the byte back (`MaskedIs`). `encrypt()` goes on where
the decrypting side will be (`EncryptedIs`), `decrypt()` leaves the rest as it would have been read (`DecryptedIs`).

Only model-checked: liveness and everything that rests on fairness or ENABLED (not in the prover's reach), and `TextsRight`, whose
functions recurse over their data.

## 5. What is not modelled

- Network: `destroy()`, which runs when the threads have been joined; errors of
  setting up the listening socket, after which `startup()` returns false; `io_service` stopping by itself
  for lack of work; exceptions in handlers; `clear()` and `add_referces()` of messages, which nothing calls.
- Memory pool: `destroy()`, which leaves every block to the system; `malloc` failing for a large piece, after which the
  code unlocks a mutex it does not hold.
- Log: formatting, the switch to a new file, colours, a second `destroy()`.
- libepoll: several ports, reopened socket handles, set-up of Winsock and AFD, and what the
  driver writes to a port that was freed by force. A cancelled poll always ends.
- `cconfig`'s typed accessors, floating point and hexadecimal digits, `ctime_api`, `crandom`, `cmd5`, `cutil`,
  `cregistry`, the `<<` of `clog`, consoles and colours: accessors, calls of the system, or I/O without a state of their own.
- Stubs: the timing wheel, events, media and `main()` have empty bodies.
- Vendored code: sigar, peb, wmi, httplib and MD5. This is about two thirds of the repository's
  lines, and none of it is the program's own logic.

## 6. Plan

Every safety invariant the runs check is a theorem but `TextsRight`. Of that, base64 and the decimal digits could be proved to
be undone by their inverses. What is left besides is to model more: several ports at a time in libepoll, and `destroy()` of the network and of the pool.
