------------------------------ MODULE AsyncLog ------------------------------
(***************************************************************************)
(* The asynchronous log (clib/casync_log.cpp): producers append items to a *)
(* list under a mutex and notify a condition variable, one worker thread   *)
(* waits on it and writes the items, and destroy() stops the worker.       *)
(*                                                                         *)
(* The mutex is held between two actions only by a worker that is about to *)
(* sleep, and by an append that never gave it back.  The worker reads      *)
(* m_stoped and m_log_item.empty() without it.                             *)
(***************************************************************************)
EXTENDS Integers, Sequences, SequencesExt

CONSTANTS
  Producers,   \* threads that log
  MaxItems     \* bound: items that are appended

ASSUME LogAssumption == MaxItems \in Nat

VARIABLES
  mutex,       \* who holds m_lock: "none", "worker", or "lost" for ever
  items,       \* m_log_item, numbered in the order of their appending
  stoped,      \* m_stoped
  worker,      \* where the worker is in _work_pthread()
  hand,        \* the item it has taken
  producer,    \* where a producer is in append_fix() or append_var()
  destroyer,   \* where destroy() is
  buffer,      \* is m_log_buf there?
  written,     \* the items written
  appended,    \* history: how many items were appended
  atStop,      \* history: how many of them when m_stoped was set
  late,        \* history: was an item appended after the worker ended?
  missed       \* history: did destroy() notify a worker about to sleep?

vars == <<mutex, items, stoped, worker, hand, producer, destroyer, buffer, written,
          appended, atStop, late, missed>>
history == <<atStop, late, missed>>
workers == <<worker, hand, written>>
stops == <<stoped, destroyer, buffer>>

Init ==
  /\ mutex = "none"
  /\ items = <<>>
  /\ stoped = FALSE
  /\ worker = "outer"
  /\ hand = <<>>
  /\ producer = [p \in Producers |-> "idle"]
  /\ destroyer = "idle"
  /\ buffer = TRUE
  /\ written = <<>>
  /\ appended = 0
  /\ atStop = 0
  /\ late = FALSE
  /\ missed = FALSE

Notified == IF worker = "asleep" THEN "wait" ELSE worker

-----------------------------------------------------------------------------
(* Producers.  The level is below that of the log.                         *)
Call(p) ==
  /\ producer[p] = "idle"
  /\ ~stoped
  /\ appended < MaxItems
  /\ producer' = [producer EXCEPT ![p] = "append"]
  /\ UNCHANGED <<mutex, items, stops, workers, appended, history>>

\* The whole of the time in which the mutex is held
PushItem(p) ==
  /\ producer[p] = "append"
  /\ mutex = "none"
  /\ items' = Append(items, appended + 1)
  /\ appended' = appended + 1
  /\ late' = (late \/ worker = "exit")
  /\ producer' = [producer EXCEPT ![p] = "notify"]
  /\ UNCHANGED <<mutex, stops, workers, atStop, missed>>

\* No memory for the item: append_var() gives the mutex back if new returns
\* NULL; append_fix(), and both if new throws, keep it.
AppendFails(p) ==
  /\ producer[p] = "append"
  /\ mutex = "none"
  /\ mutex' \in {"none", "lost"}
  /\ producer' = [producer EXCEPT ![p] = "idle"]
  /\ UNCHANGED <<items, stops, workers, appended, history>>

\* append_var() writes to m_log_buf, which destroy() may have freed since
\* m_stoped was read: undefined, and if the item is not appended all the same,
\* the process ends.
UseFreedBuffer(p) ==
  /\ producer[p] = "append"
  /\ mutex = "none"
  /\ ~buffer
  /\ producer' = [q \in Producers |-> "ended"]
  /\ UNCHANGED <<mutex, items, stops, workers, appended, history>>

\* mistake: it notifies only when the list was empty, as it finds it now
NotifyFirst(p) ==
  /\ producer[p] = "notify"
  /\ producer' = [producer EXCEPT ![p] = "idle"]
  /\ worker' = IF Len(items) = 1 THEN Notified ELSE worker
  /\ UNCHANGED <<mutex, items, stops, hand, written, appended, history>>

Notify(p) ==
  /\ producer[p] = "notify"
  /\ producer' = [producer EXCEPT ![p] = "idle"]
  /\ worker' = Notified
  /\ UNCHANGED <<mutex, items, stops, hand, written, appended, history>>

-----------------------------------------------------------------------------
(* The worker                                                              *)
Go(l) ==
  /\ worker' = l
  /\ UNCHANGED <<items, producer, stops, hand, written, appended, history>>

\* mistake: it ends although items are left
GoesOnUntilStopped == ~stoped

GoesOn == ~stoped \/ items # <<>>

Outer == worker = "outer" /\ Go(IF GoesOn THEN "wait" ELSE "exit") /\ UNCHANGED mutex

\* mistake: the worker waits for items only
AwakeForItems == items # <<>>

Awake == items # <<>> \/ stoped

\* The predicate is false; before it sleeps the worker still holds the mutex.
CheckFails == worker = "wait" /\ mutex = "none" /\ ~Awake /\ mutex' = "worker" /\ Go("falling")
FallAsleep == worker = "falling" /\ mutex' = "none" /\ Go("asleep")
WakeUp == worker = "asleep" /\ Go("wait") /\ UNCHANGED mutex   \* by nobody

Check == worker = "wait" /\ mutex = "none" /\ Awake /\ Go("inner") /\ UNCHANGED mutex

Inner == worker = "inner" /\ Go(IF items = <<>> THEN "outer" ELSE "pop") /\ UNCHANGED mutex

\* mistake: the newest item first
TakenLast(s) == <<Last(s), Front(s)>>

Taken(s) == <<Head(s), Tail(s)>>

Pop ==
  /\ worker = "pop"
  /\ mutex = "none"
  /\ hand' = <<Taken(items)[1]>>
  /\ items' = Taken(items)[2]
  /\ worker' = "write"
  /\ UNCHANGED <<mutex, producer, stops, written, appended, history>>

Write ==
  /\ worker = "write"
  /\ written' = written \o hand
  /\ hand' = <<>>
  /\ worker' = "inner"
  /\ UNCHANGED <<mutex, items, producer, stops, appended, history>>

-----------------------------------------------------------------------------
(* destroy()                                                               *)
Stop ==
  /\ destroyer = "idle"
  /\ stoped' = TRUE
  /\ atStop' = appended
  /\ destroyer' = "notify"
  /\ UNCHANGED <<mutex, items, workers, producer, buffer, appended, late, missed>>

NotifyAll ==
  /\ destroyer = "notify"
  /\ worker' = Notified
  /\ missed' = (worker = "falling")
  /\ destroyer' = "join"
  /\ UNCHANGED <<mutex, items, hand, written, producer, stoped, buffer, appended, atStop, late>>

Joined == worker = "exit"

Finish ==
  /\ destroyer = "join"
  /\ Joined
  /\ buffer' = FALSE
  /\ destroyer' = "done"
  /\ UNCHANGED <<mutex, items, workers, producer, stoped, appended, history>>

-----------------------------------------------------------------------------
Worker == Outer \/ CheckFails \/ FallAsleep \/ Check \/ Inner \/ Pop \/ Write
Producer(p) == PushItem(p) \/ AppendFails(p) \/ UseFreedBuffer(p) \/ Notify(p)

Next ==
  \/ \E p \in Producers : Call(p) \/ Producer(p)
  \/ Worker \/ WakeUp
  \/ Stop \/ NotifyAll \/ Finish

Spec == Init /\ [][Next]_vars

\* Threads that can go on do, and destroy() comes to its end once called.
FairSpec ==
  /\ Spec
  /\ WF_vars(Worker)
  /\ \A p \in Producers : WF_vars(Producer(p))
  /\ WF_vars(NotifyAll \/ Finish)

-----------------------------------------------------------------------------
\* The variables have the types of the code's fields; the worker holds an item
\* only while it writes it, m_log_buf lasts until destroy() returns.
TypeOK ==
  /\ mutex \in {"none", "worker", "lost"}
  /\ mutex = "worker" <=> worker = "falling"
  /\ items \in Seq(Nat) /\ hand \in Seq(Nat) /\ written \in Seq(Nat)
  /\ appended \in Nat /\ atStop \in Nat
  /\ worker \in {"outer", "wait", "falling", "asleep", "inner", "pop", "write", "exit"}
  /\ hand = <<>> <=> worker # "write"
  /\ producer \in [Producers -> {"idle", "append", "notify", "ended"}]
  /\ destroyer \in {"idle", "notify", "join", "done"}
  /\ buffer <=> destroyer # "done"

\* No item is lost, written twice or out of order between the list, the
\* worker's hands and the file, with the list's emptiness read unlocked.
InOrder == TypeOK /\ (written \o hand) \o items = [i \in 1..appended |-> i]

\* When the worker has ended or destroy() has returned, all that was appended
\* before destroy() was called is written; what is left was appended after the
\* worker's last look.
WrittenAtStop ==
  worker = "exit" \/ destroyer = "done" =>
    atStop <= Len(written) /\ (items # <<>> => late)

\* What was appended is written, unless an append without memory keeps the
\* mutex, or the item came after the worker's end.
AllWritten == \A n \in 1..MaxItems :
  (appended >= n) ~> (Len(written) >= n \/ mutex = "lost" \/ late)

\* destroy() returns, unless its notification falls between the worker's look
\* at the condition and its sleep, or an append keeps the mutex.
DestroyReturns == (destroyer = "notify") ~> (destroyer = "done" \/ missed \/ mutex = "lost")
=============================================================================
