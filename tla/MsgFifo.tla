-------------------------------- MODULE MsgFifo --------------------------------
(***************************************************************************)
(* What the lists of messages promise: three sequences.  Messages are      *)
(* pushed to the queue of the application, which takes all of them as one  *)
(* batch and handles them one by one, and messages a session could not     *)
(* send yet wait in their order until they are sent or dropped together.   *)
(***************************************************************************)
EXTENDS Sequences

CONSTANT Msgs

VARIABLES queue, batch, waiting

FifoInit == queue = <<>> /\ batch = <<>> /\ waiting = <<>>

FifoPush == \E m \in Msgs : queue' = Append(queue, m) /\ UNCHANGED <<batch, waiting>>
FifoTake ==
    /\ batch = <<>>
    /\ batch' = queue /\ queue' = <<>>
    /\ UNCHANGED waiting
FifoHandled == batch # <<>> /\ batch' = Tail(batch) /\ UNCHANGED <<queue, waiting>>
FifoWait == \E m \in Msgs : waiting' = Append(waiting, m) /\ UNCHANGED <<queue, batch>>
FifoSent == waiting # <<>> /\ waiting' = Tail(waiting) /\ UNCHANGED <<queue, batch>>
FifoDrop == waiting' = <<>> /\ UNCHANGED <<queue, batch>>

FifoNext == FifoPush \/ FifoTake \/ FifoHandled \/ FifoWait \/ FifoSent \/ FifoDrop
FifoSpec == FifoInit /\ [][FifoNext]_<<queue, batch, waiting>>
=============================================================================
