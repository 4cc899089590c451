------------------------------ MODULE MCNetMgr ------------------------------
(***************************************************************************)
(* The network manager for TLC.  The io threads are all alike; runs of     *)
(* safety properties that name none of them use it.                        *)
(***************************************************************************)
EXTENDS NetMgrWatched, TLC

Symmetry == Permutations(IoThreads)
=============================================================================
