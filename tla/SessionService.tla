--------------------------- MODULE SessionService ---------------------------
(***************************************************************************)
(* What the network library promises an application through its three      *)
(* callbacks, for each session index it can be trusted on: it is told of a *)
(* connection under a new id, of messages under that id only while the     *)
(* connection stands, and of its end under the same id, before it is told  *)
(* of another connection.                                                  *)
(***************************************************************************)
EXTENDS Naturals

CONSTANTS Indexes, Ids

VARIABLES
  last,     \* what the application was told last about each index
  trusted   \* the indexes the promise is kept for

Connected(i) == last[i].type \in {"Connect", "Data"}

Tell(i, type, id) ==
  /\ last' = [last EXCEPT ![i] = [type |-> type, id |-> id]]
  /\ UNCHANGED trusted

Init ==
  /\ last = [i \in Indexes |-> [type |-> "Disconnect", id |-> 0]]
  /\ trusted = Indexes

Connect(i) ==
  /\ ~Connected(i)
  /\ \E id \in Ids \ {last[i].id} : Tell(i, "Connect", id)

Message(i) == Connected(i) /\ Tell(i, "Data", last[i].id)

Disconnect(i) == Connected(i) /\ Tell(i, "Disconnect", last[i].id)

\* The promise is given up for some indexes, ...
Distrust == trusted' \in SUBSET trusted /\ UNCHANGED last

\* ... about which the application may be told anything.
Anything(i) ==
  \E type \in {"Connect", "Data", "Disconnect"}, id \in Ids \cup {0} : Tell(i, type, id)

Next ==
  \/ \E i \in trusted : Connect(i) \/ Message(i) \/ Disconnect(i)
  \/ Distrust
  \/ \E i \in Indexes \ trusted : Anything(i)

Spec == Init /\ [][Next]_<<last, trusted>>
=============================================================================
