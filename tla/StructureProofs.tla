-------------------------- MODULE StructureProofs --------------------------
(***************************************************************************)
(* Proofs about two linked structures: the lists of messages (MsgList) and *)
(* the red-black tree of libepoll (RbTree).                                *)
(*                                                                         *)
(* The lists, for any number of pieces of memory and threads: no piece is  *)
(* in two places, and the linked lists are the sequences of MsgFifo.  The  *)
(* inductive invariant says what the links are: each list is a chain that  *)
(* ends, at its newest message, and a message in nobody's list yet is      *)
(* linked to nothing.                                                      *)
(*                                                                         *)
(* The tree, for any finite set of keys: tree_find() finds the keys that   *)
(* were added and not deleted, the links up and down agree, and the tree   *)
(* stays balanced.  The links say who is whose child; what the code relies *)
(* on is about whole subtrees.  The invariant therefore speaks of two      *)
(* functions that are not in the program and that every step chooses anew: *)
(* sub[k], the keys in the tree below k, and bh[k], the black nodes on     *)
(* each path from k down to a missing child.  A rotation changes both at   *)
(* two nodes; between two rounds of a rebalancing one thing is out of      *)
(* order: the new node may be red under red (Adding), or the paths through *)
(* one child lack a black node (Removing).  A loop of the code is a        *)
(* function of its rounds, and it ends within Rounds because each round is *)
(* about a smaller subtree, on a way down, or a larger one, on a way up.   *)
(***************************************************************************)
EXTENDS MsgList, RbTree, SequenceLemmas, TLAPS

USE MsgsAssumption

Pieces == Msgs \union {NoMsg}

ListOf(list, c) ==
    /\ list = [old |-> list.old, new |-> list.new]
    /\ IsChain(Msgs, NoMsg, next, list.old, c)
    /\ list.new = LastOf(NoMsg, c)

MsgTypeOK ==
    /\ made \subseteq Msgs /\ lost \subseteq Msgs
    /\ next \in [Msgs -> Pieces]
    /\ hand \in [IoThreads -> Pieces]
    /\ recv \in Pieces

Holds(p) == {p} \ {NoMsg}
InHands == {hand[t] : t \in IoThreads} \ {NoMsg}

\* A message that is in no list yet is linked to nothing.
LinkedToNothing ==
    /\ \A t \in IoThreads : hand[t] # NoMsg => next[hand[t]] = NoMsg
    /\ recv # NoMsg => next[recv] = NoMsg

\* q, b and w are the lists: of the queue, the batch and what waits.
ListsRight(q, b, w) == ListOf(queued, q) /\ IsChain(Msgs, NoMsg, next, at, b) /\ ListOf(wait, w)

\* Who holds a message holds it alone.
HeldApart(q, b, w) ==
    /\ \A t, u \in IoThreads : hand[t] = hand[u] /\ hand[t] # NoMsg => t = u
    /\ InHands \intersect (In(q) \union In(b) \union In(w) \union Holds(recv) \union lost) = {}
    /\ In(q) \intersect (In(b) \union In(w) \union Holds(recv) \union lost) = {}
    /\ In(b) \intersect (In(w) \union Holds(recv) \union lost) = {}
    /\ In(w) \intersect (Holds(recv) \union lost) = {}
    /\ recv \notin lost
    /\ made = InHands \union In(q) \union In(b) \union In(w) \union Holds(recv) \union lost

InvOf(q, b, w) == MsgTypeOK /\ LinkedToNothing /\ ListsRight(q, b, w) /\ HeldApart(q, b, w)

ListInv == InvOf(Chain(queued.old), Chain(at), Chain(wait.old))

LEMMA ListGrows ==
  ASSUME NEW links \in [Msgs -> Pieces], NEW list, NEW c, IsChain(Msgs, NoMsg, links, list.old, c),
         list.new = LastOf(NoMsg, c), NEW m \in Msgs, m \notin In(c), links[m] = NoMsg
  PROVE  /\ IsChain(Msgs, NoMsg, Linked(list, m, links), With(list, m).old, Append(c, m))
         /\ With(list, m).new = LastOf(NoMsg, Append(c, m))
         /\ In(Append(c, m)) = In(c) \union {m}
<1> DEFINE d == Append(c, m)
           changed == Linked(list, m, links)
<1>1. /\ c \in Seq(Msgs) /\ Len(c) \in Nat
      /\ d \in Seq(Msgs) /\ Len(d) = Len(c) + 1 /\ d # <<>> /\ d[Len(c) + 1] = m
      /\ \A i \in 1..Len(c) : d[i] = c[i] /\ c[i] # m /\ c[i] \in Msgs
  <2>1. c \in Seq(Msgs) /\ \A i \in 1..Len(c) : c[i] # m
    BY DEF IsChain, In
  <2>2. /\ d \in Seq(Msgs) /\ d # <<>> /\ Len(d) = Len(c) + 1 /\ d[Len(c) + 1] = m
        /\ \A i \in 1..Len(c) : d[i] = c[i]
    BY <2>1, AppendProperties
  <2>3. Len(c) \in Nat /\ \A i \in 1..Len(c) : c[i] \in Msgs
    BY <2>1
  <2> QED
    BY <2>1, <2>2, <2>3
<1> HIDE DEF d
<1>2. In(d) = In(c) \union {m}
  <2>1. 1..(Len(c) + 1) = (1..Len(c)) \union {Len(c) + 1}
    BY <1>1
  <2> QED
    BY <1>1, <2>1 DEF In
<1>3. ASSUME NEW i \in 1..Len(d), NEW j \in 1..Len(d), d[i] = d[j] PROVE i = j
  <2>1. i \in 1..Len(c) \/ i = Len(c) + 1
    BY <1>1
  <2>2. j \in 1..Len(c) \/ j = Len(c) + 1
    BY <1>1
  <2>3. CASE i \in 1..Len(c) /\ j \in 1..Len(c)
    BY <1>1, <1>3, <2>3 DEF IsChain
  <2> QED
    BY <1>1, <1>3, <2>1, <2>2, <2>3
<1>4. CASE c = <<>>
  <2>1. list.new = NoMsg /\ Len(d) = 1 /\ d[1] = m /\ changed = links
    BY <1>1, <1>4 DEF LastOf, Linked
  <2> QED
    BY <1>1, <1>2, <1>3, <2>1 DEF IsChain, With, LastOf, d
<1>5. CASE c # <<>>
  <2>1. /\ Len(c) \in 1..Len(c) /\ 1 \in 1..Len(c)
        /\ list.new = c[Len(c)] /\ list.new # NoMsg /\ list.old = c[1]
    BY <1>1, <1>5 DEF LastOf, IsChain
  <2>2. changed = [links EXCEPT ![c[Len(c)]] = m]
    BY <2>1 DEF Linked
  <2>3. ASSUME NEW i \in 1..Len(d)
        PROVE  changed[d[i]] = IF i < Len(d) THEN d[i + 1] ELSE NoMsg
    <3>1. CASE i = Len(c) + 1
      BY <1>1, <2>1, <2>2, <3>1
    <3>2. CASE i = Len(c)
      BY <1>1, <2>1, <2>2, <3>2
    <3>3. CASE i \in 1..Len(c) /\ i # Len(c)
      <4>1. c[i] # c[Len(c)]
        BY <1>1, <2>1, <3>3 DEF IsChain
      <4>2. i + 1 \in 1..Len(c) /\ i < Len(c) /\ i < Len(d)
        BY <1>1, <3>3
      <4>3. links[c[i]] = c[i + 1]
        BY <3>3, <4>2 DEF IsChain
      <4> QED
        BY <1>1, <2>2, <3>3, <4>1, <4>2, <4>3
    <3> QED
      BY <1>1, <3>1, <3>2, <3>3
  <2>4. With(list, m).old = d[1] /\ With(list, m).new = m
    BY <1>1, <2>1 DEF With
  <2> QED
    BY <1>1, <1>2, <1>3, <2>3, <2>4 DEF IsChain, LastOf, d
<1> QED
  BY <1>4, <1>5

LEMMA ChainFound ==
  ASSUME NEW p, NEW c, IsChain(Msgs, NoMsg, next, p, c)
  PROVE  Chain(p) = c
<1> DEFINE n == Cardinality(Msgs)
           met == Follow(next, NoMsg, p, n)
<1>1. /\ c \in Seq(Msgs) /\ Len(c) \in Nat /\ n \in Nat /\ Len(c) <= n
      /\ \A i \in 1..Len(c) : c[i] \in Msgs
  <2>1. c \in Seq(Msgs) /\ \A i, j \in 1..Len(c) : c[i] = c[j] => i = j
    BY DEF IsChain
  <2> QED
    BY <2>1, ChainLength
<1>2. met = [i \in 1..n |-> IF i <= Len(c) THEN c[i] ELSE NoMsg]
  <2> HIDE DEF n
  <2> QED
    BY <1>1, Followed
<1>3. Chain(p) = [i \in {j \in 1..n : met[j] # NoMsg} |-> met[i]]
  BY DEF Chain
<1> HIDE DEF n, met
<1>4. {j \in 1..n : met[j] # NoMsg} = 1..Len(c)
  BY <1>1, <1>2
<1>5. Chain(p) = [i \in 1..Len(c) |-> met[i]]
  BY <1>3, <1>4
<1>6. Chain(p) = [i \in 1..Len(c) |-> c[i]]
  BY <1>1, <1>2, <1>5
<1> QED
  BY <1>1, <1>6

LEMMA ChainFoundNext ==
  ASSUME NEW p, NEW c, IsChain(Msgs, NoMsg, next', p, c)
  PROVE  Chain(p)' = c
<1> DEFINE n == Cardinality(Msgs)
           met == Follow(next', NoMsg, p, n)
<1>1. /\ c \in Seq(Msgs) /\ Len(c) \in Nat /\ n \in Nat /\ Len(c) <= n
      /\ \A i \in 1..Len(c) : c[i] \in Msgs
  <2>1. c \in Seq(Msgs) /\ \A i, j \in 1..Len(c) : c[i] = c[j] => i = j
    BY DEF IsChain
  <2> QED
    BY <2>1, ChainLength
<1>2. met = [i \in 1..n |-> IF i <= Len(c) THEN c[i] ELSE NoMsg]
  <2> HIDE DEF n
  <2> QED
    BY <1>1, Followed
<1>3. Chain(p)' = [i \in {j \in 1..n : met[j] # NoMsg} |-> met[i]]
  BY DEF Chain
<1> HIDE DEF n, met
<1>4. {j \in 1..n : met[j] # NoMsg} = 1..Len(c)
  BY <1>1, <1>2
<1>5. Chain(p)' = [i \in 1..Len(c) |-> met[i]]
  BY <1>3, <1>4
<1>6. Chain(p)' = [i \in 1..Len(c) |-> c[i]]
  BY <1>1, <1>2, <1>5
<1> QED
  BY <1>1, <1>6

-----------------------------------------------------------------------------
\* The invariant names the lists; they are what Chain() finds.

LEMMA Found ==
  ASSUME NEW q, NEW b, NEW w, InvOf(q, b, w)
  PROVE  ListInv /\ Chain(queued.old) = q /\ Chain(at) = b /\ Chain(wait.old) = w
<1>1. Chain(queued.old) = q /\ Chain(at) = b /\ Chain(wait.old) = w
  BY ChainFound DEF InvOf, ListsRight, ListOf
<1> QED
  BY <1>1 DEF ListInv

LEMMA FoundNext ==
  ASSUME NEW q, NEW b, NEW w, InvOf(q, b, w)'
  PROVE  ListInv' /\ Chain(queued.old)' = q /\ Chain(at)' = b /\ Chain(wait.old)' = w
<1>1. Chain(queued.old)' = q /\ Chain(at)' = b /\ Chain(wait.old)' = w
  BY ChainFoundNext DEF InvOf, ListsRight, ListOf
<1> QED
  BY <1>1 DEF ListInv

LEMMA InitList == MsgInit => InvOf(<<>>, <<>>, <<>>)
<1> SUFFICES ASSUME MsgInit PROVE InvOf(<<>>, <<>>, <<>>)
  OBVIOUS
<1> USE DEF MsgInit, NoList
<1>1. In(<<>>) = {} /\ InHands = {} /\ Holds(recv) = {}
  BY DEF In, InHands, Holds
<1>2. MsgTypeOK /\ LinkedToNothing
  BY DEF MsgTypeOK, LinkedToNothing, Pieces
<1>3. ListsRight(<<>>, <<>>, <<>>)
  BY NoChain DEF ListsRight, ListOf, LastOf
<1>4. HeldApart(<<>>, <<>>, <<>>)
  BY <1>1 DEF HeldApart
<1> QED
  BY <1>2, <1>3, <1>4 DEF InvOf

\* What every step needs of a list.
LEMMA ListFacts ==
  ASSUME NEW list, NEW c, ListOf(list, c)
  PROVE  /\ IsChain(Msgs, NoMsg, next, list.old, c) /\ list.new = LastOf(NoMsg, c)
         /\ In(c) \subseteq Msgs
         /\ list.old = NoMsg <=> c = <<>>
         /\ list.new = NoMsg <=> c = <<>>
         /\ c # <<>> => list.old \in In(c) /\ list.new \in In(c) /\ next[list.new] = NoMsg
BY ChainEnds DEF ListOf

\* A link that changes outside of a list leaves it alone.
LEMMA ListKept ==
  ASSUME NEW list, NEW c, ListOf(list, c), \A m \in In(c) : next'[m] = next[m]
  PROVE  list = [old |-> list.old, new |-> list.new] /\ IsChain(Msgs, NoMsg, next', list.old, c)
         /\ list.new = LastOf(NoMsg, c)
BY ChainKept DEF ListOf

LEMMA KeptOutside ==
  ASSUME NEW q, NEW b, NEW w, ListsRight(q, b, w), UNCHANGED <<queued, at, wait>>,
         \A m \in In(q) \union In(b) \union In(w) : next'[m] = next[m]
  PROVE  ListsRight(q, b, w)'
<1>1. /\ IsChain(Msgs, NoMsg, next', queued.old, q) /\ IsChain(Msgs, NoMsg, next', at, b) /\ IsChain(Msgs, NoMsg, next', wait.old, w)
  BY ChainKept DEF ListsRight, ListOf
<1> QED
  BY <1>1 DEF ListsRight, ListOf

LEMMA CreateKeeps ==
  ASSUME NEW q, NEW b, NEW w, InvOf(q, b, w),
         NEW t \in IoThreads, NEW m \in Msgs, Create(t, m)
  PROVE  InvOf(q, b, w)'
<1> USE DEF InvOf, Create, Make, NewLink, Pieces
<1>1. m \notin made /\ m # NoMsg /\ next' = [next EXCEPT ![m] = NoMsg]
  OBVIOUS
<1>2. In(q) \union In(b) \union In(w) \union Holds(recv) \union InHands \subseteq made
  BY DEF HeldApart
<1>3. MsgTypeOK'
  BY DEF MsgTypeOK
<1>4. \A u \in IoThreads : hand'[u] = IF u = t THEN m ELSE hand[u]
  BY DEF MsgTypeOK
<1>5. \A p \in Msgs : next'[p] = IF p = m THEN NoMsg ELSE next[p]
  BY DEF MsgTypeOK
<1>6. LinkedToNothing'
  BY <1>1, <1>2, <1>4, <1>5 DEF LinkedToNothing, MsgTypeOK, Holds, InHands
<1>7. ListsRight(q, b, w)'
  <2>1. \A p \in In(q) \union In(b) \union In(w) : p \in Msgs /\ p # m
    BY <1>1, <1>2 DEF MsgTypeOK
  <2>2. \A p \in In(q) \union In(b) \union In(w) : next'[p] = next[p]
    BY <1>5, <2>1
  <2> QED
    BY <2>2, KeptOutside
<1>8. InHands' = InHands \union {m}
  BY <1>1, <1>4 DEF InHands
<1>9. HeldApart(q, b, w)'
  <2>1. \A u, v \in IoThreads : hand'[u] = hand'[v] /\ hand'[u] # NoMsg => u = v
    BY <1>1, <1>2, <1>4 DEF HeldApart, InHands
  <2> QED
    BY <1>1, <1>2, <1>8, <2>1 DEF HeldApart, Holds
<1> QED
  BY <1>3, <1>6, <1>7, <1>9

LEMMA StartRecvKeeps ==
  ASSUME NEW q, NEW b, NEW w, InvOf(q, b, w), NEW m \in Msgs, StartRecv(m)
  PROVE  InvOf(q, b, w)'
<1> USE DEF InvOf, StartRecv, Make, NewLink, Pieces
<1>1. m \notin made /\ m # NoMsg /\ next' = [next EXCEPT ![m] = NoMsg]
  OBVIOUS
<1>2. In(q) \union In(b) \union In(w) \union Holds(recv) \union InHands \subseteq made
  BY DEF HeldApart
<1>3. MsgTypeOK'
  BY DEF MsgTypeOK
<1>5. \A p \in Msgs : next'[p] = IF p = m THEN NoMsg ELSE next[p]
  BY DEF MsgTypeOK
<1>6. LinkedToNothing'
  BY <1>1, <1>2, <1>5 DEF LinkedToNothing, MsgTypeOK, Holds, InHands
<1>7. ListsRight(q, b, w)'
  <2>1. \A p \in In(q) \union In(b) \union In(w) : p \in Msgs /\ p # m
    BY <1>1, <1>2 DEF MsgTypeOK
  <2>2. \A p \in In(q) \union In(b) \union In(w) : next'[p] = next[p]
    BY <1>5, <2>1
  <2> QED
    BY <2>2, KeptOutside
<1>8. InHands' = InHands /\ Holds(recv)' = {m} /\ Holds(recv) = {}
  BY <1>1 DEF InHands, Holds
<1>9. HeldApart(q, b, w)'
  <2>1. recv' = m /\ recv = NoMsg
    OBVIOUS
  <2> QED
    BY <1>1, <1>2, <1>8, <2>1 DEF HeldApart
<1> QED
  BY <1>3, <1>6, <1>7, <1>9

LEMMA WaitKeeps ==
  ASSUME NEW q, NEW b, NEW w, InvOf(q, b, w), NEW m \in Msgs, Wait(m)
  PROVE  InvOf(q, b, Append(w, m))'
<1> USE DEF InvOf, Wait, NewLink, Pieces
<1> DEFINE links == [next EXCEPT ![m] = NoMsg]
<1>1. m \notin made /\ m # NoMsg /\ next' = Linked(wait, m, links)
  OBVIOUS
<1>2. In(q) \union In(b) \union In(w) \union Holds(recv) \union InHands \subseteq made
  BY DEF HeldApart
<1>3. links \in [Msgs -> Pieces] /\ \A p \in Msgs : links[p] = IF p = m THEN NoMsg ELSE next[p]
  BY DEF MsgTypeOK
<1> HIDE DEF links
<1>4. IsChain(Msgs, NoMsg, links, wait.old, w) /\ wait.new = LastOf(NoMsg, w) /\ In(w) \subseteq Msgs
  BY <1>1, <1>2, <1>3, ChainKept, ListFacts DEF ListsRight
<1>5. /\ IsChain(Msgs, NoMsg, next', wait'.old, Append(w, m))
      /\ wait'.new = LastOf(NoMsg, Append(w, m))
      /\ In(Append(w, m)) = In(w) \union {m}
  BY <1>1, <1>2, <1>3, <1>4, ListGrows
<1>6. \A p \in Msgs \ (In(w) \union {m}) : next'[p] = next[p]
  <2>1. wait.new # NoMsg => wait.new \in In(w)
    BY ListFacts DEF ListsRight
  <2> QED
    BY <1>1, <1>3, <2>1 DEF Linked
<1>7. MsgTypeOK'
  <2>1. next' \in [Msgs -> Pieces]
    BY <1>1, <1>3 DEF Linked
  <2> QED
    BY <2>1 DEF MsgTypeOK
<1>8. LinkedToNothing'
  <2>1. \A p \in Holds(recv) \union InHands : p \in Msgs /\ p \notin In(w) \union {m}
    BY <1>1, <1>2 DEF HeldApart, Holds, InHands, MsgTypeOK
  <2>2. \A p \in Holds(recv) \union InHands : next'[p] = next[p]
    BY <1>6, <2>1
  <2> QED
    BY <2>2 DEF LinkedToNothing, Holds, InHands
<1>9. ListsRight(q, b, Append(w, m))'
  <2>1. In(q) \subseteq Msgs /\ In(b) \subseteq Msgs
    BY ChainEnds DEF ListsRight, ListOf
  <2>2. \A p \in In(q) \union In(b) : next'[p] = next[p]
    <3> \A p \in In(q) \union In(b) : p \in Msgs /\ p # m /\ p \notin In(w)
      BY <1>1, <1>2, <2>1 DEF HeldApart
    <3> QED
      BY <1>6
  <2>3. wait' = [old |-> wait'.old, new |-> wait'.new]
    BY DEF With
  <2> QED
    BY <1>5, <2>2, <2>3, ChainKept DEF ListsRight, ListOf
<1>10. HeldApart(q, b, Append(w, m))'
  <2>1. InHands' = InHands /\ Holds(recv)' = Holds(recv)
    BY DEF InHands, Holds
  <2> QED
    BY <1>1, <1>2, <1>5, <2>1 DEF HeldApart, Holds
<1> QED
  BY <1>7, <1>8, <1>9, <1>10

\* A message that is linked to nothing is put into the queue.
LEMMA QueueGrows ==
  ASSUME NEW q, NEW b, NEW w, InvOf(q, b, w), NEW m \in Msgs,
         m \notin In(q) \union In(b) \union In(w), next[m] = NoMsg,
         queued' = With(queued, m), next' = Linked(queued, m, next), UNCHANGED <<at, wait>>
  PROVE  /\ ListsRight(Append(q, m), b, w)'
         /\ In(Append(q, m)) = In(q) \union {m}
         /\ next' \in [Msgs -> Pieces]
         /\ \A p \in Msgs \ In(q) : next'[p] = next[p]
<1> USE DEF InvOf
<1>1. next \in [Msgs -> Pieces]
  BY DEF MsgTypeOK
<1>2. /\ IsChain(Msgs, NoMsg, next, queued.old, q) /\ queued.new = LastOf(NoMsg, q) /\ In(q) \subseteq Msgs
      /\ queued.new # NoMsg => queued.new \in In(q)
  BY ListFacts DEF ListsRight
<1>3. /\ IsChain(Msgs, NoMsg, next', queued'.old, Append(q, m))
      /\ queued'.new = LastOf(NoMsg, Append(q, m))
      /\ In(Append(q, m)) = In(q) \union {m}
  BY <1>1, <1>2, ListGrows
<1>4. next' \in [Msgs -> Pieces]
  BY <1>1 DEF Linked, Pieces
<1>5. \A p \in Msgs \ In(q) : next'[p] = next[p]
  BY <1>1, <1>2 DEF Linked
<1>6. \A p \in In(b) \union In(w) : next'[p] = next[p]
  <2>1. In(b) \subseteq Msgs /\ In(w) \subseteq Msgs
    BY ChainEnds DEF ListsRight, ListOf
  <2>2. \A p \in In(b) \union In(w) : p \in Msgs \ In(q)
    BY <2>1 DEF HeldApart
  <2> QED
    BY <1>5, <2>2
<1>7. ListsRight(Append(q, m), b, w)'
  <2>1. IsChain(Msgs, NoMsg, next', at, b) /\ IsChain(Msgs, NoMsg, next', wait.old, w)
    BY <1>6, ChainKept DEF ListsRight, ListOf
  <2>2. queued' = [old |-> queued'.old, new |-> queued'.new]
    BY DEF With
  <2> QED
    BY <1>3, <2>1, <2>2 DEF ListsRight, ListOf
<1> QED
  BY <1>3, <1>4, <1>5, <1>7

LEMMA EnqueueKeeps ==
  ASSUME NEW q, NEW b, NEW w, InvOf(q, b, w),
         NEW t \in IoThreads, Enqueue(t), NEW m, m = hand[t]
  PROVE  m \in Msgs /\ InvOf(Append(q, m), b, w)'
<1> USE DEF InvOf, Enqueue, Pieces
<1>1. /\ m \in Msgs /\ m # NoMsg /\ m \in InHands /\ next[m] = NoMsg
      /\ m \notin In(q) \union In(b) \union In(w)
  BY DEF MsgTypeOK, InHands, LinkedToNothing, HeldApart
<1>2. /\ ListsRight(Append(q, m), b, w)'
      /\ In(Append(q, m)) = In(q) \union {m}
      /\ next' \in [Msgs -> Pieces]
      /\ \A p \in Msgs \ In(q) : next'[p] = next[p]
  BY <1>1, QueueGrows
<1>3. \A u \in IoThreads : hand'[u] = IF u = t THEN NoMsg ELSE hand[u]
  BY DEF MsgTypeOK
<1>4. InHands' = InHands \ {m}
  BY <1>1, <1>3 DEF InHands, HeldApart
<1>5. MsgTypeOK'
  BY <1>2 DEF MsgTypeOK
<1>6. LinkedToNothing'
  <2>1. \A p \in Holds(recv) \union InHands : p \in Msgs \ In(q)
    BY DEF HeldApart, MsgTypeOK, Holds, InHands
  <2> QED
    BY <1>2, <1>3, <2>1 DEF LinkedToNothing, Holds, InHands
<1>7. HeldApart(Append(q, m), b, w)'
  <2>1. \A u, v \in IoThreads : hand'[u] = hand'[v] /\ hand'[u] # NoMsg => u = v
    BY <1>3 DEF HeldApart
  <2> QED
    BY <1>1, <1>2, <1>4, <2>1 DEF HeldApart, Holds
<1> QED
  BY <1>1, <1>2, <1>5, <1>6, <1>7

LEMMA PushRecvKeeps ==
  ASSUME NEW q, NEW b, NEW w, InvOf(q, b, w), PushRecv, NEW m, m = recv
  PROVE  m \in Msgs /\ InvOf(Append(q, m), b, w)'
<1> USE DEF InvOf, PushRecv, Pieces
<1>1. /\ m \in Msgs /\ m # NoMsg /\ Holds(recv) = {m} /\ next[m] = NoMsg
      /\ m \notin In(q) \union In(b) \union In(w)
  BY DEF MsgTypeOK, Holds, LinkedToNothing, HeldApart
<1>2. /\ ListsRight(Append(q, m), b, w)'
      /\ In(Append(q, m)) = In(q) \union {m}
      /\ next' \in [Msgs -> Pieces]
      /\ \A p \in Msgs \ In(q) : next'[p] = next[p]
  BY <1>1, QueueGrows
<1>3. InHands' = InHands /\ Holds(recv)' = {}
  BY DEF InHands, Holds
<1>4. MsgTypeOK'
  BY <1>2 DEF MsgTypeOK
<1>5. LinkedToNothing'
  <2>1. \A p \in InHands : p \in Msgs \ In(q)
    BY DEF HeldApart, MsgTypeOK, InHands
  <2> QED
    BY <1>2, <2>1 DEF LinkedToNothing, InHands
<1>6. NoMsg \notin lost
  BY DEF MsgTypeOK
<1>7. HeldApart(Append(q, m), b, w)'
  BY <1>1, <1>2, <1>3, <1>6 DEF HeldApart
<1> QED
  BY <1>1, <1>2, <1>4, <1>5, <1>7

LEMMA DequeueKeeps ==
  ASSUME NEW q, NEW b, NEW w, InvOf(q, b, w), Dequeue
  PROVE  b = <<>> /\ InvOf(<<>>, q, w)'
<1> USE DEF InvOf, Dequeue
<1>1. b = <<>>
  BY ChainEnds DEF ListsRight
<1>2. IsChain(Msgs, NoMsg, next, queued.old, q) /\ (queued.old = NoMsg <=> q = <<>>)
  BY ListFacts DEF ListsRight
<1>3. ListsRight(<<>>, q, w)'
  <2>1. ListOf(queued, <<>>)'
    <3>1. CASE queued.old = NoMsg
      BY <1>2, <3>1 DEF ListsRight, ListOf
    <3>2. CASE queued.old # NoMsg
      BY <3>2, NoChain DEF ListOf, Emptied, NoList, LastOf
    <3> QED
      BY <3>1, <3>2
  <2> QED
    BY <1>2, <2>1 DEF ListsRight, ListOf
<1>4. In(b) = {} /\ In(<<>>) = {} /\ InHands' = InHands
  BY <1>1 DEF In, InHands
<1>5. HeldApart(<<>>, q, w)'
  BY <1>4 DEF HeldApart, Holds
<1> QED
  BY <1>1, <1>3, <1>5 DEF MsgTypeOK, LinkedToNothing

LEMMA HandledKeeps ==
  ASSUME NEW q, NEW b, NEW w, InvOf(q, b, w), Handled
  PROVE  b # <<>> /\ InvOf(q, Tail(b), w)'
<1> USE DEF InvOf, Handled
<1>1. /\ IsChain(Msgs, NoMsg, next, next[at], Tail(b)) /\ In(Tail(b)) = In(b) \ {at} /\ at \in In(b)
      /\ b # <<>>
  BY ChainShrinks, ChainEnds DEF ListsRight
<1>2. ListsRight(q, Tail(b), w)'
  BY <1>1 DEF ListsRight, ListOf
<1>3. MsgTypeOK' /\ LinkedToNothing' /\ InHands' = InHands
  BY DEF MsgTypeOK, LinkedToNothing, InHands
<1>4. HeldApart(q, Tail(b), w)'
  BY <1>1, <1>3 DEF HeldApart, Holds
<1> QED
  BY <1>1, <1>2, <1>3, <1>4

LEMMA SentKeeps ==
  ASSUME NEW q, NEW b, NEW w, InvOf(q, b, w), Sent
  PROVE  w # <<>> /\ InvOf(q, b, Tail(w))'
<1> USE DEF InvOf, Sent
<1>1. ListOf(wait, w)
  BY DEF ListsRight
<1>2. /\ IsChain(Msgs, NoMsg, next, next[wait.old], Tail(w)) /\ In(Tail(w)) = In(w) \ {wait.old}
      /\ wait.old \in In(w) /\ w # <<>>
      /\ LastOf(NoMsg, Tail(w)) = IF next[wait.old] = NoMsg THEN NoMsg ELSE LastOf(NoMsg, w)
  BY <1>1, ChainShrinks, ChainEnds DEF ListOf
<1>3. ListOf(wait, Tail(w))'
  <2>1. wait' = IF next[wait.old] = NoMsg THEN [old |-> NoMsg, new |-> NoMsg]
                ELSE [old |-> next[wait.old], new |-> wait.new]
    BY <1>1 DEF WaitAfter, NoList, ListOf
  <2> QED
    BY <1>1, <1>2, <2>1 DEF ListOf
<1>4. ListsRight(q, b, Tail(w))'
  BY <1>3 DEF ListsRight, ListOf
<1>5. MsgTypeOK' /\ LinkedToNothing' /\ InHands' = InHands
  BY DEF MsgTypeOK, LinkedToNothing, InHands
<1>6. HeldApart(q, b, Tail(w))'
  BY <1>2, <1>5 DEF HeldApart, Holds
<1> QED
  BY <1>2, <1>4, <1>5, <1>6

LEMMA ResetKeeps ==
  ASSUME NEW q, NEW b, NEW w, InvOf(q, b, w), Reset
  PROVE  InvOf(q, b, <<>>)'
<1> USE DEF InvOf, Reset
<1>1. Chain(wait.old) = w
  BY Found
<1>2. /\ ListOf(wait, w) /\ In(w) \subseteq Msgs /\ (wait.old = NoMsg <=> w = <<>>)
      /\ w # <<>> => wait.new \in In(w) /\ next[wait.new] = NoMsg
  BY ListFacts DEF ListsRight
<1>3. Members(wait.old) = In(w)
  BY <1>1 DEF Members, In
<1>4. ListsRight(q, b, <<>>)' /\ In(<<>>) = {}
  <2>1. ListOf(wait, <<>>)'
    <3>1. CASE wait.old = NoMsg
      BY <1>2, <3>1 DEF ListOf
    <3>2. CASE wait.old # NoMsg
      BY <3>2, NoChain DEF ListOf, NoList, LastOf
    <3> QED
      BY <3>1, <3>2
  <2> QED
    BY <2>1 DEF ListsRight, ListOf, In
<1>5. FreedByReset \subseteq {recv} \union In(w) /\ recv \in FreedByReset
  <2>1. CASE wait.old = NoMsg
    BY <2>1 DEF FreedByReset
  <2>2. CASE wait.old # NoMsg
    <3>1. wait.new \in Msgs /\ wait.new # NoMsg /\ next[wait.new] = NoMsg
      BY <1>2, <2>2
    <3>2. IsChain(Msgs, NoMsg, next, wait.new, <<wait.new>>)
      BY <3>1 DEF IsChain
    <3>3. Chain(wait.new) = <<wait.new>>
      BY <3>2, ChainFound
    <3>4. Members(wait.new) = {wait.new}
      BY <3>3 DEF Members
    <3> QED
      BY <1>2, <2>2, <3>4 DEF FreedByReset
  <2> QED
    BY <2>1, <2>2
<1> HIDE DEF FreedByReset
<1>6. MsgTypeOK' /\ LinkedToNothing' /\ InHands' = InHands /\ Holds(recv)' = {}
  BY <1>2, <1>3 DEF MsgTypeOK, LinkedToNothing, InHands, Holds, RecvAfterReset, Pieces
<1>7. NoMsg \notin lost'
  BY <1>6 DEF MsgTypeOK
<1>8. In(w) \intersect InHands = {} /\ In(w) \intersect In(q) = {} /\ In(w) \intersect In(b) = {}
  BY DEF HeldApart
<1>9. made' = InHands \union In(q) \union In(b) \union lost'
  <2>1. \A m \in FreedByReset : m \notin InHands \union In(q) \union In(b) \union lost
    BY <1>5, <1>6 DEF HeldApart, Holds, MsgTypeOK, InHands
  <2> QED
    BY <1>3, <1>5, <2>1 DEF HeldApart, Holds
<1>10. HeldApart(q, b, <<>>)'
  <2>1. lost' \subseteq lost \union In(w) /\ recv' = NoMsg
    BY <1>3 DEF RecvAfterReset
  <2> QED
    BY <1>4, <1>6, <1>7, <1>8, <1>9, <2>1 DEF HeldApart
<1> QED
  BY <1>4, <1>6, <1>10

-----------------------------------------------------------------------------
\* Each step keeps the invariant, and does to the sequences what MsgFifo allows.

FifoStep(q, b, w, q1, b1, w1) ==
    \/ \E m \in Msgs : q1 = Append(q, m) /\ b1 = b /\ w1 = w
    \/ b = <<>> /\ b1 = q /\ q1 = <<>> /\ w1 = w
    \/ b # <<>> /\ b1 = Tail(b) /\ q1 = q /\ w1 = w
    \/ \E m \in Msgs : w1 = Append(w, m) /\ q1 = q /\ b1 = b
    \/ w # <<>> /\ w1 = Tail(w) /\ q1 = q /\ b1 = b
    \/ w1 = <<>> /\ q1 = q /\ b1 = b
    \/ q1 = q /\ b1 = b /\ w1 = w

LEMMA NextKeeps ==
  ASSUME NEW q, NEW b, NEW w, InvOf(q, b, w), [MsgNext]_msgVars
  PROVE  \E q1, b1, w1 : InvOf(q1, b1, w1)' /\ FifoStep(q, b, w, q1, b1, w1)
<1> USE DEF FifoStep
<1>1. ASSUME NEW t \in IoThreads, NEW m \in Msgs, Create(t, m)
      PROVE  InvOf(q, b, w)'
  BY <1>1, CreateKeeps
<1>2. ASSUME NEW t \in IoThreads, Enqueue(t)
      PROVE  \E m \in Msgs : InvOf(Append(q, m), b, w)'
  <2>1. PICK m : m = hand[t]
    OBVIOUS
  <2> QED
    BY <1>2, <2>1, EnqueueKeeps
<1>3. ASSUME NEW m \in Msgs, StartRecv(m)
      PROVE  InvOf(q, b, w)'
  BY <1>3, StartRecvKeeps
<1>4. ASSUME NEW m \in Msgs, Wait(m)
      PROVE  InvOf(q, b, Append(w, m))'
  BY <1>4, WaitKeeps
<1>5. ASSUME PushRecv
      PROVE  \E m \in Msgs : InvOf(Append(q, m), b, w)'
  <2>1. PICK m : m = recv
    OBVIOUS
  <2> QED
    BY <1>5, <2>1, PushRecvKeeps
<1>6. ASSUME Dequeue PROVE b = <<>> /\ InvOf(<<>>, q, w)'
  BY <1>6, DequeueKeeps
<1>7. ASSUME Handled PROVE b # <<>> /\ InvOf(q, Tail(b), w)'
  BY <1>7, HandledKeeps
<1>8. ASSUME Sent PROVE w # <<>> /\ InvOf(q, b, Tail(w))'
  BY <1>8, SentKeeps
<1>9. ASSUME Reset PROVE InvOf(q, b, <<>>)'
  BY <1>9, ResetKeeps
<1>10. ASSUME UNCHANGED msgVars PROVE InvOf(q, b, w)'
  BY <1>10
  DEF msgVars, InvOf, MsgTypeOK, LinkedToNothing, ListsRight, ListOf, HeldApart, InHands, Holds
<1> QED
  BY <1>1, <1>2, <1>3, <1>4, <1>5, <1>6, <1>7, <1>8, <1>9, <1>10 DEF MsgNext

LEMMA ListInit == MsgInit => ListInv
<1> SUFFICES ASSUME MsgInit PROVE ListInv
  OBVIOUS
<1> QED
  BY InitList, Found

LEMMA ListStep ==
  ListInv /\ [MsgNext]_msgVars
    => /\ ListInv'
       /\ FifoStep(Chain(queued.old), Chain(at), Chain(wait.old),
                   Chain(queued.old)', Chain(at)', Chain(wait.old)')
<1> SUFFICES ASSUME ListInv, [MsgNext]_msgVars
             PROVE  /\ ListInv'
                    /\ FifoStep(Chain(queued.old), Chain(at), Chain(wait.old),
                                Chain(queued.old)', Chain(at)', Chain(wait.old)')
  OBVIOUS
<1>1. PICK q, b, w : q = Chain(queued.old) /\ b = Chain(at) /\ w = Chain(wait.old)
  OBVIOUS
<1>2. InvOf(q, b, w)
  BY <1>1 DEF ListInv
<1>3. PICK q1, b1, w1 : InvOf(q1, b1, w1)' /\ FifoStep(q, b, w, q1, b1, w1)
  BY <1>2, NextKeeps
<1>4. /\ ListInv' /\ Chain(queued.old)' = q1 /\ Chain(at)' = b1 /\ Chain(wait.old)' = w1
  BY <1>3, FoundNext
<1> QED
  BY <1>1, <1>3, <1>4

LEMMA OneOwnerFollows == ListInv => OneOwner
<1> SUFFICES ASSUME ListInv,  NEW m \in Msgs
             PROVE  LET places ==
                          {<<"hand", t>> : t \in {u \in IoThreads : hand[u] = m}}
                          \union {<<"queue", i>> : i \in {j \in DOMAIN Chain(queued.old) : Chain(queued.old)[j] = m}}
                          \union {<<"batch", i>> : i \in {j \in DOMAIN Chain(at) : Chain(at)[j] = m}}
                          \union {<<"wait", i>> : i \in {j \in DOMAIN Chain(wait.old) : Chain(wait.old)[j] = m}}
                          \union (IF recv = m THEN {"recv"} ELSE {})
                          \union (IF m \in lost THEN {"lost"} ELSE {})
                    IN  Cardinality(places) = IF m \in made THEN 1 ELSE 0
  BY Zenon DEF OneOwner
<1>1. PICK q, b, w : q = Chain(queued.old) /\ b = Chain(at) /\ w = Chain(wait.old)
  OBVIOUS
<1>2. InvOf(q, b, w)
  BY <1>1 DEF ListInv
<1> DEFINE h == {<<"hand", t>> : t \in {u \in IoThreads : hand[u] = m}}
           At(c) == {j \in 1..Len(c) : c[j] = m}
           Tags(tag, c) == {<<tag, i>> : i \in At(c)}
           r == IF recv = m THEN {"recv"} ELSE {}
           l == IF m \in lost THEN {"lost"} ELSE {}
           places == h \union Tags("queue", q) \union Tags("batch", b) \union Tags("wait", w)
                     \union r \union l
<1>3. /\ IsChain(Msgs, NoMsg, next, queued.old, q) /\ IsChain(Msgs, NoMsg, next, at, b) /\ IsChain(Msgs, NoMsg, next, wait.old, w)
      /\ m # NoMsg
  BY <1>2 DEF InvOf, ListsRight, ListOf
<1>4. ASSUME NEW c, NEW p, IsChain(Msgs, NoMsg, next, p, c), NEW tag
      PROVE  IF m \in In(c) THEN \E x : Tags(tag, c) = {x} ELSE Tags(tag, c) = {}
  <2>1. CASE m \in In(c)
    <3>1. PICK i \in 1..Len(c) : c[i] = m
      BY <2>1 DEF In
    <3>2. At(c) = {i}
      BY <1>4, <3>1 DEF IsChain
    <3>3. Tags(tag, c) = {<<tag, i>>}
      BY <3>2
    <3> QED
      BY <2>1, <3>3
  <2>2. CASE m \notin In(c)
    <3> At(c) = {}
      BY <2>2 DEF In
    <3> QED
      BY <2>2
  <2> QED
    BY <2>1, <2>2
<1>5. IF m \in InHands THEN \E x : h = {x} ELSE h = {}
  <2>1. CASE m \in InHands
    <3>1. PICK t \in IoThreads : hand[t] = m
      BY <2>1 DEF InHands
    <3>2. {u \in IoThreads : hand[u] = m} = {t}
      BY <1>2, <1>3, <3>1 DEF InvOf, HeldApart
    <3>3. h = {<<"hand", t>>}
      BY <3>2
    <3> QED
      BY <2>1, <3>3
  <2>2. CASE m \notin InHands
    <3> {u \in IoThreads : hand[u] = m} = {}
      BY <1>3, <2>2 DEF InHands
    <3> QED
      BY <2>2
  <2> QED
    BY <2>1, <2>2
<1>6. /\ IF m \in In(q) THEN \E x : Tags("queue", q) = {x} ELSE Tags("queue", q) = {}
      /\ IF m \in In(b) THEN \E x : Tags("batch", b) = {x} ELSE Tags("batch", b) = {}
      /\ IF m \in In(w) THEN \E x : Tags("wait", w) = {x} ELSE Tags("wait", w) = {}
  <2> HIDE DEF Tags
  <2> QED
    BY <1>3, <1>4
<1>7. /\ IF m \in Holds(recv) THEN \E x : r = {x} ELSE r = {}
      /\ IF m \in lost THEN \E x : l = {x} ELSE l = {}
  BY <1>3 DEF Holds
<1>8. DOMAIN q = 1..Len(q) /\ DOMAIN b = 1..Len(b) /\ DOMAIN w = 1..Len(w)
  BY <1>3 DEF IsChain
<1>9. IF m \in made THEN \E x : places = {x} ELSE places = {}
  <2> DEFINE tq == Tags("queue", q)
             tb == Tags("batch", b)
             tw == Tags("wait", w)
  <2>1. places = h \union tq \union tb \union tw \union r \union l
    OBVIOUS
  <2>2. HeldApart(q, b, w) /\ Holds(recv) \intersect lost = {}
    BY <1>2 DEF InvOf, HeldApart, Holds
  <2> HIDE DEF h, tq, tb, tw, r, l, places, Tags
  <2>3. /\ IF m \in In(q) THEN \E x : tq = {x} ELSE tq = {}
        /\ IF m \in In(b) THEN \E x : tb = {x} ELSE tb = {}
        /\ IF m \in In(w) THEN \E x : tw = {x} ELSE tw = {}
    BY <1>6 DEF tq, tb, tw
  <2>4. m \notin made => h = {} /\ tq = {} /\ tb = {} /\ tw = {} /\ r = {} /\ l = {}
    BY <1>5, <1>7, <2>2, <2>3 DEF HeldApart
  <2>5. m \in made => \/ m \in InHands \/ m \in In(q) \/ m \in In(b) \/ m \in In(w)
                      \/ m \in Holds(recv) \/ m \in lost
    BY <2>2 DEF HeldApart
  <2>6. CASE m \in InHands
    BY <1>5, <1>7, <2>1, <2>2, <2>3, <2>6 DEF HeldApart
  <2>7. CASE m \in In(q)
    BY <1>5, <1>7, <2>1, <2>2, <2>3, <2>7 DEF HeldApart
  <2>8. CASE m \in In(b)
    BY <1>5, <1>7, <2>1, <2>2, <2>3, <2>8 DEF HeldApart
  <2>9. CASE m \in In(w)
    BY <1>5, <1>7, <2>1, <2>2, <2>3, <2>9 DEF HeldApart
  <2>10. CASE m \in Holds(recv)
    BY <1>5, <1>7, <2>1, <2>2, <2>3, <2>10 DEF HeldApart
  <2>11. CASE m \in lost
    BY <1>5, <1>7, <2>1, <2>2, <2>3, <2>11 DEF HeldApart
  <2> QED
    BY <2>1, <2>4, <2>5, <2>6, <2>7, <2>8, <2>9, <2>10, <2>11
<1>10. Cardinality(places) = IF m \in made THEN 1 ELSE 0
  <2> HIDE DEF places
  <2> QED
    BY <1>9, FS_EmptySet, FS_Singleton
<1> QED
  BY <1>1, <1>8, <1>10, Zenon

-----------------------------------------------------------------------------
(* However many threads and pieces of memory there are, each message is in *)
(* one place, and the lists are the sequences of MsgFifo.                  *)
THEOREM ListsAreFifo == MsgSpec => RefinesFifo
<1>1. MsgInit => Fifo!FifoInit
  <2> SUFFICES ASSUME MsgInit PROVE Fifo!FifoInit
    OBVIOUS
  <2>1. Chain(queued.old) = <<>> /\ Chain(at) = <<>> /\ Chain(wait.old) = <<>>
    BY InitList, Found
  <2> QED
    BY <2>1 DEF Fifo!FifoInit
<1>2. ListInv /\ [MsgNext]_msgVars
        => [Fifo!FifoNext]_<<Chain(queued.old), Chain(at), Chain(wait.old)>>
  <2> SUFFICES ASSUME ListInv, [MsgNext]_msgVars
               PROVE  [Fifo!FifoNext]_<<Chain(queued.old), Chain(at), Chain(wait.old)>>
    OBVIOUS
  <2>1. FifoStep(Chain(queued.old), Chain(at), Chain(wait.old),
                 Chain(queued.old)', Chain(at)', Chain(wait.old)')
    BY ListStep
  <2> QED
    BY <2>1, Zenon
    DEF FifoStep, Fifo!FifoNext, Fifo!FifoPush, Fifo!FifoTake, Fifo!FifoHandled,
        Fifo!FifoWait, Fifo!FifoSent, Fifo!FifoDrop
<1> QED
  BY <1>1, <1>2, ListInit, ListStep, OneOwnerFollows, PTL
  DEF MsgSpec, RefinesFifo, Fifo!FifoSpec

-----------------------------------------------------------------------------
(* The tree                                                                *)

HIDE MsgsAssumption

USE KeysAssumption

\* Nodes and NULL, and what a tree may be as a value
K0 == Keys \union {0}
Sides == {"left", "right"}
NodeT == [left : K0, right : K0, parent : K0, red : BOOLEAN]
TreeT == [root : K0, node : [K0 -> NodeT]]

Kid(t, k, s) == IF s = "left" THEN t.node[k].left ELSE t.node[k].right
Up(t, k) == t.node[k].parent
Hue(t, k) == t.node[k].red

\* x lies on side s of y.
Before(s, x, y) == IF s = "left" THEN x < y ELSE y < x

\* A node's child by its side is the field of that name.
LEMMA KidIs ==
  ASSUME NEW t, NEW k, NEW s \in Sides
  PROVE  t.node[k][s] = Kid(t, k, s)
<1>1. CASE s = "left"
  BY <1>1 DEF Kid
<1>2. CASE s = "right"
  BY <1>2 DEF Kid
<1> QED
  BY <1>1, <1>2 DEF Sides

\* There are two sides.
LEMMA SidesAre ==
  ASSUME NEW s \in Sides
  PROVE  /\ Other(s) \in Sides /\ Other(s) # s /\ Other(Other(s)) = s
         /\ \A d \in Sides : d = s \/ d = Other(s)
BY DEF Sides, Other

\* Seen from either side the keys are in a strict total order.
LEMMA Order ==
  ASSUME NEW s \in Sides
  PROVE  /\ \A x \in Keys : ~Before(s, x, x)
         /\ \A x, y \in Keys : Before(s, x, y) <=> Before(Other(s), y, x)
         /\ \A x, y \in Keys : Before(s, x, y) => ~Before(s, y, x)
         /\ \A x, y \in Keys : x # y => Before(s, x, y) \/ Before(s, y, x)
         /\ \A x, y, z \in Keys : Before(s, x, y) /\ Before(s, y, z) => Before(s, x, z)
<1>1. Keys \subseteq Int
  OBVIOUS
<1>2. CASE s = "left"
  BY <1>1, <1>2 DEF Before, Other
<1>3. CASE s = "right"
  BY <1>1, <1>3 DEF Before, Other
<1> QED
  BY <1>2, <1>3 DEF Sides

\* The links lead to nodes or to NULL.
LEMMA TypeIs ==
  ASSUME NEW t \in TreeT
  PROVE  /\ t.root \in K0
         /\ \A k \in K0 : Up(t, k) \in K0 /\ Hue(t, k) \in BOOLEAN
         /\ \A k \in K0 : \A s \in Sides : Kid(t, k, s) \in K0
BY DEF TreeT, NodeT, Kid, Up, Hue, Sides

-----------------------------------------------------------------------------
\* What an assignment to one field does to the others

Alike(t, u) ==
    /\ u \in TreeT /\ u.root = t.root
    /\ \A k \in K0 : Up(u, k) = Up(t, k)
    /\ \A k \in K0 : \A s \in Sides : Kid(u, k, s) = Kid(t, k, s)

Painted(t, u, n, c) ==
    Alike(t, u) /\ \A k \in K0 : Hue(u, k) = IF k = n THEN c ELSE Hue(t, k)

\* Painting a node changes its colour and nothing else.
LEMMA PaintIs ==
  ASSUME NEW t \in TreeT, NEW n \in K0, NEW c \in BOOLEAN
  PROVE  Painted(t, Paint(t, n, c), n, c)
BY DEF TreeT, NodeT, Kid, Up, Hue, Sides, Alike, Paint, Painted

\* Writing a parent changes that link and nothing else.
LEMMA UpSet ==
  ASSUME NEW t \in TreeT, NEW n \in K0, NEW c \in K0, NEW u, u = [t EXCEPT !.node[n].parent = c]
  PROVE  /\ u \in TreeT /\ u.root = t.root
         /\ \A k \in K0 : \A s \in Sides : Kid(u, k, s) = Kid(t, k, s)
         /\ \A k \in K0 : Up(u, k) = IF k = n THEN c ELSE Up(t, k)
         /\ \A k \in K0 : Hue(u, k) = Hue(t, k)
BY DEF TreeT, NodeT, Kid, Up, Hue, Sides

\* Writing the root changes no node.
LEMMA RootSet ==
  ASSUME NEW t \in TreeT, NEW c \in K0, NEW u, u = [t EXCEPT !.root = c]
  PROVE  /\ u \in TreeT /\ u.root = c
         /\ \A k \in K0 : \A s \in Sides : Kid(u, k, s) = Kid(t, k, s)
         /\ \A k \in K0 : Up(u, k) = Up(t, k)
         /\ \A k \in K0 : Hue(u, k) = Hue(t, k)
BY DEF TreeT, NodeT, Kid, Up, Hue, Sides

\* Writing a child changes that link and nothing else.
LEMMA KidSet ==
  ASSUME NEW t \in TreeT, NEW n \in K0, NEW d \in Sides, NEW c \in K0, NEW u, u = [t EXCEPT !.node[n][d] = c]
  PROVE  /\ u \in TreeT /\ u.root = t.root
         /\ \A k \in K0 : \A s \in Sides : Kid(u, k, s) = IF k = n /\ s = d THEN c ELSE Kid(t, k, s)
         /\ \A k \in K0 : Up(u, k) = Up(t, k)
         /\ \A k \in K0 : Hue(u, k) = Hue(t, k)
<1>1. CASE d = "left"
  <2>1. u = [t EXCEPT !.node[n]["left"] = c]
    BY <1>1
  <2>2. u = [t EXCEPT !.node[n].left = c]
    BY <2>1
  <2> QED
    BY <1>1, <2>2 DEF TreeT, NodeT, Kid, Up, Hue, Sides
<1>2. CASE d = "right"
  <2>1. u = [t EXCEPT !.node[n]["right"] = c]
    BY <1>2
  <2>2. u = [t EXCEPT !.node[n].right = c]
    BY <2>1
  <2> QED
    BY <1>2, <2>2 DEF TreeT, NodeT, Kid, Up, Hue, Sides
<1> QED
  BY <1>1, <1>2 DEF Sides

\* SideOf() finds the side a child is on.
LEMMA SideIs ==
  ASSUME NEW t \in TreeT, NEW n \in K0
  PROVE  /\ SideOf(t, n) \in Sides
         /\ (\E s \in Sides : Kid(t, Up(t, n), s) = n) => Kid(t, Up(t, n), SideOf(t, n)) = n
BY DEF SideOf, Sides, Kid, Up

\* c becomes p's child.
Attached(t, u, p, d, c) ==
    /\ u \in TreeT /\ u.root = t.root
    /\ \A k \in K0 : \A s \in Sides : Kid(u, k, s) = IF k = p /\ s = d THEN c ELSE Kid(t, k, s)
    /\ \A k \in K0 : Up(u, k) = IF k = c /\ c # 0 THEN p ELSE Up(t, k)
    /\ \A k \in K0 : Hue(u, k) = Hue(t, k)

\* A node gets a child, and the child, unless NULL, its parent.
LEMMA AttachIs ==
  ASSUME NEW t \in TreeT, NEW p \in K0, NEW d \in Sides, NEW c \in K0
  PROVE  Attached(t, Attach(t, p, d, c), p, d, c)
<1> PICK u : u = Attach(t, p, d, c)
  OBVIOUS
<1> SUFFICES Attached(t, u, p, d, c)
  OBVIOUS
<1>1. PICK r : r = [t EXCEPT !.node[p][d] = c]
  OBVIOUS
<1>2. u = IF c = 0 THEN r ELSE [r EXCEPT !.node[c].parent = p]
  BY <1>1 DEF Attach
<1>3. /\ r \in TreeT /\ r.root = t.root
      /\ \A k \in K0 : \A s \in Sides : Kid(r, k, s) = IF k = p /\ s = d THEN c ELSE Kid(t, k, s)
      /\ \A k \in K0 : Up(r, k) = Up(t, k)
      /\ \A k \in K0 : Hue(r, k) = Hue(t, k)
  BY <1>1, KidSet
<1>4. CASE c = 0
  BY <1>2, <1>3, <1>4 DEF Attached
<1>5. CASE c # 0
  <2>1. u = [r EXCEPT !.node[c].parent = p]
    BY <1>2, <1>5
  <2> QED
    BY <1>3, <1>5, <2>1, UpSet DEF Attached
<1> QED
  BY <1>4, <1>5

\* q takes p's place.
Placed(t, u, p, q) ==
    LET g == Up(t, p)
    IN  /\ u \in TreeT
        /\ u.root = IF g = 0 THEN q ELSE t.root
        /\ \A k \in K0 : \A s \in Sides :
             Kid(u, k, s) = IF k = g /\ g # 0 /\ s = SideOf(t, p) THEN q ELSE Kid(t, k, s)
        /\ \A k \in K0 : Up(u, k) = IF k = q /\ q # 0 THEN g ELSE Up(t, k)
        /\ \A k \in K0 : Hue(u, k) = Hue(t, k)

\* A node takes another's place under the parent, or as the root.
LEMMA ReplaceIs ==
  ASSUME NEW t \in TreeT, NEW p \in K0, NEW q \in K0
  PROVE  Placed(t, Replace(t, p, q), p, q)
<1> PICK u, g, d : u = Replace(t, p, q) /\ g = Up(t, p) /\ d = SideOf(t, p)
  OBVIOUS
<1> SUFFICES Placed(t, u, p, q)
  OBVIOUS
<1>1. g \in K0 /\ d \in Sides
  BY TypeIs, SideIs
<1>2. PICK r : r = IF g = 0 THEN [t EXCEPT !.root = q] ELSE [t EXCEPT !.node[g][d] = q]
  OBVIOUS
<1>3. u = IF q = 0 THEN r ELSE [r EXCEPT !.node[q].parent = g]
  BY <1>2 DEF Replace, Up
<1>4. /\ r \in TreeT
      /\ r.root = IF g = 0 THEN q ELSE t.root
      /\ \A k \in K0 : \A s \in Sides :
           Kid(r, k, s) = IF k = g /\ g # 0 /\ s = d THEN q ELSE Kid(t, k, s)
      /\ \A k \in K0 : Up(r, k) = Up(t, k)
      /\ \A k \in K0 : Hue(r, k) = Hue(t, k)
  <2>1. CASE g = 0
    <3>1. r = [t EXCEPT !.root = q]
      BY <1>2, <2>1
    <3> QED
      BY <2>1, <3>1, RootSet
  <2>2. CASE g # 0
    <3>1. r = [t EXCEPT !.node[g][d] = q]
      BY <1>2, <2>2
    <3> QED
      BY <1>1, <2>2, <3>1, KidSet
  <2> QED
    BY <2>1, <2>2
<1>5. CASE q = 0
  BY <1>3, <1>4, <1>5 DEF Placed
<1>6. CASE q # 0
  <2>1. u = [r EXCEPT !.node[q].parent = g]
    BY <1>3, <1>6
  <2> QED
    BY <1>1, <1>4, <1>6, <2>1, UpSet DEF Placed
<1> QED
  BY <1>5, <1>6

\* What a rotation leaves: q, p's child on the other side, comes up.
Rotated(t, r, p, cis) ==
    LET trans == Other(cis)
        q == Kid(t, p, trans)
        i == Kid(t, q, cis)
        g == Up(t, p)
        d == SideOf(t, p)
    IN  /\ r \in TreeT
        /\ r.root = IF g = 0 THEN q ELSE t.root
        /\ \A k \in K0 : Hue(r, k) = Hue(t, k)
        /\ \A k \in K0 : Up(r, k) = IF k = i /\ i # 0 THEN p
                                    ELSE IF k = p THEN q
                                    ELSE IF k = q THEN g ELSE Up(t, k)
        /\ \A k \in K0 : \A s \in Sides :
             Kid(r, k, s) = IF k = p /\ s = trans THEN i
                            ELSE IF k = q /\ s = cis THEN p
                            ELSE IF k = g /\ g # 0 /\ s = d THEN q ELSE Kid(t, k, s)

\* The links a rotation leaves: p is below q, with q's inner child.
LEMMA RotateIs ==
  ASSUME NEW t \in TreeT, NEW p \in K0, NEW cis \in Sides,
         NEW q, q = Kid(t, p, Other(cis)), q # 0, NEW i, i = Kid(t, q, cis), NEW g, g = Up(t, p),
         p # 0, p # q, g # p, g # q, i # p, i # q,
         NEW r, r = Rotate(t, p, cis)
  PROVE  Rotated(t, r, p, cis)
<1>1. PICK d, trans : d = SideOf(t, p) /\ trans = Other(cis)
  OBVIOUS
<1>2. /\ q \in K0 /\ i \in K0 /\ g \in K0 /\ d \in Sides /\ trans \in Sides /\ trans # cis
  BY <1>1, TypeIs, SideIs, SidesAre
<1>3. q = t.node[p][trans] /\ i = t.node[q][cis]
  BY <1>1, <1>2, KidIs
<1>4. PICK a : a = Replace(t, p, q)
  OBVIOUS
<1>5. PICK b : b = Attach(a, p, trans, i)
  OBVIOUS
<1>6. r = Attach(b, q, cis, p)
  BY <1>1, <1>3, <1>4, <1>5 DEF Rotate
<1>7. /\ a \in TreeT
      /\ a.root = IF g = 0 THEN q ELSE t.root
      /\ \A k \in K0 : \A s \in Sides :
           Kid(a, k, s) = IF k = g /\ g # 0 /\ s = d THEN q ELSE Kid(t, k, s)
      /\ \A k \in K0 : Up(a, k) = IF k = q /\ q # 0 THEN g ELSE Up(t, k)
      /\ \A k \in K0 : Hue(a, k) = Hue(t, k)
  <2>1. Placed(t, a, p, q)
    BY <1>2, <1>4, ReplaceIs
  <2> QED
    BY <1>1, <2>1 DEF Placed
<1>8. /\ b \in TreeT /\ b.root = a.root
      /\ \A k \in K0 : \A s \in Sides : Kid(b, k, s) = IF k = p /\ s = trans THEN i ELSE Kid(a, k, s)
      /\ \A k \in K0 : Up(b, k) = IF k = i /\ i # 0 THEN p ELSE Up(a, k)
      /\ \A k \in K0 : Hue(b, k) = Hue(a, k)
  <2>1. Attached(a, b, p, trans, i)
    BY <1>2, <1>5, <1>7, AttachIs
  <2> QED
    BY <2>1 DEF Attached
<1>9. /\ r \in TreeT /\ r.root = b.root
      /\ \A k \in K0 : \A s \in Sides : Kid(r, k, s) = IF k = q /\ s = cis THEN p ELSE Kid(b, k, s)
      /\ \A k \in K0 : Up(r, k) = IF k = p /\ p # 0 THEN q ELSE Up(b, k)
      /\ \A k \in K0 : Hue(r, k) = Hue(b, k)
  <2>1. Attached(b, r, q, cis, p)
    BY <1>2, <1>6, <1>8, AttachIs
  <2> QED
    BY <2>1 DEF Attached
<1>10. r.root = IF g = 0 THEN q ELSE t.root
  BY <1>7, <1>8, <1>9
<1>11. \A k \in K0 : Hue(r, k) = Hue(t, k)
  BY <1>7, <1>8, <1>9
<1>12. \A k \in K0 : Up(r, k) = IF k = i /\ i # 0 THEN p ELSE IF k = p THEN q
                                 ELSE IF k = q THEN g ELSE Up(t, k)
  BY <1>7, <1>8, <1>9
<1>13. \A k \in K0 : \A s \in Sides :
         Kid(r, k, s) = IF k = p /\ s = trans THEN i ELSE IF k = q /\ s = cis THEN p
                        ELSE IF k = g /\ g # 0 /\ s = d THEN q ELSE Kid(t, k, s)
  BY <1>7, <1>8, <1>9
<1> QED
  BY <1>1, <1>9, <1>10, <1>11, <1>12, <1>13 DEF Rotated

-----------------------------------------------------------------------------
\* What a search tree is: sub tells which keys are below each node.

KidRight(t, S, sub, k, s) ==
    LET c == Kid(t, k, s)
    IN  /\ c \in S \union {0}
        /\ c # 0 => Up(t, c) = k
        /\ \A x \in sub[c] : Before(s, x, k)

UpRight(t, S, k) ==
    /\ t.root = k => Up(t, k) = 0
    /\ Up(t, k) = 0 => t.root = k
    /\ Up(t, k) # 0 => Up(t, k) \in S /\ \E s \in Sides : Kid(t, Up(t, k), s) = k

Below(t, sub, k) == \A s \in Sides : sub[k] = {k} \union sub[Kid(t, k, s)] \union sub[Kid(t, k, Other(s))]

NodeRight(t, S, sub, k) ==
    /\ \A s \in Sides : KidRight(t, S, sub, k, s)
    /\ UpRight(t, S, k)
    /\ Below(t, sub, k)

SubType(S, sub) == sub \in [K0 -> SUBSET S] /\ sub[0] = {}

Shape(t, S, sub) ==
    /\ t \in TreeT /\ S \subseteq Keys /\ SubType(S, sub)
    /\ \A k \in K0 \ S : t.node[k] = Nil
    /\ t.root \in S \union {0} /\ sub[t.root] = S
    /\ \A k \in S : NodeRight(t, S, sub, k)

\* A node outside the tree has no links and is not red.
LEMMA NilIs ==
  ASSUME NEW t, NEW k, t.node[k] = Nil
  PROVE  /\ \A s \in Sides : Kid(t, k, s) = 0
         /\ Up(t, k) = 0 /\ Hue(t, k) = FALSE
BY DEF Nil, Kid, Up, Hue

\* A node and its children
LEMMA NodeIs ==
  ASSUME NEW t, NEW S, NEW sub, Shape(t, S, sub), NEW k \in S
  PROVE  /\ k \in Keys /\ k \in K0 /\ k # 0 /\ k \in sub[k] /\ sub[k] \subseteq S
         /\ Up(t, k) \in S \union {0} /\ Up(t, k) # k
         /\ t.root = k <=> Up(t, k) = 0
<1>1. k \in Keys /\ k # 0 /\ k \in K0
  BY DEF Shape, K0
<1>2. NodeRight(t, S, sub, k) /\ SubType(S, sub)
  BY DEF Shape
<1>3. k \in sub[k] /\ sub[k] \subseteq S
  <2>1. "left" \in Sides
    BY DEF Sides
  <2> QED
    BY <1>1, <1>2, <2>1 DEF NodeRight, Below, SubType
<1>4. Up(t, k) \in S \union {0} /\ (t.root = k <=> Up(t, k) = 0)
  BY <1>2 DEF NodeRight, UpRight
<1>5. Up(t, k) # k
  <2> SUFFICES ASSUME Up(t, k) = k PROVE FALSE
    OBVIOUS
  <2>1. PICK s \in Sides : Kid(t, k, s) = k
    BY <1>1, <1>2 DEF NodeRight, UpRight
  <2>2. Before(s, k, k)
    BY <1>2, <1>3, <2>1 DEF NodeRight, KidRight
  <2> QED
    BY <1>1, <2>2, Order
<1> QED
  BY <1>1, <1>3, <1>4, <1>5

\* A child is in the tree, knows its parent, and has no other.
LEMMA KidIn ==
  ASSUME NEW t, NEW S, NEW sub, Shape(t, S, sub), NEW k \in S, NEW s \in Sides,
         NEW c, c = Kid(t, k, s), c # 0
  PROVE  /\ c \in S /\ Up(t, c) = k /\ c # k
         /\ \A x \in sub[c] : Before(s, x, k)
         /\ sub[c] \subseteq sub[k] /\ k \notin sub[c]
         /\ Kid(t, k, Other(s)) # c
         /\ \A j \in S : \A d \in Sides : Kid(t, j, d) = c => j = k /\ d = s
<1>1. NodeRight(t, S, sub, k) /\ k \in Keys /\ S \subseteq Keys
  BY NodeIs DEF Shape
<1>2. /\ c \in S /\ Up(t, c) = k
      /\ \A x \in sub[c] : Before(s, x, k)
  BY <1>1 DEF NodeRight, KidRight
<1>3. sub[c] \subseteq sub[k]
  BY <1>1 DEF NodeRight, Below
<1>4. k \notin sub[c]
  BY <1>1, <1>2, Order
<1>5. c \in sub[c] /\ c # k
  BY <1>2, <1>4, NodeIs
<1>6. Kid(t, k, Other(s)) # c
  <2> SUFFICES ASSUME Kid(t, k, Other(s)) = c PROVE FALSE
    OBVIOUS
  <2>1. Other(s) \in Sides
    BY SidesAre
  <2>2. Before(Other(s), c, k)
    BY <1>1, <1>5, <2>1 DEF NodeRight, KidRight
  <2>3. Before(s, c, k) /\ c \in Keys
    BY <1>1, <1>2, <1>5
  <2> QED
    BY <1>1, <2>2, <2>3, Order
<1>7. ASSUME NEW j \in S, NEW d \in Sides, Kid(t, j, d) = c
      PROVE  j = k /\ d = s
  <2>1. KidRight(t, S, sub, j, d)
    BY DEF Shape, NodeRight
  <2>2. j = k
    BY <1>2, <1>7, <2>1 DEF KidRight
  <2>3. d = s \/ d = Other(s)
    BY SidesAre
  <2> QED
    BY <1>6, <1>7, <2>2, <2>3
<1> QED
  BY <1>2, <1>3, <1>4, <1>5, <1>6, <1>7

\* A node is on one side of its parent.
LEMMA SideFound ==
  ASSUME NEW t, NEW S, NEW sub, Shape(t, S, sub), NEW k \in S, Up(t, k) # 0
  PROVE  Up(t, k) \in S /\ SideOf(t, k) \in Sides /\ Kid(t, Up(t, k), SideOf(t, k)) = k
<1> PICK g : g = Up(t, k)
  OBVIOUS
<1>1. NodeRight(t, S, sub, k) /\ t \in TreeT
  BY DEF Shape
<1>3. k \in K0
  BY NodeIs
<1>2. g \in S /\ \E s \in Sides : Kid(t, g, s) = k
  BY <1>1 DEF NodeRight, UpRight
<1> QED
  BY <1>1, <1>2, <1>3, SideIs

\* A node has one place.
IsKid(t, k, s, c) == c # 0 /\ Kid(t, k, s) = c

\* No node is two nodes' child, nor both children of one.
LEMMA OneParent ==
  ASSUME NEW t, NEW S, NEW sub, Shape(t, S, sub), NEW j \in S, NEW k \in S, NEW d \in Sides, NEW s \in Sides,
         NEW c, IsKid(t, k, s, c), IsKid(t, j, d, c)
  PROVE  j = k /\ d = s
BY KidIn DEF IsKid

\* Colours are no part of it.
LEMMA ShapeAlike ==
  ASSUME NEW t, NEW S, NEW sub, Shape(t, S, sub), NEW u, Alike(t, u),
         \A k \in K0 \ S : Hue(u, k) = FALSE
  PROVE  Shape(u, S, sub)
<1>1. t \in TreeT /\ u \in TreeT /\ S \subseteq Keys
  BY DEF Shape, Alike
<1>2. ASSUME NEW k \in K0 \ S PROVE u.node[k] = Nil
  <2>1. t.node[k] = Nil
    BY DEF Shape
  <2>2. \A s \in Sides : Kid(u, k, s) = 0
    BY <2>1, NilIs DEF Alike
  <2>3. Up(u, k) = 0
    BY <2>1, NilIs DEF Alike
  <2>4. u.node[k] \in NodeT
    BY <1>1 DEF TreeT
  <2>5. u.node[k].left = 0 /\ u.node[k].right = 0
    BY <2>2 DEF Kid, Sides
  <2>6. u.node[k].parent = 0 /\ u.node[k].red = FALSE
    BY <2>3 DEF Up, Hue
  <2> QED
    BY <2>4, <2>5, <2>6 DEF NodeT, Nil
<1>3. ASSUME NEW k \in S PROVE NodeRight(u, S, sub, k)
  <2>1. NodeRight(t, S, sub, k) /\ k \in K0
    <3>1. k \in K0
      BY NodeIs
    <3> QED
      BY <3>1 DEF Shape
  <2>2. Up(u, k) = Up(t, k) /\ u.root = t.root
    BY <2>1 DEF Alike
  <2>3. \A j \in K0 : \A s \in Sides : Kid(u, j, s) = Kid(t, j, s)
    BY DEF Alike
  <2>4. ASSUME NEW s \in Sides PROVE KidRight(u, S, sub, k, s)
    <3>1. KidRight(t, S, sub, k, s) /\ Kid(u, k, s) = Kid(t, k, s)
      BY <2>1, <2>3 DEF NodeRight
    <3>2. Kid(t, k, s) # 0 => Up(u, Kid(t, k, s)) = Up(t, Kid(t, k, s))
      BY <1>1, <2>1, TypeIs DEF Alike
    <3> QED
      BY <3>1, <3>2 DEF KidRight
  <2>5. UpRight(u, S, k)
    <3>1. UpRight(t, S, k) /\ Up(t, k) \in K0
      BY <1>1, <2>1, TypeIs DEF NodeRight
    <3> QED
      BY <2>2, <2>3, <3>1 DEF UpRight
  <2>6. Below(u, sub, k)
    BY <2>1, <2>3, SidesAre DEF NodeRight, Below
  <2> QED
    BY <2>4, <2>5, <2>6 DEF NodeRight
<1>4. u.root = t.root
  BY DEF Alike
<1> QED
  BY <1>1, <1>2, <1>3, <1>4 DEF Shape

\* The keys below each node when p goes down on the side cis
Turned(t, sub, p, cis) ==
    LET q == Kid(t, p, Other(cis))
    IN  [sub EXCEPT ![q] = sub[p],
                    ![p] = {p} \union sub[Kid(t, p, cis)] \union sub[Kid(t, q, cis)]]

\* The nodes a rotation writes are different ones.
LEMMA TurnParts ==
  ASSUME NEW t, NEW S, NEW sub, Shape(t, S, sub), NEW p \in S, NEW cis \in Sides,
         NEW q, q = Kid(t, p, Other(cis)), q # 0,
         NEW i, i = Kid(t, q, cis), NEW g, g = Up(t, p)
  PROVE  /\ q \in S /\ i \in S \union {0} /\ g \in S \union {0}
         /\ p # 0 /\ p # q /\ g # p /\ g # q /\ i # p /\ i # q
         /\ i # 0 => i # g
<1>1. Other(cis) \in Sides /\ S \subseteq Keys
  BY SidesAre DEF Shape
<1>2. /\ q \in S /\ Up(t, q) = p /\ q # p
      /\ \A x \in sub[q] : Before(Other(cis), x, p)
      /\ sub[q] \subseteq sub[p] /\ p \notin sub[q]
  BY <1>1, KidIn
<1>3. p # 0 /\ p \in Keys /\ g \in S \union {0} /\ g # p
  BY NodeIs
<1>4. i \in S \union {0}
  BY <1>2 DEF Shape, NodeRight, KidRight
<1>5. i # 0 => i \in S /\ i # q /\ Up(t, i) = q /\ sub[i] \subseteq sub[q] /\ i \in sub[i]
  BY <1>2, KidIn, NodeIs
<1>6. i # p
  BY <1>2, <1>3, <1>5
<1>7. g # q
  <2> SUFFICES ASSUME g = q PROVE FALSE
    OBVIOUS
  <2>1. Kid(t, q, SideOf(t, p)) = p /\ SideOf(t, p) \in Sides
    BY SideFound
  <2>2. sub[p] \subseteq sub[q] /\ p \in sub[p]
    BY <1>2, <1>3, <2>1, KidIn, NodeIs
  <2> QED
    BY <1>2, <2>2
<1>8. i # 0 => i # g
  <2> SUFFICES ASSUME i # 0, i = g PROVE FALSE
    OBVIOUS
  <2>1. Kid(t, i, SideOf(t, p)) = p /\ SideOf(t, p) \in Sides
    BY SideFound
  <2>2. sub[p] \subseteq sub[i] /\ p \in sub[p]
    BY <1>3, <1>5, <2>1, KidIn, NodeIs
  <2> QED
    BY <1>2, <1>5, <2>2
<1>9. i # q
  BY <1>2, <1>3, <1>5, NodeIs
<1> QED
  BY <1>2, <1>3, <1>4, <1>6, <1>7, <1>8, <1>9

\* A search tree stays one when it is rotated (TREE__ROTATE).
LEMMA RotateShape ==
  ASSUME NEW t, NEW S, NEW sub, Shape(t, S, sub), NEW p \in S, NEW cis \in Sides,
         Kid(t, p, Other(cis)) # 0
  PROVE  /\ Rotated(t, Rotate(t, p, cis), p, cis)
         /\ Shape(Rotate(t, p, cis), S, Turned(t, sub, p, cis))
<1>1. PICK q, trans : trans = Other(cis) /\ q = Kid(t, p, trans)
  OBVIOUS
<1>2. PICK i, o, f : i = Kid(t, q, cis) /\ o = Kid(t, p, cis) /\ f = Kid(t, q, trans)
  OBVIOUS
<1>3. PICK g, d : g = Up(t, p) /\ d = SideOf(t, p)
  OBVIOUS
<1>4. /\ q \in S /\ i \in S \union {0} /\ g \in S \union {0}
      /\ p # 0 /\ p # q /\ g # p /\ g # q /\ i # p /\ i # q
      /\ i # 0 => i # g
      /\ q # 0
  BY <1>1, <1>2, <1>3, TurnParts
<1>5. /\ t \in TreeT /\ S \subseteq Keys /\ SubType(S, sub) /\ S \subseteq K0 /\ 0 \in K0
      /\ trans \in Sides /\ Other(trans) = cis /\ trans # cis
      /\ \A s \in Sides : s = cis \/ s = trans
      /\ 0 \notin S
  BY <1>1, SidesAre, NodeIs DEF Shape, K0
<1>6. PICK r : r = Rotate(t, p, cis)
  OBVIOUS
<1>7. Rotated(t, r, p, cis)
  BY <1>1, <1>2, <1>3, <1>4, <1>5, <1>6, RotateIs
<1>8. /\ r \in TreeT
      /\ r.root = IF g = 0 THEN q ELSE t.root
      /\ \A k \in K0 : Hue(r, k) = Hue(t, k)
      /\ \A k \in K0 : Up(r, k) = IF k = i /\ i # 0 THEN p ELSE IF k = p THEN q
                                  ELSE IF k = q THEN g ELSE Up(t, k)
      /\ \A k \in K0 : \A s \in Sides :
           Kid(r, k, s) = IF k = p /\ s = trans THEN i ELSE IF k = q /\ s = cis THEN p
                          ELSE IF k = g /\ g # 0 /\ s = d THEN q ELSE Kid(t, k, s)
  BY <1>1, <1>2, <1>3, <1>7 DEF Rotated
<1>9. PICK new : new = Turned(t, sub, p, cis)
  OBVIOUS
<1>10. /\ sub[p] = {p} \union sub[o] \union sub[q]
       /\ sub[q] = {q} \union sub[i] \union sub[f]
  BY <1>1, <1>2, <1>4, <1>5 DEF Shape, NodeRight, Below
<1>11. /\ \A k \in K0 \ {p, q} : new[k] = sub[k]
       /\ new[q] = sub[p]
       /\ new[p] = {p} \union sub[o] \union sub[i]
       /\ SubType(S, new)
  <2>1. p \in K0 /\ q \in K0 /\ i \in K0 /\ o \in K0
    BY <1>1, <1>2, <1>4, <1>5, TypeIs
  <2>2. new = [sub EXCEPT ![q] = sub[p], ![p] = {p} \union sub[o] \union sub[i]]
    BY <1>1, <1>2, <1>9 DEF Turned
  <2> QED
    BY <1>4, <1>5, <2>1, <2>2 DEF SubType
<1>12. /\ g # 0 => g \in S /\ d \in Sides /\ Kid(t, g, d) = p
       /\ g = 0 <=> t.root = p
  BY <1>3, SideFound, NodeIs
<1>13. /\ \A x \in sub[q] : Before(trans, x, p)
       /\ \A x \in sub[o] : Before(cis, x, p)
       /\ \A x \in sub[i] : Before(cis, x, q) /\ Before(trans, x, p)
       /\ \A x \in sub[f] : Before(trans, x, q)
       /\ o \in S \union {0} /\ f \in S \union {0}
       /\ o # 0 => Up(t, o) = p
       /\ f # 0 => Up(t, f) = q
       /\ i # 0 => Up(t, i) = q
       /\ Up(t, q) = p
  <2>1. KidRight(t, S, sub, p, cis) /\ KidRight(t, S, sub, p, trans)
        /\ KidRight(t, S, sub, q, cis) /\ KidRight(t, S, sub, q, trans)
    BY <1>4, <1>5 DEF Shape, NodeRight
  <2> QED
    BY <1>1, <1>2, <1>4, <1>10, <2>1 DEF KidRight
<1>14. ASSUME NEW k \in K0 \ S PROVE r.node[k] = Nil
  <2>1. t.node[k] = Nil /\ k # p /\ k # q /\ ~(k = i /\ i # 0) /\ ~(k = g /\ g # 0)
    BY <1>4 DEF Shape
  <2>2. Up(r, k) = 0 /\ Hue(r, k) = FALSE
    BY <1>8, <2>1, NilIs
  <2>3. \A s \in Sides : Kid(r, k, s) = 0
    <3>1. \A s \in Sides : Kid(t, k, s) = 0
      BY <2>1, NilIs
    <3> QED
      BY <1>8, <2>1, <3>1
  <2>4. r.node[k] \in NodeT
    BY <1>8 DEF TreeT
  <2>5. r.node[k].left = 0 /\ r.node[k].right = 0
    BY <2>3 DEF Kid, Sides
  <2>6. r.node[k].parent = 0 /\ r.node[k].red = FALSE
    BY <2>2 DEF Up, Hue
  <2> QED
    BY <2>4, <2>5, <2>6 DEF NodeT, Nil
<1>15. r.root \in S \union {0} /\ new[r.root] = S
  <2>1. t.root \in S \union {0} /\ sub[t.root] = S
    BY DEF Shape
  <2>2. CASE g = 0
    BY <1>4, <1>8, <1>11, <1>12, <2>1, <2>2
  <2>3. CASE g # 0
    <3>1. t.root # p
      BY <1>12, <2>3
    <3>2. t.root # q
      BY <1>4, <1>13, NodeIs
    <3> QED
      BY <1>5, <1>8, <1>11, <2>1, <2>3, <3>1, <3>2
  <2> QED
    BY <2>2, <2>3
\* The links up
<1>16. ASSUME NEW k \in S PROVE UpRight(r, S, k)
  <2>1. UpRight(t, S, k) /\ k \in K0 /\ k # 0
    BY <1>5 DEF Shape, NodeRight
  <2>2. CASE k = i
    <3>1. Up(r, k) = p /\ Kid(r, p, trans) = k
      BY <1>4, <1>5, <1>8, <2>1, <2>2
    <3>2. r.root # k
      BY <1>4, <1>8, <1>13, <2>1, <2>2, NodeIs
    <3> QED
      BY <1>4, <1>5, <3>1, <3>2 DEF UpRight
  <2>3. CASE k = p
    <3>1. Up(r, k) = q /\ Kid(r, q, cis) = k
      BY <1>4, <1>5, <1>8, <2>3
    <3>2. r.root # k
      BY <1>4, <1>8, <1>12, <2>3
    <3> QED
      BY <1>4, <1>5, <3>1, <3>2 DEF UpRight
  <2>4. CASE k = q
    <3>1. Up(r, k) = g
      BY <1>4, <1>8, <2>1, <2>4
    <3>2. g # 0 => Kid(r, g, d) = k
      BY <1>4, <1>5, <1>8, <1>12, <2>4
    <3>3. t.root # q
      BY <1>4, <1>13, NodeIs
    <3> QED
      BY <1>4, <1>8, <1>12, <2>4, <3>1, <3>2, <3>3 DEF UpRight
  <2>5. CASE k \notin {i, p, q}
    <3>1. Up(r, k) = Up(t, k)
      BY <1>8, <2>1, <2>5
    <3>2. r.root = k <=> t.root = k
      BY <1>8, <1>12, <2>5
    <3>3. ASSUME Up(t, k) # 0 PROVE \E s \in Sides : Kid(r, Up(t, k), s) = k
      <4>1. PICK h : h = Up(t, k)
        OBVIOUS
      <4>4. h \in S /\ \E s \in Sides : Kid(t, h, s) = k
        BY <2>1, <3>3, <4>1 DEF UpRight
      <4>5. PICK s \in Sides : Kid(t, h, s) = k
        BY <4>4
      <4>2. ~(h = p /\ s = trans) /\ ~(h = q /\ s = cis) /\ ~(h = g /\ s = d /\ g # 0)
        BY <1>1, <1>2, <1>12, <2>5, <4>5
      <4>3. Kid(r, h, s) = k
        BY <1>5, <1>8, <4>4, <4>5, <4>2
      <4> QED
        BY <4>1, <4>3
    <3> QED
      BY <2>1, <3>1, <3>2, <3>3 DEF UpRight
  <2> QED
    BY <2>2, <2>3, <2>4, <2>5
\* The children
<1>17. ASSUME NEW k \in S, NEW s \in Sides PROVE KidRight(r, S, new, k, s)
  <2>1. KidRight(t, S, sub, k, s) /\ k \in K0 /\ k # 0
    BY <1>5 DEF Shape, NodeRight
  <2>2. CASE k = p /\ s = trans
    <3>1. Kid(r, k, s) = i /\ new[i] = sub[i]
      BY <1>4, <1>5, <1>8, <1>11, <2>1, <2>2
    <3> QED
      BY <1>4, <1>5, <1>8, <1>13, <2>2, <3>1 DEF KidRight
  <2>3. CASE k = q /\ s = cis
    <3>1. Kid(r, k, s) = p /\ Up(r, p) = q
      BY <1>4, <1>5, <1>8, <2>1, <2>3
    <3>2. \A x \in new[p] : Before(cis, x, q)
      <4>1. q \in sub[q] /\ Before(trans, q, p) /\ p \in Keys /\ q \in Keys
        BY <1>4, <1>5, <1>10, <1>13
      <4>2. Before(cis, p, q)
        BY <1>5, <4>1, Order
      <4>3. ASSUME NEW x \in sub[o] PROVE Before(cis, x, q)
        <5>1. x \in Keys /\ Before(cis, x, p)
          BY <1>5, <1>10, <1>13, NodeIs
        <5> QED
          BY <4>1, <4>2, <5>1, Order
      <4> QED
        BY <1>11, <1>13, <4>2, <4>3
    <3> QED
      BY <2>3, <3>1, <3>2 DEF KidRight
  <2>4. CASE k = g /\ s = d
    <3>1. Kid(r, k, s) = q /\ Up(r, q) = g /\ Kid(t, k, s) = p
      BY <1>4, <1>5, <1>8, <1>12, <2>1, <2>4
    <3> QED
      BY <1>4, <1>11, <2>1, <2>4, <3>1 DEF KidRight
  <2>5. CASE ~(k = p /\ s = trans) /\ ~(k = q /\ s = cis) /\ ~(k = g /\ s = d)
    <3>1. PICK c : c = Kid(t, k, s) /\ Kid(r, k, s) = c
      BY <1>8, <2>1, <2>5
    <3>2. c # p /\ c # q
      <4>1. ASSUME c = p PROVE FALSE
        <5>1. Up(t, p) = k
          BY <1>4, <2>1, <3>1, <4>1 DEF KidRight
        <5>2. k = g /\ g # 0
          BY <1>3, <2>1, <5>1
        <5> QED
          <6>1. IsKid(t, k, s, p) /\ IsKid(t, g, d, p)
            BY <1>4, <1>12, <3>1, <4>1, <5>2 DEF IsKid
          <6> QED
            BY <1>12, <2>5, <5>2, <6>1, OneParent
      <4>2. ASSUME c = q PROVE FALSE
        <5>1. k = p
          BY <1>4, <1>13, <2>1, <3>1, <4>2 DEF KidRight
        <5> QED
          <6>1. IsKid(t, k, s, q) /\ IsKid(t, p, trans, q)
            BY <1>1, <1>4, <3>1, <4>2 DEF IsKid
          <6> QED
            BY <1>5, <2>5, <5>1, <6>1, OneParent
      <4> QED
        BY <4>1, <4>2
    <3>3. c \in S \union {0} /\ c \in K0 /\ new[c] = sub[c]
      BY <1>5, <1>11, <2>1, <3>1, <3>2 DEF KidRight
    <3>4. c # 0 => Up(r, c) = k
      <4> SUFFICES ASSUME c # 0 PROVE Up(r, c) = k
        OBVIOUS
      <4>1. Up(t, c) = k
        BY <2>1, <3>1 DEF KidRight
      <4>2. c # i
        <5> SUFFICES ASSUME c = i PROVE FALSE
          OBVIOUS
        <5>1. k = q
          BY <1>13, <4>1
        <5> QED
          <6>1. IsKid(t, k, s, i) /\ IsKid(t, q, cis, i)
            BY <1>2, <3>1 DEF IsKid
          <6> QED
            BY <1>4, <1>5, <2>5, <5>1, <6>1, OneParent
      <4> QED
        BY <1>8, <3>2, <3>3, <4>1, <4>2
    <3> QED
      BY <2>1, <3>1, <3>3, <3>4 DEF KidRight
  <2> QED
    BY <2>2, <2>3, <2>4, <2>5
\* What is below
<1>18. ASSUME NEW k \in S PROVE Below(r, new, k)
  <2>1. Below(t, sub, k) /\ k \in K0 /\ k # 0
    BY <1>5 DEF Shape, NodeRight
  <2>2. CASE k = p
    <3>1. Kid(r, p, cis) = o /\ Kid(r, p, trans) = i
      BY <1>2, <1>4, <1>5, <1>8, <2>1, <2>2
    <3>2. new[o] = sub[o] /\ new[i] = sub[i]
      <4>1. o # p /\ o # q
        BY <1>1, <1>2, <1>4, <1>5, KidIn
      <4> QED
        BY <1>4, <1>5, <1>11, <1>13, <4>1
    <3> QED
      BY <1>1, <1>5, <1>11, <2>2, <3>1, <3>2 DEF Below
  <2>3. CASE k = q
    <3>1. Kid(r, q, cis) = p /\ Kid(r, q, trans) = f
      BY <1>2, <1>4, <1>5, <1>8, <2>1, <2>3
    <3>2. new[f] = sub[f]
      <4>1. f # q /\ f # p
        <5>1. f # 0 => f \in sub[f] /\ sub[f] \subseteq sub[q] /\ q \notin sub[f]
          BY <1>2, <1>4, <1>5, KidIn, NodeIs
        <5>2. p \notin sub[q]
          BY <1>1, <1>4, <1>5, KidIn
        <5> QED
          BY <1>4, <1>5, <5>1, <5>2
      <4> QED
        BY <1>5, <1>11, <1>13, <4>1
    <3>3. new[q] = {q} \union new[p] \union new[f]
      BY <1>10, <1>11, <3>2
    <3> QED
      BY <1>1, <1>5, <2>3, <3>1, <3>3 DEF Below
  <2>4. CASE k # p /\ k # q
    <3>1. new[k] = sub[k]
      BY <1>11, <2>1, <2>4
    <3>2. ASSUME NEW s \in Sides PROVE new[Kid(r, k, s)] = sub[Kid(t, k, s)]
      <4>1. CASE k = g /\ s = d
        <5>1. Kid(r, k, s) = q /\ Kid(t, k, s) = p
          BY <1>4, <1>5, <1>8, <1>12, <2>1, <4>1
        <5> QED
          BY <1>11, <5>1
      <4>2. CASE ~(k = g /\ s = d)
        <5>1. Kid(r, k, s) = Kid(t, k, s)
          BY <1>8, <2>1, <2>4, <4>2
        <5>2. PICK c : c = Kid(t, k, s) /\ c \in S \union {0} /\ (c # 0 => Up(t, c) = k)
          BY DEF Shape, NodeRight, KidRight
        <5>3. c # q
          BY <1>4, <1>13, <2>4, <5>2
        <5>4. c # p
          BY <1>3, <1>4, <1>12, <2>1, <4>2, <5>2, KidIn
        <5> QED
          BY <1>5, <1>11, <5>1, <5>2, <5>3, <5>4
      <4> QED
        BY <4>1, <4>2
    <3> QED
      BY <2>1, <3>1, <3>2, SidesAre DEF Below
  <2> QED
    BY <2>2, <2>3, <2>4
<1>19. \A k \in S : NodeRight(r, S, new, k)
  BY <1>16, <1>17, <1>18 DEF NodeRight
<1> QED
  BY <1>5, <1>6, <1>7, <1>8, <1>9, <1>11, <1>14, <1>15, <1>19 DEF Shape

Size(sub, k) == Cardinality(sub[k])

\* There are finitely many nodes below a node, and none below NULL.
LEMMA Sizes ==
  ASSUME NEW t, NEW S, NEW sub, Shape(t, S, sub)
  PROVE  /\ IsFiniteSet(S) /\ Cardinality(S) \in Nat /\ Cardinality(S) <= Cardinality(Keys)
         /\ Cardinality(Keys) \in Nat
         /\ \A k \in S \union {0} : IsFiniteSet(sub[k]) /\ Size(sub, k) \in Nat /\ Size(sub, k) <= Cardinality(S)
         /\ \A k \in S : Size(sub, k) > 0
         /\ Size(sub, 0) = 0
<1>1. S \subseteq Keys /\ SubType(S, sub) /\ IsFiniteSet(Keys)
  BY DEF Shape
<1>2. IsFiniteSet(S) /\ Cardinality(S) <= Cardinality(Keys)
  BY <1>1, FS_Subset
<1>3. Cardinality(S) \in Nat /\ Cardinality(Keys) \in Nat
  BY <1>1, <1>2, FS_CardinalityType
<1>4. ASSUME NEW k \in S \union {0}
      PROVE  IsFiniteSet(sub[k]) /\ Size(sub, k) \in Nat /\ Size(sub, k) <= Cardinality(S)
  <2>1. sub[k] \subseteq S
    BY <1>1 DEF SubType, K0
  <2>2. IsFiniteSet(sub[k]) /\ Cardinality(sub[k]) <= Cardinality(S)
    BY <1>2, <2>1, FS_Subset
  <2>3. Cardinality(sub[k]) \in Nat
    BY <2>2, FS_CardinalityType
  <2> QED
    BY <2>2, <2>3 DEF Size
<1>5. ASSUME NEW k \in S PROVE Size(sub, k) > 0
  <2>1. k \in sub[k] /\ IsFiniteSet(sub[k]) /\ Size(sub, k) \in Nat
    BY <1>4, NodeIs
  <2>2. Cardinality(sub[k]) # 0
    BY <2>1, FS_EmptySet
  <2> QED
    BY <2>1, <2>2 DEF Size
<1>6. Size(sub, 0) = 0
  BY <1>1, FS_EmptySet DEF SubType, Size
<1> QED
  BY <1>2, <1>3, <1>4, <1>5, <1>6

\* A child has less below it.
LEMMA KidSmaller ==
  ASSUME NEW t, NEW S, NEW sub, Shape(t, S, sub), NEW k \in S, NEW s \in Sides
  PROVE  Size(sub, Kid(t, k, s)) < Size(sub, k)
<1> PICK c : c = Kid(t, k, s)
  OBVIOUS
<1>1. CASE c = 0
  BY <1>1, Sizes
<1>2. CASE c # 0
  <2>1. c \in S /\ sub[c] \subseteq sub[k] /\ k \notin sub[c]
    BY <1>2, KidIn
  <2>2. IsFiniteSet(sub[k]) /\ k \in sub[k] /\ Size(sub, k) \in Nat /\ Size(sub, c) \in Nat
    BY <2>1, Sizes, NodeIs
  <2>3. PICK rest : rest = sub[k] \ {k} /\ sub[c] \subseteq rest
    BY <2>1
  <2>4. IsFiniteSet(rest) /\ Cardinality(rest) = Cardinality(sub[k]) - 1
    BY <2>2, <2>3, FS_RemoveElement
  <2>5. Cardinality(sub[c]) <= Cardinality(rest)
    BY <2>3, <2>4, FS_Subset
  <2> QED
    BY <2>2, <2>4, <2>5 DEF Size
<1> QED
  BY <1>1, <1>2

\* What is below a node that is below another
LEMMA Nested ==
  ASSUME NEW t, NEW S, NEW sub, Shape(t, S, sub), NEW a \in S, NEW x \in sub[a]
  PROVE  /\ x \in S /\ sub[x] \subseteq sub[a]
         /\ x # a => Up(t, x) \in S /\ Up(t, x) \in sub[a]
<1> DEFINE HoldsAt(b) == \A y \in sub[b] : sub[y] \subseteq sub[b] /\ (y # b => Up(t, y) \in sub[b])
           Good == {n \in Nat : \A b \in S : Size(sub, b) <= n => HoldsAt(b)}
<1>1. 0 \in Good
  <2>1. \A b \in S : Size(sub, b) \in Nat /\ Size(sub, b) > 0
    BY Sizes
  <2> QED
    BY <2>1
<1>2. ASSUME NEW n \in Nat, n \in Good, NEW b \in S, Size(sub, b) <= n + 1 PROVE HoldsAt(b)
  <2> SUFFICES ASSUME NEW y \in sub[b], y # b
               PROVE  sub[y] \subseteq sub[b] /\ Up(t, y) \in sub[b]
    OBVIOUS
  <2>1. Below(t, sub, b) /\ sub[0] = {}
    BY DEF Shape, NodeRight, SubType
  <2>2. \E s \in Sides : y \in sub[Kid(t, b, s)]
    <3>1. "left" \in Sides /\ Other("left") \in Sides
      BY DEF Sides, Other
    <3> QED
      BY <2>1, <3>1 DEF Below
  <2>3. PICK s \in Sides : y \in sub[Kid(t, b, s)]
    BY <2>2
  <2>4. PICK c : c = Kid(t, b, s)
    OBVIOUS
  <2>5. c # 0 /\ y \in sub[c]
    BY <2>1, <2>3, <2>4
  <2>6. c \in S /\ sub[c] \subseteq sub[b] /\ Up(t, c) = b
    BY <2>4, <2>5, KidIn
  <2>7. Size(sub, c) <= n
    <3>1. Size(sub, c) < Size(sub, b)
      BY <2>4, KidSmaller
    <3>2. Size(sub, c) \in Nat /\ Size(sub, b) \in Nat
      BY <2>6, Sizes
    <3> QED
      BY <1>2, <3>1, <3>2
  <2>8. HoldsAt(c)
    BY <1>2, <2>6, <2>7
  <2>9. b \in sub[b]
    BY NodeIs
  <2> QED
    BY <2>5, <2>6, <2>8, <2>9
<1> HIDE DEF HoldsAt
<1>3. \A n \in Nat : n \in Good => n + 1 \in Good
  BY <1>2
<1>4. PICK m \in Nat : m = Size(sub, a)
  BY Sizes
<1>5. m \in Good
  <2> HIDE DEF Good
  <2>1. \A k \in 0..(m - 1) : k \in Good => k + 1 \in Good
    BY <1>3
  <2> QED
    BY <1>1, <2>1, UpTo
<1>6. HoldsAt(a)
  BY <1>4, <1>5
<1>7. sub[a] \subseteq S
  BY NodeIs
<1> QED
  BY <1>6, <1>7 DEF HoldsAt

\* On which side a key is
LEMMA SideBelow ==
  ASSUME NEW t, NEW S, NEW sub, Shape(t, S, sub), NEW a \in S, NEW x \in sub[a], NEW s \in Sides
  PROVE  /\ x # a => x \in sub[Kid(t, a, s)] \/ x \in sub[Kid(t, a, Other(s))]
         /\ Before(s, x, a) <=> x \in sub[Kid(t, a, s)]
<1>1. NodeRight(t, S, sub, a) /\ Other(s) \in Sides
  BY SidesAre DEF Shape
<1>2. sub[a] = {a} \union sub[Kid(t, a, s)] \union sub[Kid(t, a, Other(s))]
  BY <1>1 DEF NodeRight, Below
<1>3. /\ \A y \in sub[Kid(t, a, s)] : Before(s, y, a)
      /\ \A y \in sub[Kid(t, a, Other(s))] : Before(Other(s), y, a)
  BY <1>1 DEF NodeRight, KidRight
<1>4. x \in Keys /\ a \in Keys
  <2>1. S \subseteq Keys
    BY DEF Shape
  <2>2. sub[a] \subseteq S
    BY NodeIs
  <2> QED
    BY <2>1, <2>2
<1>5. ~Before(s, a, a) /\ ~(Before(s, x, a) /\ Before(Other(s), x, a))
  BY <1>4, Order
<1> QED
  BY <1>2, <1>3, <1>5

-----------------------------------------------------------------------------
\* The loops: a function of the number of rounds exists when each round keeps
\* to a set of states.
IsRun(f, N, X, x, step) ==
    f \in [0..N -> X] /\ f[0] = x /\ \A n \in 1..N : f[n] = step[f[n - 1]]

\* A step can be repeated any number of times.
LEMMA Iterates ==
  ASSUME NEW N \in Nat, NEW X, NEW x \in X, NEW step \in [X -> X]
  PROVE  \E f : IsRun(f, N, X, x, step)
<1> DEFINE each == [z \in Nat \X X |-> step[z[2]]]
<1>1. each \in [Nat \X X -> X]
  OBVIOUS
<1>2. \E f : IsLoop(f, N, X, x, each)
  <2> HIDE DEF each
  <2> QED
    BY <1>1, LoopsExist
<1>3. PICK f : IsLoop(f, N, X, x, each)
  BY <1>2
<1>4. f \in [0..N -> X] /\ f[0] = x /\ \A n \in 1..N : f[n] = each[<<n, f[n - 1]>>]
  <2> HIDE DEF each
  <2> QED
    BY <1>3 DEF IsLoop
<1>5. ASSUME NEW n \in 1..N PROVE f[n] = step[f[n - 1]]
  <2>1. n - 1 \in 0..N /\ n \in Nat
    OBVIOUS
  <2>2. <<n, f[n - 1]>> \in Nat \X X
    BY <1>4, <2>1
  <2>3. each[<<n, f[n - 1]>>] = step[f[n - 1]]
    BY <2>2
  <2> HIDE DEF each
  <2> QED
    BY <1>4, <2>3
<1> QED
  BY <1>4, <1>5 DEF IsRun

\* There are more rounds than keys.
LEMMA RoundsAre ==
  /\ LastRound \in Nat /\ Rounds = 0..LastRound /\ LastRound > Cardinality(Keys) /\ Cardinality(Keys) \in Nat
  /\ Cardinality(Keys) >= 0
<1>1. Cardinality(Keys) \in Nat
  BY FS_CardinalityType
<1>2. PICK c : c = Cardinality(Keys) /\ c \in Nat
  BY <1>1
<1>3. LastRound = 2 * c + 2 /\ Rounds = 0 .. 2 * c + 2
  BY <1>2 DEF LastRound, Rounds
<1>4. 2 * c + 2 \in Nat /\ 2 * c + 2 > c /\ c >= 0
  BY <1>2
<1> QED
  BY <1>2, <1>3, <1>4

Loops(f, X, x, step) ==
    /\ \A n \in Rounds : f[n] \in X
    /\ f = [n \in Rounds |-> IF n = 0 THEN x ELSE step[f[n - 1]]]

\* A loop whose step stays in a set is a function of its rounds.
LEMMA LoopExists ==
  ASSUME NEW X, NEW x \in X, NEW step \in [X -> X]
  PROVE  \E f : Loops(f, X, x, step)
<1>1. \E f : IsRun(f, LastRound, X, x, step)
  BY RoundsAre, Iterates
<1>2. PICK f : IsRun(f, LastRound, X, x, step)
  BY <1>1
<1>3. f \in [0..LastRound -> X] /\ f[0] = x /\ \A n \in 1..LastRound : f[n] = step[f[n - 1]]
  BY <1>2 DEF IsRun
<1>4. ASSUME NEW n \in 0..LastRound PROVE f[n] = IF n = 0 THEN x ELSE step[f[n - 1]]
  <2>1. n # 0 => n \in 1..LastRound
    BY RoundsAre
  <2> QED
    BY <1>3, <2>1
<1>5. f = [n \in 0..LastRound |-> f[n]]
  BY <1>3
<1>6. f = [n \in 0..LastRound |-> IF n = 0 THEN x ELSE step[f[n - 1]]]
  BY <1>4, <1>5
<1> QED
  BY <1>3, <1>6, RoundsAre DEF Loops

-----------------------------------------------------------------------------
\* tree_find()
FindStep(t, key, x) ==
    IF x \in {0, key} THEN x ELSE IF key < x THEN t.node[x].left ELSE t.node[x].right

FindWalk(t, key, f) == f = [n \in Rounds |-> IF n = 0 THEN t.root ELSE FindStep(t, key, f[n - 1])]

\* tree_find() is the repetition of FindStep.
LEMMA FindWalks ==
  ASSUME NEW t, NEW key
  PROVE  Find(t, key) = (CHOOSE f : FindWalk(t, key, f))[LastRound]
BY DEF Find, FindWalk, FindStep

\* Where a search goes on
Toward(key, x) == IF key < x THEN "left" ELSE "right"

\* A search goes to the side the key is on.
LEMMA TowardIs ==
  ASSUME NEW key \in Keys, NEW x \in Keys, x # key
  PROVE  Toward(key, x) \in Sides /\ Before(Toward(key, x), key, x)
<1>1. key \in Int /\ x \in Int
  OBVIOUS
<1> QED
  BY <1>1 DEF Toward, Sides, Before

\* A step of tree_find() goes down, and to where the key is.
LEMMA FindStepIs ==
  ASSUME NEW t, NEW S, NEW sub, Shape(t, S, sub), NEW key \in Keys, NEW x \in S \union {0}, x \notin {0, key}
  PROVE  /\ FindStep(t, key, x) = Kid(t, x, Toward(key, x))
         /\ FindStep(t, key, x) \in S \union {0}
         /\ key \in sub[x] => key \in sub[FindStep(t, key, x)]
         /\ Size(sub, FindStep(t, key, x)) < Size(sub, x)
<1>1. x \in S /\ x \in Keys
  BY DEF Shape
<1>2. PICK s : s = Toward(key, x)
  OBVIOUS
<1>3. s \in Sides /\ Before(s, key, x)
  BY <1>1, <1>2, TowardIs
<1>4. FindStep(t, key, x) = Kid(t, x, s)
  BY <1>2 DEF FindStep, Toward, Kid
<1>5. Kid(t, x, s) \in S \union {0}
  BY <1>1, <1>3 DEF Shape, NodeRight, KidRight
<1>6. key \in sub[x] => key \in sub[Kid(t, x, s)]
  BY <1>1, <1>3, SideBelow
<1>7. Size(sub, Kid(t, x, s)) < Size(sub, x)
  BY <1>1, <1>3, KidSmaller
<1> QED
  BY <1>2, <1>4, <1>5, <1>6, <1>7

\* tree_find() returns the node of a key in the tree, and NULL for others.
LEMMA FindIs ==
  ASSUME NEW t, NEW S, NEW sub, Shape(t, S, sub), NEW key \in Keys
  PROVE  Find(t, key) = IF key \in S THEN key ELSE 0
<1> DEFINE X == S \union {0}
           step == [x \in X |-> FindStep(t, key, x)]
<1>1. /\ t.root \in X /\ sub[t.root] = S /\ S \subseteq Keys /\ sub[0] = {} /\ 0 \notin Keys
  BY DEF Shape, SubType
<1>2. step \in [X -> X]
  <2>1. ASSUME NEW x \in X PROVE FindStep(t, key, x) \in X
    <3>1. CASE x \in {0, key}
      BY <3>1 DEF FindStep
    <3>2. CASE x \notin {0, key}
      BY <3>2, FindStepIs
    <3> QED
      BY <3>1, <3>2
  <2> QED
    BY <2>1
<1>3. \E f : FindWalk(t, key, f)
  <2>1. PICK f : Loops(f, X, t.root, step)
    <3> HIDE DEF X, step
    <3> QED
      BY <1>1, <1>2, LoopExists
  <2>2. ASSUME NEW n \in Rounds, n # 0 PROVE step[f[n - 1]] = FindStep(t, key, f[n - 1])
    <3>1. n - 1 \in Rounds
      BY <2>2, RoundsAre
    <3> QED
      BY <2>1, <3>1 DEF Loops
  <2>3. f = [n \in Rounds |-> IF n = 0 THEN t.root ELSE step[f[n - 1]]]
    BY <2>1 DEF Loops
  <2>4. [n \in Rounds |-> IF n = 0 THEN t.root ELSE step[f[n - 1]]]
        = [n \in Rounds |-> IF n = 0 THEN t.root ELSE FindStep(t, key, f[n - 1])]
    <3> HIDE DEF step, X
    <3> QED
      BY <2>2
  <2> QED
    BY <2>3, <2>4 DEF FindWalk
<1>4. PICK f : FindWalk(t, key, f) /\ Find(t, key) = f[LastRound]
  BY <1>3, FindWalks
<1>5. \A n \in 0..LastRound : f[n] = IF n = 0 THEN t.root ELSE FindStep(t, key, f[n - 1])
  BY <1>4, RoundsAre DEF FindWalk
<1>6. PICK m : m = Cardinality(S) /\ m \in Nat /\ m <= Cardinality(Keys)
  BY Sizes
<1> DEFINE Good == {n \in 0..LastRound : /\ f[n] \in X /\ (key \in S => key \in sub[f[n]])
                                    /\ (f[n] \in {0, key} \/ Size(sub, f[n]) + n <= m)}
<1>7. 0 \in Good
  <2>1. 0 \in 0..LastRound /\ f[0] = t.root
    BY <1>5, RoundsAre
  <2>2. Size(sub, t.root) = m
    BY <1>1, <1>6 DEF Size
  <2> QED
    BY <1>1, <1>6, <2>1, <2>2
<1>8. ASSUME NEW n \in 0..(LastRound - 1), n \in Good PROVE n + 1 \in Good
  <2>1. n + 1 \in 0..LastRound /\ n + 1 # 0 /\ (n + 1) - 1 = n /\ n \in Nat
    BY RoundsAre
  <2>2. f[n + 1] = FindStep(t, key, f[n])
    BY <1>5, <2>1
  <2>3. CASE f[n] \in {0, key}
    <3>1. f[n + 1] = f[n]
      BY <2>2, <2>3 DEF FindStep
    <3> QED
      BY <1>8, <2>1, <2>3, <3>1
  <2>4. CASE f[n] \notin {0, key}
    <3>1. PICK x, y : x = f[n] /\ y = f[n + 1] /\ x \in X /\ (key \in S => key \in sub[x]) /\ Size(sub, x) + n <= m
      BY <1>8, <2>4
    <3>2. y \in X /\ (key \in sub[x] => key \in sub[y]) /\ Size(sub, y) < Size(sub, x)
      BY <2>2, <2>4, <3>1, FindStepIs
    <3>3. Size(sub, y) \in Nat /\ Size(sub, x) \in Nat
      BY <3>1, <3>2, Sizes
    <3>4. Size(sub, y) + (n + 1) <= m
      BY <1>6, <2>1, <3>1, <3>2, <3>3
    <3> QED
      BY <2>1, <3>1, <3>2, <3>4
  <2> QED
    BY <2>3, <2>4
<1>9. LastRound \in Good
  <2> HIDE DEF Good
  <2> PICK G : G = Good
    OBVIOUS
  <2>1. 0 \in G /\ \A n \in 0..(LastRound - 1) : n \in G => n + 1 \in G
    BY <1>7, <1>8
  <2>2. LastRound \in Nat /\ LastRound \in 0..LastRound
    BY RoundsAre
  <2>3. \A n \in 0..LastRound : n \in G
    BY <2>1, <2>2, UpTo
  <2> QED
    BY <2>2, <2>3
<1>10. f[LastRound] \in {0, key}
  <2>1. f[LastRound] \in X => Size(sub, f[LastRound]) \in Nat
    BY Sizes
  <2> QED
    BY <1>6, <1>9, <2>1, RoundsAre
<1> QED
  BY <1>1, <1>4, <1>9, <1>10

\* The descent of tree_add()
AboveStep(t, key, x) ==
    LET down == IF x = 0 THEN 0 ELSE IF key < x THEN t.node[x].left ELSE t.node[x].right
    IN  IF down = 0 THEN x ELSE down

AboveWalk(t, key, f) == f = [n \in Rounds |-> IF n = 0 THEN t.root ELSE AboveStep(t, key, f[n - 1])]

\* The way down in tree_add() is the repetition of AboveStep.
LEMMA AboveWalks ==
  ASSUME NEW t, NEW key
  PROVE  Above(t, key) = (CHOOSE f : AboveWalk(t, key, f))[LastRound]
BY DEF Above, AboveWalk, AboveStep

\* The key goes where x is, seen from the nodes above x.
Beside(S, sub, key, x) ==
    \A a \in S : x \in sub[a] /\ a # x => \A s \in Sides : Before(s, key, a) <=> Before(s, x, a)

\* It goes down while it can, and stays where the key belongs.
LEMMA AboveStepIs ==
  ASSUME NEW t, NEW S, NEW sub, Shape(t, S, sub), NEW key \in Keys \ S, NEW x \in S
  PROVE  LET y == AboveStep(t, key, x)
             c == Kid(t, x, Toward(key, x))
         IN  /\ y = x <=> c = 0
             /\ c # 0 => y = c /\ Size(sub, y) < Size(sub, x)
             /\ y \in S
             /\ Beside(S, sub, key, x) => Beside(S, sub, key, y)
<1>1. PICK s : s = Toward(key, x)
  OBVIOUS
<1>2. PICK c, y : c = Kid(t, x, s) /\ y = AboveStep(t, key, x)
  OBVIOUS
<1>3. x # 0 /\ x \in Keys /\ x # key
  BY NodeIs
<1>4. s \in Sides /\ Before(s, key, x)
  BY <1>1, <1>3, TowardIs
<1>5. y = IF c = 0 THEN x ELSE c
  BY <1>1, <1>2, <1>3 DEF AboveStep, Toward, Kid
<1>6. c # 0 => c \in S /\ c # x /\ Up(t, c) = x
  BY <1>2, <1>4, KidIn
<1>7. c # 0 => Size(sub, c) < Size(sub, x)
  BY <1>2, <1>4, KidSmaller
<1>8. ASSUME c # 0, Beside(S, sub, key, x), NEW a \in S, c \in sub[a], a # c, NEW d \in Sides
      PROVE  Before(d, key, a) <=> Before(d, c, a)
  <2>1. x \in sub[a] /\ c \in Keys /\ a \in Keys
    <3>1. Up(t, c) \in sub[a]
      BY <1>8, Nested
    <3>2. S \subseteq Keys
      BY DEF Shape
    <3> QED
      BY <1>6, <1>8, <3>1, <3>2
  <2>2. CASE a = x
    <3>1. c \in sub[c] /\ \A k \in sub[c] : Before(s, k, x)
      BY <1>2, <1>4, <1>6, <1>8, KidIn, NodeIs
    <3>2. Before(s, c, x)
      BY <3>1
    <3>3. d = s \/ d = Other(s)
      BY <1>4, SidesAre
    <3>4. ~Before(Other(s), c, x) /\ ~Before(Other(s), key, x)
      BY <1>3, <1>4, <2>1, <3>2, Order
    <3> QED
      BY <1>4, <2>2, <3>2, <3>3, <3>4
  <2>3. CASE a # x
    <3>1. Before(d, key, a) <=> Before(d, x, a)
      BY <1>8, <2>1, <2>3 DEF Beside
    <3>2. Before(d, x, a) <=> x \in sub[Kid(t, a, d)]
      BY <2>1, SideBelow
    <3>3. Before(d, c, a) <=> c \in sub[Kid(t, a, d)]
      BY <1>8, SideBelow
    <3>4. x \in sub[Kid(t, a, d)] => c \in sub[Kid(t, a, d)]
      <4> SUFFICES ASSUME x \in sub[Kid(t, a, d)] PROVE c \in sub[Kid(t, a, d)]
        OBVIOUS
      <4>1. PICK e : e = Kid(t, a, d) /\ x \in sub[e]
        OBVIOUS
      <4>2. e # 0
        BY <4>1 DEF Shape, SubType
      <4>3. e \in S
        BY <4>1, <4>2, KidIn
      <4>4. sub[x] \subseteq sub[e]
        BY <4>1, <4>3, Nested
      <4>5. c \in sub[x]
        <5>1. c \in sub[c] /\ sub[c] \subseteq sub[x]
          BY <1>2, <1>4, <1>6, <1>8, KidIn, NodeIs
        <5> QED
          BY <5>1
      <4> QED
        BY <4>1, <4>4, <4>5
    <3>5. ~Before(d, x, a) => ~Before(d, c, a)
      <4> SUFFICES ASSUME ~Before(d, x, a) PROVE ~Before(d, c, a)
        OBVIOUS
      <4>1. Before(Other(d), x, a)
        BY <1>3, <2>1, <2>3, Order
      <4>2. Other(d) \in Sides
        BY SidesAre
      <4>3. PICK e : e = Kid(t, a, Other(d)) /\ x \in sub[e]
        BY <2>1, <4>1, <4>2, SideBelow
      <4>4. e # 0
        BY <4>3 DEF Shape, SubType
      <4>5. e \in S
        BY <4>2, <4>3, <4>4, KidIn
      <4>6. sub[x] \subseteq sub[e]
        BY <4>3, <4>5, Nested
      <4>7. c \in sub[x]
        <5>1. c \in sub[c] /\ sub[c] \subseteq sub[x]
          BY <1>2, <1>4, <1>6, <1>8, KidIn, NodeIs
        <5> QED
          BY <5>1
      <4>8. Before(Other(d), c, a)
        BY <1>8, <4>2, <4>3, <4>6, <4>7, SideBelow
      <4> QED
        BY <2>1, <4>8, Order
    <3> QED
      BY <3>1, <3>2, <3>3, <3>4, <3>5
  <2> QED
    BY <2>2, <2>3
<1>9. Beside(S, sub, key, x) => Beside(S, sub, key, y)
  <2>1. CASE c = 0
    BY <1>5, <2>1
  <2>2. CASE c # 0
    BY <1>5, <1>8, <2>2 DEF Beside
  <2> QED
    BY <2>1, <2>2
<1> QED
  BY <1>1, <1>2, <1>5, <1>6, <1>7, <1>9

\* It ends at a node with room for the key, and none is between them.
LEMMA AboveIs ==
  ASSUME NEW t, NEW S, NEW sub, Shape(t, S, sub), NEW key \in Keys \ S, NEW p, p = Above(t, key)
  PROVE  /\ S = {} => p = 0
         /\ S # {} => p \in S /\ Kid(t, p, Toward(key, p)) = 0 /\ Beside(S, sub, key, p)
<1> DEFINE X == S \union {0}
           step == [x \in X |-> AboveStep(t, key, x)]
<1>1. /\ t.root \in X /\ sub[t.root] = S /\ S \subseteq Keys /\ sub[0] = {} /\ 0 \notin Keys
  BY DEF Shape, SubType
<1>2. AboveStep(t, key, 0) = 0
  BY DEF AboveStep
<1>3. step \in [X -> X]
  BY <1>2, AboveStepIs
<1>4. \E f : AboveWalk(t, key, f)
  <2>1. PICK f : Loops(f, X, t.root, step)
    <3> HIDE DEF X, step
    <3> QED
      BY <1>1, <1>3, LoopExists
  <2>2. ASSUME NEW n \in Rounds, n # 0 PROVE step[f[n - 1]] = AboveStep(t, key, f[n - 1])
    <3>1. n - 1 \in Rounds
      BY <2>2, RoundsAre
    <3> QED
      BY <2>1, <3>1 DEF Loops
  <2>3. f = [n \in Rounds |-> IF n = 0 THEN t.root ELSE step[f[n - 1]]]
    BY <2>1 DEF Loops
  <2>4. [n \in Rounds |-> IF n = 0 THEN t.root ELSE step[f[n - 1]]]
        = [n \in Rounds |-> IF n = 0 THEN t.root ELSE AboveStep(t, key, f[n - 1])]
    <3> HIDE DEF step, X
    <3> QED
      BY <2>2
  <2> QED
    BY <2>3, <2>4 DEF AboveWalk
<1>5. PICK f : AboveWalk(t, key, f) /\ p = f[LastRound]
  BY <1>4, AboveWalks
<1>6. \A n \in 0..LastRound : f[n] = IF n = 0 THEN t.root ELSE AboveStep(t, key, f[n - 1])
  BY <1>5, RoundsAre DEF AboveWalk
<1>7. PICK m : m = Cardinality(S) /\ m \in Nat /\ m <= Cardinality(Keys)
  BY Sizes
<1>8. CASE S = {}
  <2>1. t.root = 0
    BY <1>1, <1>8
  <2> DEFINE Good == {n \in 0..LastRound : f[n] = 0}
  <2>2. 0 \in Good
    BY <1>6, <2>1, RoundsAre
  <2>3. ASSUME NEW n \in 0..(LastRound - 1), n \in Good PROVE n + 1 \in Good
    <3>1. n + 1 \in 0..LastRound /\ n + 1 # 0 /\ (n + 1) - 1 = n
      BY RoundsAre
    <3> QED
      BY <1>2, <1>6, <2>3, <3>1
  <2>4. LastRound \in Good
    <3>1. \A n \in 0..(LastRound - 1) : n \in Good => n + 1 \in Good
      BY <2>3
    <3>2. LastRound \in Nat /\ LastRound \in 0..LastRound
      BY RoundsAre
    <3> HIDE DEF Good
    <3> QED
      BY <2>2, <3>1, <3>2, UpTo
  <2> QED
    BY <1>5, <1>8, <2>4
<1>9. CASE S # {}
  <2> DEFINE Ends(x) == Kid(t, x, Toward(key, x)) = 0
             Good == {n \in 0..LastRound : /\ f[n] \in S /\ Beside(S, sub, key, f[n])
                                           /\ (Ends(f[n]) \/ Size(sub, f[n]) + n <= m)}
  <2>1. 0 \in Good
    <3>1. 0 \in 0..LastRound /\ f[0] = t.root
      BY <1>6, RoundsAre
    <3>2. t.root \in S
      BY <1>1, <1>9
    <3>3. Size(sub, t.root) = m
      BY <1>1, <1>7 DEF Size
    <3>4. Beside(S, sub, key, t.root)
      <4> SUFFICES ASSUME NEW a \in S, t.root \in sub[a], a # t.root PROVE FALSE
        BY DEF Beside
      <4>1. Up(t, t.root) \in S
        BY Nested
      <4>2. Up(t, t.root) = 0
        BY <3>2, NodeIs
      <4> QED
        BY <1>1, <4>1, <4>2
    <3> QED
      BY <1>7, <3>1, <3>2, <3>3, <3>4
  <2>2. ASSUME NEW n \in 0..(LastRound - 1), n \in Good PROVE n + 1 \in Good
    <3>1. n + 1 \in 0..LastRound /\ n + 1 # 0 /\ (n + 1) - 1 = n /\ n \in Nat
      BY RoundsAre
    <3>2. PICK x, y : x = f[n] /\ y = f[n + 1]
      OBVIOUS
    <3>3. y = AboveStep(t, key, x) /\ x \in S /\ Beside(S, sub, key, x) /\ (Ends(x) \/ Size(sub, x) + n <= m)
      BY <1>6, <2>2, <3>1, <3>2
    <3>4. /\ y = x <=> Ends(x)
          /\ ~Ends(x) => Size(sub, y) < Size(sub, x)
          /\ y \in S
          /\ Beside(S, sub, key, y)
      BY <3>3, AboveStepIs
    <3>5. Size(sub, y) \in Nat /\ Size(sub, x) \in Nat
      BY <3>3, <3>4, Sizes
    <3>6. Ends(y) \/ Size(sub, y) + (n + 1) <= m
      <4> HIDE DEF Ends
      <4> QED
        BY <1>7, <3>1, <3>3, <3>4, <3>5
    <3> QED
      BY <3>1, <3>2, <3>4, <3>6
  <2>3. LastRound \in Good
    <3>1. \A n \in 0..(LastRound - 1) : n \in Good => n + 1 \in Good
      BY <2>2
    <3>2. LastRound \in Nat /\ LastRound \in 0..LastRound
      BY RoundsAre
    <3> HIDE DEF Good
    <3> QED
      BY <2>1, <3>1, <3>2, UpTo
  <2>4. p \in S /\ Beside(S, sub, key, p) /\ (Ends(p) \/ Size(sub, p) + LastRound <= m)
    BY <1>5, <2>3
  <2>5. Size(sub, p) \in Nat
    BY <2>4, Sizes
  <2>6. Ends(p)
    <3> HIDE DEF Ends
    <3> QED
      BY <1>7, <2>4, <2>5, RoundsAre
  <2> QED
    BY <1>9, <2>4, <2>6
<1> QED
  BY <1>8, <1>9

\* What tree_add() writes before it looks at colours: p is the new one's parent.
Hung(t, u, key, p) ==
    /\ u \in TreeT
    /\ u.root = IF p = 0 THEN key ELSE t.root
    /\ \A k \in K0 : \A s \in Sides :
         Kid(u, k, s) = IF k = key THEN 0
                        ELSE IF k = p /\ p # 0 /\ s = Toward(key, p) THEN key ELSE Kid(t, k, s)
    /\ \A k \in K0 : Up(u, k) = IF k = key THEN p ELSE Up(t, k)
    /\ \A k \in K0 : Hue(u, k) = IF k = key THEN TRUE ELSE Hue(t, k)

Rewritten(t, u, n, x) ==
    u \in TreeT /\ u.root = t.root /\ u.node[n] = x /\ \A k \in K0 : k # n => u.node[k] = t.node[k]

\* Writing a whole node changes no other.
LEMMA NodeSet ==
  ASSUME NEW t \in TreeT, NEW n \in K0, NEW x \in NodeT
  PROVE  Rewritten(t, [t EXCEPT !.node[n] = x], n, x)
BY DEF TreeT, NodeT, Rewritten

\* The links the new node is hung up with
LEMMA HangIs ==
  ASSUME NEW t \in TreeT, NEW key \in Keys, NEW p \in K0, p = Above(t, key), p # key, t.node[key] = Nil
  PROVE  Hung(t, Hang(t, key), key, p)
<1>1. PICK x : x = [Nil EXCEPT !.red = TRUE]
  OBVIOUS
<1>2. x \in NodeT /\ x = [left |-> 0, right |-> 0, parent |-> 0, red |-> TRUE]
  BY <1>1 DEF Nil, NodeT, K0
<1>3. PICK r : r = [t EXCEPT !.node[key] = x]
  OBVIOUS
<1>4. PICK d : d = Toward(key, p)
  OBVIOUS
<1>5. PICK u : u = Hang(t, key)
  OBVIOUS
<1>6. u = IF p = 0 THEN [r EXCEPT !.root = key] ELSE Attach(r, p, d, key)
  BY <1>1, <1>3, <1>4, <1>5 DEF Hang, Toward
<1>7. key \in K0 /\ 0 \in K0 /\ key # 0 /\ d \in Sides
  BY <1>4 DEF K0, Toward, Sides
<1>8. /\ r \in TreeT /\ r.root = t.root
      /\ r.node[key] = x
      /\ \A k \in K0 : k # key => r.node[k] = t.node[k]
  <2>1. Rewritten(t, r, key, x)
    BY <1>2, <1>3, <1>7, NodeSet
  <2> QED
    BY <2>1 DEF Rewritten
<1>9. /\ \A k \in K0 : \A s \in Sides : Kid(r, k, s) = IF k = key THEN 0 ELSE Kid(t, k, s)
      /\ \A k \in K0 : Up(r, k) = IF k = key THEN 0 ELSE Up(t, k)
      /\ \A k \in K0 : Hue(r, k) = IF k = key THEN TRUE ELSE Hue(t, k)
  <2>1. x.left = 0 /\ x.right = 0 /\ x.parent = 0 /\ x.red = TRUE
    BY <1>2
  <2>2. Kid(r, key, "left") = 0 /\ Kid(r, key, "right") = 0 /\ Up(r, key) = 0 /\ Hue(r, key) = TRUE
    BY <1>8, <2>1 DEF Kid, Up, Hue
  <2>3. \A k \in K0 : k # key => /\ \A s \in Sides : Kid(r, k, s) = Kid(t, k, s)
                                /\ Up(r, k) = Up(t, k) /\ Hue(r, k) = Hue(t, k)
    BY <1>8 DEF Kid, Up, Hue
  <2> QED
    BY <2>2, <2>3 DEF Sides
<1>10. CASE p = 0
  <2>1. u = [r EXCEPT !.root = key]
    BY <1>6, <1>10
  <2>2. /\ u \in TreeT /\ u.root = key
        /\ \A k \in K0 : \A s \in Sides : Kid(u, k, s) = Kid(r, k, s)
        /\ \A k \in K0 : Up(u, k) = Up(r, k)
        /\ \A k \in K0 : Hue(u, k) = Hue(r, k)
    BY <1>7, <1>8, <2>1, RootSet
  <2> QED
    BY <1>5, <1>9, <1>10, <2>2 DEF Hung
<1>11. CASE p # 0
  <2>1. Attached(r, u, p, d, key)
    BY <1>6, <1>7, <1>8, <1>11, AttachIs
  <2> QED
    BY <1>4, <1>5, <1>7, <1>8, <1>9, <1>11, <2>1 DEF Hung, Attached
<1> QED
  BY <1>10, <1>11

\* What is below each node with the new one
Wider(sub, key, p) ==
    [a \in K0 |-> IF a = key THEN {key} ELSE IF p \in sub[a] THEN sub[a] \union {key} ELSE sub[a]]

\* The new node makes a search tree with one key more.
LEMMA HangShape ==
  ASSUME NEW t, NEW S, NEW sub, Shape(t, S, sub), NEW key \in Keys \ S, NEW p, p = Above(t, key)
  PROVE  /\ Hung(t, Hang(t, key), key, p)
         /\ Shape(Hang(t, key), S \union {key}, Wider(sub, key, p))
         /\ p \in S \union {0}
         /\ p # 0 => Kid(t, p, Toward(key, p)) = 0 /\ Toward(key, p) \in Sides
<1>1. /\ t \in TreeT /\ S \subseteq Keys /\ SubType(S, sub) /\ S \subseteq K0 /\ 0 \in K0 /\ 0 \notin S
      /\ key \in K0 /\ key # 0 /\ t.node[key] = Nil
      /\ sub[t.root] = S /\ t.root \in S \union {0}
  BY DEF Shape, K0
<1>2. PICK d : d = Toward(key, p)
  OBVIOUS
<1>3. /\ S = {} => p = 0
      /\ S # {} => p \in S /\ Kid(t, p, d) = 0 /\ Beside(S, sub, key, p)
  BY <1>2, AboveIs
<1>4. p \in S \union {0} /\ p \in K0 /\ p # key
  BY <1>1, <1>3
<1>5. p # 0 => d \in Sides /\ Before(d, key, p)
  BY <1>1, <1>2, <1>4, TowardIs
<1>6. PICK u : u = Hang(t, key)
  OBVIOUS
<1>7. Hung(t, u, key, p)
  BY <1>1, <1>4, <1>6, HangIs
<1>8. /\ u \in TreeT
      /\ u.root = IF p = 0 THEN key ELSE t.root
      /\ \A k \in K0 : \A s \in Sides :
           Kid(u, k, s) = IF k = key THEN 0 ELSE IF k = p /\ p # 0 /\ s = d THEN key ELSE Kid(t, k, s)
      /\ \A k \in K0 : Up(u, k) = IF k = key THEN p ELSE Up(t, k)
      /\ \A k \in K0 : Hue(u, k) = IF k = key THEN TRUE ELSE Hue(t, k)
  BY <1>2, <1>7 DEF Hung
<1>9. PICK new : new = Wider(sub, key, p)
  OBVIOUS
<1>10. /\ new[key] = {key}
       /\ \A a \in K0 : a # key => new[a] = IF p \in sub[a] THEN sub[a] \union {key} ELSE sub[a]
       /\ new[0] = {}
       /\ SubType(S \union {key}, new)
  BY <1>1, <1>9 DEF Wider, SubType
<1>11. ASSUME NEW k \in K0 \ (S \union {key}) PROVE u.node[k] = Nil
  <2>1. t.node[k] = Nil /\ ~(k = p /\ p # 0)
    BY <1>4 DEF Shape
  <2>2. \A s \in Sides : Kid(t, k, s) = 0
    BY <2>1, NilIs
  <2>3. Up(t, k) = 0 /\ Hue(t, k) = FALSE
    BY <2>1, NilIs
  <2>4. \A s \in Sides : Kid(u, k, s) = 0
    BY <1>8, <2>1, <2>2
  <2>5. u.node[k] \in NodeT
    BY <1>8 DEF TreeT
  <2>6. u.node[k].left = 0 /\ u.node[k].right = 0
    BY <2>4 DEF Kid, Sides
  <2>7. u.node[k].parent = 0 /\ u.node[k].red = FALSE
    BY <1>8, <2>3 DEF Up, Hue
  <2> QED
    BY <2>5, <2>6, <2>7 DEF NodeT, Nil
<1>12. u.root \in (S \union {key}) \union {0} /\ new[u.root] = S \union {key}
  <2>1. CASE p = 0
    <3>1. S = {}
      BY <1>1, <1>3, <2>1
    <3> QED
      BY <1>8, <1>10, <2>1, <3>1
  <2>2. CASE p # 0
    <3>1. p \in sub[t.root] /\ t.root # key /\ t.root \in K0
      BY <1>1, <1>4, <2>2
    <3> QED
      BY <1>1, <1>8, <1>10, <2>2, <3>1
  <2> QED
    BY <2>1, <2>2
\* The new node
<1>13. NodeRight(u, S \union {key}, new, key)
  <2>1. \A s \in Sides : Kid(u, key, s) = 0
    BY <1>1, <1>8
  <2>2. \A s \in Sides : KidRight(u, S \union {key}, new, key, s)
    BY <1>10, <2>1 DEF KidRight
  <2>3. Below(u, new, key)
    BY <1>10, <2>1, SidesAre DEF Below
  <2>4. UpRight(u, S \union {key}, key)
    <3>1. Up(u, key) = p
      BY <1>1, <1>8
    <3>2. p # 0 => Kid(u, p, d) = key /\ d \in Sides /\ u.root # key
      BY <1>1, <1>4, <1>5, <1>8
    <3>3. p = 0 => u.root = key
      BY <1>8
    <3> QED
      BY <1>4, <3>1, <3>2, <3>3 DEF UpRight
  <2> QED
    BY <2>2, <2>3, <2>4 DEF NodeRight
\* The others
<1>14. ASSUME NEW k \in S PROVE NodeRight(u, S \union {key}, new, k)
  <2>1. NodeRight(t, S, sub, k) /\ k \in K0 /\ k # key /\ k # 0
    BY <1>1 DEF Shape
  <2>2. p \in S /\ p # 0 /\ Kid(t, p, d) = 0 /\ Beside(S, sub, key, p) /\ d \in Sides /\ Before(d, key, p)
    BY <1>1, <1>3, <1>5
  <2>3. ASSUME NEW s \in Sides PROVE KidRight(u, S \union {key}, new, k, s)
    <3>1. PICK c : c = Kid(t, k, s) /\ c \in S \union {0} /\ (c # 0 => Up(t, c) = k) /\ \A x \in sub[c] : Before(s, x, k)
      BY <2>1 DEF NodeRight, KidRight
    <3>2. CASE k = p /\ s = d
      <4>1. Kid(u, k, s) = key /\ Up(u, key) = k
        BY <1>1, <1>8, <2>1, <2>2, <3>2
      <4> QED
        BY <1>10, <2>2, <3>2, <4>1 DEF KidRight
    <3>3. CASE ~(k = p /\ s = d)
      <4>1. Kid(u, k, s) = c /\ c \in K0 /\ c # key
        BY <1>1, <1>8, <2>1, <2>2, <3>1, <3>3
      <4>2. Up(u, c) = Up(t, c)
        BY <1>8, <4>1
      <4>3. ASSUME NEW x \in new[c] PROVE Before(s, x, k)
        <5>1. CASE x \in sub[c]
          BY <3>1, <5>1
        <5>2. CASE x \notin sub[c]
          <6>1. x = key /\ p \in sub[c]
            BY <1>10, <4>1, <4>3, <5>2
          <6>2. c # 0
            BY <1>1, <6>1 DEF SubType
          <6>3. sub[c] \subseteq sub[k] /\ k \notin sub[c]
            BY <3>1, <6>2, KidIn
          <6>4. Before(s, p, k) /\ p \in sub[k] /\ k # p
            BY <3>1, <6>1, <6>3
          <6> QED
            BY <2>2, <6>1, <6>4 DEF Beside
        <5> QED
          BY <5>1, <5>2
      <4> QED
        BY <3>1, <4>1, <4>2, <4>3 DEF KidRight
    <3> QED
      BY <3>2, <3>3
  <2>4. UpRight(u, S \union {key}, k)
    <3>1. UpRight(t, S, k) /\ Up(u, k) = Up(t, k) /\ u.root = t.root
      BY <1>8, <2>1, <2>2 DEF NodeRight
    <3>2. ASSUME Up(t, k) # 0 PROVE \E s \in Sides : Kid(u, Up(t, k), s) = k
      <4>1. PICK h, s : h = Up(t, k) /\ s = SideOf(t, k)
        OBVIOUS
      <4>2. h \in S /\ s \in Sides /\ Kid(t, h, s) = k
        BY <3>2, <4>1, SideFound
      <4>3. Kid(u, h, s) = k
        BY <1>1, <1>8, <2>1, <2>2, <4>2
      <4> QED
        BY <4>1, <4>2, <4>3
    <3> QED
      BY <3>1, <3>2 DEF UpRight
  <2>5. Below(u, new, k)
    <3> SUFFICES ASSUME NEW s \in Sides
                 PROVE  new[k] = {k} \union new[Kid(u, k, s)] \union new[Kid(u, k, Other(s))]
      BY DEF Below
    <3>1. PICK a, b : a = Kid(t, k, s) /\ b = Kid(t, k, Other(s))
      OBVIOUS
    <3>2. sub[k] = {k} \union sub[a] \union sub[b] /\ Other(s) \in Sides
      BY <2>1, <3>1, SidesAre DEF NodeRight, Below
    <3>3. a \in S \union {0} /\ b \in S \union {0} /\ a \in K0 /\ b \in K0 /\ a # key /\ b # key
      BY <1>1, <2>1, <3>1, <3>2 DEF NodeRight, KidRight
    <3>4. CASE k # p
      <4>1. Kid(u, k, s) = a /\ Kid(u, k, Other(s)) = b
        BY <1>8, <2>1, <3>1, <3>2, <3>4
      <4>2. p \in sub[k] <=> p \in sub[a] \/ p \in sub[b]
        BY <3>2, <3>4
      <4>3. new[k] = IF p \in sub[k] THEN sub[k] \union {key} ELSE sub[k]
        BY <1>10, <2>1
      <4>4. new[a] = IF p \in sub[a] THEN sub[a] \union {key} ELSE sub[a]
        BY <1>10, <3>3
      <4>5. new[b] = IF p \in sub[b] THEN sub[b] \union {key} ELSE sub[b]
        BY <1>10, <3>3
      <4> QED
        BY <3>2, <4>1, <4>2, <4>3, <4>4, <4>5
    <3>5. CASE k = p
      <4>1. p \notin sub[a] /\ p \notin sub[b]
        <5>1. a # 0 => p \notin sub[a]
          BY <3>1, <3>5, KidIn
        <5>2. b # 0 => p \notin sub[b]
          BY <3>1, <3>2, <3>5, KidIn
        <5> QED
          BY <1>1, <5>1, <5>2 DEF SubType
      <4>2. p \in sub[p]
        BY <2>2, NodeIs
      <4>3. new[k] = sub[k] \union {key} /\ new[a] = sub[a] /\ new[b] = sub[b]
        BY <1>10, <2>1, <3>3, <3>5, <4>1, <4>2
      <4>4. s = d \/ Other(s) = d
        BY <2>2, SidesAre
      <4>5. CASE s = d
        <5>1. Kid(u, k, s) = key /\ Kid(u, k, Other(s)) = b /\ sub[a] = {}
          BY <1>1, <1>8, <2>1, <2>2, <3>1, <3>2, <3>5, <4>5, SidesAre DEF SubType
        <5> QED
          BY <1>10, <3>2, <4>3, <5>1
      <4>6. CASE Other(s) = d
        <5>1. Kid(u, k, s) = a /\ Kid(u, k, Other(s)) = key /\ sub[b] = {}
          BY <1>1, <1>8, <2>1, <2>2, <3>1, <3>2, <3>5, <4>6, SidesAre DEF SubType
        <5> QED
          BY <1>10, <3>2, <4>3, <5>1
      <4> QED
        BY <4>4, <4>5, <4>6
    <3> QED
      BY <3>4, <3>5
  <2> QED
    BY <2>3, <2>4, <2>5 DEF NodeRight
<1>15. Shape(u, S \union {key}, new)
  BY <1>1, <1>8, <1>10, <1>11, <1>12, <1>13, <1>14 DEF Shape
<1> QED
  BY <1>2, <1>3, <1>4, <1>5, <1>6, <1>7, <1>9, <1>15

-----------------------------------------------------------------------------
\* Colours: bh is the number of black nodes on a path down, the node's own
\* included.  One path may lack one: the one on the side d of p.
Weight(t, k) == IF Hue(t, k) THEN 0 ELSE 1
Lack(k, s, p, d) == IF k = p /\ s = d THEN 1 ELSE 0
Heights(bh) == bh \in [K0 -> Nat] /\ bh[0] = 0

EvenAt(t, bh, k, p, d) ==
    \A s \in Sides : bh[k] = bh[Kid(t, k, s)] + Weight(t, k) + Lack(k, s, p, d)

Even(t, S, bh, p, d) == Heights(bh) /\ \A k \in S : EvenAt(t, bh, k, p, d)

Clash(t, k) == Hue(t, k) /\ Hue(t, Up(t, k))

\* Heights are counted in naturals.
LEMMA WeightIs ==
  \A t, k, s, p, d : Weight(t, k) \in Nat /\ Lack(k, s, p, d) \in Nat
BY DEF Weight, Lack

\* The nodes around a rotation
Swung(t, r, S, p, q, cis) ==
    /\ q \in S /\ q # p /\ p # 0 /\ q # 0
    /\ Kid(r, p, cis) = Kid(t, p, cis) /\ Kid(r, p, Other(cis)) = Kid(t, q, cis)
    /\ Kid(r, q, cis) = p /\ Kid(r, q, Other(cis)) = Kid(t, q, Other(cis))
    /\ Up(r, p) = q /\ Up(r, q) = Up(t, p)
    /\ Kid(t, q, cis) # 0 => Up(r, Kid(t, q, cis)) = p
    /\ \A k \in K0 : k \notin {p, q} /\ (k = 0 \/ k # Kid(t, q, cis)) => Up(r, k) = Up(t, k)
    /\ \A k \in K0 : Hue(r, k) = Hue(t, k)
    /\ \A k \in K0 \ {p, q} : \A s \in Sides :
         Kid(r, k, s) = IF k # 0 /\ k = Up(t, p) /\ s = SideOf(t, p) THEN q ELSE Kid(t, k, s)
    /\ r.root = IF Up(t, p) = 0 THEN q ELSE t.root

\* Who is whose child after a rotation, and in which colour
LEMMA RotateParts ==
  ASSUME NEW t, NEW S, NEW sub, Shape(t, S, sub), NEW p \in S, NEW cis \in Sides,
         Kid(t, p, Other(cis)) # 0
  PROVE  Swung(t, Rotate(t, p, cis), S, p, Kid(t, p, Other(cis)), cis)
<1>0. PICK q, r : q = Kid(t, p, Other(cis)) /\ r = Rotate(t, p, cis)
  OBVIOUS
<1>1. Rotated(t, r, p, cis)
  BY <1>0, RotateShape
<1>2. PICK i, g, d, trans : i = Kid(t, q, cis) /\ g = Up(t, p) /\ d = SideOf(t, p) /\ trans = Other(cis)
  OBVIOUS
<1>3. /\ q \in S /\ i \in S \union {0} /\ g \in S \union {0}
      /\ p # 0 /\ p # q /\ g # p /\ g # q /\ i # p /\ i # q
      /\ i # 0 => i # g
  BY <1>0, <1>2, TurnParts
<1>4. /\ trans \in Sides /\ trans # cis /\ S \subseteq K0 /\ 0 \in K0
  BY <1>2, SidesAre, NodeIs DEF K0
<1>5. /\ r.root = IF g = 0 THEN q ELSE t.root
      /\ \A k \in K0 : Hue(r, k) = Hue(t, k)
      /\ \A k \in K0 : Up(r, k) = IF k = i /\ i # 0 THEN p ELSE IF k = p THEN q
                                  ELSE IF k = q THEN g ELSE Up(t, k)
      /\ \A k \in K0 : \A s \in Sides :
           Kid(r, k, s) = IF k = p /\ s = trans THEN i ELSE IF k = q /\ s = cis THEN p
                          ELSE IF k = g /\ g # 0 /\ s = d THEN q ELSE Kid(t, k, s)
  BY <1>0, <1>1, <1>2 DEF Rotated
<1>6. i # 0 => Up(t, i) = q
  BY <1>2, <1>3, KidIn
<1>7. Kid(r, p, cis) = Kid(t, p, cis) /\ Kid(r, p, trans) = i /\ Kid(r, q, cis) = p /\ Kid(r, q, trans) = Kid(t, q, trans)
  BY <1>3, <1>4, <1>5
<1>8. Up(r, p) = q /\ Up(r, q) = g /\ (i # 0 => Up(r, i) = p)
  BY <1>3, <1>4, <1>5
<1>9. \A k \in K0 : k \notin {p, q} /\ (k = 0 \/ k # i) => Up(r, k) = Up(t, k)
  BY <1>3, <1>4, <1>5
<1>11. \A k \in K0 \ {p, q} : \A s \in Sides :
              Kid(r, k, s) = IF k # 0 /\ k = g /\ s = d THEN q ELSE Kid(t, k, s)
  BY <1>3, <1>4, <1>5
<1> QED
  BY <1>0, <1>2, <1>3, <1>5, <1>7, <1>8, <1>9, <1>11 DEF Swung

\* A rotation where the two nodes' colours and heights fit
Fits(t, S, bh, p, q, cis, w, P, D) ==
    /\ Heights(bh) /\ w \in Nat
    /\ \A k \in S \ {p, q} : EvenAt(t, bh, k, P, D)
    /\ w = bh[Kid(t, p, cis)] + Weight(t, p) + Lack(p, cis, P, D)
    /\ w = bh[Kid(t, q, cis)] + Weight(t, p) + Lack(p, Other(cis), P, D)
    /\ bh[p] = w + Weight(t, q) + Lack(q, cis, P, D)
    /\ bh[p] = bh[Kid(t, q, Other(cis))] + Weight(t, q) + Lack(q, Other(cis), P, D)

\* A rotation keeps the paths even if the heights of its three subtrees fit.
LEMMA RotateEven ==
  ASSUME NEW t, NEW S, NEW sub, Shape(t, S, sub), NEW p \in S, NEW cis \in Sides,
         Kid(t, p, Other(cis)) # 0,
         NEW bh, NEW w, NEW P, NEW D, Fits(t, S, bh, p, Kid(t, p, Other(cis)), cis, w, P, D)
  PROVE  \E new : Even(Rotate(t, p, cis), S, new, P, D)
<1>01. PICK q, r : q = Kid(t, p, Other(cis)) /\ r = Rotate(t, p, cis)
  OBVIOUS
<1>02. /\ Heights(bh) /\ w \in Nat
       /\ \A k \in S \ {p, q} : EvenAt(t, bh, k, P, D)
       /\ w = bh[Kid(t, p, cis)] + Weight(t, p) + Lack(p, cis, P, D)
       /\ w = bh[Kid(t, q, cis)] + Weight(t, p) + Lack(p, Other(cis), P, D)
       /\ bh[p] = w + Weight(t, q) + Lack(q, cis, P, D)
       /\ bh[p] = bh[Kid(t, q, Other(cis))] + Weight(t, q) + Lack(q, Other(cis), P, D)
  BY <1>01 DEF Fits
<1>03. Swung(t, r, S, p, q, cis)
  BY <1>01, RotateParts
<1>1. PICK trans : trans = Other(cis)
  OBVIOUS
<1>2. /\ trans \in Sides /\ trans # cis /\ S \subseteq K0 /\ 0 \in K0 /\ \A s \in Sides : s = cis \/ s = trans
      /\ 0 \notin S
  BY <1>1, SidesAre, NodeIs DEF K0
<1>3. PICK o, i, f : o = Kid(t, p, cis) /\ i = Kid(t, q, cis) /\ f = Kid(t, q, trans)
  OBVIOUS
<1>4. /\ q \in S /\ q # p /\ p # 0
      /\ Kid(r, p, cis) = o /\ Kid(r, p, trans) = i
      /\ Kid(r, q, cis) = p /\ Kid(r, q, trans) = f
  BY <1>1, <1>3, <1>03 DEF Swung
<1>5. /\ \A k \in K0 : Hue(r, k) = Hue(t, k)
      /\ \A k \in K0 \ {p, q} : \A s \in Sides :
              Kid(r, k, s) = IF k # 0 /\ k = Up(t, p) /\ s = SideOf(t, p) THEN q ELSE Kid(t, k, s)
  BY <1>03 DEF Swung
<1>6. \A k \in K0 : Weight(r, k) = Weight(t, k)
  BY <1>5 DEF Weight
<1>7. PICK new : new = [bh EXCEPT ![q] = bh[p], ![p] = w]
  OBVIOUS
<1>8. /\ Heights(new) /\ new[q] = bh[p] /\ new[p] = w
      /\ \A k \in K0 : k # p /\ k # q => new[k] = bh[k]
  BY <1>2, <1>4, <1>7, <1>02 DEF Heights
<1>9. /\ o \in K0 /\ i \in K0 /\ f \in K0
      /\ o # p /\ o # q /\ i # p /\ i # q /\ f # p /\ f # q
  <2>1. o \in S \union {0} /\ i \in S \union {0} /\ f \in S \union {0}
    BY <1>2, <1>3, <1>4 DEF Shape, NodeRight, KidRight
  <2>2. o # p /\ o # q
    BY <1>01, <1>1, <1>2, <1>3, <1>4, KidIn
  <2>3. i # q /\ f # q
    BY <1>2, <1>3, <1>4, KidIn
  <2>4. i # p /\ f # p
    <3>1. p \notin sub[q]
      BY <1>01, <1>1, <1>2, <1>4, KidIn
    <3>2. i # 0 => i \in sub[q]
      BY <1>2, <1>3, <1>4, KidIn, NodeIs
    <3>3. f # 0 => f \in sub[q]
      BY <1>2, <1>3, <1>4, KidIn, NodeIs
    <3> QED
      BY <1>4, <3>1, <3>2, <3>3
  <2> QED
    BY <1>2, <2>1, <2>2, <2>3, <2>4
<1>10. EvenAt(r, new, p, P, D)
  <2>1. new[p] = new[o] + Weight(r, p) + Lack(p, cis, P, D)
    BY <1>02, <1>2, <1>3, <1>6, <1>8, <1>9
  <2>2. new[p] = new[i] + Weight(r, p) + Lack(p, trans, P, D)
    BY <1>02, <1>1, <1>2, <1>3, <1>6, <1>8, <1>9
  <2> QED
    BY <1>2, <1>4, <2>1, <2>2 DEF EvenAt
<1>11. EvenAt(r, new, q, P, D)
  <2>1. new[q] = new[p] + Weight(r, q) + Lack(q, cis, P, D)
    BY <1>02, <1>2, <1>4, <1>6, <1>8
  <2>2. new[q] = new[f] + Weight(r, q) + Lack(q, trans, P, D)
    BY <1>02, <1>1, <1>2, <1>3, <1>4, <1>6, <1>8, <1>9
  <2> QED
    BY <1>2, <1>4, <2>1, <2>2 DEF EvenAt
<1>12. ASSUME NEW k \in S, k # p, k # q PROVE EvenAt(r, new, k, P, D)
  <2>1. EvenAt(t, bh, k, P, D) /\ k \in K0 /\ k # 0
    BY <1>02, <1>2, <1>12
  <2>2. ASSUME NEW s \in Sides PROVE new[Kid(r, k, s)] = bh[Kid(t, k, s)]
    <3>1. CASE k = Up(t, p) /\ s = SideOf(t, p)
      <4>1. Kid(r, k, s) = q
        BY <1>5, <1>12, <2>1, <3>1
      <4>2. Kid(t, k, s) = p
        BY <2>1, <3>1, SideFound
      <4> QED
        BY <1>8, <4>1, <4>2
    <3>2. CASE ~(k = Up(t, p) /\ s = SideOf(t, p))
      <4>1. PICK c : c = Kid(t, k, s) /\ c \in S \union {0} /\ (c # 0 => Up(t, c) = k)
        BY DEF Shape, NodeRight, KidRight
      <4>2. Kid(r, k, s) = c
        BY <1>5, <1>12, <2>1, <3>2, <4>1
      <4>3. c # q
        <5>1. Up(t, q) = p /\ q # 0
          BY <1>01, <1>03, <1>1, <1>2, KidIn DEF Swung
        <5> QED
          BY <1>12, <4>1, <5>1
      <4>4. c # p
        <5> SUFFICES ASSUME c = p PROVE FALSE
          OBVIOUS
        <5>1. Up(t, p) = k
          BY <1>4, <4>1
        <5>2. IsKid(t, k, s, p) /\ IsKid(t, k, SideOf(t, p), p) /\ SideOf(t, p) \in Sides
          BY <1>4, <2>1, <4>1, <5>1, SideFound DEF IsKid
        <5>3. s = SideOf(t, p)
          BY <5>2, OneParent
        <5> QED
          BY <3>2, <5>1, <5>3
      <4> QED
        BY <1>2, <1>8, <4>1, <4>2, <4>3, <4>4
    <3> QED
      BY <3>1, <3>2
  <2>3. new[k] = bh[k] /\ Weight(r, k) = Weight(t, k)
    BY <1>6, <1>8, <1>12, <2>1
  <2> QED
    BY <2>1, <2>2, <2>3 DEF EvenAt
<1> QED
  BY <1>01, <1>8, <1>10, <1>11, <1>12 DEF Even

\* What is outside the tree is black and has no parent.
LEMMA OffTree ==
  ASSUME NEW t, NEW S, NEW sub, Shape(t, S, sub)
  PROVE  /\ t \in TreeT /\ S \subseteq Keys /\ S \subseteq K0 /\ 0 \in K0 /\ 0 \notin S /\ Keys \subseteq K0
         /\ \A k \in K0 \ S : Hue(t, k) = FALSE /\ Up(t, k) = 0
         /\ \A k \in K0 : Hue(t, k) \in BOOLEAN
         /\ t.root \in S \union {0}
<1>1. t \in TreeT /\ S \subseteq Keys /\ t.root \in S \union {0} /\ \A k \in K0 \ S : t.node[k] = Nil
  BY DEF Shape
<1>2. \A k \in K0 : Hue(t, k) \in BOOLEAN
  BY <1>1, TypeIs
<1>3. \A k \in K0 \ S : Hue(t, k) = FALSE /\ Up(t, k) = 0
  BY <1>1, NilIs
<1> QED
  BY <1>1, <1>2, <1>3 DEF K0

\* Trees that are alike but for colours are so transitively.
LEMMA AlikeTwice ==
  ASSUME NEW t, NEW a, NEW b, Alike(t, a), Alike(a, b)
  PROVE  Alike(t, b)
BY DEF Alike

\* tree_add() between two rounds: only the node may be red under red, and only
\* the node may be a red root.
Adding(t, S, sub, bh, n) ==
    /\ Shape(t, S, sub) /\ Even(t, S, bh, 0, "left")
    /\ n \in S /\ Hue(t, n)
    /\ \A k \in S : Clash(t, k) => k = n
    /\ Hue(t, t.root) => t.root = n

\* The nodes a round is about
Family(t, S, n, p, g, d, e) ==
    /\ p = Up(t, n) /\ g = Up(t, p) /\ d = SideOf(t, p) /\ e = SideOf(t, n)
    /\ n \in S /\ p \in S /\ g \in S /\ n # 0 /\ p # 0 /\ g # 0 /\ n # p /\ p # g /\ n # g
    /\ d \in Sides /\ e \in Sides
    /\ Kid(t, g, d) = p /\ Kid(t, p, e) = n
    /\ Hue(t, p) /\ ~Hue(t, g) /\ ~Hue(t, t.root) /\ t.root # p /\ t.root # n

\* A red node under a red one has a grandparent, which is black.
LEMMA FamilyIs ==
  ASSUME NEW t, NEW S, NEW sub, NEW bh, NEW n, Adding(t, S, sub, bh, n), Clash(t, n)
  PROVE  \E p, g, d, e : Family(t, S, n, p, g, d, e)
<1> PICK p, g, d, e : p = Up(t, n) /\ g = Up(t, p) /\ d = SideOf(t, p) /\ e = SideOf(t, n)
  OBVIOUS
<1>1. /\ Shape(t, S, sub) /\ n \in S /\ Hue(t, n)
      /\ \A k \in S : Clash(t, k) => k = n
      /\ Hue(t, t.root) => t.root = n
  BY DEF Adding
<1>2. p \in S \union {0} /\ n # 0 /\ p # n /\ Hue(t, p)
  BY <1>1, NodeIs DEF Clash
<1>3. Hue(t, 0) = FALSE
  BY <1>1, OffTree
<1>4. p \in S /\ p # 0
  BY <1>2, <1>3
<1>5. g \in S \union {0} /\ p # g /\ (t.root = p <=> g = 0) /\ (t.root = n <=> p = 0)
  BY <1>1, <1>4, NodeIs
<1>6. t.root # p /\ t.root # n /\ g # 0 /\ g \in S
  BY <1>1, <1>2, <1>4, <1>5
<1>7. Kid(t, g, d) = p /\ d \in Sides /\ Kid(t, p, e) = n /\ e \in Sides
  BY <1>1, <1>4, <1>6, SideFound
<1>8. ~Hue(t, g)
  BY <1>1, <1>2, <1>4 DEF Clash
<1>9. n # g
  BY <1>1, <1>8
<1>10. ~Hue(t, t.root)
  BY <1>1, <1>6
<1> QED
  BY <1>1, <1>2, <1>4, <1>5, <1>6, <1>7, <1>8, <1>9, <1>10 DEF Family

\* A red uncle: the grandparent becomes the node.
LEMMA ReddenedIs ==
  ASSUME NEW s, NEW S, NEW sub, NEW bh, Adding(s.t, S, sub, bh, s.node),
         NEW p, NEW g, NEW d, NEW e, Family(s.t, S, s.node, p, g, d, e), Red(s.t, Uncle(s))
  PROVE  /\ Reddened(s).node = g
         /\ \E new : Adding(Reddened(s).t, S, sub, new, g)
         /\ Size(sub, g) > Size(sub, s.node)
<1> PICK t, n, c : t = s.t /\ n = s.node /\ c = Uncle(s)
  OBVIOUS
<1>1. /\ Shape(t, S, sub) /\ Even(t, S, bh, 0, "left") /\ n \in S /\ Hue(t, n)
      /\ \A k \in S : Clash(t, k) => k = n
  BY DEF Adding
<1>2. /\ p = Up(t, n) /\ g = Up(t, p) /\ d = SideOf(t, p)
      /\ p \in S /\ g \in S /\ n # 0 /\ p # 0 /\ g # 0 /\ n # p /\ p # g /\ n # g
      /\ d \in Sides /\ e \in Sides
      /\ Kid(t, g, d) = p /\ Kid(t, p, e) = n
      /\ Hue(t, p) /\ ~Hue(t, g) /\ ~Hue(t, t.root) /\ t.root # p /\ t.root # n
  BY DEF Family
<1>3. /\ t \in TreeT /\ S \subseteq K0 /\ 0 \in K0 /\ 0 \notin S
      /\ \A k \in K0 \ S : Hue(t, k) = FALSE
      /\ \A k \in K0 : Hue(t, k) \in BOOLEAN
      /\ t.root \in S \union {0}
  BY <1>1, OffTree
<1>4. Other(d) \in Sides /\ Other(d) # d /\ \A x \in Sides : x = d \/ x = Other(d)
  BY <1>2, SidesAre
<1>5. c = Kid(t, g, Other(d)) /\ c # 0 /\ Hue(t, c)
  <2>1. c = t.node[g][Other(d)]
    BY <1>2 DEF Uncle, Up
  <2>2. c # 0 /\ t.node[c].red
    BY DEF Red
  <2> QED
    BY <1>4, <2>1, <2>2, KidIs DEF Hue
<1>6. c \in S /\ c # g /\ c # p /\ Up(t, c) = g
  BY <1>1, <1>2, <1>4, <1>5, KidIn
<1>7. PICK a, b, u : a = Paint(t, p, FALSE) /\ b = Paint(a, c, FALSE) /\ u = Paint(b, g, TRUE)
  OBVIOUS
<1>8. Reddened(s).t = u /\ Reddened(s).node = g
  BY <1>2, <1>7 DEF Reddened, Up
<1>9. Alike(t, a) /\ \A k \in K0 : Hue(a, k) = IF k = p THEN FALSE ELSE Hue(t, k)
  <2>1. Painted(t, a, p, FALSE)
    BY <1>2, <1>3, <1>7, PaintIs
  <2> QED
    BY <2>1 DEF Painted
<1>10. Alike(a, b) /\ \A k \in K0 : Hue(b, k) = IF k = c THEN FALSE ELSE Hue(a, k)
  <2>1. a \in TreeT
    BY <1>9 DEF Alike
  <2>2. Painted(a, b, c, FALSE)
    BY <1>3, <1>6, <1>7, <2>1, PaintIs
  <2> QED
    BY <2>2 DEF Painted
<1>11. Alike(b, u) /\ \A k \in K0 : Hue(u, k) = IF k = g THEN TRUE ELSE Hue(b, k)
  <2>1. b \in TreeT
    BY <1>10 DEF Alike
  <2>2. Painted(b, u, g, TRUE)
    BY <1>2, <1>3, <1>7, <2>1, PaintIs
  <2> QED
    BY <2>2 DEF Painted
<1>12. /\ Alike(t, u)
       /\ \A k \in K0 : Hue(u, k) = IF k = g THEN TRUE ELSE IF k \in {p, c} THEN FALSE ELSE Hue(t, k)
  BY <1>9, <1>10, <1>11, AlikeTwice
<1>13. /\ u.root = t.root
       /\ \A k \in K0 : Up(u, k) = Up(t, k)
       /\ \A k \in K0 : \A x \in Sides : Kid(u, k, x) = Kid(t, k, x)
  BY <1>12 DEF Alike
<1>14. Shape(u, S, sub)
  <2>1. \A k \in K0 \ S : Hue(u, k) = FALSE
    BY <1>2, <1>3, <1>12
  <2> QED
    BY <1>1, <1>12, <2>1, ShapeAlike
<1>15. PICK new : new = [k \in K0 |-> IF k \in {p, c} THEN bh[k] + 1 ELSE bh[k]]
  OBVIOUS
<1>16. Even(u, S, new, 0, "left")
  <2>1. Heights(bh) /\ \A k \in S : EvenAt(t, bh, k, 0, "left")
    BY <1>1 DEF Even
  <2>2. Heights(new)
    BY <1>2, <1>3, <1>5, <1>15, <2>1 DEF Heights
  <2>3. ASSUME NEW k \in S, NEW x \in Sides
        PROVE  new[k] = new[Kid(u, k, x)] + Weight(u, k) + Lack(k, x, 0, "left")
    <3>1. PICK y : y = Kid(t, k, x) /\ y \in S \union {0} /\ (y # 0 => Up(t, y) = k) /\ y # k
      <4>1. KidRight(t, S, sub, k, x) /\ Up(t, k) # k
        BY <1>1, NodeIs DEF Shape, NodeRight
      <4> QED
        BY <1>3, <4>1 DEF KidRight
    <3>2. bh[k] = bh[y] + Weight(t, k) + Lack(k, x, 0, "left") /\ Lack(k, x, 0, "left") = 0
      BY <1>3, <2>1, <3>1 DEF EvenAt, Lack
    <3>3. k \in K0 /\ y \in K0 /\ Kid(u, k, x) = y /\ bh[k] \in Nat /\ bh[y] \in Nat
      BY <1>3, <1>13, <2>1, <3>1 DEF Heights
    <3>4. CASE k = g
      <4>1. y \in {p, c}
        BY <1>2, <1>4, <1>5, <3>1, <3>4
      <4>2. Weight(t, k) = 1 /\ Weight(u, k) = 0
        BY <1>2, <1>12, <3>3, <3>4 DEF Weight
      <4>3. new[k] = bh[k] /\ new[y] = bh[y] + 1
        BY <1>2, <1>6, <1>15, <3>3, <3>4, <4>1
      <4> QED
        BY <3>2, <3>3, <4>2, <4>3
    <3>5. CASE k \in {p, c}
      <4>1. y \notin {p, c}
        BY <1>2, <1>5, <1>6, <3>1, <3>5
      <4>2. Weight(t, k) = 0 /\ Weight(u, k) = 1
        BY <1>2, <1>5, <1>6, <1>12, <3>3, <3>5 DEF Weight
      <4>3. new[k] = bh[k] + 1 /\ new[y] = bh[y]
        BY <1>15, <3>3, <3>5, <4>1
      <4> QED
        BY <3>2, <3>3, <4>2, <4>3
    <3>6. CASE k \notin {g, p, c}
      <4>1. y \notin {p, c}
        BY <1>2, <1>5, <1>6, <3>1, <3>6
      <4>2. Weight(u, k) = Weight(t, k)
        BY <1>12, <3>3, <3>6 DEF Weight
      <4>3. new[k] = bh[k] /\ new[y] = bh[y]
        BY <1>15, <3>3, <3>6, <4>1
      <4> QED
        BY <3>2, <3>3, <4>2, <4>3
    <3> QED
      BY <3>4, <3>5, <3>6
  <2> QED
    BY <2>2, <2>3 DEF Even, EvenAt
<1>17. ASSUME NEW k \in S, Clash(u, k) PROVE k = g
  <2> SUFFICES ASSUME k # g PROVE FALSE
    OBVIOUS
  <2>1. k \in K0 /\ Up(t, k) \in K0 /\ Hue(u, k) /\ Hue(u, Up(t, k))
    BY <1>3, <1>13, <1>17, TypeIs DEF Clash
  <2>2. k \notin {p, c} /\ Hue(t, k)
    BY <1>12, <2>1
  <2>3. Up(t, k) # g => Hue(t, Up(t, k)) /\ Up(t, k) \notin {p, c}
    BY <1>12, <2>1
  <2>4. Up(t, k) # g
    <3> SUFFICES ASSUME Up(t, k) = g PROVE FALSE
      OBVIOUS
    <3>1. SideOf(t, k) \in Sides /\ Kid(t, g, SideOf(t, k)) = k
      BY <1>1, <1>2, SideFound
    <3> QED
      BY <1>2, <1>4, <1>5, <2>2, <3>1
  <2>5. Clash(t, k)
    BY <2>2, <2>3, <2>4 DEF Clash
  <2> QED
    BY <1>1, <1>2, <2>3, <2>4, <2>5
<1>18. Hue(u, u.root) => u.root = g
  <2>1. t.root \in K0 /\ ~Hue(t, t.root)
    BY <1>2, <1>3
  <2>2. t.root # g => ~Hue(u, t.root)
    BY <1>12, <2>1
  <2> QED
    BY <1>13, <2>2
<1>19. Hue(u, g)
  BY <1>2, <1>3, <1>12
<1>20. Size(sub, g) > Size(sub, n)
  <2>1. Size(sub, p) < Size(sub, g) /\ Size(sub, n) < Size(sub, p)
    BY <1>1, <1>2, KidSmaller
  <2>2. Size(sub, g) \in Nat /\ Size(sub, p) \in Nat /\ Size(sub, n) \in Nat
    BY <1>1, <1>2, Sizes
  <2> QED
    BY <2>1, <2>2
<1>21. Adding(u, S, sub, new, g)
  BY <1>2, <1>14, <1>16, <1>17, <1>18, <1>19 DEF Adding
<1> QED
  BY <1>8, <1>20, <1>21

\* A search tree stays one when a node is painted.
LEMMA PaintShape ==
  ASSUME NEW t, NEW S, NEW sub, Shape(t, S, sub), NEW n \in S, NEW c \in BOOLEAN, NEW u, Painted(t, u, n, c)
  PROVE  Shape(u, S, sub)
<1>1. Alike(t, u) /\ \A k \in K0 \ S : Hue(u, k) = FALSE
  BY OffTree DEF Painted
<1> QED
  BY <1>1, ShapeAlike

\* A node whose neighbourhood is unchanged stays even.
LEMMA EvenAlike ==
  ASSUME NEW t, NEW u, Alike(t, u), NEW k \in K0, Hue(u, k) = Hue(t, k),
         NEW bh, NEW p, NEW d, EvenAt(t, bh, k, p, d)
  PROVE  EvenAt(u, bh, k, p, d)
BY DEF Alike, EvenAt, Weight

\* The node is on the outer side of its parent, and its uncle is not red.
Straight(t, S, sub, bh, n, p, g, d) ==
    /\ Shape(t, S, sub) /\ Even(t, S, bh, 0, "left")
    /\ n \in S /\ p \in S /\ g \in S /\ n # p /\ n # g /\ d \in Sides
    /\ Kid(t, g, d) = p /\ Kid(t, p, d) = n
    /\ Hue(t, n) /\ Hue(t, p) /\ ~Hue(t, g) /\ ~Hue(t, Kid(t, g, Other(d)))
    /\ \A k \in S : Clash(t, k) => k = n
    /\ ~Hue(t, t.root)

\* The inner node changes places with its parent: then both are on one side.
LEMMA OutwardIs ==
  ASSUME NEW s, NEW S, NEW sub, NEW bh, Adding(s.t, S, sub, bh, s.node),
         NEW p, NEW g, NEW d, NEW e, Family(s.t, S, s.node, p, g, d, e),
         ~Hue(s.t, Kid(s.t, g, Other(d)))
  PROVE  \E sub2, bh2, p2 : Straight(Outward(s, d).t, S, sub2, bh2, Outward(s, d).node, p2, g, d)
<1> PICK t, n : t = s.t /\ n = s.node
  OBVIOUS
<1>1. /\ Shape(t, S, sub) /\ Even(t, S, bh, 0, "left") /\ n \in S /\ Hue(t, n)
      /\ \A k \in S : Clash(t, k) => k = n
  BY DEF Adding
<1>2. /\ p = Up(t, n) /\ g = Up(t, p) /\ d = SideOf(t, p)
      /\ p \in S /\ g \in S /\ n # 0 /\ p # 0 /\ g # 0 /\ n # p /\ p # g /\ n # g
      /\ d \in Sides /\ e \in Sides
      /\ Kid(t, g, d) = p /\ Kid(t, p, e) = n
      /\ Hue(t, p) /\ ~Hue(t, g) /\ ~Hue(t, t.root) /\ t.root # p /\ t.root # n
  BY DEF Family
<1>3. Other(d) \in Sides /\ Other(d) # d /\ \A x \in Sides : x = d \/ x = Other(d)
  BY <1>2, SidesAre
<1>4. n = s.t.node[p][Other(d)] <=> n = Kid(t, p, Other(d))
  BY <1>3, KidIs
<1>5. CASE n # Kid(t, p, Other(d))
  <2>1. Outward(s, d) = s
    BY <1>2, <1>4, <1>5 DEF Outward, Up
  <2>2. e = d
    BY <1>2, <1>3, <1>5
  <2>3. Straight(t, S, sub, bh, n, p, g, d)
    BY <1>1, <1>2, <2>2 DEF Straight
  <2> QED
    BY <2>1, <2>3
<1>6. CASE n = Kid(t, p, Other(d))
  <2>1. PICK r : r = Rotate(t, p, d)
    OBVIOUS
  <2>2. Outward(s, d).t = r /\ Outward(s, d).node = p
    BY <1>2, <1>4, <1>6, <2>1 DEF Outward, Up
  <2>3. PICK sub2 : sub2 = Turned(t, sub, p, d) /\ Shape(r, S, sub2)
    BY <1>1, <1>2, <1>6, <2>1, RotateShape
  <2>4. /\ Kid(r, n, d) = p /\ Up(r, p) = n /\ Up(r, n) = g
        /\ Kid(t, n, d) # 0 => Up(r, Kid(t, n, d)) = p
        /\ \A k \in K0 : k \notin {p, n} /\ (k = 0 \/ k # Kid(t, n, d)) => Up(r, k) = Up(t, k)
        /\ \A k \in K0 : Hue(r, k) = Hue(t, k)
        /\ \A k \in K0 \ {p, n} : \A x \in Sides :
              Kid(r, k, x) = IF k # 0 /\ k = g /\ x = d THEN n ELSE Kid(t, k, x)
        /\ r.root = t.root
    <3>1. Swung(t, r, S, p, n, d)
      BY <1>1, <1>2, <1>6, <2>1, RotateParts
    <3> QED
      BY <1>2, <3>1 DEF Swung
  <2>5. /\ S \subseteq K0 /\ 0 \in K0 /\ 0 \notin S /\ t.root \in K0 /\ t \in TreeT
    BY <1>1, OffTree
  <2>6. Kid(r, g, d) = n /\ Kid(r, g, Other(d)) = Kid(t, g, Other(d))
    BY <1>2, <1>3, <2>4, <2>5
  <2>7. ~Hue(r, Kid(r, g, Other(d)))
    <3>1. Kid(t, g, Other(d)) \in K0
      BY <1>2, <1>3, <2>5, TypeIs
    <3> QED
      BY <2>4, <2>6, <3>1
  <2>8. ASSUME NEW k \in S, Clash(r, k) PROVE k = p
    <3> SUFFICES ASSUME k # p PROVE FALSE
      OBVIOUS
    <3>1. Hue(t, k) /\ Hue(r, Up(r, k)) /\ k \in K0 /\ k # 0
      BY <2>4, <2>5, <2>8 DEF Clash
    <3>2. k # n
      BY <1>2, <2>4, <2>5, <3>1
    <3>3. CASE k = Kid(t, n, d)
      <4>1. Up(t, k) = n /\ k # n
        BY <1>1, <1>2, <3>1, <3>3, KidIn
      <4> QED
        BY <1>1, <3>1, <4>1 DEF Clash
    <3>4. CASE k # Kid(t, n, d)
      <4>1. Up(r, k) = Up(t, k) /\ Up(t, k) \in K0
        BY <2>4, <2>5, <3>1, <3>2, <3>4, TypeIs
      <4>2. Clash(t, k)
        BY <2>4, <3>1, <4>1 DEF Clash
      <4> QED
        BY <1>1, <3>2, <4>2
    <3> QED
      BY <3>3, <3>4
  <2>9. \E bh2 : Even(r, S, bh2, 0, "left")
    <3>1. Heights(bh) /\ \A k \in S : EvenAt(t, bh, k, 0, "left")
      BY <1>1 DEF Even
    <3>2. \A k \in S : \A x \in Sides : Lack(k, x, 0, "left") = 0
      BY <2>5 DEF Lack
    <3>3. Weight(t, p) = 0 /\ Weight(t, n) = 0
      BY <1>1, <1>2 DEF Weight
    <3>4. /\ bh[p] = bh[Kid(t, p, d)] + Weight(t, p) + Lack(p, d, 0, "left")
          /\ bh[p] = bh[n] + Weight(t, p) + Lack(p, Other(d), 0, "left")
          /\ bh[n] = bh[Kid(t, n, d)] + Weight(t, n) + Lack(n, d, 0, "left")
          /\ bh[n] = bh[Kid(t, n, Other(d))] + Weight(t, n) + Lack(n, Other(d), 0, "left")
      BY <1>1, <1>2, <1>3, <1>6, <3>1 DEF EvenAt
    <3>5. bh[p] \in Nat /\ bh[n] \in Nat /\ bh[Kid(t, n, d)] \in Nat /\ bh[Kid(t, n, Other(d))] \in Nat
      <4>1. Kid(t, n, d) \in K0 /\ Kid(t, n, Other(d)) \in K0
        BY <1>1, <1>2, <1>3, <2>5, TypeIs
      <4> QED
        BY <1>1, <1>2, <2>5, <3>1, <4>1 DEF Heights
    <3>6. bh[n] = bh[p] /\ bh[Kid(t, n, d)] = bh[p] /\ bh[Kid(t, n, Other(d))] = bh[p]
          /\ Lack(p, d, 0, "left") = 0 /\ Lack(p, Other(d), 0, "left") = 0
          /\ Lack(n, d, 0, "left") = 0 /\ Lack(n, Other(d), 0, "left") = 0
      BY <1>1, <1>2, <1>3, <3>2, <3>3, <3>4, <3>5
    <3>7. /\ bh[p] = bh[Kid(t, n, d)] + Weight(t, p) + Lack(p, Other(d), 0, "left")
          /\ bh[p] = bh[p] + Weight(t, n) + Lack(n, d, 0, "left")
          /\ bh[p] = bh[Kid(t, n, Other(d))] + Weight(t, n) + Lack(n, Other(d), 0, "left")
      BY <3>3, <3>5, <3>6
    <3>8. Fits(t, S, bh, p, n, d, bh[p], 0, "left")
      BY <3>1, <3>4, <3>5, <3>7 DEF Fits
    <3>9. Fits(t, S, bh, p, Kid(t, p, Other(d)), d, bh[p], 0, "left") /\ Kid(t, p, Other(d)) # 0
      BY <1>2, <1>6, <3>8
    <3>10. \E bh2 : Even(Rotate(t, p, d), S, bh2, 0, "left")
      BY <1>1, <1>2, <3>9, RotateEven
    <3> QED
      BY <2>1, <3>10
  <2>10. PICK bh2 : Even(r, S, bh2, 0, "left")
    BY <2>9
  <2>11. Hue(r, n) /\ Hue(r, p) /\ ~Hue(r, g) /\ ~Hue(r, r.root)
    BY <1>1, <1>2, <2>4, <2>5
  <2>12. Straight(r, S, sub2, bh2, p, n, g, d)
    BY <1>1, <1>2, <2>3, <2>4, <2>6, <2>7, <2>8, <2>10, <2>11 DEF Straight
  <2> QED
    BY <2>2, <2>12
<1> QED
  BY <1>5, <1>6

\* The rotation that ends it: nothing is red under red any more.
LEMMA LiftedIs ==
  ASSUME NEW s, NEW S, NEW sub, NEW bh, NEW p, NEW g, NEW d, Straight(s.t, S, sub, bh, s.node, p, g, d)
  PROVE  /\ Lifted(s, d).node = s.node
         /\ \E sub2, bh2 : Adding(Lifted(s, d).t, S, sub2, bh2, s.node)
         /\ ~Clash(Lifted(s, d).t, s.node)
<1> PICK t, n, cis, o : t = s.t /\ n = s.node /\ cis = Other(d) /\ o = Kid(t, g, cis)
  OBVIOUS
<1>1. /\ Shape(t, S, sub) /\ Even(t, S, bh, 0, "left")
      /\ n \in S /\ p \in S /\ g \in S /\ n # p /\ n # g /\ d \in Sides
      /\ Kid(t, g, d) = p /\ Kid(t, p, d) = n
      /\ Hue(t, n) /\ Hue(t, p) /\ ~Hue(t, g) /\ ~Hue(t, o)
      /\ \A k \in S : Clash(t, k) => k = n
      /\ ~Hue(t, t.root)
  BY DEF Straight
<1>2. cis \in Sides /\ cis # d /\ Other(cis) = d /\ \A x \in Sides : x = d \/ x = cis
  BY <1>1, SidesAre
<1>3. /\ S \subseteq K0 /\ 0 \in K0 /\ 0 \notin S /\ t.root \in K0 /\ t \in TreeT
      /\ n # 0 /\ p # 0 /\ g # 0
      /\ Hue(t, 0) = FALSE
  BY <1>1, OffTree
<1>4. Up(t, n) = p /\ Up(t, p) = g /\ p # g
  BY <1>1, <1>3, KidIn
<1>5. PICK a, b, r : a = Paint(t, p, FALSE) /\ b = Paint(a, g, TRUE) /\ r = Rotate(b, g, cis)
  OBVIOUS
<1>6. Lifted(s, d).t = r /\ Lifted(s, d).node = n
  BY <1>4, <1>5 DEF Lifted, Up
<1>7. Painted(t, a, p, FALSE)
  BY <1>1, <1>3, <1>5, PaintIs
<1>8. Shape(a, S, sub)
  BY <1>1, <1>7, PaintShape
<1>9. Painted(a, b, g, TRUE)
  <2>1. a \in TreeT
    BY <1>8 DEF Shape
  <2> QED
    BY <1>1, <1>3, <1>5, <2>1, PaintIs
<1>10. Shape(b, S, sub)
  BY <1>1, <1>8, <1>9, PaintShape
<1>11. /\ Alike(t, b)
       /\ \A k \in K0 : Hue(b, k) = IF k = g THEN TRUE ELSE IF k = p THEN FALSE ELSE Hue(t, k)
  BY <1>7, <1>9, AlikeTwice DEF Painted
<1>12. /\ b.root = t.root
       /\ \A k \in K0 : Up(b, k) = Up(t, k)
       /\ \A k \in K0 : \A x \in Sides : Kid(b, k, x) = Kid(t, k, x)
  BY <1>11 DEF Alike
<1>13. PICK i : i = Kid(t, p, cis)
  OBVIOUS
<1>14. /\ Kid(b, g, cis) = o /\ Kid(b, g, d) = p /\ Kid(b, p, cis) = i /\ Kid(b, p, d) = n
       /\ i \in K0 /\ o \in K0
  BY <1>1, <1>2, <1>3, <1>12, <1>13, TypeIs
<1>15. Swung(b, r, S, g, p, cis)
  <2>1. Swung(b, Rotate(b, g, cis), S, g, Kid(b, g, Other(cis)), cis)
    BY <1>1, <1>2, <1>3, <1>10, <1>14, RotateParts
  <2> QED
    BY <1>2, <1>5, <1>14, <2>1
<1>16. PICK sub2 : Shape(r, S, sub2)
  <2>1. Kid(b, g, Other(cis)) # 0
    BY <1>2, <1>3, <1>14
  <2>2. Shape(Rotate(b, g, cis), S, Turned(b, sub, g, cis))
    BY <1>1, <1>2, <1>10, <2>1, RotateShape
  <2> QED
    BY <1>5, <2>2
<1>17. /\ Up(r, g) = p /\ Up(r, p) = Up(t, g)
       /\ i # 0 => Up(r, i) = g
       /\ \A k \in K0 : k \notin {g, p} /\ (k = 0 \/ k # i) => Up(r, k) = Up(t, k)
       /\ \A k \in K0 : Hue(r, k) = Hue(b, k)
       /\ r.root = IF Up(t, g) = 0 THEN p ELSE t.root
  BY <1>1, <1>3, <1>12, <1>14, <1>15 DEF Swung
<1>18. /\ \A k \in K0 : k \notin {g, p} => Hue(r, k) = Hue(t, k)
       /\ Hue(r, g) /\ ~Hue(r, p)
  BY <1>1, <1>3, <1>4, <1>11, <1>17
<1>19. ASSUME NEW k \in S PROVE ~Clash(r, k)
  <2> SUFFICES ASSUME Hue(r, k), Hue(r, Up(r, k)) PROVE FALSE
    BY DEF Clash
  <2>1. k \in K0 /\ k # 0 /\ k # p
    BY <1>3, <1>18
  <2>2. k # g
    BY <1>17, <1>18
  <2>3. Hue(t, k)
    BY <1>18, <2>1, <2>2
  <2>4. k # i
    <3> SUFFICES ASSUME k = i PROVE FALSE
      OBVIOUS
    <3>1. Up(t, k) = p
      BY <1>1, <1>2, <1>13, <2>1, KidIn
    <3>2. k = n
      BY <1>1, <2>3, <3>1 DEF Clash
    <3>3. IsKid(t, p, cis, n) /\ IsKid(t, p, d, n)
      BY <1>1, <1>3, <1>13, <3>2 DEF IsKid
    <3> QED
      BY <1>1, <1>2, <3>3, OneParent
  <2>5. Up(r, k) = Up(t, k) /\ Up(t, k) \in K0
    BY <1>3, <1>17, <2>1, <2>2, <2>4, TypeIs
  <2>6. Up(t, k) # p
    BY <1>18, <2>5
  <2>7. Up(t, k) # g
    <3> SUFFICES ASSUME Up(t, k) = g PROVE FALSE
      OBVIOUS
    <3>1. SideOf(t, k) \in Sides /\ Kid(t, g, SideOf(t, k)) = k
      BY <1>1, <1>3, SideFound
    <3> QED
      BY <1>1, <1>2, <2>1, <2>3, <3>1
  <2>8. Clash(t, k)
    BY <1>18, <2>3, <2>5, <2>6, <2>7 DEF Clash
  <2>9. k = n
    BY <1>1, <2>8
  <2> QED
    BY <1>4, <2>6, <2>9
<1>20. \E bh2 : Even(r, S, bh2, 0, "left")
  <2>1. Heights(bh) /\ \A k \in S : EvenAt(t, bh, k, 0, "left")
    BY <1>1 DEF Even
  <2>2. \A k \in S : \A x \in Sides : Lack(k, x, 0, "left") = 0
    BY <1>3 DEF Lack
  <2>3. Weight(t, g) = 1 /\ Weight(t, p) = 0 /\ Weight(b, g) = 0 /\ Weight(b, p) = 1
    BY <1>1, <1>3, <1>4, <1>11 DEF Weight
  <2>4. /\ bh[g] = bh[p] + 1 /\ bh[g] = bh[o] + 1 /\ bh[p] = bh[n] /\ bh[p] = bh[i]
        /\ bh[g] \in Nat /\ bh[p] \in Nat /\ bh[o] \in Nat /\ bh[n] \in Nat /\ bh[i] \in Nat
    <3>1. /\ bh[g] \in Nat /\ bh[p] \in Nat /\ bh[o] \in Nat /\ bh[n] \in Nat /\ bh[i] \in Nat
      BY <1>1, <1>3, <1>14, <2>1 DEF Heights
    <3>2. /\ bh[g] = bh[p] + Weight(t, g) + Lack(g, d, 0, "left")
          /\ bh[g] = bh[o] + Weight(t, g) + Lack(g, cis, 0, "left")
      BY <1>1, <1>2, <2>1 DEF EvenAt
    <3>3. /\ bh[p] = bh[n] + Weight(t, p) + Lack(p, d, 0, "left")
          /\ bh[p] = bh[i] + Weight(t, p) + Lack(p, cis, 0, "left")
      BY <1>1, <1>2, <1>13, <2>1 DEF EvenAt
    <3>4. Lack(g, d, 0, "left") = 0 /\ Lack(g, cis, 0, "left") = 0 /\ Lack(p, d, 0, "left") = 0 /\ Lack(p, cis, 0, "left") = 0
      BY <1>1, <1>2, <2>2
    <3> QED
      BY <2>3, <3>1, <3>2, <3>3, <3>4
  <2>5. ASSUME NEW k \in S \ {g, p} PROVE EvenAt(b, bh, k, 0, "left")
    <3>1. k \in K0 /\ Hue(b, k) = Hue(t, k) /\ EvenAt(t, bh, k, 0, "left")
      BY <1>3, <1>11, <2>1
    <3> QED
      BY <1>11, <3>1, EvenAlike
  <2>6. Fits(b, S, bh, g, p, cis, bh[o], 0, "left")
    <3>1. /\ bh[o] = bh[o] + Weight(b, g) + Lack(g, cis, 0, "left")
          /\ bh[o] = bh[i] + Weight(b, g) + Lack(g, d, 0, "left")
          /\ bh[g] = bh[o] + Weight(b, p) + Lack(p, cis, 0, "left")
          /\ bh[g] = bh[n] + Weight(b, p) + Lack(p, d, 0, "left")
      <4>1. Lack(g, d, 0, "left") = 0 /\ Lack(g, cis, 0, "left") = 0 /\ Lack(p, d, 0, "left") = 0 /\ Lack(p, cis, 0, "left") = 0
        BY <1>1, <1>2, <2>2
      <4> QED
        BY <2>3, <2>4, <4>1
    <3> QED
      BY <1>2, <1>14, <2>1, <2>4, <2>5, <3>1 DEF Fits
  <2>7. Fits(b, S, bh, g, Kid(b, g, Other(cis)), cis, bh[o], 0, "left") /\ Kid(b, g, Other(cis)) # 0
    BY <1>2, <1>3, <1>14, <2>6
  <2>8. \E bh2 : Even(Rotate(b, g, cis), S, bh2, 0, "left")
    BY <1>1, <1>2, <1>10, <2>7, RotateEven
  <2> QED
    BY <1>5, <2>8
<1>21. PICK bh2 : Even(r, S, bh2, 0, "left")
  BY <1>20
<1>22. Hue(r, n) /\ ~Hue(r, r.root)
  <2>1. Up(t, g) # 0 => t.root # g /\ t.root # p
    BY <1>1, <1>3, <1>4, NodeIs
  <2>2. ~Hue(r, r.root)
    BY <1>1, <1>3, <1>17, <1>18, <2>1
  <2> QED
    BY <1>1, <1>3, <1>18, <2>2
<1>23. Adding(r, S, sub2, bh2, n)
  BY <1>1, <1>16, <1>19, <1>21, <1>22 DEF Adding
<1> QED
  BY <1>1, <1>6, <1>19, <1>23

\* One round
LEMMA InsertRoundIs ==
  ASSUME NEW s, NEW S, NEW sub, NEW bh, Adding(s.t, S, sub, bh, s.node), Clash(s.t, s.node)
  PROVE  LET u == InsertRound(s)
         IN  \E sub2, bh2 : /\ Adding(u.t, S, sub2, bh2, u.node)
                            /\ ~Clash(u.t, u.node) \/ Size(sub2, u.node) > Size(sub, s.node)
<1>1. PICK p, g, d, e : Family(s.t, S, s.node, p, g, d, e)
  BY FamilyIs
<1>2. d = SideOf(s.t, s.t.node[s.node].parent)
  BY <1>1 DEF Family, Up
<1>3. CASE Red(s.t, Uncle(s))
  <2>1. InsertRound(s) = Reddened(s)
    BY <1>3 DEF InsertRound
  <2> QED
    BY <1>1, <1>3, <2>1, ReddenedIs
<1>4. CASE ~Red(s.t, Uncle(s))
  <2>1. InsertRound(s) = Lifted(Outward(s, d), d)
    BY <1>2, <1>4 DEF InsertRound
  <2>2. ~Hue(s.t, Kid(s.t, g, Other(d)))
    <3>1. p = Up(s.t, s.node) /\ g = Up(s.t, p) /\ d = SideOf(s.t, p) /\ Other(d) \in Sides
      BY <1>1, SidesAre DEF Family
    <3>2. Uncle(s) = s.t.node[g][Other(d)]
      BY <3>1 DEF Uncle, Up
    <3>3. Uncle(s) = Kid(s.t, g, Other(d))
      BY <3>1, <3>2, KidIs
    <3>4. Shape(s.t, S, sub)
      BY DEF Adding
    <3>5. Hue(s.t, 0) = FALSE
      BY <3>4, OffTree
    <3> QED
      BY <1>4, <3>3, <3>5 DEF Red, Hue
  <2>3. PICK sub2, bh2, p2 : Straight(Outward(s, d).t, S, sub2, bh2, Outward(s, d).node, p2, g, d)
    BY <1>1, <2>2, OutwardIs
  <2> PICK o : o = Outward(s, d)
    OBVIOUS
  <2>4. /\ Lifted(o, d).node = o.node
        /\ \E sub3, bh3 : Adding(Lifted(o, d).t, S, sub3, bh3, o.node)
        /\ ~Clash(Lifted(o, d).t, o.node)
    BY <2>3, LiftedIs
  <2> QED
    BY <2>1, <2>4
<1> QED
  BY <1>3, <1>4

\* A tree between two calls
Valid(t, S, sub, bh) ==
    /\ Shape(t, S, sub) /\ Even(t, S, bh, 0, "left")
    /\ \A k \in S : ~Clash(t, k)
    /\ ~Hue(t, t.root)

\* A node without a red parent is painted black: a path to it gains one.
LEMMA Blackened ==
  ASSUME NEW t, NEW S, NEW sub, Shape(t, S, sub), NEW bh, Even(t, S, bh, 0, "left"), NEW n \in S, t.root = n,
         \A k \in S : Clash(t, k) => k = n \/ Up(t, k) = n,
         NEW u, Painted(t, u, n, FALSE)
  PROVE  \E new : Valid(u, S, sub, new)
<1>1. Shape(u, S, sub)
  BY PaintShape
<1>2. /\ S \subseteq K0 /\ 0 \in K0 /\ 0 \notin S /\ t \in TreeT
      /\ \A k \in K0 : Hue(t, k) \in BOOLEAN
  BY OffTree
<1>3. /\ u.root = t.root
      /\ \A k \in K0 : Up(u, k) = Up(t, k)
      /\ \A k \in K0 : \A x \in Sides : Kid(u, k, x) = Kid(t, k, x)
      /\ \A k \in K0 : Hue(u, k) = IF k = n THEN FALSE ELSE Hue(t, k)
  BY DEF Painted, Alike
<1>4. /\ ~Hue(u, n)
      /\ \A k \in K0 : k # n => Hue(u, k) = Hue(t, k)
  BY <1>2, <1>3
<1>5. ASSUME NEW k \in S PROVE ~Clash(u, k)
  <2> SUFFICES ASSUME Hue(u, k), Hue(u, Up(u, k)) PROVE FALSE
    BY DEF Clash
  <2>1. k # n /\ Up(t, k) # n /\ Up(t, k) \in K0 /\ k \in K0
    BY <1>2, <1>3, <1>4, TypeIs
  <2>2. Clash(t, k)
    BY <1>3, <1>4, <2>1 DEF Clash
  <2> QED
    BY <2>1, <2>2
<1>6. Up(t, n) = 0 /\ n # 0
  BY NodeIs
<1>7. PICK new : new = [bh EXCEPT ![n] = @ + (1 - Weight(t, n))]
  OBVIOUS
<1>8. Heights(bh) /\ \A k \in S : EvenAt(t, bh, k, 0, "left")
  BY DEF Even
<1>9. Weight(t, n) \in {0, 1} /\ Weight(u, n) = 1
  BY <1>4 DEF Weight
<1>10. bh[n] \in Nat /\ bh[n] + (1 - Weight(t, n)) \in Nat
  <2>1. bh[n] \in Nat
    BY <1>2, <1>8 DEF Heights
  <2> QED
    BY <1>9, <2>1
<1>11. Heights(new) /\ new[n] = bh[n] + (1 - Weight(t, n)) /\ \A k \in K0 : k # n => new[k] = bh[k]
  BY <1>2, <1>6, <1>7, <1>8, <1>10 DEF Heights
<1>12. ASSUME NEW k \in S PROVE EvenAt(u, new, k, 0, "left")
  <2>1. EvenAt(t, bh, k, 0, "left") /\ k \in K0
    BY <1>2, <1>8
  <2>2. ASSUME NEW x \in Sides PROVE Kid(u, k, x) = Kid(t, k, x) /\ new[Kid(u, k, x)] = bh[Kid(t, k, x)] /\ bh[Kid(t, k, x)] \in Nat
    <3>1. PICK c : c = Kid(t, k, x) /\ c \in K0
      BY <1>2, <2>1, TypeIs
    <3>2. c # n
      <4> SUFFICES ASSUME c = n PROVE FALSE
        OBVIOUS
      <4>1. Up(t, c) = k
        BY <1>6, <3>1, KidIn
      <4> QED
        BY <1>2, <1>6, <4>1
    <3> QED
      BY <1>3, <1>8, <1>11, <2>1, <3>1, <3>2 DEF Heights
  <2>3. CASE k # n
    <3>1. new[k] = bh[k] /\ Weight(u, k) = Weight(t, k)
      BY <1>4, <1>11, <2>1, <2>3 DEF Weight
    <3> QED
      BY <2>1, <2>2, <3>1 DEF EvenAt
  <2>4. CASE k = n
    <3> SUFFICES ASSUME NEW x \in Sides
                 PROVE  new[n] = new[Kid(u, n, x)] + Weight(u, n) + Lack(n, x, 0, "left")
      BY <2>4 DEF EvenAt
    <3>1. bh[n] = bh[Kid(t, n, x)] + Weight(t, n) + Lack(n, x, 0, "left")
      BY <2>1, <2>4 DEF EvenAt
    <3>2. new[Kid(u, n, x)] = bh[Kid(t, n, x)] /\ bh[Kid(t, n, x)] \in Nat
      BY <2>2, <2>4
    <3>3. Lack(n, x, 0, "left") = 0
      BY <1>6 DEF Lack
    <3> QED
      BY <1>9, <1>10, <1>11, <3>1, <3>2, <3>3
  <2> QED
    BY <2>3, <2>4
<1>13. Even(u, S, new, 0, "left")
  BY <1>11, <1>12 DEF Even
<1> QED
  BY <1>1, <1>3, <1>4, <1>5, <1>13 DEF Valid

\* What the loop starts from
LEMMA HangAdds ==
  ASSUME NEW t, NEW S, NEW sub, NEW bh, Valid(t, S, sub, bh), NEW key \in Keys \ S
  PROVE  \E sub2, bh2 : Adding(Hang(t, key), S \union {key}, sub2, bh2, key)
<1> PICK u, p, S2 : u = Hang(t, key) /\ p = Above(t, key) /\ S2 = S \union {key}
  OBVIOUS
<1>1. /\ Shape(t, S, sub) /\ Even(t, S, bh, 0, "left")
      /\ \A k \in S : ~Clash(t, k)
      /\ ~Hue(t, t.root)
  BY DEF Valid
<1>2. /\ S \subseteq K0 /\ 0 \in K0 /\ 0 \notin S /\ t.root \in K0 /\ t \in TreeT /\ key \in K0 /\ key # 0
      /\ Hue(t, 0) = FALSE /\ \A k \in K0 : Hue(t, k) \in BOOLEAN
  BY <1>1, OffTree
<1>3. /\ Hung(t, Hang(t, key), key, Above(t, key))
      /\ Shape(Hang(t, key), S \union {key}, Wider(sub, key, Above(t, key)))
      /\ Above(t, key) \in S \union {0}
      /\ Above(t, key) # 0 => Kid(t, Above(t, key), Toward(key, Above(t, key))) = 0
  BY <1>1, HangShape
<1>4. PICK sub2 : Shape(u, S2, sub2)
  BY <1>3
<1>5. Hung(t, u, key, p) /\ p \in S \union {0} /\ (p # 0 => Kid(t, p, Toward(key, p)) = 0)
  BY <1>3
<1>6. /\ u.root = IF p = 0 THEN key ELSE t.root
      /\ \A k \in K0 : \A s \in Sides :
           Kid(u, k, s) = IF k = key THEN 0
                          ELSE IF k = p /\ p # 0 /\ s = Toward(key, p) THEN key ELSE Kid(t, k, s)
      /\ \A k \in K0 : Up(u, k) = IF k = key THEN p ELSE Up(t, k)
      /\ Hue(u, key)
      /\ \A k \in K0 : k # key => Hue(u, k) = Hue(t, k)
  <2>1. Hung(t, u, key, p)
    BY <1>5
  <2> QED
    BY <1>2, <2>1 DEF Hung
<1>7. ASSUME NEW k \in S2, Clash(u, k) PROVE k = key
  <2> SUFFICES ASSUME k # key PROVE FALSE
    OBVIOUS
  <2>1. k \in S /\ k \in K0 /\ Up(u, k) = Up(t, k) /\ Up(t, k) \in S \union {0}
    BY <1>1, <1>2, <1>6, NodeIs
  <2>2. Up(t, k) # key
    BY <1>2, <2>1
  <2>3. Clash(t, k)
    BY <1>2, <1>6, <1>7, <2>1, <2>2 DEF Clash
  <2> QED
    BY <1>1, <2>1, <2>3
<1>8. Hue(u, u.root) => u.root = key
  BY <1>1, <1>2, <1>6
<1>9. PICK bh2 : bh2 = [bh EXCEPT ![key] = 0]
  OBVIOUS
<1>10. Heights(bh) /\ \A k \in S : EvenAt(t, bh, k, 0, "left")
  BY <1>1 DEF Even
<1>11. Heights(bh2) /\ bh2[key] = 0 /\ bh2[0] = 0 /\ bh[0] = 0 /\ \A k \in K0 : k # key => bh2[k] = bh[k]
  BY <1>2, <1>9, <1>10 DEF Heights
<1>12. \A k \in S2 : \A x \in Sides : Lack(k, x, 0, "left") = 0
  BY <1>2 DEF Lack
<1>13. EvenAt(u, bh2, key, 0, "left")
  <2> SUFFICES ASSUME NEW x \in Sides
               PROVE  bh2[key] = bh2[Kid(u, key, x)] + Weight(u, key) + Lack(key, x, 0, "left")
    BY DEF EvenAt
  <2>1. Kid(u, key, x) = 0 /\ Weight(u, key) = 0
    BY <1>2, <1>6 DEF Weight
  <2>2. Lack(key, x, 0, "left") = 0
    BY <1>12
  <2> QED
    BY <1>11, <2>1, <2>2
<1>14. ASSUME NEW k \in S PROVE EvenAt(u, bh2, k, 0, "left")
  <2>1. EvenAt(t, bh, k, 0, "left") /\ k \in K0 /\ k # key /\ k # 0
    BY <1>2, <1>10
  <2>2. Weight(u, k) = Weight(t, k) /\ bh2[k] = bh[k]
    BY <1>6, <1>11, <2>1 DEF Weight
  <2>3. ASSUME NEW x \in Sides PROVE bh2[Kid(u, k, x)] = bh[Kid(t, k, x)]
    <3>1. Kid(t, k, x) \in S \union {0}
      BY <1>1 DEF Shape, NodeRight, KidRight
    <3>2. CASE k = p /\ x = Toward(key, p)
      BY <1>5, <1>6, <1>11, <2>1, <3>2
    <3>3. CASE ~(k = p /\ x = Toward(key, p))
      BY <1>2, <1>6, <1>11, <2>1, <3>1, <3>3
    <3> QED
      BY <3>2, <3>3
  <2> QED
    BY <2>1, <2>2, <2>3 DEF EvenAt
<1>15. Even(u, S2, bh2, 0, "left")
  BY <1>11, <1>13, <1>14 DEF Even
<1>16. Adding(u, S2, sub2, bh2, key)
  BY <1>4, <1>6, <1>7, <1>8, <1>15 DEF Adding
<1> QED
  BY <1>16

\* The rounds of tree_add()
InsertStep(s) ==
    LET parent == s.t.node[s.node].parent
    IN  IF parent # 0 /\ s.t.node[parent].red THEN InsertRound(s) ELSE s

InsertWalk(t, key, f) ==
    f = [n \in Rounds |-> IF n = 0 THEN [t |-> Hang(t, key), node |-> key] ELSE InsertStep(f[n - 1])]

\* tree_add() is the repetition of InsertStep, and the root painted black.
LEMMA InsertWalks ==
  ASSUME NEW t, NEW key
  PROVE  LET done == (CHOOSE f : InsertWalk(t, key, f))[LastRound].t
         IN  Inserted(t, key) = Paint(done, done.root, FALSE)
BY DEF Inserted, InsertWalk, InsertStep

PairT == [t : TreeT, node : K0]

\* A round of tree_add() ends the clash, or moves it up the tree.
LEMMA InsertStepIs ==
  ASSUME NEW s \in PairT, NEW S, NEW sub, NEW bh, Adding(s.t, S, sub, bh, s.node)
  PROVE  LET u == InsertStep(s)
         IN  /\ u \in PairT
             /\ \E sub2, bh2 : /\ Adding(u.t, S, sub2, bh2, u.node)
                               /\ ~Clash(u.t, u.node) \/ Size(sub2, u.node) > Size(sub, s.node)
<1>1. Shape(s.t, S, sub) /\ s.node \in S /\ Hue(s.t, s.node)
  BY DEF Adding
<1>2. Hue(s.t, 0) = FALSE
  BY <1>1, OffTree
<1>3. PICK p : p = Up(s.t, s.node)
  OBVIOUS
<1>4. InsertStep(s) = IF p # 0 /\ Hue(s.t, p) THEN InsertRound(s) ELSE s
  BY <1>3 DEF InsertStep, Up, Hue
<1>5. Clash(s.t, s.node) <=> p # 0 /\ Hue(s.t, p)
  BY <1>1, <1>2, <1>3 DEF Clash
<1>6. CASE Clash(s.t, s.node)
  <2>1. PICK u : u = InsertRound(s) /\ u = InsertStep(s)
    BY <1>4, <1>5, <1>6
  <2>2. \E sub2, bh2 : /\ Adding(u.t, S, sub2, bh2, u.node)
                       /\ ~Clash(u.t, u.node) \/ Size(sub2, u.node) > Size(sub, s.node)
    BY <1>6, <2>1, InsertRoundIs
  <2>3. u = [t |-> u.t, node |-> u.node]
    <3>1. \A a : Reddened(a) = [t |-> Reddened(a).t, node |-> Reddened(a).node]
      BY DEF Reddened
    <3>2. \A a, d : Lifted(a, d) = [t |-> Lifted(a, d).t, node |-> Lifted(a, d).node]
      BY DEF Lifted
    <3>3. \E a, d : u = Reddened(a) \/ u = Lifted(a, d)
      BY <2>1 DEF InsertRound
    <3> QED
      BY <3>1, <3>2, <3>3
  <2>4. u.t \in TreeT /\ u.node \in K0
    <3>1. PICK sub2, bh2 : Adding(u.t, S, sub2, bh2, u.node)
      BY <2>2
    <3>2. Shape(u.t, S, sub2) /\ u.node \in S
      BY <3>1 DEF Adding
    <3> QED
      BY <3>2, OffTree
  <2>5. u \in PairT
    BY <2>3, <2>4 DEF PairT
  <2> QED
    BY <2>1, <2>2, <2>5
<1>7. CASE ~Clash(s.t, s.node)
  <2>1. InsertStep(s) = s
    BY <1>4, <1>5, <1>7
  <2> QED
    BY <1>7, <2>1
<1> QED
  BY <1>6, <1>7

\* tree_add() makes a balanced search tree with one key more.
LEMMA InsertedIs ==
  ASSUME NEW t, NEW S, NEW sub, NEW bh, Valid(t, S, sub, bh), NEW key \in Keys \ S
  PROVE  \E sub2, bh2 : Valid(Inserted(t, key), S \union {key}, sub2, bh2)
<1> PICK S2, x : S2 = S \union {key} /\ x = [t |-> Hang(t, key), node |-> key]
  OBVIOUS
<1> DEFINE Fine(s) == \E sub2, bh2 : Adding(s.t, S2, sub2, bh2, s.node)
           X == {s \in PairT : Fine(s)}
           step == [s \in X |-> InsertStep(s)]
<1>1. x \in X
  <2>1. PICK sub2, bh2 : Adding(x.t, S2, sub2, bh2, x.node)
    BY HangAdds
  <2>2. Shape(x.t, S2, sub2) /\ x.node \in S2
    BY <2>1 DEF Adding
  <2>3. x.t \in TreeT /\ x.node \in K0
    BY <2>2, OffTree
  <2>4. x \in PairT
    BY <2>3 DEF PairT
  <2> QED
    BY <2>1, <2>4
<1>2. step \in [X -> X]
  <2>1. ASSUME NEW s \in X PROVE InsertStep(s) \in X
    <3>1. PICK sub1, bh1 : Adding(s.t, S2, sub1, bh1, s.node)
      OBVIOUS
    <3>2. PICK u : u = InsertStep(s)
      OBVIOUS
    <3>3. u \in PairT /\ \E sub2, bh2 : Adding(u.t, S2, sub2, bh2, u.node)
      BY <3>1, <3>2, InsertStepIs
    <3> QED
      BY <3>2, <3>3
  <2> HIDE DEF X
  <2> QED
    BY <2>1
<1>3. \E f : InsertWalk(t, key, f)
  <2>1. PICK f : Loops(f, X, x, step)
    <3> HIDE DEF X, step
    <3> QED
      BY <1>1, <1>2, LoopExists
  <2>2. ASSUME NEW n \in Rounds, n # 0 PROVE step[f[n - 1]] = InsertStep(f[n - 1])
    <3>1. n - 1 \in Rounds
      BY <2>2, RoundsAre
    <3>2. f[n - 1] \in X
      BY <2>1, <3>1 DEF Loops
    <3> HIDE DEF X
    <3> QED
      BY <3>2
  <2>3. f = [n \in Rounds |-> IF n = 0 THEN x ELSE step[f[n - 1]]]
    BY <2>1 DEF Loops
  <2>4. [n \in Rounds |-> IF n = 0 THEN x ELSE step[f[n - 1]]]
        = [n \in Rounds |-> IF n = 0 THEN x ELSE InsertStep(f[n - 1])]
    <3> HIDE DEF step, X
    <3> QED
      BY <2>2
  <2>5. f = [n \in Rounds |-> IF n = 0 THEN x ELSE InsertStep(f[n - 1])]
    BY <2>3, <2>4
  <2> QED
    BY <2>5 DEF InsertWalk
<1>4. PICK f : InsertWalk(t, key, f) /\ Inserted(t, key) = Paint(f[LastRound].t, f[LastRound].t.root, FALSE)
  BY <1>3, InsertWalks
<1>5. \A n \in 0..LastRound : f[n] = IF n = 0 THEN x ELSE InsertStep(f[n - 1])
  BY <1>4, RoundsAre DEF InsertWalk
<1> DEFINE Ends(s, n) == \E sub2, bh2 : /\ Adding(s.t, S2, sub2, bh2, s.node)
                                        /\ ~Clash(s.t, s.node) \/ Size(sub2, s.node) >= n
           Good == {n \in 0..LastRound : f[n] \in PairT /\ Ends(f[n], n)}
<1>6. 0 \in Good
  <2>1. 0 \in 0..LastRound /\ f[0] = x
    BY <1>5, RoundsAre
  <2>2. PICK sub2, bh2 : Adding(x.t, S2, sub2, bh2, x.node)
    BY <1>1
  <2>3. Shape(x.t, S2, sub2) /\ x.node \in S2
    BY <2>2 DEF Adding
  <2>4. Size(sub2, x.node) >= 0
    BY <2>3, Sizes
  <2> QED
    BY <1>1, <2>1, <2>2, <2>4
<1>7. ASSUME NEW n \in 0..(LastRound - 1), n \in Good PROVE n + 1 \in Good
  <2>1. n + 1 \in 0..LastRound /\ n + 1 # 0 /\ (n + 1) - 1 = n /\ n \in Nat
    BY RoundsAre
  <2>2. PICK s, u : s = f[n] /\ u = f[n + 1]
    OBVIOUS
  <2>3. u = InsertStep(s) /\ s \in PairT
    BY <1>5, <1>7, <2>1, <2>2
  <2>4. PICK sub1, bh1 : /\ Adding(s.t, S2, sub1, bh1, s.node)
                         /\ ~Clash(s.t, s.node) \/ Size(sub1, s.node) >= n
    BY <1>7, <2>2
  <2> HIDE DEF X, step, Ends
  <2>10. PICK a : a = Size(sub1, s.node)
    OBVIOUS
  <2>5. u \in PairT
    BY <2>3, <2>4, InsertStepIs
  <2>11. \E sub2, bh2 : Adding(u.t, S2, sub2, bh2, u.node) /\ (~Clash(u.t, u.node) \/ Size(sub2, u.node) > a)
    BY <2>3, <2>4, <2>10, InsertStepIs
  <2>6. PICK sub2, bh2 : Adding(u.t, S2, sub2, bh2, u.node) /\ (~Clash(u.t, u.node) \/ Size(sub2, u.node) > a)
    BY <2>11
  <2>7. a \in Nat /\ a = Size(sub1, s.node) /\ Size(sub2, u.node) \in Nat
    <3>1. Shape(s.t, S2, sub1) /\ s.node \in S2 /\ Shape(u.t, S2, sub2) /\ u.node \in S2
      BY <2>4, <2>6 DEF Adding
    <3> QED
      BY <2>10, <3>1, Sizes
  <2>8. CASE ~Clash(s.t, s.node)
    <3>1. u = s
      <4>1. Shape(s.t, S2, sub1) /\ Hue(s.t, s.node)
        BY <2>4 DEF Adding
      <4>2. ~(s.t.node[s.node].parent # 0 /\ s.t.node[s.t.node[s.node].parent].red)
        BY <2>8, <4>1 DEF Clash, Hue, Up
      <4> QED
        BY <2>3, <4>2 DEF InsertStep
    <3> QED
      BY <2>1, <2>2, <2>3, <2>4, <2>8, <3>1 DEF Ends
  <2>9. CASE Clash(s.t, s.node)
    <3>1. ~Clash(u.t, u.node) \/ Size(sub2, u.node) >= n + 1
      BY <2>1, <2>4, <2>6, <2>7, <2>9
    <3>2. Ends(u, n + 1)
      BY <2>6, <3>1 DEF Ends
    <3> QED
      BY <2>1, <2>2, <2>5, <3>2
  <2> QED
    BY <2>8, <2>9
<1>8. LastRound \in Good
  <2>1. \A n \in 0..(LastRound - 1) : n \in Good => n + 1 \in Good
    BY <1>7
  <2>2. LastRound \in Nat /\ LastRound \in 0..LastRound
    BY RoundsAre
  <2> HIDE DEF Good
  <2> QED
    BY <1>6, <2>1, <2>2, UpTo
<1>9. PICK s : s = f[LastRound]
  OBVIOUS
<1>10. PICK sub1, bh1 : /\ Adding(s.t, S2, sub1, bh1, s.node)
                        /\ ~Clash(s.t, s.node) \/ Size(sub1, s.node) >= LastRound
  BY <1>8, <1>9
<1>11. /\ Shape(s.t, S2, sub1) /\ Even(s.t, S2, bh1, 0, "left") /\ s.node \in S2
       /\ \A k \in S2 : Clash(s.t, k) => k = s.node
  BY <1>10 DEF Adding
<1>12. ~Clash(s.t, s.node)
  <2>1. Size(sub1, s.node) \in Nat /\ Size(sub1, s.node) <= Cardinality(S2) /\ Cardinality(S2) <= Cardinality(Keys)
        /\ Cardinality(S2) \in Nat
    BY <1>11, Sizes
  <2>2. LastRound \in Nat /\ LastRound > Cardinality(Keys) /\ Cardinality(Keys) \in Nat
    BY RoundsAre
  <2>3. ~(Size(sub1, s.node) >= LastRound)
    BY <2>1, <2>2
  <2> QED
    BY <1>10, <2>3
<1>13. PICK n : n = s.t.root
  OBVIOUS
<1>14. n \in S2
  <2>1. n \in S2 \union {0} /\ sub1[n] = S2 /\ sub1[0] = {}
    BY <1>11, <1>13 DEF Shape, SubType
  <2> QED
    BY <1>11, <2>1
<1>15. PICK u : u = Paint(s.t, n, FALSE)
  OBVIOUS
<1>16. Painted(s.t, u, n, FALSE)
  <2>1. s.t \in TreeT /\ n \in K0
    BY <1>11, <1>14, OffTree
  <2> QED
    BY <1>15, <2>1, PaintIs
<1>17. \E new : Valid(u, S2, sub1, new)
  BY <1>11, <1>12, <1>13, <1>14, <1>16, Blackened
<1> QED
  BY <1>4, <1>9, <1>13, <1>15, <1>17

-----------------------------------------------------------------------------
\* The node that takes the place of one with two children
LeftStep(t, x) == IF t.node[x].left = 0 THEN x ELSE t.node[x].left

LeftWalk(t, from, f) == f = [n \in Rounds |-> IF n = 0 THEN from ELSE LeftStep(t, f[n - 1])]

\* The search for the successor is the repetition of LeftStep.
LEMMA LeftWalks ==
  ASSUME NEW t, NEW from
  PROVE  Leftmost(t, from) = (CHOOSE f : LeftWalk(t, from, f))[LastRound]
BY DEF Leftmost, LeftWalk, LeftStep

\* Nothing below from is on the left of x, but what is below x.
Leftward(sub, from, x) ==
    x \in sub[from] /\ \A y \in sub[from] : y \in sub[x] \/ Before("left", x, y)

\* It goes down to the left, or is at the least key.
LEMMA LeftStepIs ==
  ASSUME NEW t, NEW S, NEW sub, Shape(t, S, sub), NEW from \in S, NEW x \in S, Leftward(sub, from, x)
  PROVE  LET c == Kid(t, x, "left")
         IN  /\ LeftStep(t, x) = IF c = 0 THEN x ELSE c
             /\ c # 0 => c \in S /\ Size(sub, c) < Size(sub, x) /\ Leftward(sub, from, c)
             /\ c = 0 => \A y \in sub[from] : y = x \/ Before("left", x, y)
<1>1. "left" \in Sides /\ Other("left") \in Sides
  BY DEF Sides, Other
<1>2. PICK c : c = Kid(t, x, "left")
  OBVIOUS
<1>3. LeftStep(t, x) = IF c = 0 THEN x ELSE c
  BY <1>2 DEF LeftStep, Kid
<1>4. x \in sub[from] /\ x \in Keys /\ sub[x] \subseteq sub[from] /\ S \subseteq Keys /\ sub[from] \subseteq S /\ x \in sub[x]
      /\ \A y \in sub[from] : y \in sub[x] \/ Before("left", x, y)
  <2>1. x \in sub[from]
    BY DEF Leftward
  <2> QED
    BY <2>1, Nested, NodeIs DEF Shape, Leftward
<1>5. ASSUME NEW y \in sub[x], y # x
      PROVE  y \in sub[c] \/ Before("left", x, y)
  <2>1. y \in sub[c] \/ ~Before("left", y, x)
    BY <1>1, <1>2, SideBelow
  <2>2. y \in Keys
    BY <1>4
  <2> QED
    BY <1>1, <1>4, <1>5, <2>1, <2>2, Order
<1>6. CASE c = 0
  <2>1. sub[c] = {}
    BY <1>6 DEF Shape, SubType
  <2> QED
    BY <1>2, <1>3, <1>4, <1>5, <1>6, <2>1
<1>7. CASE c # 0
  <2>1. c \in S /\ sub[c] \subseteq sub[x] /\ c \in sub[c] /\ c \in Keys /\ Before("left", c, x)
    <3>1. c \in S /\ sub[c] \subseteq sub[x] /\ \A k \in sub[c] : Before("left", k, x)
      BY <1>1, <1>2, <1>7, KidIn
    <3> QED
      BY <3>1, NodeIs
  <2>2. Size(sub, c) < Size(sub, x)
    BY <1>1, <1>2, KidSmaller
  <2>3. ASSUME NEW y \in sub[from] PROVE y \in sub[c] \/ Before("left", c, y)
    <3>1. y \in sub[c] \/ Before("left", x, y) \/ y = x
      BY <1>4, <1>5
    <3>2. y \in Keys
      BY <1>4
    <3> QED
      BY <1>1, <1>4, <2>1, <3>1, <3>2, Order
  <2>4. Leftward(sub, from, c)
    BY <1>4, <2>1, <2>3 DEF Leftward
  <2> QED
    BY <1>2, <1>3, <1>7, <2>1, <2>2, <2>4
<1> QED
  BY <1>6, <1>7

\* It ends at the least key below, which has no left child.
LEMMA LeftmostIs ==
  ASSUME NEW t, NEW S, NEW sub, Shape(t, S, sub), NEW from \in S, NEW m, m = Leftmost(t, from)
  PROVE  /\ m \in S /\ m \in sub[from] /\ Kid(t, m, "left") = 0
         /\ \A y \in sub[from] : y = m \/ Before("left", m, y)
<1> DEFINE step == [x \in S |-> LeftStep(t, x)]
<1>1. "left" \in Sides /\ Kid(t, 0, "left") = 0 /\ sub[from] \subseteq S /\ from \in sub[from]
  <2>1. t.node[0] = Nil
    BY DEF Shape, K0
  <2> QED
    BY <2>1, NilIs, NodeIs DEF Sides
<1>2. step \in [S -> S]
  <2>1. ASSUME NEW x \in S PROVE LeftStep(t, x) \in S
    <3>1. Kid(t, x, "left") \in S \union {0}
      BY <1>1 DEF Shape, NodeRight, KidRight
    <3> QED
      BY <3>1 DEF LeftStep, Kid
  <2> QED
    BY <2>1
<1>3. \E f : LeftWalk(t, from, f)
  <2>1. PICK f : Loops(f, S, from, step)
    <3> HIDE DEF step
    <3> QED
      BY <1>2, LoopExists
  <2>2. ASSUME NEW n \in Rounds, n # 0 PROVE step[f[n - 1]] = LeftStep(t, f[n - 1])
    <3>1. n - 1 \in Rounds
      BY <2>2, RoundsAre
    <3> QED
      BY <2>1, <3>1 DEF Loops
  <2>3. f = [n \in Rounds |-> IF n = 0 THEN from ELSE step[f[n - 1]]]
    BY <2>1 DEF Loops
  <2>4. [n \in Rounds |-> IF n = 0 THEN from ELSE step[f[n - 1]]]
        = [n \in Rounds |-> IF n = 0 THEN from ELSE LeftStep(t, f[n - 1])]
    <3> HIDE DEF step
    <3> QED
      BY <2>2
  <2> QED
    BY <2>3, <2>4 DEF LeftWalk
<1>4. PICK f : LeftWalk(t, from, f) /\ m = f[LastRound]
  BY <1>3, LeftWalks
<1>5. \A n \in 0..LastRound : f[n] = IF n = 0 THEN from ELSE LeftStep(t, f[n - 1])
  BY <1>4, RoundsAre DEF LeftWalk
<1>6. PICK c : c = Cardinality(S) /\ c \in Nat /\ c <= Cardinality(Keys)
  BY Sizes
<1> DEFINE Ends(x) == Kid(t, x, "left") = 0
           Good == {n \in 0..LastRound : /\ f[n] \in S /\ Leftward(sub, from, f[n])
                                         /\ (Ends(f[n]) \/ Size(sub, f[n]) + n <= c)}
<1>7. 0 \in Good
  <2>1. 0 \in 0..LastRound /\ f[0] = from
    BY <1>5, RoundsAre
  <2>2. Size(sub, from) <= c /\ Size(sub, from) \in Nat
    BY <1>6, Sizes
  <2>3. Leftward(sub, from, from)
    BY <1>1 DEF Leftward
  <2> QED
    BY <1>6, <2>1, <2>2, <2>3
<1>8. ASSUME NEW n \in 0..(LastRound - 1), n \in Good PROVE n + 1 \in Good
  <2>1. n + 1 \in 0..LastRound /\ n + 1 # 0 /\ (n + 1) - 1 = n /\ n \in Nat
    BY RoundsAre
  <2>2. PICK x, y : x = f[n] /\ y = f[n + 1]
    OBVIOUS
  <2>3. y = LeftStep(t, x) /\ x \in S /\ Leftward(sub, from, x) /\ (Ends(x) \/ Size(sub, x) + n <= c)
    BY <1>5, <1>8, <2>1, <2>2
  <2>4. /\ Ends(x) => y = x
        /\ ~Ends(x) => y \in S /\ Size(sub, y) < Size(sub, x) /\ Leftward(sub, from, y)
    BY <2>3, LeftStepIs
  <2> HIDE DEF Ends
  <2>5. y \in S /\ Leftward(sub, from, y)
    BY <2>3, <2>4
  <2>6. Size(sub, y) \in Nat /\ Size(sub, x) \in Nat
    BY <2>3, <2>5, Sizes
  <2>7. Ends(y) \/ Size(sub, y) + (n + 1) <= c
    BY <1>6, <2>1, <2>3, <2>4, <2>6
  <2> QED
    BY <2>1, <2>2, <2>5, <2>7
<1>9. LastRound \in Good
  <2>1. \A n \in 0..(LastRound - 1) : n \in Good => n + 1 \in Good
    BY <1>8
  <2>2. LastRound \in Nat /\ LastRound \in 0..LastRound
    BY RoundsAre
  <2> HIDE DEF Good
  <2> QED
    BY <1>7, <2>1, <2>2, UpTo
<1>10. m \in S /\ Leftward(sub, from, m) /\ (Ends(m) \/ Size(sub, m) + LastRound <= c)
  BY <1>4, <1>9
<1>11. Size(sub, m) \in Nat
  BY <1>10, Sizes
<1>12. Ends(m)
  <2> HIDE DEF Ends
  <2> QED
    BY <1>6, <1>10, <1>11, RoundsAre
<1>13. m \in sub[from] /\ \A y \in sub[from] : y = m \/ Before("left", m, y)
  BY <1>10, <1>12, LeftStepIs DEF Leftward
<1> QED
  BY <1>10, <1>12, <1>13

\* A node without links that is not red is as tree_node_init() leaves it.
LEMMA NilFrom ==
  ASSUME NEW u \in TreeT, NEW k \in K0, \A s \in Sides : Kid(u, k, s) = 0, Up(u, k) = 0, Hue(u, k) = FALSE
  PROVE  u.node[k] = Nil
<1>1. u.node[k] \in NodeT
  BY DEF TreeT
<1>2. u.node[k].left = 0 /\ u.node[k].right = 0
  BY DEF Kid, Sides
<1>3. u.node[k].parent = 0 /\ u.node[k].red = FALSE
  BY DEF Up, Hue
<1> QED
  BY <1>1, <1>2, <1>3 DEF NodeT, Nil

\* n, with one child or none, leaves the tree, and the child c moves up.
Spliced(t, u, n, c) ==
    LET g == Up(t, n)
    IN  /\ u \in TreeT
        /\ u.root = IF g = 0 THEN c ELSE t.root
        /\ \A k \in K0 : \A s \in Sides :
             Kid(u, k, s) = IF k = n THEN 0
                            ELSE IF k = g /\ g # 0 /\ s = SideOf(t, n) THEN c ELSE Kid(t, k, s)
        /\ \A k \in K0 : Up(u, k) = IF k = n THEN 0 ELSE IF k = c /\ c # 0 THEN g ELSE Up(t, k)
        /\ \A k \in K0 : Hue(u, k) = IF k = n THEN FALSE ELSE Hue(t, k)

Bared(t, n) == [t EXCEPT !.node[n] = Nil]

Rid(t, u, n) ==
    /\ u \in TreeT /\ u.root = t.root
    /\ \A k \in K0 : \A s \in Sides : Kid(u, k, s) = IF k = n THEN 0 ELSE Kid(t, k, s)
    /\ \A k \in K0 : Up(u, k) = IF k = n THEN 0 ELSE Up(t, k)
    /\ \A k \in K0 : Hue(u, k) = IF k = n THEN FALSE ELSE Hue(t, k)

\* Emptying a node changes no other.
LEMMA BaredIs ==
  ASSUME NEW t \in TreeT, NEW n \in K0
  PROVE  Rid(t, Bared(t, n), n)
<1> PICK u : u = Bared(t, n)
  OBVIOUS
<1>1. Nil \in NodeT
  BY DEF Nil, NodeT, K0
<1>2. Rewritten(t, u, n, Nil)
  BY <1>1, NodeSet DEF Bared
<1>3. u \in TreeT /\ u.root = t.root /\ u.node[n] = Nil /\ \A k \in K0 : k # n => u.node[k] = t.node[k]
  BY <1>2 DEF Rewritten
<1>4. (\A s \in Sides : Kid(u, n, s) = 0) /\ Up(u, n) = 0 /\ Hue(u, n) = FALSE
  BY <1>3, NilIs
<1>5. \A k \in K0 : k # n => /\ \A s \in Sides : Kid(u, k, s) = Kid(t, k, s)
                             /\ Up(u, k) = Up(t, k) /\ Hue(u, k) = Hue(t, k)
  BY <1>3 DEF Kid, Up, Hue
<1> QED
  BY <1>3, <1>4, <1>5 DEF Rid

\* The links a node with one child leaves behind
LEMMA SpliceIs ==
  ASSUME NEW t \in TreeT, NEW n \in K0, NEW c \in K0
  PROVE  Spliced(t, Bared(Replace(t, n, c), n), n, c)
<1> PICK a, u : a = Replace(t, n, c) /\ u = Bared(a, n)
  OBVIOUS
<1>1. Placed(t, a, n, c)
  BY ReplaceIs
<1>2. a \in TreeT
  BY <1>1 DEF Placed
<1>3. /\ u \in TreeT /\ u.root = a.root
      /\ \A k \in K0 : \A s \in Sides : Kid(u, k, s) = IF k = n THEN 0 ELSE Kid(a, k, s)
      /\ \A k \in K0 : Up(u, k) = IF k = n THEN 0 ELSE Up(a, k)
      /\ \A k \in K0 : Hue(u, k) = IF k = n THEN FALSE ELSE Hue(a, k)
  <2>1. Rid(a, u, n)
    BY <1>2, BaredIs
  <2> QED
    BY <2>1 DEF Rid
<1>4. PICK g, e : g = Up(t, n) /\ e = SideOf(t, n)
  OBVIOUS
<1>5. /\ a.root = IF g = 0 THEN c ELSE t.root
      /\ \A k \in K0 : \A s \in Sides : Kid(a, k, s) = IF k = g /\ g # 0 /\ s = e THEN c ELSE Kid(t, k, s)
      /\ \A k \in K0 : Up(a, k) = IF k = c /\ c # 0 THEN g ELSE Up(t, k)
      /\ \A k \in K0 : Hue(a, k) = Hue(t, k)
  BY <1>1, <1>4 DEF Placed
<1>6. \A k \in K0 : \A s \in Sides :
        Kid(u, k, s) = IF k = n THEN 0 ELSE IF k = g /\ g # 0 /\ s = e THEN c ELSE Kid(t, k, s)
  BY <1>3, <1>5
<1>7. \A k \in K0 : Up(u, k) = IF k = n THEN 0 ELSE IF k = c /\ c # 0 THEN g ELSE Up(t, k)
  BY <1>3, <1>5
<1>8. \A k \in K0 : Hue(u, k) = IF k = n THEN FALSE ELSE Hue(t, k)
  BY <1>3, <1>5
<1>9. Spliced(t, u, n, c)
  BY <1>3, <1>4, <1>5, <1>6, <1>7, <1>8 DEF Spliced
<1> QED
  BY <1>9

\* The nodes around it
LEMMA SpliceParts ==
  ASSUME NEW t, NEW S, NEW sub, Shape(t, S, sub), NEW n \in S, NEW a \in Sides, Kid(t, n, a) = 0,
         NEW c, c = Kid(t, n, Other(a)), NEW g, g = Up(t, n), NEW e, e = SideOf(t, n)
  PROVE  /\ n # 0 /\ g \in S \union {0} /\ g # n /\ (t.root = n <=> g = 0)
         /\ g # 0 => e \in Sides /\ Kid(t, g, e) = n
         /\ c \in S \union {0} /\ c # n /\ (c # 0 => Up(t, c) = n /\ c # g)
         /\ n \notin sub[c] /\ sub[n] = {n} \union sub[c]
         /\ \A k \in S : Up(t, k) = n => k = c
<1>1. Other(a) \in Sides /\ Other(a) # a /\ \A s \in Sides : s = a \/ s = Other(a)
  BY SidesAre
<1>2. n # 0 /\ g \in S \union {0} /\ g # n /\ (t.root = n <=> g = 0)
  BY NodeIs
<1>3. g # 0 => e \in Sides /\ Kid(t, g, e) = n
  BY SideFound
<1>4. c # 0 => c \in S /\ c # n /\ Up(t, c) = n /\ n \notin sub[c] /\ c \in sub[c]
  BY <1>1, KidIn, NodeIs
<1>5. sub[0] = {}
  BY DEF Shape, SubType
<1>6. sub[n] = {n} \union sub[c]
  <2>1. Below(t, sub, n)
    BY DEF Shape, NodeRight
  <2>2. sub[n] = {n} \union sub[Kid(t, n, a)] \union sub[Kid(t, n, Other(a))]
    BY <2>1 DEF Below
  <2> QED
    BY <1>5, <2>2
<1>7. c # 0 => c # g
  <2> SUFFICES ASSUME c # 0, c = g PROVE FALSE
    OBVIOUS
  <2>1. g # 0 /\ g \in S
    BY <1>2
  <2>2. sub[n] \subseteq sub[g] /\ n \in sub[n]
    BY <1>2, <1>3, <2>1, KidIn, NodeIs
  <2> QED
    BY <1>4, <2>2
<1>8. ASSUME NEW k \in S, Up(t, k) = n PROVE k = c
  <2>1. SideOf(t, k) \in Sides /\ Kid(t, n, SideOf(t, k)) = k /\ k # 0
    BY <1>2, <1>8, SideFound, NodeIs
  <2> QED
    BY <1>1, <2>1
<1>9. c \in S \union {0} /\ c # n /\ n \notin sub[c]
  BY <1>2, <1>4, <1>5
<1> QED
  BY <1>2, <1>3, <1>4, <1>6, <1>7, <1>8, <1>9

Cut(sub, n) == [k \in K0 |-> IF k = n THEN {} ELSE sub[k] \ {n}]

\* A search tree stays one when a node with one child leaves it.
LEMMA SpliceShape ==
  ASSUME NEW t, NEW S, NEW sub, Shape(t, S, sub), NEW n \in S, NEW a \in Sides, Kid(t, n, a) = 0,
         NEW u, Spliced(t, u, n, Kid(t, n, Other(a)))
  PROVE  Shape(u, S \ {n}, Cut(sub, n))
<1> PICK c, g, e, T : c = Kid(t, n, Other(a)) /\ g = Up(t, n) /\ e = SideOf(t, n) /\ T = S \ {n}
  OBVIOUS
<1>1. /\ n # 0 /\ g \in S \union {0} /\ g # n /\ (t.root = n <=> g = 0)
      /\ g # 0 => e \in Sides /\ Kid(t, g, e) = n
      /\ c \in S \union {0} /\ c # n /\ (c # 0 => Up(t, c) = n /\ c # g)
      /\ n \notin sub[c] /\ sub[n] = {n} \union sub[c]
      /\ \A k \in S : Up(t, k) = n => k = c
  BY SpliceParts
<1>2. /\ u \in TreeT
      /\ u.root = IF g = 0 THEN c ELSE t.root
      /\ \A k \in K0 : \A s \in Sides :
             Kid(u, k, s) = IF k = n THEN 0 ELSE IF k = g /\ g # 0 /\ s = e THEN c ELSE Kid(t, k, s)
      /\ \A k \in K0 : Up(u, k) = IF k = n THEN 0 ELSE IF k = c /\ c # 0 THEN g ELSE Up(t, k)
      /\ \A k \in K0 : Hue(u, k) = IF k = n THEN FALSE ELSE Hue(t, k)
  BY DEF Spliced
<1>3. /\ t \in TreeT /\ S \subseteq Keys /\ S \subseteq K0 /\ 0 \in K0 /\ 0 \notin S /\ n \in K0 /\ c \in K0 /\ g \in K0
      /\ \A k \in K0 \ S : Hue(t, k) = FALSE /\ Up(t, k) = 0
      /\ t.root \in S \union {0} /\ sub[t.root] = S
  <2>1. /\ t \in TreeT /\ S \subseteq Keys /\ S \subseteq K0 /\ 0 \in K0 /\ 0 \notin S
        /\ \A k \in K0 \ S : Hue(t, k) = FALSE /\ Up(t, k) = 0
    BY OffTree
  <2>2. t.root \in S \union {0} /\ sub[t.root] = S
    BY DEF Shape
  <2> QED
    BY <1>1, <2>1, <2>2
<1>4. PICK new : new = Cut(sub, n)
  OBVIOUS
<1>5. /\ new \in [K0 -> SUBSET T] /\ new[0] = {} /\ new[n] = {}
      /\ \A k \in K0 : k # n => new[k] = sub[k] \ {n}
  BY <1>1, <1>3, <1>4 DEF Cut, Shape, SubType
<1>6. ASSUME NEW k \in K0 \ T PROVE u.node[k] = Nil
  <2>1. CASE k = n
    BY <1>2, <1>3, <2>1, NilFrom
  <2>2. CASE k # n
    <3>1. k \in K0 \ S /\ t.node[k] = Nil /\ ~(k = g /\ g # 0) /\ ~(k = c /\ c # 0)
      BY <1>1, <1>3, <2>2 DEF Shape
    <3>2. (\A s \in Sides : Kid(t, k, s) = 0) /\ Up(t, k) = 0 /\ Hue(t, k) = FALSE
      BY <3>1, NilIs
    <3>3. (\A s \in Sides : Kid(u, k, s) = 0) /\ Up(u, k) = 0 /\ Hue(u, k) = FALSE
      BY <1>2, <2>2, <3>1, <3>2
    <3> QED
      BY <1>2, <3>3, NilFrom
  <2> QED
    BY <2>1, <2>2
<1>7. u.root \in T \union {0} /\ new[u.root] = T
  <2>1. CASE g = 0
    <3>1. u.root = c /\ t.root = n
      BY <1>1, <1>2, <2>1
    <3> QED
      BY <1>1, <1>3, <1>5, <3>1
  <2>2. CASE g # 0
    <3>1. u.root = t.root /\ t.root # n
      BY <1>1, <1>2, <2>2
    <3> QED
      BY <1>3, <1>5, <3>1
  <2> QED
    BY <2>1, <2>2
\* A child in the new tree
<1>8. ASSUME NEW k \in T, NEW s \in Sides
      PROVE  /\ KidRight(u, T, new, k, s)
             /\ new[Kid(u, k, s)] = sub[Kid(t, k, s)] \ {n}
  <2>1. PICK y : y = Kid(t, k, s) /\ y \in S \union {0} /\ (y # 0 => Up(t, y) = k) /\ \A x \in sub[y] : Before(s, x, k)
    BY DEF Shape, NodeRight, KidRight
  <2>2. k \in K0 /\ k # n /\ k # 0 /\ k \in S
    BY <1>3
  <2>3. CASE k = g /\ s = e
    <3>1. y = n /\ Kid(u, k, s) = c
      BY <1>1, <1>2, <2>1, <2>2, <2>3
    <3>2. c # 0 => Up(u, c) = k
      BY <1>1, <1>2, <1>3, <2>3
    <3>3. new[c] = sub[n] \ {n}
      BY <1>1, <1>3, <1>5
    <3> QED
      BY <1>1, <2>1, <3>1, <3>2, <3>3 DEF KidRight
  <2>4. CASE ~(k = g /\ s = e)
    <3>1. y # n
      <4> SUFFICES ASSUME y = n PROVE FALSE
        OBVIOUS
      <4>1. k = g /\ g # 0
        BY <1>1, <2>1, <2>2
      <4>2. IsKid(t, k, s, n) /\ IsKid(t, k, e, n)
        BY <1>1, <2>1, <4>1 DEF IsKid
      <4> QED
        BY <1>1, <2>2, <2>4, <4>1, <4>2, OneParent
    <3>2. Kid(u, k, s) = y /\ y \in K0 /\ y \in T \union {0}
      BY <1>2, <1>3, <2>1, <2>2, <2>4, <3>1
    <3>3. y # 0 => Up(u, y) = k
      BY <1>1, <1>2, <2>1, <2>2, <3>1, <3>2
    <3>4. new[y] = sub[y] \ {n}
      BY <1>5, <3>1, <3>2
    <3> QED
      BY <2>1, <3>2, <3>3, <3>4 DEF KidRight
  <2> QED
    BY <2>3, <2>4
<1>9. ASSUME NEW k \in T PROVE UpRight(u, T, k)
  <2>1. k \in K0 /\ k # n /\ k # 0 /\ k \in S
    BY <1>3
  <2>2. CASE k = c
    <3>1. Up(u, k) = g /\ t.root # c
      BY <1>1, <1>2, <2>1, <2>2, NodeIs
    <3>2. g # 0 => Kid(u, g, e) = k
      BY <1>1, <1>2, <1>3, <2>2
    <3> QED
      BY <1>1, <1>2, <2>1, <2>2, <3>1, <3>2 DEF UpRight
  <2>3. CASE k # c
    <3>1. PICK h, s : h = Up(t, k) /\ s = SideOf(t, k) /\ h \in S \union {0} /\ h # n /\ (t.root = k <=> h = 0)
      BY <1>1, <2>1, <2>3, NodeIs
    <3>2. Up(u, k) = h
      BY <1>2, <2>1, <2>3, <3>1
    <3>3. u.root = k <=> t.root = k
      BY <1>1, <1>2, <2>1, <2>3
    <3>4. h # 0 => s \in Sides /\ Kid(t, h, s) = k
      BY <2>1, <3>1, SideFound
    <3>5. h # 0 => Kid(u, h, s) = k
      BY <1>1, <1>2, <1>3, <2>1, <3>1, <3>4
    <3> QED
      BY <3>1, <3>2, <3>3, <3>4, <3>5 DEF UpRight
  <2> QED
    BY <2>2, <2>3
<1>10. ASSUME NEW k \in T PROVE Below(u, new, k)
  <2> SUFFICES ASSUME NEW s \in Sides
               PROVE  new[k] = {k} \union new[Kid(u, k, s)] \union new[Kid(u, k, Other(s))]
    BY DEF Below
  <2>1. Other(s) \in Sides
    BY SidesAre
  <2>2. sub[k] = {k} \union sub[Kid(t, k, s)] \union sub[Kid(t, k, Other(s))]
    BY DEF Shape, NodeRight, Below
  <2>3. new[k] = sub[k] \ {n} /\ k # n
    BY <1>3, <1>5
  <2> QED
    BY <1>8, <2>1, <2>2, <2>3
<1>11. Shape(u, T, new)
  <2>1. \A k \in T : NodeRight(u, T, new, k)
    BY <1>8, <1>9, <1>10 DEF NodeRight
  <2> QED
    BY <1>2, <1>3, <1>5, <1>6, <1>7, <2>1 DEF Shape, SubType
<1> QED
  BY <1>4, <1>11

\* tree_del() between two rounds: the paths through the side d of p lack a
\* black node; only n, and what is under it, may be red under red.
Removing(t, S, sub, bh, n, p, d) ==
    /\ Shape(t, S, sub) /\ Even(t, S, bh, p, d)
    /\ n \in S \union {0} /\ p \in S \union {0} /\ d \in Sides
    /\ p = 0 => n = t.root
    /\ p # 0 => Kid(t, p, d) = n
    /\ \A k \in S : Clash(t, k) => k = n \/ Up(t, k) = n
    /\ Hue(t, t.root) => t.root = n

\* If the node was black, the paths through its child lack one.
LEMMA SplicedIs ==
  ASSUME NEW t, NEW S, NEW sub, NEW bh, Valid(t, S, sub, bh), NEW n \in S, NEW a \in Sides, Kid(t, n, a) = 0,
         NEW u, Spliced(t, u, n, Kid(t, n, Other(a)))
  PROVE  /\ Hue(t, n) => Valid(u, S \ {n}, Cut(sub, n), bh)
         /\ ~Hue(t, n) => Removing(u, S \ {n}, Cut(sub, n), bh, Kid(t, n, Other(a)), Up(t, n), SideOf(t, n))
<1> PICK c, g, e, T : c = Kid(t, n, Other(a)) /\ g = Up(t, n) /\ e = SideOf(t, n) /\ T = S \ {n}
  OBVIOUS
<1>0. /\ Shape(t, S, sub) /\ Even(t, S, bh, 0, "left")
      /\ \A k \in S : ~Clash(t, k)
      /\ ~Hue(t, t.root)
  BY DEF Valid
<1>1. /\ n # 0 /\ g \in S \union {0} /\ g # n /\ (t.root = n <=> g = 0)
      /\ g # 0 => e \in Sides /\ Kid(t, g, e) = n
      /\ c \in S \union {0} /\ c # n /\ (c # 0 => Up(t, c) = n /\ c # g)
      /\ n \notin sub[c] /\ sub[n] = {n} \union sub[c]
      /\ \A k \in S : Up(t, k) = n => k = c
  BY <1>0, SpliceParts
<1>2. /\ u \in TreeT
      /\ u.root = IF g = 0 THEN c ELSE t.root
      /\ \A k \in K0 : \A s \in Sides :
             Kid(u, k, s) = IF k = n THEN 0 ELSE IF k = g /\ g # 0 /\ s = e THEN c ELSE Kid(t, k, s)
      /\ \A k \in K0 : Up(u, k) = IF k = n THEN 0 ELSE IF k = c /\ c # 0 THEN g ELSE Up(t, k)
      /\ \A k \in K0 : Hue(u, k) = IF k = n THEN FALSE ELSE Hue(t, k)
  BY DEF Spliced
<1>3. /\ t \in TreeT /\ S \subseteq K0 /\ 0 \in K0 /\ 0 \notin S /\ n \in K0 /\ c \in K0 /\ g \in K0
      /\ Hue(t, 0) = FALSE /\ \A k \in K0 : Hue(t, k) \in BOOLEAN
      /\ t.root \in S \union {0} /\ t.root \in K0
  <2>1. /\ t \in TreeT /\ S \subseteq K0 /\ 0 \in K0 /\ 0 \notin S
        /\ \A k \in K0 \ S : Hue(t, k) = FALSE /\ Up(t, k) = 0
        /\ \A k \in K0 : Hue(t, k) \in BOOLEAN
        /\ t.root \in S \union {0}
    BY <1>0, OffTree
  <2> QED
    BY <1>1, <2>1
<1>4. PICK new : new = Cut(sub, n) /\ Shape(u, T, new)
  BY <1>0, SpliceShape
<1>5. \A k \in K0 : k # n => Hue(u, k) = Hue(t, k)
  BY <1>2
<1>6. ~Hue(u, n)
  BY <1>2, <1>3
<1>7. ASSUME NEW k \in T, Clash(u, k) PROVE k = c /\ ~Hue(t, n)
  <2>1. k \in K0 /\ k # n /\ k \in S /\ Hue(t, k) /\ Hue(u, Up(u, k)) /\ Up(t, k) \in K0 /\ k # 0
    BY <1>3, <1>5, <1>7, TypeIs DEF Clash
  <2>2. k = c
    <3> SUFFICES ASSUME k # c PROVE FALSE
      OBVIOUS
    <3>1. Up(t, k) # n /\ Up(u, k) = Up(t, k)
      BY <1>1, <1>2, <2>1
    <3>2. Clash(t, k)
      BY <1>5, <2>1, <3>1 DEF Clash
    <3> QED
      BY <1>0, <2>1, <3>2
  <2>3. ~Hue(t, n)
    <3>1. Up(t, k) = n
      BY <1>1, <2>1, <2>2
    <3> QED
      BY <1>0, <2>1, <3>1 DEF Clash
  <2> QED
    BY <2>2, <2>3
<1>8. Heights(bh) /\ \A k \in S : EvenAt(t, bh, k, 0, "left")
  BY <1>0 DEF Even
<1>9. bh[n] = bh[c] + Weight(t, n) /\ bh[c] \in Nat /\ bh[n] \in Nat
  <2>1. Other(a) \in Sides
    BY SidesAre
  <2>2. bh[n] = bh[c] + Weight(t, n) + Lack(n, Other(a), 0, "left")
    BY <1>8, <2>1 DEF EvenAt
  <2>3. Lack(n, Other(a), 0, "left") = 0
    BY <1>1 DEF Lack
  <2>4. bh[c] \in Nat /\ bh[n] \in Nat
    BY <1>3, <1>8 DEF Heights
  <2>5. Weight(t, n) \in Nat
    BY WeightIs
  <2> QED
    BY <2>2, <2>3, <2>4, <2>5
\* The heights stay as they were but for the way through n.
<1>10. ASSUME NEW P, NEW D, NEW k \in T, NEW s \in Sides,
              k = g /\ s = e => Lack(k, s, P, D) = Weight(t, n),
              ~(k = g /\ s = e) => Lack(k, s, P, D) = 0
       PROVE  bh[k] = bh[Kid(u, k, s)] + Weight(u, k) + Lack(k, s, P, D)
  <2>1. k \in K0 /\ k # n /\ k \in S /\ k # 0
    BY <1>3
  <2>2. bh[k] = bh[Kid(t, k, s)] + Weight(t, k) + Lack(k, s, 0, "left") /\ Lack(k, s, 0, "left") = 0
    BY <1>8, <2>1 DEF EvenAt, Lack
  <2>3. Weight(u, k) = Weight(t, k) /\ Weight(t, k) \in Nat /\ Weight(t, n) \in Nat
    BY <1>5, <2>1 DEF Weight
  <2>4. CASE k = g /\ s = e
    <3>1. Kid(t, k, s) = n /\ Kid(u, k, s) = c
      BY <1>1, <1>2, <2>1, <2>4
    <3> QED
      BY <1>9, <1>10, <2>2, <2>3, <2>4, <3>1
  <2>5. CASE ~(k = g /\ s = e)
    <3>1. Kid(u, k, s) = Kid(t, k, s)
      BY <1>2, <2>1, <2>5
    <3> QED
      BY <1>10, <2>2, <2>3, <2>5, <3>1
  <2> QED
    BY <2>4, <2>5
<1>11. CASE Hue(t, n)
  <2>1. g # 0 /\ Weight(t, n) = 0
    BY <1>0, <1>1, <1>11 DEF Weight
  <2>2. \A k \in T : ~Clash(u, k)
    BY <1>7, <1>11
  <2>3. ~Hue(u, u.root)
    BY <1>0, <1>1, <1>2, <1>3, <1>5, <2>1
  <2>4. Even(u, T, bh, 0, "left")
    <3>1. \A k \in T : \A s \in Sides : Lack(k, s, 0, "left") = 0
      BY <1>3 DEF Lack
    <3> QED
      BY <1>8, <1>10, <2>1, <3>1 DEF Even, EvenAt
  <2>5. Valid(u, T, new, bh)
    BY <1>4, <2>2, <2>3, <2>4 DEF Valid
  <2> QED
    BY <1>4, <1>11, <2>5
<1>12. CASE ~Hue(t, n)
  <2>1. Weight(t, n) = 1
    BY <1>12 DEF Weight
  <2>2. \A k \in T : \A s \in Sides : Lack(k, s, g, e) = IF k = g /\ s = e THEN 1 ELSE 0
    BY DEF Lack
  <2>3. Even(u, T, bh, g, e)
    BY <1>8, <1>10, <2>1, <2>2 DEF Even, EvenAt
  <2>4. \A k \in T : Clash(u, k) => k = c \/ Up(u, k) = c
    BY <1>7
  <2>5. e \in Sides
    BY <1>3, SideIs
  <2>6. c \in T \union {0} /\ g \in T \union {0} /\ (g = 0 => c = u.root) /\ (g # 0 => Kid(u, g, e) = c)
    BY <1>1, <1>2, <1>3, <2>5
  <2>7. Hue(u, u.root) => u.root = c
    BY <1>0, <1>1, <1>2, <1>3, <1>5
  <2>8. Removing(u, T, new, bh, c, g, e)
    BY <1>4, <2>3, <2>4, <2>5, <2>6, <2>7 DEF Removing
  <2> QED
    BY <1>4, <1>12, <2>8
<1> QED
  BY <1>11, <1>12

-----------------------------------------------------------------------------
\* m, which is not in the tree, gets n's place.
As(n, m, x) == IF x = n THEN m ELSE x

Renamed(t, u, n, m) ==
    /\ u \in TreeT
    /\ u.root = As(n, m, t.root)
    /\ \A k \in K0 \ {n, m} : \A s \in Sides : Kid(u, k, s) = As(n, m, Kid(t, k, s))
    /\ \A s \in Sides : Kid(u, m, s) = Kid(t, n, s)
    /\ \A k \in K0 \ {n, m} : Up(u, k) = As(n, m, Up(t, k))
    /\ Up(u, m) = Up(t, n)
    /\ \A k \in K0 \ {n, m} : Hue(u, k) = Hue(t, k)
    /\ Hue(u, m) = Hue(t, n)
    /\ u.node[n] = Nil

Swapped(A, n, m) == IF n \in A THEN (A \ {n}) \union {m} ELSE A
Exchanged(sub, n, m) ==
    [k \in K0 |-> IF k = n THEN {} ELSE IF k = m THEN Swapped(sub[n], n, m) ELSE Swapped(sub[k], n, m)]

\* A search tree stays one when a neighbour in the order takes a node's place.
LEMMA RenameShape ==
  ASSUME NEW t, NEW S, NEW sub, Shape(t, S, sub), NEW n \in S, NEW m \in Keys \ S,
         \A k \in S \ {n} : \A s \in Sides : Before(s, k, n) <=> Before(s, k, m),
         NEW u, Renamed(t, u, n, m)
  PROVE  Shape(u, (S \ {n}) \union {m}, Exchanged(sub, n, m))
<1> PICK T, new : T = (S \ {n}) \union {m} /\ new = Exchanged(sub, n, m)
  OBVIOUS
<1>1. /\ t \in TreeT /\ S \subseteq Keys /\ S \subseteq K0 /\ 0 \in K0 /\ 0 \notin S /\ Keys \subseteq K0
      /\ \A k \in K0 \ S : Hue(t, k) = FALSE /\ Up(t, k) = 0
      /\ n \in K0 /\ m \in K0 /\ n # m /\ n # 0 /\ m # 0
  <2>1. /\ t \in TreeT /\ S \subseteq Keys /\ S \subseteq K0 /\ 0 \in K0 /\ 0 \notin S /\ Keys \subseteq K0
        /\ \A k \in K0 \ S : Hue(t, k) = FALSE /\ Up(t, k) = 0
    BY OffTree
  <2> QED
    BY <2>1
<1>2. /\ t.root \in S \union {0} /\ sub[t.root] = S /\ sub \in [K0 -> SUBSET S] /\ sub[0] = {}
      /\ \A k \in K0 \ S : t.node[k] = Nil
  BY DEF Shape, SubType
<1>3. /\ u \in TreeT
      /\ u.root = As(n, m, t.root)
      /\ \A k \in K0 \ {n, m} : \A s \in Sides : Kid(u, k, s) = As(n, m, Kid(t, k, s))
      /\ \A s \in Sides : Kid(u, m, s) = Kid(t, n, s)
      /\ \A k \in K0 \ {n, m} : Up(u, k) = As(n, m, Up(t, k))
      /\ Up(u, m) = Up(t, n)
      /\ \A k \in K0 \ {n, m} : Hue(u, k) = Hue(t, k)
      /\ u.node[n] = Nil
  BY DEF Renamed
\* A node of the old tree, at its place in the new one
<1>4. \A x \in S \union {0} : /\ As(n, m, x) \in T \union {0}
                              /\ As(n, m, x) = 0 <=> x = 0
                              /\ new[As(n, m, x)] = Swapped(sub[x], n, m)
  <2>1. new[0] = {} /\ Swapped(sub[0], n, m) = {}
    BY <1>1, <1>2 DEF Exchanged, Swapped
  <2>2. ASSUME NEW x \in S PROVE As(n, m, x) \in T /\ As(n, m, x) # 0 /\ new[As(n, m, x)] = Swapped(sub[x], n, m)
    <3>1. CASE x = n
      BY <1>1, <3>1 DEF As, Exchanged
    <3>2. CASE x # n
      BY <1>1, <3>2 DEF As, Exchanged
    <3> QED
      BY <3>1, <3>2
  <2>3. As(n, m, 0) = 0
    BY <1>1 DEF As
  <2> QED
    BY <1>1, <2>1, <2>2, <2>3
<1>5. \A x, y \in S \union {0} : As(n, m, x) = As(n, m, y) => x = y
  BY <1>1 DEF As
<1>6. \A x \in S : /\ \A s \in Sides : Kid(u, As(n, m, x), s) = As(n, m, Kid(t, x, s))
                   /\ Up(u, As(n, m, x)) = As(n, m, Up(t, x))
  <2>1. ASSUME NEW x \in S PROVE /\ \A s \in Sides : Kid(u, As(n, m, x), s) = As(n, m, Kid(t, x, s))
                                 /\ Up(u, As(n, m, x)) = As(n, m, Up(t, x))
    <3>1. CASE x = n
      <4>1. \A s \in Sides : Kid(t, n, s) # n
        BY <1>1, KidIn
      <4>2. Up(t, n) # n
        BY NodeIs
      <4> QED
        BY <1>3, <3>1, <4>1, <4>2 DEF As
    <3>2. CASE x # n
      <4>1. As(n, m, x) = x /\ x \in K0 \ {n, m}
        BY <1>1, <3>2 DEF As
      <4> QED
        BY <1>3, <4>1
    <3> QED
      BY <3>1, <3>2
  <2> QED
    BY <2>1
<1>7. ASSUME NEW y \in T PROVE \E x \in S : y = As(n, m, x)
  <2>1. CASE y = m
    BY <2>1 DEF As
  <2>2. CASE y # m
    BY <2>2 DEF As
  <2> QED
    BY <2>1, <2>2
<1>8. new \in [K0 -> SUBSET T] /\ new[0] = {}
  <2>1. \A A \in SUBSET S : Swapped(A, n, m) \in SUBSET T
    BY DEF Swapped
  <2>2. new = [k \in K0 |-> IF k = n THEN {} ELSE IF k = m THEN Swapped(sub[n], n, m) ELSE Swapped(sub[k], n, m)]
    BY DEF Exchanged
  <2>3. \A k \in K0 : Swapped(sub[k], n, m) \in SUBSET T
    BY <1>2, <2>1
  <2>4. new \in [K0 -> SUBSET T]
    BY <1>1, <2>2, <2>3
  <2>5. new[0] = {}
    BY <1>1, <1>2, <2>2 DEF Swapped
  <2> QED
    BY <2>4, <2>5
<1>9. ASSUME NEW k \in K0 \ T PROVE u.node[k] = Nil
  <2>1. CASE k = n
    BY <1>3, <2>1
  <2>2. CASE k # n
    <3>1. k \in K0 \ S /\ k \in K0 \ {n, m} /\ t.node[k] = Nil
      BY <1>2, <2>2
    <3>2. (\A s \in Sides : Kid(t, k, s) = 0) /\ Up(t, k) = 0 /\ Hue(t, k) = FALSE
      BY <3>1, NilIs
    <3>3. (\A s \in Sides : Kid(u, k, s) = 0) /\ Up(u, k) = 0 /\ Hue(u, k) = FALSE
      BY <1>1, <1>3, <3>1, <3>2 DEF As
    <3> QED
      BY <1>3, <3>3, NilFrom
  <2> QED
    BY <2>1, <2>2
<1>10. u.root \in T \union {0} /\ new[u.root] = T
  <2>1. Swapped(S, n, m) = T
    BY DEF Swapped
  <2> QED
    BY <1>2, <1>3, <1>4, <2>1
<1>11. ASSUME NEW x \in S PROVE NodeRight(u, T, new, As(n, m, x))
  <2>1. PICK y : y = As(n, m, x) /\ y \in T
    BY <1>1, <1>4 DEF As
  <2>2. /\ \A s \in Sides : Kid(u, y, s) = As(n, m, Kid(t, x, s))
        /\ Up(u, y) = As(n, m, Up(t, x))
    BY <1>6, <2>1
  <2>3. NodeRight(t, S, sub, x) /\ x \in K0 /\ x # 0 /\ x \in Keys
    BY <1>1 DEF Shape
  <2>4. ASSUME NEW s \in Sides PROVE KidRight(u, T, new, y, s)
    <3>1. PICK c : c = Kid(t, x, s) /\ c \in S \union {0} /\ (c # 0 => Up(t, c) = x) /\ \A z \in sub[c] : Before(s, z, x)
      BY <2>3 DEF NodeRight, KidRight
    <3>2. PICK b : b = As(n, m, c) /\ Kid(u, y, s) = b /\ b \in T \union {0} /\ (b = 0 <=> c = 0)
                   /\ new[b] = Swapped(sub[c], n, m)
      BY <1>4, <2>2, <3>1
    <3>3. b # 0 => Up(u, b) = y
      BY <1>6, <2>1, <3>1, <3>2
    <3>4. ASSUME NEW z \in new[b] PROVE Before(s, z, y)
      <4>1. PICK w \in sub[c] : z = As(n, m, w)
        <5>1. CASE z = m
          <6>1. n \in sub[c] \/ m \in sub[c]
            BY <3>2, <3>4, <5>1 DEF Swapped
          <6>2. m \notin sub[c]
            BY <1>1, <1>2, <3>1
          <6> QED
            BY <5>1, <6>1, <6>2 DEF As
        <5>2. CASE z # m
          <6>1. z \in sub[c] /\ z # n
            BY <1>1, <3>2, <3>4, <5>2 DEF Swapped
          <6> QED
            BY <6>1 DEF As
        <5> QED
          BY <5>1, <5>2
      <4>2. Before(s, w, x) /\ w \in S
        BY <1>1, <1>2, <3>1
      <4>3. w # x
        BY <1>1, <4>2, Order
      <4>4. CASE w # n /\ x # n
        BY <2>1, <4>1, <4>2, <4>4 DEF As
      <4>5. CASE x = n
        <5>1. Before(s, w, m) /\ z = w /\ y = m
          BY <2>1, <4>1, <4>2, <4>3, <4>5 DEF As
        <5> QED
          BY <5>1
      <4>6. CASE w = n
        <5>1. z = m /\ y = x /\ x \in S \ {n} /\ Other(s) \in Sides
          BY <2>1, <4>1, <4>3, <4>6, SidesAre DEF As
        <5>2. Before(Other(s), x, n)
          BY <1>1, <4>2, <4>6, Order
        <5>3. Before(Other(s), x, m)
          BY <5>1, <5>2
        <5>4. Before(s, m, x)
          BY <1>1, <5>3, Order
        <5> QED
          BY <5>1, <5>4
      <4> QED
        BY <4>4, <4>5, <4>6
    <3> QED
      BY <3>2, <3>3, <3>4 DEF KidRight
  <2>5. UpRight(u, T, y)
    <3>1. PICK h : h = Up(t, x) /\ h \in S \union {0} /\ (t.root = x <=> h = 0)
      BY NodeIs
    <3>2. PICK b : b = As(n, m, h) /\ Up(u, y) = b /\ b \in T \union {0} /\ (b = 0 <=> h = 0)
      BY <1>4, <2>2, <3>1
    <3>3. u.root = y <=> t.root = x
      BY <1>2, <1>3, <1>5, <2>1
    <3>4. b # 0 => \E s \in Sides : Kid(u, b, s) = y
      <4> SUFFICES ASSUME b # 0 PROVE \E s \in Sides : Kid(u, b, s) = y
        OBVIOUS
      <4>1. PICK s : s = SideOf(t, x) /\ s \in Sides /\ Kid(t, h, s) = x /\ h \in S
        BY <1>1, <3>1, <3>2, SideFound
      <4>2. Kid(u, b, s) = y
        BY <1>6, <2>1, <3>2, <4>1
      <4> QED
        BY <4>1, <4>2
    <3> QED
      BY <3>1, <3>2, <3>3, <3>4 DEF UpRight
  <2>6. Below(u, new, y)
    <3> SUFFICES ASSUME NEW s \in Sides
                 PROVE  new[y] = {y} \union new[Kid(u, y, s)] \union new[Kid(u, y, Other(s))]
      BY DEF Below
    <3>1. PICK a, b : a = Kid(t, x, s) /\ b = Kid(t, x, Other(s))
      OBVIOUS
    <3>2. Other(s) \in Sides /\ a \in S \union {0} /\ b \in S \union {0} /\ sub[x] = {x} \union sub[a] \union sub[b]
      BY <2>3, <3>1, SidesAre DEF NodeRight, KidRight, Below
    <3>3. /\ new[y] = Swapped(sub[x], n, m)
          /\ new[Kid(u, y, s)] = Swapped(sub[a], n, m)
          /\ new[Kid(u, y, Other(s))] = Swapped(sub[b], n, m)
      BY <1>4, <2>1, <2>2, <3>1, <3>2
    <3>4. Swapped({x} \union sub[a] \union sub[b], n, m) = {y} \union Swapped(sub[a], n, m) \union Swapped(sub[b], n, m)
      BY <1>1, <2>1 DEF Swapped, As
    <3> QED
      BY <3>2, <3>3, <3>4
  <2> QED
    BY <2>1, <2>4, <2>5, <2>6 DEF NodeRight
<1>12. \A k \in T : NodeRight(u, T, new, k)
  BY <1>7, <1>11
<1>13. Shape(u, T, new)
  BY <1>1, <1>3, <1>8, <1>9, <1>10, <1>12 DEF Shape, SubType
<1> QED
  BY <1>13

\* Node by node, the renamed tree is the old one.
Matched(t, u, S, T, n, m) ==
    /\ \A x \in S \union {0} : /\ As(n, m, x) \in T \union {0}
                               /\ As(n, m, x) = 0 <=> x = 0
                               /\ Hue(u, As(n, m, x)) = Hue(t, x)
    /\ \A x, y \in S \union {0} : As(n, m, x) = As(n, m, y) => x = y
    /\ \A x \in S : /\ \A s \in Sides : Kid(u, As(n, m, x), s) = As(n, m, Kid(t, x, s))
                    /\ Up(u, As(n, m, x)) = As(n, m, Up(t, x))
    /\ \A y \in T : \E x \in S : y = As(n, m, x)
    /\ u.root = As(n, m, t.root)

\* The node that takes the place has the links of the one that leaves.
LEMMA RenameParts ==
  ASSUME NEW t, NEW S, NEW sub, Shape(t, S, sub), NEW n \in S, NEW m \in Keys \ S,
         NEW u, Renamed(t, u, n, m)
  PROVE  Matched(t, u, S, (S \ {n}) \union {m}, n, m)
<1> PICK T : T = (S \ {n}) \union {m}
  OBVIOUS
<1>1. /\ S \subseteq K0 /\ 0 \in K0 /\ 0 \notin S /\ Keys \subseteq K0
      /\ n \in K0 /\ m \in K0 /\ n # m /\ n # 0 /\ m # 0
  <2>1. /\ S \subseteq K0 /\ 0 \in K0 /\ 0 \notin S /\ Keys \subseteq K0
    BY OffTree
  <2> QED
    BY <2>1
<1>2. /\ u.root = As(n, m, t.root)
      /\ \A k \in K0 \ {n, m} : \A s \in Sides : Kid(u, k, s) = As(n, m, Kid(t, k, s))
      /\ \A s \in Sides : Kid(u, m, s) = Kid(t, n, s)
      /\ \A k \in K0 \ {n, m} : Up(u, k) = As(n, m, Up(t, k))
      /\ Up(u, m) = Up(t, n)
      /\ \A k \in K0 \ {n, m} : Hue(u, k) = Hue(t, k)
      /\ Hue(u, m) = Hue(t, n)
  BY DEF Renamed
<1>3. \A x \in S \union {0} : As(n, m, x) \in T \union {0} /\ (As(n, m, x) = 0 <=> x = 0)
  BY <1>1 DEF As
<1>4. \A x, y \in S \union {0} : As(n, m, x) = As(n, m, y) => x = y
  BY <1>1 DEF As
<1>5. ASSUME NEW x \in S PROVE /\ \A s \in Sides : Kid(u, As(n, m, x), s) = As(n, m, Kid(t, x, s))
                               /\ Up(u, As(n, m, x)) = As(n, m, Up(t, x))
                               /\ Hue(u, As(n, m, x)) = Hue(t, x)
  <2>1. CASE x = n
    <3>1. \A s \in Sides : Kid(t, n, s) # n
      BY <1>1, KidIn
    <3>2. Up(t, n) # n
      BY NodeIs
    <3> QED
      BY <1>2, <2>1, <3>1, <3>2 DEF As
  <2>2. CASE x # n
    <3>1. As(n, m, x) = x /\ x \in K0 \ {n, m}
      BY <1>1, <2>2 DEF As
    <3> QED
      BY <1>2, <3>1
  <2> QED
    BY <2>1, <2>2
<1>6. Hue(u, As(n, m, 0)) = Hue(t, 0)
  <2>1. As(n, m, 0) = 0 /\ 0 \in K0 \ {n, m}
    BY <1>1 DEF As
  <2> QED
    BY <1>2, <2>1
<1>7. ASSUME NEW y \in T PROVE \E x \in S : y = As(n, m, x)
  <2>1. CASE y = m
    BY <2>1 DEF As
  <2>2. CASE y # m
    BY <2>2 DEF As
  <2> QED
    BY <2>1, <2>2
<1> QED
  BY <1>2, <1>3, <1>4, <1>5, <1>6, <1>7 DEF Matched

\* The paths stay even when a node is exchanged.
LEMMA MatchedEven ==
  ASSUME NEW t, NEW S, S \subseteq K0, 0 \in K0, NEW n \in K0, NEW m \in K0, m \notin S, m # 0, NEW u, NEW T,
         Matched(t, u, S, T, n, m),
         NEW bh, NEW p \in S \union {0}, NEW d, Even(t, S, bh, p, d), \A x \in S : \A s \in Sides : Kid(t, x, s) \in S \union {0}
  PROVE  \E new : Even(u, T, new, As(n, m, p), d)
<1>1. PICK new : new = [k \in K0 |-> IF k = m THEN bh[n] ELSE bh[k]]
  OBVIOUS
<1>2. Heights(bh) /\ \A k \in S : EvenAt(t, bh, k, p, d)
  BY DEF Even
<1>3. Heights(new)
  BY <1>1, <1>2 DEF Heights
<1>4. \A x \in S \union {0} : new[As(n, m, x)] = bh[x]
  BY <1>1 DEF As
<1>5. ASSUME NEW x \in S, NEW s \in Sides
      PROVE  new[As(n, m, x)] = new[Kid(u, As(n, m, x), s)] + Weight(u, As(n, m, x)) + Lack(As(n, m, x), s, As(n, m, p), d)
  <2>1. bh[x] = bh[Kid(t, x, s)] + Weight(t, x) + Lack(x, s, p, d)
    BY <1>2 DEF EvenAt
  <2>2. Weight(u, As(n, m, x)) = Weight(t, x)
    BY DEF Matched, Weight
  <2>3. As(n, m, x) = As(n, m, p) <=> x = p
    BY DEF Matched
  <2>4. Lack(As(n, m, x), s, As(n, m, p), d) = Lack(x, s, p, d)
    BY <2>3 DEF Lack
  <2>5. Kid(u, As(n, m, x), s) = As(n, m, Kid(t, x, s))
    BY DEF Matched
  <2>6. new[Kid(u, As(n, m, x), s)] = bh[Kid(t, x, s)]
    BY <1>4, <2>5
  <2>7. new[As(n, m, x)] = bh[x]
    BY <1>4
  <2> QED
    BY <2>1, <2>2, <2>4, <2>6, <2>7
<1>6. ASSUME NEW y \in T PROVE EvenAt(u, new, y, As(n, m, p), d)
  <2>1. PICK x \in S : y = As(n, m, x)
    BY DEF Matched
  <2> QED
    BY <1>5, <2>1 DEF EvenAt
<1> QED
  BY <1>3, <1>6 DEF Even

\* What is the same but for the name of a node
Carried(t, u, S, sub, bh, n, m) ==
    LET T == (S \ {n}) \union {m}
        new == Exchanged(sub, n, m)
    IN  /\ Valid(t, S, sub, bh) => \E bh2 : Valid(u, T, new, bh2)
        /\ \A c, p, d : Removing(t, S, sub, bh, c, p, d) =>
              \E bh2 : Removing(u, T, new, bh2, As(n, m, c), As(n, m, p), d)

\* Whatever was right of the tree is right of the renamed one.
LEMMA RenamedIs ==
  ASSUME NEW t, NEW S, NEW sub, NEW bh, NEW n \in S, NEW m \in Keys \ S,
         \A k \in S \ {n} : \A s \in Sides : Before(s, k, n) <=> Before(s, k, m),
         NEW u, Renamed(t, u, n, m)
  PROVE  Carried(t, u, S, sub, bh, n, m)
<1> PICK T, new : T = (S \ {n}) \union {m} /\ new = Exchanged(sub, n, m)
  OBVIOUS
<1>1. ASSUME NEW p \in S \union {0}, NEW d, Shape(t, S, sub), Even(t, S, bh, p, d)
      PROVE  /\ Shape(u, T, new) /\ Matched(t, u, S, T, n, m)
             /\ \E bh2 : Even(u, T, bh2, As(n, m, p), d)
             /\ t.root \in S \union {0}
             /\ \A x \in S : Up(t, x) \in S \union {0} /\ (Clash(u, As(n, m, x)) => Clash(t, x))
  <2>1. Shape(u, T, new) /\ Matched(t, u, S, T, n, m)
    BY <1>1, RenameShape, RenameParts
  <2>2. /\ S \subseteq K0 /\ 0 \in K0 /\ n \in K0 /\ m \in K0 /\ m # 0 /\ t.root \in S \union {0}
    <3>1. S \subseteq K0 /\ 0 \in K0 /\ 0 \notin S /\ Keys \subseteq K0 /\ t.root \in S \union {0}
      BY <1>1, OffTree
    <3> QED
      BY <3>1
  <2>3. \A x \in S : \A s \in Sides : Kid(t, x, s) \in S \union {0}
    BY <1>1 DEF Shape, NodeRight, KidRight
  <2>4. \E bh2 : Even(u, T, bh2, As(n, m, p), d)
    BY <1>1, <2>1, <2>2, <2>3, MatchedEven
  <2>5. ASSUME NEW x \in S PROVE Up(t, x) \in S \union {0} /\ (Clash(u, As(n, m, x)) => Clash(t, x))
    <3>1. Up(t, x) \in S \union {0}
      BY <1>1, NodeIs
    <3> QED
      BY <2>1, <3>1 DEF Matched, Clash
  <2> QED
    BY <2>1, <2>2, <2>4, <2>5
<1>2. ASSUME Valid(t, S, sub, bh) PROVE \E bh2 : Valid(u, T, new, bh2)
  <2>1. /\ Shape(t, S, sub) /\ Even(t, S, bh, 0, "left")
        /\ \A k \in S : ~Clash(t, k)
        /\ ~Hue(t, t.root)
    BY <1>2 DEF Valid
  <2>2. /\ Shape(u, T, new) /\ Matched(t, u, S, T, n, m)
        /\ \E bh2 : Even(u, T, bh2, As(n, m, 0), "left")
        /\ t.root \in S \union {0}
        /\ \A x \in S : Clash(u, As(n, m, x)) => Clash(t, x)
    BY <1>1, <2>1
  <2>3. As(n, m, 0) = 0
    BY <2>2 DEF Matched
  <2>4. PICK bh2 : Even(u, T, bh2, 0, "left")
    BY <2>2, <2>3
  <2>5. ~Hue(u, u.root)
    BY <2>1, <2>2 DEF Matched
  <2>6. \A y \in T : ~Clash(u, y)
    <3>1. \A y \in T : \E x \in S : y = As(n, m, x)
      BY <2>2 DEF Matched
    <3> QED
      BY <2>1, <2>2, <3>1
  <2>7. Valid(u, T, new, bh2)
    BY <2>2, <2>4, <2>5, <2>6 DEF Valid
  <2> QED
    BY <2>7
<1>3. ASSUME NEW c, NEW p, NEW d, Removing(t, S, sub, bh, c, p, d)
      PROVE  \E bh2 : Removing(u, T, new, bh2, As(n, m, c), As(n, m, p), d)
  <2>1. /\ Shape(t, S, sub) /\ Even(t, S, bh, p, d)
        /\ c \in S \union {0} /\ p \in S \union {0} /\ d \in Sides
        /\ p = 0 => c = t.root
        /\ p # 0 => Kid(t, p, d) = c
        /\ \A k \in S : Clash(t, k) => k = c \/ Up(t, k) = c
        /\ Hue(t, t.root) => t.root = c
    BY <1>3 DEF Removing
  <2>2. /\ Shape(u, T, new) /\ Matched(t, u, S, T, n, m)
        /\ \E bh2 : Even(u, T, bh2, As(n, m, p), d)
        /\ t.root \in S \union {0}
        /\ \A x \in S : Clash(u, As(n, m, x)) => Clash(t, x)
    BY <1>1, <2>1
  <2>3. PICK bh2 : Even(u, T, bh2, As(n, m, p), d)
    BY <2>2
  <2>4. /\ As(n, m, c) \in T \union {0} /\ As(n, m, p) \in T \union {0}
        /\ As(n, m, p) = 0 => As(n, m, c) = u.root
        /\ As(n, m, p) # 0 => Kid(u, As(n, m, p), d) = As(n, m, c)
    BY <2>1, <2>2 DEF Matched
  <2>5. Hue(u, u.root) => u.root = As(n, m, c)
    BY <2>1, <2>2 DEF Matched
  <2>6. ASSUME NEW y \in T, Clash(u, y) PROVE y = As(n, m, c) \/ Up(u, y) = As(n, m, c)
    <3>1. PICK x \in S : y = As(n, m, x)
      BY <2>2 DEF Matched
    <3>2. x = c \/ Up(t, x) = c
      BY <2>1, <2>2, <2>6, <3>1
    <3> QED
      BY <2>2, <3>1, <3>2 DEF Matched
  <2>7. Removing(u, T, new, bh2, As(n, m, c), As(n, m, p), d)
    BY <2>1, <2>2, <2>3, <2>4, <2>5, <2>6 DEF Removing
  <2> QED
    BY <2>7
<1> QED
  BY <1>2, <1>3 DEF Carried

\* A key that is not below a node is on one side of all that is.
Parted(sub, n, k) == \A x \in sub[n] : \A s \in Sides : Before(s, k, n) <=> Before(s, k, x)

\* A node not below another has all of it below itself, or none of it.
LEMMA Apart ==
  ASSUME NEW t, NEW S, NEW sub, Shape(t, S, sub), NEW n \in S, NEW k \in S, k \notin sub[n]
  PROVE  Parted(sub, n, k)
<1> DEFINE HoldsAt(a) == n \in sub[a] /\ k \in sub[a] => Parted(sub, n, k)
           Good == {N \in Nat : \A a \in S : Size(sub, a) <= N => HoldsAt(a)}
<1>1. 0 \in Good
  <2>1. \A a \in S : Size(sub, a) \in Nat /\ Size(sub, a) > 0
    BY Sizes
  <2> QED
    BY <2>1
<1>2. ASSUME NEW N \in Nat, N \in Good, NEW a \in S, Size(sub, a) <= N + 1 PROVE HoldsAt(a)
  <2> SUFFICES ASSUME n \in sub[a], k \in sub[a] PROVE Parted(sub, n, k)
    OBVIOUS
  <2>1. \A b \in S : Size(sub, b) <= N => (n \in sub[b] /\ k \in sub[b] => Parted(sub, n, k))
    BY <1>2
  <2> HIDE DEF Good, HoldsAt
  <2>2. n # a
    OBVIOUS
  <2>3. S \subseteq Keys /\ n \in sub[n] /\ sub[n] \subseteq S /\ a \in Keys /\ k \in Keys /\ n \in Keys
        /\ sub[0] = {} /\ "left" \in Sides
    <3>1. S \subseteq Keys /\ sub[0] = {} /\ "left" \in Sides
      BY DEF Shape, SubType, Sides
    <3>2. n \in sub[n] /\ sub[n] \subseteq S
      BY NodeIs
    <3> QED
      BY <3>1, <3>2
  <2>4. PICK s \in Sides : n \in sub[Kid(t, a, s)]
    <3>1. n \in sub[Kid(t, a, "left")] \/ n \in sub[Kid(t, a, Other("left"))]
      BY <2>2, <2>3, SideBelow
    <3> QED
      BY <2>3, <3>1, SidesAre
  <2>5. PICK b : b = Kid(t, a, s) /\ n \in sub[b]
    BY <2>4
  <2>6. b # 0
    BY <2>3, <2>5
  <2>7. b \in S /\ \A x \in sub[b] : Before(s, x, a)
    BY <2>5, <2>6, KidIn
  <2>8. sub[n] \subseteq sub[b]
    BY <2>5, <2>7, Nested
  <2>9. CASE k = a
    <3>1. ASSUME NEW x \in sub[n], NEW d \in Sides PROVE Before(d, k, n) <=> Before(d, k, x)
      <4>1. Before(s, x, k) /\ Before(s, n, k) /\ x \in Keys
        BY <2>3, <2>5, <2>7, <2>8, <2>9
      <4>2. d = s \/ d = Other(s)
        BY SidesAre
      <4> QED
        BY <2>3, <4>1, <4>2, Order
    <3> QED
      BY <3>1 DEF Parted
  <2>10. CASE k # a /\ k \in sub[b]
    <3>1. Size(sub, b) < Size(sub, a)
      BY <2>5, KidSmaller
    <3>2. Size(sub, b) \in Nat /\ Size(sub, a) \in Nat
      BY <2>7, Sizes
    <3>3. Size(sub, b) <= N
      BY <1>2, <3>1, <3>2
    <3> QED
      BY <2>1, <2>5, <2>7, <2>10, <3>3
  <2>11. CASE k # a /\ k \notin sub[b]
    <3>1. Before(Other(s), k, a)
      <4>1. ~Before(s, k, a)
        BY <2>5, <2>11, SideBelow
      <4> QED
        BY <2>3, <2>11, <4>1, Order
    <3>2. ASSUME NEW x \in sub[b], x \in Keys PROVE Before(s, x, k)
      <4>1. Before(s, x, a) /\ Before(s, a, k)
        BY <2>3, <2>7, <3>1, Order, SidesAre
      <4> QED
        BY <2>3, <3>2, <4>1, Order
    <3>3. ASSUME NEW x \in sub[n], NEW d \in Sides PROVE Before(d, k, n) <=> Before(d, k, x)
      <4>1. Before(s, x, k) /\ Before(s, n, k) /\ x \in Keys
        BY <2>3, <2>5, <2>8, <3>2
      <4>2. d = s \/ d = Other(s)
        BY SidesAre
      <4> QED
        BY <2>3, <4>1, <4>2, Order
    <3> QED
      BY <3>3 DEF Parted
  <2> QED
    BY <2>9, <2>10, <2>11
<1>3. \A N \in Nat : N \in Good => N + 1 \in Good
  <2> HIDE DEF HoldsAt
  <2> QED
    BY <1>2
<1>4. PICK r : r = t.root
  OBVIOUS
<1>5. r \in S /\ sub[r] = S
  <2>1. r \in S \union {0} /\ sub[r] = S /\ sub[0] = {}
    BY <1>4 DEF Shape, SubType
  <2> QED
    BY <2>1
<1>6. PICK N \in Nat : N = Size(sub, r)
  BY <1>5, Sizes
<1>7. N \in Good
  <2> HIDE DEF Good
  <2>1. \A i \in 0..(N - 1) : i \in Good => i + 1 \in Good
    BY <1>3
  <2> QED
    BY <1>1, <2>1, UpTo
<1>8. HoldsAt(r)
  <2>1. \A a \in S : Size(sub, a) <= N => HoldsAt(a)
    BY <1>7
  <2> HIDE DEF HoldsAt
  <2> QED
    BY <1>5, <1>6, <2>1
<1> QED
  BY <1>5, <1>8

\* The two ways out of the tree
LEMMA UnlinkedOne ==
  ASSUME NEW t, NEW n, NEW l, NEW r, l = Kid(t, n, "left"), r = Kid(t, n, "right"), l = 0 \/ r = 0,
         NEW c, c = IF l = 0 THEN r ELSE l
  PROVE  /\ Unlinked(t, n).t = Bared(Replace(t, n, c), n)
         /\ Unlinked(t, n).node = c
         /\ Unlinked(t, n).parent = Up(t, n)
         /\ Unlinked(t, n).red = Hue(t, n)
<1>1. t.node[n].left = l /\ t.node[n].right = r
  BY DEF Kid
<1> QED
  BY <1>1 DEF Unlinked, Bared, Up, Hue

\* m takes the place of n.
Lowered(t, n, m) == Attach(Paint(Replace(t, n, m), m, Hue(t, n)), m, "left", Kid(t, n, "left"))
Deepened(t, n, m) ==
    Attach(Attach(Lowered(t, n, m), Up(t, m), "left", Kid(t, m, "right")), m, "right", Kid(t, n, "right"))

\* What tree_del() writes for a node with two children
LEMMA UnlinkedTwo ==
  ASSUME NEW t, NEW n, NEW l, NEW r, l = Kid(t, n, "left"), r = Kid(t, n, "right"), l # 0, r # 0,
         NEW m, m = Leftmost(t, r)
  PROVE  /\ Unlinked(t, n).t = Bared(IF m # r THEN Deepened(t, n, m) ELSE Lowered(t, n, m), n)
         /\ Unlinked(t, n).node = Kid(t, m, "right")
         /\ Unlinked(t, n).parent = IF m # r THEN Up(t, m) ELSE m
         /\ Unlinked(t, n).red = Hue(t, m)
<1>1. t.node[n].left = l /\ t.node[n].right = r
  BY DEF Kid
<1>2. \A k : Kid(t, k, "left") = t.node[k].left /\ Kid(t, k, "right") = t.node[k].right
  BY DEF Kid
<1> QED
  BY <1>1, <1>2 DEF Unlinked, Bared, Lowered, Deepened, Up, Hue

\* What n's successor looks like
Succeeds(t, S, sub, n, m) ==
    /\ m \in S /\ m # n /\ m # 0 /\ n # 0
    /\ Kid(t, m, "left") = 0
    /\ Kid(t, n, "left") \in S /\ Kid(t, n, "right") \in S
    /\ m # Kid(t, n, "left") /\ Kid(t, n, "left") # Kid(t, n, "right")
    /\ Up(t, Kid(t, n, "left")) = n /\ Up(t, Kid(t, n, "right")) = n
    /\ Up(t, m) \in S /\ Up(t, m) # m /\ Up(t, m) # 0 /\ Kid(t, Up(t, m), SideOf(t, m)) = m /\ SideOf(t, m) \in Sides
    /\ m = Kid(t, n, "right") => Up(t, m) = n /\ SideOf(t, m) = "right"
    /\ m # Kid(t, n, "right") => Up(t, m) # n /\ SideOf(t, m) = "left" /\ Up(t, m) # Up(t, n)
    /\ Kid(t, m, "right") \in S \union {0} /\ Kid(t, m, "right") # n /\ Kid(t, m, "right") # m
    /\ Kid(t, m, "right") # 0 => Up(t, Kid(t, m, "right")) = m
    /\ Up(t, n) # m /\ t.root # m
    /\ \A k \in S \ {n, m} : \A s \in Sides : Before(s, k, n) <=> Before(s, k, m)

\* The leftmost node on the right is the next one in the order.
LEMMA SuccessorIs ==
  ASSUME NEW t, NEW S, NEW sub, Shape(t, S, sub), NEW n \in S, Kid(t, n, "left") # 0, Kid(t, n, "right") # 0,
         NEW m, m = Leftmost(t, Kid(t, n, "right"))
  PROVE  Succeeds(t, S, sub, n, m)
<1>1. "left" \in Sides /\ "right" \in Sides /\ Other("left") = "right" /\ Other("right") = "left"
  BY DEF Sides, Other
<1>2. PICK l, r, c, q : l = Kid(t, n, "left") /\ r = Kid(t, n, "right") /\ c = Kid(t, m, "right") /\ q = Up(t, m)
  OBVIOUS
<1>3. /\ l \in S /\ Up(t, l) = n /\ l # n /\ l \in sub[l] /\ n \notin sub[l]
      /\ \A x \in sub[l] : Before("left", x, n)
  BY <1>1, <1>2, KidIn, NodeIs
<1>4. /\ r \in S /\ Up(t, r) = n /\ r # n /\ r \in sub[r] /\ n \notin sub[r] /\ sub[r] \subseteq sub[n] /\ r # l
      /\ \A x \in sub[r] : Before("right", x, n)
  BY <1>1, <1>2, KidIn, NodeIs
<1>5. /\ m \in S /\ m \in sub[r] /\ Kid(t, m, "left") = 0
      /\ \A y \in sub[r] : y = m \/ Before("left", m, y)
  BY <1>2, <1>4, LeftmostIs
<1>6. m # n /\ m # 0 /\ n # 0 /\ m \in Keys /\ n \in Keys /\ S \subseteq Keys
  BY <1>4, <1>5, NodeIs DEF Shape
<1>7. m # l
  <2>1. Before("right", m, n)
    BY <1>4, <1>5
  <2>2. ~Before("left", m, n)
    BY <1>1, <1>6, <2>1, Order
  <2> QED
    BY <1>3, <2>2
<1>8. q # 0 /\ t.root # m /\ q \in S /\ q # m
  <2>1. CASE m = r
    BY <1>2, <1>4, <1>5, <1>6, <2>1, NodeIs
  <2>2. CASE m # r
    <3>1. q \in S
      BY <1>2, <1>4, <1>5, <2>2, Nested
    <3>2. q # 0
      BY <3>1, NodeIs
    <3> QED
      BY <1>2, <1>5, <3>1, <3>2, NodeIs
  <2> QED
    BY <2>1, <2>2
<1>9. Kid(t, q, SideOf(t, m)) = m /\ SideOf(t, m) \in Sides
  BY <1>2, <1>5, <1>8, SideFound
<1>10. m = r => q = n /\ SideOf(t, m) = "right"
  <2> SUFFICES ASSUME m = r PROVE q = n /\ SideOf(t, m) = "right"
    OBVIOUS
  <2>1. q = n
    BY <1>2, <1>4
  <2>2. Kid(t, n, "left") # m
    BY <1>2, <1>4
  <2> QED
    BY <1>9, <2>1, <2>2 DEF Sides
<1>11. c \in S \union {0} /\ c # m /\ c # n /\ (c # 0 => Up(t, c) = m)
  <2>1. c # 0 => c \in S /\ Up(t, c) = m /\ c # m /\ sub[c] \subseteq sub[m] /\ c \in sub[c]
    BY <1>1, <1>2, <1>5, KidIn, NodeIs
  <2>2. sub[m] \subseteq sub[r]
    BY <1>4, <1>5, Nested
  <2>3. c # 0 => c # n
    BY <1>4, <2>1, <2>2
  <2> QED
    BY <1>6, <2>1, <2>3
<1>12. Up(t, n) # m
  <2> SUFFICES ASSUME Up(t, n) = m PROVE FALSE
    OBVIOUS
  <2>1. Kid(t, m, SideOf(t, n)) = n /\ SideOf(t, n) \in Sides
    BY <1>6, SideFound
  <2>2. sub[n] \subseteq sub[m] /\ n \in sub[n]
    BY <1>5, <1>6, <2>1, KidIn, NodeIs
  <2>3. sub[m] \subseteq sub[r]
    BY <1>4, <1>5, Nested
  <2> QED
    BY <1>4, <2>2, <2>3
<1>13. m # r => q # n /\ SideOf(t, m) = "left" /\ q # Up(t, n)
  <2> SUFFICES ASSUME m # r PROVE q # n /\ SideOf(t, m) = "left" /\ q # Up(t, n)
    OBVIOUS
  <2>1. q \in sub[r]
    BY <1>2, <1>4, <1>5, Nested
  <2>2. q # n
    BY <1>4, <2>1
  <2>3. SideOf(t, m) # "right"
    <3> SUFFICES ASSUME SideOf(t, m) = "right" PROVE FALSE
      OBVIOUS
    <3>1. Kid(t, q, "right") = m
      BY <1>9
    <3>2. \A x \in sub[m] : Before("right", x, q)
      BY <1>1, <1>6, <1>8, <3>1, KidIn
    <3>3. Before("right", m, q) /\ m \in Keys /\ q \in Keys
      BY <1>5, <1>6, <1>8, <3>2, NodeIs
    <3>4. Before("left", m, q)
      BY <1>5, <1>8, <2>1
    <3> QED
      BY <1>1, <3>3, <3>4, Order
  <2>4. q # Up(t, n)
    <3> SUFFICES ASSUME q = Up(t, n) PROVE FALSE
      OBVIOUS
    <3>1. Kid(t, q, SideOf(t, n)) = n /\ SideOf(t, n) \in Sides
      BY <1>8, SideFound
    <3>2. sub[n] \subseteq sub[q] /\ n \in sub[n]
      BY <1>6, <1>8, <3>1, KidIn, NodeIs
    <3>3. sub[q] \subseteq sub[r]
      BY <1>4, <2>1, Nested
    <3> QED
      BY <1>4, <3>2, <3>3
  <2> QED
    BY <1>9, <2>2, <2>3, <2>4 DEF Sides
\* Nothing is between n and m.
<1>14. ASSUME NEW k \in S, k # n, k # m
       PROVE  Before("left", k, n) <=> Before("left", k, m)
  <2>1. k \in Keys /\ Before("left", n, m)
    <3>1. Before("right", m, n)
      BY <1>4, <1>5
    <3> QED
      BY <1>1, <1>6, <3>1, Order
  <2>2. Before("left", k, n) => Before("left", k, m)
    BY <1>1, <1>6, <2>1, Order
  <2>3. ASSUME Before("left", k, m) PROVE Before("left", k, n)
    <3> SUFFICES ASSUME ~Before("left", k, n) PROVE FALSE
      OBVIOUS
    <3>1. Before("left", n, k)
      BY <1>1, <1>6, <1>14, <2>1, Order
    <3>2. ~(k \in sub[r])
      <4>1. ~Before("left", m, k)
        BY <1>1, <1>6, <2>1, <2>3, Order
      <4> QED
        BY <1>5, <1>14, <4>1
    <3>3. k \in sub[n]
      <4> SUFFICES ASSUME k \notin sub[n] PROVE FALSE
        OBVIOUS
      <4>1. Parted(sub, n, k)
        BY Apart
      <4>2. m \in sub[n]
        BY <1>4, <1>5
      <4> QED
        BY <1>1, <2>3, <3>1, <4>1, <4>2, <1>6, <2>1, Order DEF Parted
    <3>4. k \in sub[Kid(t, n, "right")]
      <4>1. Before("right", k, n)
        BY <1>1, <1>6, <2>1, <3>1, Order
      <4> QED
        BY <1>1, <3>3, <4>1, SideBelow
    <3> QED
      BY <1>2, <3>2, <3>4
  <2> QED
    BY <2>2, <2>3
<1>15. ASSUME NEW k \in S \ {n, m}, NEW s \in Sides PROVE Before(s, k, n) <=> Before(s, k, m)
  <2>1. Before("left", k, n) <=> Before("left", k, m)
    BY <1>14
  <2>2. k \in Keys
    BY <1>6
  <2>3. s = "left" \/ s = "right"
    BY DEF Sides
  <2>4. Before("right", k, n) <=> ~Before("left", k, n)
    BY <1>1, <1>6, <2>2, Order
  <2>5. Before("right", k, m) <=> ~Before("left", k, m)
    BY <1>1, <1>6, <2>2, Order
  <2> QED
    BY <2>1, <2>3, <2>4, <2>5
<1> QED
  BY <1>2, <1>3, <1>4, <1>5, <1>6, <1>7, <1>8, <1>9, <1>10, <1>11, <1>12, <1>13, <1>15 DEF Succeeds

\* Where n is seen from its neighbours
LEMMA Neighbours ==
  ASSUME NEW t, NEW S, NEW sub, Shape(t, S, sub), NEW n \in S, NEW g, g = Up(t, n), NEW e, e = SideOf(t, n)
  PROVE  /\ \A k \in K0 : \A s \in Sides : Kid(t, k, s) = n => k = g /\ s = e /\ g # 0
         /\ g # 0 => Kid(t, g, e) = n /\ e \in Sides /\ g \in S
         /\ \A k \in K0 : Up(t, k) = n => k \in {Kid(t, n, "left"), Kid(t, n, "right")} /\ k # 0
<1>1. n # 0 /\ g \in S \union {0} /\ 0 \notin S /\ 0 \in K0
  BY NodeIs, OffTree
<1>2. g # 0 => Kid(t, g, e) = n /\ e \in Sides /\ g \in S
  BY <1>1, SideFound
<1>3. ASSUME NEW k \in K0, NEW s \in Sides, Kid(t, k, s) = n PROVE k = g /\ s = e /\ g # 0
  <2>1. k \in S
    <3> SUFFICES ASSUME k \notin S PROVE FALSE
      OBVIOUS
    <3>1. t.node[k] = Nil
      BY DEF Shape
    <3> QED
      BY <1>1, <1>3, <3>1, NilIs
  <2>2. k = g /\ g # 0
    BY <1>1, <1>3, <2>1, KidIn
  <2>3. IsKid(t, k, s, n) /\ IsKid(t, k, e, n) /\ e \in Sides
    BY <1>1, <1>2, <1>3, <2>2 DEF IsKid
  <2> QED
    BY <2>1, <2>2, <2>3, OneParent
<1>4. ASSUME NEW k \in K0, Up(t, k) = n PROVE k \in {Kid(t, n, "left"), Kid(t, n, "right")} /\ k # 0
  <2>1. k \in S
    <3>1. \A j \in K0 \ S : Up(t, j) = 0
      BY OffTree
    <3> QED
      BY <1>1, <1>4, <3>1
  <2>2. Kid(t, n, SideOf(t, k)) = k /\ SideOf(t, k) \in Sides
    BY <1>1, <1>4, <2>1, SideFound
  <2> QED
    BY <1>1, <2>1, <2>2 DEF Sides
<1> QED
  BY <1>2, <1>3, <1>4

\* The successor without its old place, in n's
LEMMA SuccessorRenames ==
  ASSUME NEW t, NEW S, NEW sub, Shape(t, S, sub), NEW n \in S, NEW m, Succeeds(t, S, sub, n, m),
         NEW v, Spliced(t, v, m, Kid(t, m, "right"))
  PROVE  Renamed(v, Bared(IF m # Kid(t, n, "right") THEN Deepened(t, n, m) ELSE Lowered(t, n, m), n), n, m)
<1>1. PICK l, r, c, q, g, e : /\ l = Kid(t, n, "left") /\ r = Kid(t, n, "right") /\ c = Kid(t, m, "right")
                              /\ q = Up(t, m) /\ g = Up(t, n) /\ e = SideOf(t, n)
  OBVIOUS
<1>2. /\ m \in S /\ m # n /\ m # 0 /\ n # 0
      /\ Kid(t, m, "left") = 0
      /\ l \in S /\ r \in S /\ m # l /\ l # r /\ Up(t, l) = n /\ Up(t, r) = n
      /\ q \in S /\ q # m /\ q # 0
      /\ m = r => q = n /\ SideOf(t, m) = "right"
      /\ m # r => q # n /\ SideOf(t, m) = "left" /\ q # g
      /\ c \in S \union {0} /\ c # n /\ c # m /\ (c # 0 => Up(t, c) = m)
      /\ g # m /\ t.root # m
  BY <1>1 DEF Succeeds
<1>3. /\ t \in TreeT /\ S \subseteq K0 /\ 0 \in K0 /\ 0 \notin S
      /\ \A k \in K0 : Hue(t, k) \in BOOLEAN
      /\ t.root \in S \union {0}
  BY OffTree
<1>4. /\ \A k \in K0 : \A s \in Sides : Kid(t, k, s) = n => k = g /\ s = e /\ g # 0
      /\ g # 0 => Kid(t, g, e) = n /\ e \in Sides /\ g \in S
      /\ \A k \in K0 : Up(t, k) = n => k \in {l, r} /\ k # 0
  BY <1>1, Neighbours
<1>5. g # n /\ (t.root = n <=> g = 0) /\ l # 0 /\ r # 0 /\ l # n /\ r # n
  BY <1>1, <1>2, <1>3, NodeIs
<1>6. "left" \in Sides /\ "right" \in Sides /\ "left" # "right" /\ \A s \in Sides : s = "left" \/ s = "right"
  BY DEF Sides
\* The old tree without m
<1>7. /\ v.root = t.root
      /\ \A k \in K0 : \A s \in Sides :
             Kid(v, k, s) = IF k = m THEN 0 ELSE IF k = q /\ s = SideOf(t, m) THEN c ELSE Kid(t, k, s)
      /\ \A k \in K0 : Up(v, k) = IF k = m THEN 0 ELSE IF k = c /\ c # 0 THEN q ELSE Up(t, k)
      /\ \A k \in K0 : Hue(v, k) = IF k = m THEN FALSE ELSE Hue(t, k)
  BY <1>1, <1>2 DEF Spliced
\* What tree_del() writes
<1>8. PICK a, b, w : a = Replace(t, n, m) /\ b = Paint(a, m, Hue(t, n)) /\ w = Lowered(t, n, m)
  OBVIOUS
<1>9. /\ a \in TreeT
      /\ a.root = IF g = 0 THEN m ELSE t.root
      /\ \A k \in K0 : \A s \in Sides : Kid(a, k, s) = IF k = g /\ g # 0 /\ s = e THEN m ELSE Kid(t, k, s)
      /\ \A k \in K0 : Up(a, k) = IF k = m THEN g ELSE Up(t, k)
      /\ \A k \in K0 : Hue(a, k) = Hue(t, k)
  <2>1. Placed(t, a, n, m)
    BY <1>2, <1>3, <1>8, ReplaceIs
  <2> QED
    BY <1>1, <1>2, <2>1 DEF Placed
<1>10. /\ b \in TreeT /\ b.root = a.root
       /\ \A k \in K0 : \A s \in Sides : Kid(b, k, s) = Kid(a, k, s)
       /\ \A k \in K0 : Up(b, k) = Up(a, k)
       /\ \A k \in K0 : Hue(b, k) = IF k = m THEN Hue(t, n) ELSE Hue(a, k)
  <2>1. Painted(a, b, m, Hue(t, n))
    BY <1>2, <1>3, <1>8, <1>9, PaintIs
  <2> QED
    BY <2>1 DEF Painted, Alike
<1>11. /\ w \in TreeT /\ w.root = b.root
       /\ \A k \in K0 : \A s \in Sides : Kid(w, k, s) = IF k = m /\ s = "left" THEN l ELSE Kid(b, k, s)
       /\ \A k \in K0 : Up(w, k) = IF k = l THEN m ELSE Up(b, k)
       /\ \A k \in K0 : Hue(w, k) = Hue(b, k)
  <2>1. Attached(b, Attach(b, m, "left", l), m, "left", l)
    BY <1>2, <1>3, <1>6, <1>10, AttachIs
  <2>2. w = Attach(b, m, "left", l)
    BY <1>1, <1>8 DEF Lowered
  <2>3. Attached(b, w, m, "left", l)
    BY <2>1, <2>2
  <2> QED
    BY <1>5, <2>3 DEF Attached
<1>12. /\ w \in TreeT
       /\ w.root = IF g = 0 THEN m ELSE t.root
       /\ \A k \in K0 : \A s \in Sides :
            Kid(w, k, s) = IF k = m /\ s = "left" THEN l ELSE IF k = g /\ g # 0 /\ s = e THEN m ELSE Kid(t, k, s)
       /\ \A k \in K0 : Up(w, k) = IF k = l THEN m ELSE IF k = m THEN g ELSE Up(t, k)
       /\ \A k \in K0 : Hue(w, k) = IF k = m THEN Hue(t, n) ELSE Hue(t, k)
  BY <1>9, <1>10, <1>11
<1>13. PICK x : x = IF m # r THEN Deepened(t, n, m) ELSE w
  OBVIOUS
<1>14. /\ x \in TreeT /\ x.root = w.root
       /\ \A k \in K0 : \A s \in Sides :
            Kid(x, k, s) = IF m # r /\ k = m /\ s = "right" THEN r
                           ELSE IF m # r /\ k = q /\ s = "left" THEN c ELSE Kid(w, k, s)
       /\ \A k \in K0 : Up(x, k) = IF m # r /\ k = r THEN m
                                   ELSE IF m # r /\ k = c /\ c # 0 THEN q ELSE Up(w, k)
       /\ \A k \in K0 : Hue(x, k) = Hue(w, k)
  <2>1. CASE m = r
    BY <1>12, <1>13, <2>1
  <2>2. CASE m # r
    <3>1. PICK y : y = Attach(w, q, "left", c)
      OBVIOUS
    <3>2. x = Attach(y, m, "right", r)
      BY <1>1, <1>8, <1>13, <2>2, <3>1 DEF Deepened
    <3>3. /\ y \in TreeT /\ y.root = w.root
          /\ \A k \in K0 : \A s \in Sides : Kid(y, k, s) = IF k = q /\ s = "left" THEN c ELSE Kid(w, k, s)
          /\ \A k \in K0 : Up(y, k) = IF k = c /\ c # 0 THEN q ELSE Up(w, k)
          /\ \A k \in K0 : Hue(y, k) = Hue(w, k)
      <4>1. Attached(w, y, q, "left", c)
        BY <1>2, <1>3, <1>6, <1>12, <3>1, AttachIs
      <4> QED
        BY <4>1 DEF Attached
    <3>4. /\ x \in TreeT /\ x.root = y.root
          /\ \A k \in K0 : \A s \in Sides : Kid(x, k, s) = IF k = m /\ s = "right" THEN r ELSE Kid(y, k, s)
          /\ \A k \in K0 : Up(x, k) = IF k = r /\ r # 0 THEN m ELSE Up(y, k)
          /\ \A k \in K0 : Hue(x, k) = Hue(y, k)
      <4>1. Attached(y, x, m, "right", r)
        BY <1>2, <1>3, <1>6, <3>2, <3>3, AttachIs
      <4> QED
        BY <4>1 DEF Attached
    <3>5. \A k \in K0 : Up(x, k) = IF k = r THEN m ELSE IF k = c /\ c # 0 THEN q ELSE Up(w, k)
      BY <1>5, <3>3, <3>4
    <3>6. \A k \in K0 : \A s \in Sides :
            Kid(x, k, s) = IF k = m /\ s = "right" THEN r ELSE IF k = q /\ s = "left" THEN c ELSE Kid(w, k, s)
      BY <3>3, <3>4
    <3> QED
      BY <2>2, <3>3, <3>4, <3>5, <3>6
  <2> QED
    BY <2>1, <2>2
<1>15. PICK u : u = Bared(x, n)
  OBVIOUS
<1>16. /\ u \in TreeT /\ u.root = x.root
       /\ \A k \in K0 : \A s \in Sides : Kid(u, k, s) = IF k = n THEN 0 ELSE Kid(x, k, s)
       /\ \A k \in K0 : Up(u, k) = IF k = n THEN 0 ELSE Up(x, k)
       /\ \A k \in K0 : Hue(u, k) = IF k = n THEN FALSE ELSE Hue(x, k)
  <2>1. Rid(x, u, n)
    BY <1>3, <1>14, <1>15, BaredIs
  <2> QED
    BY <2>1 DEF Rid
\* Conjunct by conjunct
<1>17. u.root = As(n, m, v.root)
  BY <1>5, <1>7, <1>12, <1>14, <1>16 DEF As
<1>18. ASSUME NEW k \in K0 \ {n, m}, NEW s \in Sides PROVE Kid(u, k, s) = As(n, m, Kid(v, k, s))
  <2>1. Kid(v, k, s) = IF k = q /\ s = SideOf(t, m) THEN c ELSE Kid(t, k, s)
    BY <1>7
  <2>2. Kid(u, k, s) = IF m # r /\ k = q /\ s = "left" THEN c ELSE IF k = g /\ g # 0 /\ s = e THEN m ELSE Kid(t, k, s)
    BY <1>12, <1>14, <1>16
  <2>3. CASE k = q /\ s = SideOf(t, m)
    <3>1. m # r
      BY <1>2, <2>3
    <3> QED
      BY <1>2, <2>1, <2>2, <2>3, <3>1 DEF As
  <2>4. CASE ~(k = q /\ s = SideOf(t, m))
    <3>1. ~(m # r /\ k = q /\ s = "left")
      BY <1>2, <2>4
    <3>2. CASE k = g /\ g # 0 /\ s = e
      <4>1. Kid(t, k, s) = n
        BY <1>4, <3>2
      <4> QED
        BY <2>1, <2>2, <2>4, <3>1, <3>2, <4>1 DEF As
    <3>3. CASE ~(k = g /\ g # 0 /\ s = e)
      <4>1. Kid(t, k, s) # n
        BY <1>4, <3>3
      <4> QED
        BY <2>1, <2>2, <2>4, <3>1, <3>3, <4>1 DEF As
    <3> QED
      BY <3>2, <3>3
  <2> QED
    BY <2>3, <2>4
<1>19. \A s \in Sides : Kid(u, m, s) = Kid(v, n, s)
  <2>1. Kid(u, m, "left") = l
    BY <1>2, <1>3, <1>6, <1>12, <1>14, <1>16
  <2>2. Kid(u, m, "right") = IF m # r THEN r ELSE c
    BY <1>1, <1>2, <1>3, <1>6, <1>12, <1>14, <1>16
  <2>3. Kid(v, n, "left") = l
    BY <1>1, <1>2, <1>3, <1>6, <1>7
  <2>4. Kid(v, n, "right") = IF m # r THEN r ELSE c
    BY <1>1, <1>2, <1>3, <1>6, <1>7
  <2> QED
    BY <1>6, <2>1, <2>2, <2>3, <2>4
<1>20. ASSUME NEW k \in K0 \ {n, m} PROVE Up(u, k) = As(n, m, Up(v, k))
  <2>1. Up(v, k) = IF k = c /\ c # 0 THEN q ELSE Up(t, k)
    BY <1>7
  <2>2. Up(u, k) = IF m # r /\ k = r THEN m ELSE IF m # r /\ k = c /\ c # 0 THEN q ELSE IF k = l THEN m ELSE Up(t, k)
    BY <1>12, <1>14, <1>16
  <2>3. CASE k = c /\ c # 0
    <3>1. k # l /\ k # r
      BY <1>2, <2>3
    <3> QED
      BY <1>2, <2>1, <2>2, <2>3, <3>1 DEF As
  <2>4. CASE ~(k = c /\ c # 0) /\ k \in {l, r}
    <3>1. Up(t, k) = n
      BY <1>2, <2>4
    <3> QED
      BY <1>2, <2>1, <2>2, <2>4, <3>1 DEF As
  <2>5. CASE ~(k = c /\ c # 0) /\ k \notin {l, r}
    <3>1. Up(t, k) # n
      BY <1>4, <2>5
    <3> QED
      BY <2>1, <2>2, <2>5, <3>1 DEF As
  <2> QED
    BY <2>3, <2>4, <2>5
<1>21. Up(u, m) = Up(v, n)
  <2>1. Up(u, m) = g
    BY <1>2, <1>3, <1>12, <1>14, <1>16
  <2>2. Up(v, n) = g
    BY <1>1, <1>2, <1>3, <1>7
  <2> QED
    BY <2>1, <2>2
<1>22. (\A k \in K0 \ {n, m} : Hue(u, k) = Hue(v, k)) /\ Hue(u, m) = Hue(v, n)
  <2>1. ASSUME NEW k \in K0 \ {n, m} PROVE Hue(u, k) = Hue(v, k)
    <3>1. k \in K0 /\ k # n /\ k # m
      OBVIOUS
    <3>2. Hue(v, k) = Hue(t, k)
      BY <1>7, <3>1
    <3>3. Hue(w, k) = Hue(t, k)
      BY <1>12, <3>1
    <3>4. Hue(x, k) = Hue(w, k)
      BY <1>14, <3>1
    <3>5. Hue(u, k) = Hue(x, k)
      BY <1>16, <3>1
    <3> QED
      BY <3>2, <3>3, <3>4, <3>5
  <2>2. Hue(u, m) = Hue(v, n)
    <3>1. m \in K0 /\ n \in K0 /\ m # n
      BY <1>2, <1>3
    <3>2. Hue(v, n) = Hue(t, n)
      BY <1>7, <3>1
    <3>3. Hue(w, m) = Hue(t, n)
      BY <1>12, <3>1
    <3>4. Hue(x, m) = Hue(w, m)
      BY <1>14, <3>1
    <3>5. Hue(u, m) = Hue(x, m)
      BY <1>16, <3>1
    <3> QED
      BY <3>2, <3>3, <3>4, <3>5
  <2> QED
    BY <2>1, <2>2
<1>23. u.node[n] = Nil
  BY <1>3, <1>16, NilFrom
<1>24. Renamed(v, u, n, m)
  BY <1>16, <1>17, <1>18, <1>19, <1>20, <1>21, <1>22, <1>23 DEF Renamed
<1> QED
  BY <1>1, <1>8, <1>13, <1>15, <1>24

\* What tree_del() starts its rounds from
Freed(u, T) ==
    /\ u.red => \E sub, bh : Valid(u.t, T, sub, bh)
    /\ ~u.red => \E sub, bh, d : Removing(u.t, T, sub, bh, u.node, u.parent, d)

\* tree_del() takes a node with at most one child out of the tree.
LEMMA UnlinkedOneIs ==
  ASSUME NEW t, NEW S, NEW sub, NEW bh, Valid(t, S, sub, bh), NEW n \in S,
         Kid(t, n, "left") = 0 \/ Kid(t, n, "right") = 0
  PROVE  Freed(Unlinked(t, n), S \ {n})
<1>1. PICK l, r : l = Kid(t, n, "left") /\ r = Kid(t, n, "right")
  OBVIOUS
<1>2. PICK c : c = IF l = 0 THEN r ELSE l
  OBVIOUS
<1>3. l = 0 \/ r = 0
  BY <1>1
<1>4. PICK u : u = Unlinked(t, n)
  OBVIOUS
<1>5. /\ u.t = Bared(Replace(t, n, c), n)
      /\ u.node = c /\ u.parent = Up(t, n) /\ u.red = Hue(t, n)
  BY <1>1, <1>2, <1>3, <1>4, UnlinkedOne
<1>6. Shape(t, S, sub)
  BY DEF Valid
<1>7. t \in TreeT /\ n \in K0 /\ c \in K0
  <2>1. t \in TreeT /\ S \subseteq K0
    BY <1>6, OffTree
  <2>2. "left" \in Sides /\ "right" \in Sides
    BY DEF Sides
  <2>3. l \in K0 /\ r \in K0
    BY <1>1, <2>1, <2>2, TypeIs
  <2> QED
    BY <1>2, <2>1, <2>3
<1>8. Spliced(t, u.t, n, c)
  BY <1>5, <1>7, SpliceIs
<1>9. PICK a \in Sides : Kid(t, n, a) = 0 /\ c = Kid(t, n, Other(a))
  BY <1>1, <1>2, <1>3 DEF Sides, Other
<1>10. Spliced(t, u.t, n, Kid(t, n, Other(a)))
  BY <1>8, <1>9
<1>11. /\ Hue(t, n) => Valid(u.t, S \ {n}, Cut(sub, n), bh)
       /\ ~Hue(t, n) => Removing(u.t, S \ {n}, Cut(sub, n), bh, Kid(t, n, Other(a)), Up(t, n), SideOf(t, n))
  BY <1>9, <1>10, SplicedIs
<1>12. u.red => \E sub2, bh2 : Valid(u.t, S \ {n}, sub2, bh2)
  BY <1>5, <1>11
<1>13. ~u.red => \E sub2, bh2, d : Removing(u.t, S \ {n}, sub2, bh2, u.node, u.parent, d)
  BY <1>5, <1>9, <1>11
<1> QED
  BY <1>4, <1>12, <1>13 DEF Freed

\* It takes a node with two children out as if its successor had left.
LEMMA UnlinkedTwoIs ==
  ASSUME NEW t, NEW S, NEW sub, NEW bh, Valid(t, S, sub, bh), NEW n \in S,
         Kid(t, n, "left") # 0, Kid(t, n, "right") # 0
  PROVE  Freed(Unlinked(t, n), S \ {n})
<1>1. PICK l, r : l = Kid(t, n, "left") /\ r = Kid(t, n, "right")
  OBVIOUS
<1>2. PICK m : m = Leftmost(t, r)
  OBVIOUS
<1>3. l # 0 /\ r # 0
  BY <1>1
<1>4. PICK u, c, T : u = Unlinked(t, n) /\ c = Kid(t, m, "right") /\ T = S \ {m}
  OBVIOUS
<1>5. /\ u.t = Bared(IF m # r THEN Deepened(t, n, m) ELSE Lowered(t, n, m), n)
      /\ u.node = Kid(t, m, "right")
      /\ u.parent = IF m # r THEN Up(t, m) ELSE m
      /\ u.red = Hue(t, m)
  BY <1>1, <1>2, <1>3, <1>4, UnlinkedTwo
<1>6. Shape(t, S, sub)
  BY DEF Valid
<1>7. Succeeds(t, S, sub, n, m)
  BY <1>1, <1>2, <1>6, SuccessorIs
<1>8. /\ m \in S /\ m # n /\ Kid(t, m, "left") = 0
      /\ m = r => Up(t, m) = n
      /\ m # r => Up(t, m) # n
      /\ c # n
      /\ \A k \in S \ {n, m} : \A s \in Sides : Before(s, k, n) <=> Before(s, k, m)
  BY <1>1, <1>4, <1>7 DEF Succeeds
<1>9. "left" \in Sides /\ "right" \in Sides /\ Other("left") = "right"
  BY DEF Sides, Other
<1>10. t \in TreeT /\ S \subseteq K0 /\ S \subseteq Keys /\ c \in K0
  <2>1. t \in TreeT /\ S \subseteq K0 /\ S \subseteq Keys
    BY <1>6, OffTree
  <2>2. c \in K0
    BY <1>4, <1>8, <1>9, <2>1, TypeIs
  <2> QED
    BY <2>1, <2>2
<1>11. PICK v : v = Bared(Replace(t, m, c), m)
  OBVIOUS
<1>12. Spliced(t, v, m, c)
  BY <1>8, <1>10, <1>11, SpliceIs
<1>13. Spliced(t, v, m, Kid(t, m, Other("left")))
  BY <1>4, <1>9, <1>12
<1>14. /\ Hue(t, m) => Valid(v, S \ {m}, Cut(sub, m), bh)
       /\ ~Hue(t, m) => Removing(v, S \ {m}, Cut(sub, m), bh, Kid(t, m, Other("left")), Up(t, m), SideOf(t, m))
  BY <1>8, <1>9, <1>13, SplicedIs
<1>15. PICK s2, e : s2 = Cut(sub, m) /\ e = SideOf(t, m)
  OBVIOUS
<1>16. /\ Hue(t, m) => Valid(v, T, s2, bh)
       /\ ~Hue(t, m) => Removing(v, T, s2, bh, c, Up(t, m), e)
  BY <1>4, <1>9, <1>14, <1>15
<1>17. Renamed(v, u.t, n, m)
  <2>1. Spliced(t, v, m, Kid(t, m, "right"))
    BY <1>4, <1>12
  <2>2. Renamed(v, Bared(IF m # Kid(t, n, "right") THEN Deepened(t, n, m) ELSE Lowered(t, n, m), n), n, m)
    BY <1>6, <1>7, <2>1, SuccessorRenames
  <2> QED
    BY <1>1, <1>5, <2>2
<1>18. n \in T /\ m \in Keys \ T /\ (T \ {n}) \union {m} = S \ {n}
       /\ \A k \in T \ {n} : \A s \in Sides : Before(s, k, n) <=> Before(s, k, m)
  BY <1>4, <1>8, <1>10
<1>19. PICK s3, w, T2 : s3 = Exchanged(s2, n, m) /\ w = u.t /\ T2 = (T \ {n}) \union {m}
  OBVIOUS
<1>20. /\ Valid(v, T, s2, bh) => \E bh2 : Valid(w, T2, s3, bh2)
       /\ \A x, p, d : Removing(v, T, s2, bh, x, p, d) =>
              \E bh2 : Removing(w, T2, s3, bh2, As(n, m, x), As(n, m, p), d)
  <2>1. Renamed(v, w, n, m) /\ T2 = (T \ {n}) \union {m} /\ s3 = Exchanged(s2, n, m)
    BY <1>17, <1>19
  <2>2. n \in T /\ m \in Keys \ T
    BY <1>18
  <2>3. \A k \in T \ {n} : \A s \in Sides : Before(s, k, n) <=> Before(s, k, m)
    BY <1>18
  <2>4. Carried(v, w, T, s2, bh, n, m)
    BY <2>1, <2>2, <2>3, RenamedIs
  <2> QED
    BY <2>1, <2>4 DEF Carried
<1>21. As(n, m, c) = u.node /\ As(n, m, Up(t, m)) = u.parent
  BY <1>4, <1>5, <1>8 DEF As
<1>22. ~u.red => \E bh2 : Removing(w, T2, s3, bh2, u.node, u.parent, e)
  <2> SUFFICES ASSUME ~u.red PROVE \E bh2 : Removing(w, T2, s3, bh2, u.node, u.parent, e)
    OBVIOUS
  <2>1. Removing(v, T, s2, bh, c, Up(t, m), e)
    BY <1>5, <1>16
  <2>2. \E bh2 : Removing(w, T2, s3, bh2, As(n, m, c), As(n, m, Up(t, m)), e)
    BY <1>20, <2>1
  <2> QED
    BY <1>21, <2>2
<1>23. u.red => \E bh2 : Valid(w, T2, s3, bh2)
  BY <1>5, <1>16, <1>20
<1>24. w = u.t /\ T2 = S \ {n}
  BY <1>18, <1>19
<1> QED
  BY <1>4, <1>22, <1>23, <1>24 DEF Freed

\* The tree without the node is sound, or lacks one black node on one side.
LEMMA UnlinkedIs ==
  ASSUME NEW t, NEW S, NEW sub, NEW bh, Valid(t, S, sub, bh), NEW n \in S
  PROVE  Freed(Unlinked(t, n), S \ {n})
BY UnlinkedOneIs, UnlinkedTwoIs

-----------------------------------------------------------------------------
\* The rounds of tree_del().  A path through p on the side d, where n is,
\* lacks a black node, and n is black.
Short(t, S, sub, bh, n, p, d) ==
    /\ Shape(t, S, sub) /\ Even(t, S, bh, p, d)
    /\ p \in S /\ d \in Sides /\ Kid(t, p, d) = n /\ ~Hue(t, n)
    /\ \A k \in S : ~Clash(t, k)
    /\ ~Hue(t, t.root)

\* Its sibling q
Sibling(t, S, bh, n, p, d, q) ==
    /\ q \in S /\ q # 0 /\ p # 0 /\ q # p /\ Up(t, q) = p /\ Up(t, p) # q /\ Up(t, p) # p
    /\ n \in S \union {0} /\ n # p /\ n # q /\ (n # 0 => Up(t, n) = p)
    /\ \A s \in Sides : /\ Kid(t, q, s) \in S \union {0} /\ Kid(t, q, s) # p /\ Kid(t, q, s) # q
                        /\ Kid(t, q, s) # n \/ n = 0
                        /\ Kid(t, q, s) # 0 => Up(t, Kid(t, q, s)) = q
                        /\ Lack(q, s, p, d) = 0
                        /\ bh[q] = bh[Kid(t, q, s)] + Weight(t, q) /\ bh[Kid(t, q, s)] \in Nat
    /\ bh[n] \in Nat /\ bh[p] \in Nat /\ bh[q] \in Nat
    /\ bh[q] = bh[n] + 1
    /\ bh[p] = bh[n] + Weight(t, p) + 1
    /\ t.root # q

\* Where a path lacks a black node there is a sibling: no write through NULL.
LEMMA SiblingIs ==
  ASSUME NEW t, NEW S, NEW sub, NEW bh, NEW n, NEW p, NEW d, Short(t, S, sub, bh, n, p, d)
  PROVE  Sibling(t, S, bh, n, p, d, Kid(t, p, Other(d)))
<1> PICK q, o : q = Kid(t, p, Other(d)) /\ o = Other(d)
  OBVIOUS
<1>1. /\ Shape(t, S, sub) /\ Even(t, S, bh, p, d)
      /\ p \in S /\ d \in Sides /\ Kid(t, p, d) = n
  BY DEF Short
<1>2. o \in Sides /\ o # d
  BY <1>1, SidesAre
<1>3. /\ t \in TreeT /\ S \subseteq K0 /\ 0 \in K0 /\ 0 \notin S /\ p # 0 /\ p \in K0
  BY <1>1, OffTree
<1>4. Heights(bh) /\ \A k \in S : EvenAt(t, bh, k, p, d)
  BY <1>1 DEF Even
<1>5. n \in K0 /\ q \in K0
  BY <1>1, <1>2, <1>3, TypeIs
<1>6. bh[n] \in Nat /\ bh[p] \in Nat /\ bh[q] \in Nat /\ bh[0] = 0
  BY <1>3, <1>4, <1>5 DEF Heights
<1>7. bh[p] = bh[n] + Weight(t, p) + 1 /\ bh[p] = bh[q] + Weight(t, p)
  <2>1. /\ bh[p] = bh[n] + Weight(t, p) + Lack(p, d, p, d)
        /\ bh[p] = bh[q] + Weight(t, p) + Lack(p, o, p, d)
    BY <1>1, <1>2, <1>4 DEF EvenAt
  <2>2. Lack(p, d, p, d) = 1 /\ Lack(p, o, p, d) = 0
    BY <1>2 DEF Lack
  <2>3. Weight(t, p) \in Nat
    BY WeightIs
  <2> QED
    BY <1>6, <2>1, <2>2, <2>3
<1>8. bh[q] = bh[n] + 1
  <2>1. Weight(t, p) \in Nat
    BY WeightIs
  <2> QED
    BY <1>6, <1>7, <2>1
<1>9. q # 0
  BY <1>6, <1>8
<1>10. q \in S /\ Up(t, q) = p /\ q # p
  BY <1>1, <1>2, <1>9, KidIn
<1>11. n \in S \union {0} /\ n # p /\ n # q /\ (n # 0 => Up(t, n) = p)
  <2>1. n # 0 => n \in S /\ Up(t, n) = p /\ n # p /\ n # q
    BY <1>1, KidIn
  <2> QED
    BY <1>3, <1>9, <2>1
<1>12. Up(t, p) # p
  BY <1>1, NodeIs
<1>13. Up(t, p) # q
  BY <1>1, <1>2, <1>9, TurnParts
<1>14. t.root # q
  BY <1>1, <1>3, <1>10, NodeIs
<1>15. ASSUME NEW s \in Sides
       PROVE  /\ Kid(t, q, s) \in S \union {0} /\ Kid(t, q, s) # p /\ Kid(t, q, s) # q
              /\ Kid(t, q, s) # n \/ n = 0
              /\ Kid(t, q, s) # 0 => Up(t, Kid(t, q, s)) = q
              /\ Lack(q, s, p, d) = 0
              /\ bh[q] = bh[Kid(t, q, s)] + Weight(t, q) /\ bh[Kid(t, q, s)] \in Nat
  <2>1. PICK c : c = Kid(t, q, s)
    OBVIOUS
  <2>2. c # 0 => c \in S /\ Up(t, c) = q /\ c # q
    BY <1>1, <1>10, <2>1, KidIn
  <2>3. c # p
    BY <1>3, <1>13, <2>2
  <2>4. c # n \/ n = 0
    BY <1>10, <1>11, <2>2
  <2>5. Lack(q, s, p, d) = 0
    BY <1>10 DEF Lack
  <2>6. c \in S \union {0} /\ c \in K0 /\ bh[c] \in Nat /\ c # q
    BY <1>3, <1>4, <1>9, <2>2 DEF Heights
  <2>7. bh[q] = bh[c] + Weight(t, q)
    <3>1. bh[q] = bh[c] + Weight(t, q) + Lack(q, s, p, d)
      BY <1>4, <1>10, <2>1 DEF EvenAt
    <3>2. Weight(t, q) \in Nat
      BY WeightIs
    <3> QED
      BY <2>5, <2>6, <3>1, <3>2
  <2> QED
    BY <2>1, <2>2, <2>3, <2>4, <2>5, <2>6, <2>7
<1>16. Sibling(t, S, bh, n, p, d, q)
  BY <1>3, <1>6, <1>7, <1>8, <1>9, <1>10, <1>11, <1>12, <1>13, <1>14, <1>15 DEF Sibling
<1> QED
  BY <1>16

\* A round's start
LEMMA RoundStarts ==
  ASSUME NEW t, NEW S, NEW sub, NEW bh, NEW n, NEW p, NEW d, Removing(t, S, sub, bh, n, p, d),
         ~Hue(t, n), n # t.root
  PROVE  /\ Short(t, S, sub, bh, n, p, d)
         /\ d = IF n = t.node[p].left THEN "left" ELSE "right"
<1>1. /\ Shape(t, S, sub) /\ Even(t, S, bh, p, d)
      /\ n \in S \union {0} /\ p \in S \union {0} /\ d \in Sides
      /\ p # 0 => Kid(t, p, d) = n
      /\ \A k \in S : Clash(t, k) => k = n \/ Up(t, k) = n
      /\ ~Hue(t, t.root) /\ p # 0
  BY DEF Removing
<1>2. \A k \in S : ~Clash(t, k)
  BY <1>1 DEF Clash
<1>3. Short(t, S, sub, bh, n, p, d)
  BY <1>1, <1>2 DEF Short
<1>4. PICK q, o : q = Kid(t, p, o) /\ o = Other(d)
  OBVIOUS
<1>5. n # q
  <2>1. Sibling(t, S, bh, n, p, d, q)
    BY <1>3, <1>4, SiblingIs
  <2> QED
    BY <2>1 DEF Sibling
<1>6. Kid(t, p, "left") = t.node[p].left
  BY DEF Kid
<1>7. d = "left" \/ (d = "right" /\ o = "left")
  BY <1>1, <1>4 DEF Sides, Other
<1> QED
  BY <1>1, <1>3, <1>4, <1>5, <1>6, <1>7

\* The sibling turned red, and the parent's path is short.
Raised(t, u, S, sub, p) ==
    /\ \E new : Removing(u, S, sub, new, p, Up(t, p), SideOf(t, p))
    /\ Hue(u, p) = Hue(t, p)

\* With black nephews the sibling turns red, and the lack moves up.
LEMMA RecolouredIs ==
  ASSUME NEW t, NEW S, NEW sub, NEW bh, NEW n, NEW p, NEW d, Short(t, S, sub, bh, n, p, d),
         NEW q, q = Kid(t, p, Other(d)), ~Hue(t, q), \A s \in Sides : ~Hue(t, Kid(t, q, s)),
         NEW u, Painted(t, u, q, TRUE)
  PROVE  Raised(t, u, S, sub, p)
<1> PICK g, e : g = Up(t, p) /\ e = SideOf(t, p)
  OBVIOUS
<1>1. /\ Shape(t, S, sub) /\ Even(t, S, bh, p, d)
      /\ p \in S /\ d \in Sides /\ Kid(t, p, d) = n /\ ~Hue(t, n)
      /\ \A k \in S : ~Clash(t, k)
      /\ ~Hue(t, t.root)
  BY DEF Short
<1>2. Sibling(t, S, bh, n, p, d, q)
  BY SiblingIs
<1>3. /\ q \in S /\ q # 0 /\ p # 0 /\ q # p /\ Up(t, q) = p /\ g # q /\ g # p
      /\ n \in S \union {0} /\ n # p /\ n # q
      /\ \A s \in Sides : /\ Kid(t, q, s) \in S \union {0} /\ Kid(t, q, s) # p /\ Kid(t, q, s) # q
                          /\ bh[q] = bh[Kid(t, q, s)] + Weight(t, q) /\ bh[Kid(t, q, s)] \in Nat
      /\ bh[n] \in Nat /\ bh[p] \in Nat /\ bh[q] \in Nat
      /\ bh[q] = bh[n] + 1
      /\ bh[p] = bh[n] + Weight(t, p) + 1
      /\ t.root # q
  BY <1>2 DEF Sibling
<1>4. /\ t \in TreeT /\ S \subseteq K0 /\ 0 \in K0 /\ 0 \notin S
      /\ \A k \in K0 : Hue(t, k) \in BOOLEAN
      /\ t.root \in K0
  BY <1>1, OffTree
<1>5. Shape(u, S, sub)
  BY <1>1, <1>3, PaintShape
<1>6. /\ u.root = t.root
      /\ \A k \in K0 : Up(u, k) = Up(t, k)
      /\ \A k \in K0 : \A s \in Sides : Kid(u, k, s) = Kid(t, k, s)
      /\ \A k \in K0 : Hue(u, k) = IF k = q THEN TRUE ELSE Hue(t, k)
  BY DEF Painted, Alike
<1>7. Hue(u, q) /\ \A k \in K0 : k # q => Hue(u, k) = Hue(t, k)
  BY <1>3, <1>4, <1>6
<1>8. g \in S \union {0} /\ (t.root = p <=> g = 0) /\ (g # 0 => Kid(t, g, e) = p) /\ e \in Sides
  <2>1. g \in S \union {0} /\ (t.root = p <=> g = 0)
    BY <1>1, NodeIs
  <2>2. g # 0 => Kid(t, g, e) = p
    BY <1>1, SideFound
  <2>3. e \in Sides
    BY <1>1, <1>4, SideIs
  <2> QED
    BY <2>1, <2>2, <2>3
<1>9. ASSUME NEW k \in S, Clash(u, k) PROVE k = p \/ Up(u, k) = p
  <2> SUFFICES ASSUME k # p, Up(u, k) # p PROVE FALSE
    OBVIOUS
  <2>1. k \in K0 /\ k # q /\ k # 0 /\ Up(u, k) = Up(t, k) /\ Up(t, k) \in K0
    BY <1>3, <1>4, <1>6, TypeIs
  <2>2. Hue(t, k)
    BY <1>7, <1>9, <2>1 DEF Clash
  <2>3. Up(t, k) # q
    <3> SUFFICES ASSUME Up(t, k) = q PROVE FALSE
      OBVIOUS
    <3>1. SideOf(t, k) \in Sides /\ Kid(t, q, SideOf(t, k)) = k
      BY <1>1, <1>3, SideFound
    <3> QED
      BY <2>2, <3>1
  <2>4. Hue(t, Up(t, k))
    BY <1>7, <1>9, <2>1, <2>3 DEF Clash
  <2> QED
    BY <1>1, <2>2, <2>4 DEF Clash
<1>10. ~Hue(u, u.root)
  BY <1>1, <1>3, <1>4, <1>6, <1>7
<1>11. PICK new : new = [bh EXCEPT ![q] = bh[q] - 1, ![p] = bh[p] - 1]
  OBVIOUS
<1>12. Heights(bh) /\ \A k \in S : EvenAt(t, bh, k, p, d)
  BY <1>1 DEF Even
<1>13. /\ bh[q] - 1 \in Nat /\ bh[p] - 1 \in Nat /\ Weight(t, p) \in Nat /\ bh[q] = (bh[q] - 1) + 1
  <2>1. Weight(t, p) \in Nat
    BY WeightIs
  <2> QED
    BY <1>3, <2>1
<1>14. /\ Heights(new) /\ new[q] = bh[q] - 1 /\ new[p] = bh[p] - 1
       /\ \A k \in K0 : k # p /\ k # q => new[k] = bh[k]
  BY <1>1, <1>3, <1>4, <1>11, <1>12, <1>13 DEF Heights
<1>15. ASSUME NEW s \in Sides PROVE new[q] = new[Kid(u, q, s)] + Weight(u, q) + Lack(q, s, g, e)
  <2>1. PICK c : c = Kid(t, q, s)
    OBVIOUS
  <2>2. c \in K0 /\ c # p /\ c # q /\ bh[q] = bh[c] + Weight(t, q) /\ bh[c] \in Nat
    BY <1>3, <1>4, <2>1
  <2>3. Kid(u, q, s) = c
    BY <1>3, <1>4, <1>6, <2>1
  <2>4. Weight(t, q) = 1 /\ Weight(u, q) = 0
    BY <1>7 DEF Weight
  <2>5. Lack(q, s, g, e) = 0
    BY <1>3 DEF Lack
  <2>6. new[c] = bh[c]
    BY <1>14, <2>2
  <2> QED
    BY <1>14, <2>2, <2>3, <2>4, <2>5, <2>6
<1>16. ASSUME NEW s \in Sides PROVE new[p] = new[Kid(u, p, s)] + Weight(u, p) + Lack(p, s, g, e)
  <2>1. Lack(p, s, g, e) = 0
    BY <1>3 DEF Lack
  <2>2. Weight(u, p) = Weight(t, p)
    <3>1. Hue(u, p) = Hue(t, p)
      BY <1>1, <1>3, <1>4, <1>7
    <3> QED
      BY <3>1 DEF Weight
  <2>3. CASE s = d
    <3>1. Kid(u, p, s) = n /\ n \in K0
      BY <1>1, <1>3, <1>4, <1>6, <2>3
    <3>2. new[n] = bh[n]
      BY <1>3, <1>14, <3>1
    <3> QED
      BY <1>3, <1>13, <1>14, <2>1, <2>2, <3>1, <3>2
  <2>4. CASE s # d
    <3>1. s = Other(d)
      BY <1>1, <2>4, SidesAre
    <3>2. Kid(u, p, s) = q
      BY <1>1, <1>4, <1>6, <3>1
    <3> QED
      BY <1>3, <1>13, <1>14, <2>1, <2>2, <3>2
  <2> QED
    BY <2>3, <2>4
<1>17. ASSUME NEW k \in S, k # q, k # p, NEW s \in Sides
       PROVE  new[k] = new[Kid(u, k, s)] + Weight(u, k) + Lack(k, s, g, e)
  <2>1. PICK c : c = Kid(t, k, s) /\ c \in S \union {0} /\ (c # 0 => Up(t, c) = k)
    BY <1>1 DEF Shape, NodeRight, KidRight
  <2>2. k \in K0 /\ c \in K0 /\ Kid(u, k, s) = c /\ k # 0
    BY <1>4, <1>6, <2>1
  <2>3. bh[k] = bh[c] + Weight(t, k)
    <3>1. bh[k] = bh[c] + Weight(t, k) + Lack(k, s, p, d)
      BY <1>12, <2>1 DEF EvenAt
    <3>2. Lack(k, s, p, d) = 0
      BY <1>17 DEF Lack
    <3>3. bh[c] \in Nat /\ Weight(t, k) \in Nat
      BY <1>12, <2>2, WeightIs DEF Heights
    <3> QED
      BY <3>1, <3>2, <3>3
  <2>4. Weight(u, k) = Weight(t, k)
    <3>1. Hue(u, k) = Hue(t, k)
      BY <1>7, <1>17, <2>2
    <3> QED
      BY <3>1 DEF Weight
  <2>5. new[k] = bh[k]
    BY <1>14, <1>17, <2>2
  <2>6. c # q
    BY <1>3, <1>17, <2>1
  <2>7. Weight(t, k) \in Nat
    BY WeightIs
  <2>8. CASE c = p
    <3>1. k = g /\ g # 0
      BY <1>3, <2>1, <2>2, <2>8
    <3>2. s = e
      <4>1. IsKid(t, k, s, p) /\ IsKid(t, k, e, p)
        BY <1>3, <1>8, <2>1, <2>8, <3>1 DEF IsKid
      <4> QED
        BY <1>1, <1>8, <4>1, OneParent
    <3>3. Lack(k, s, g, e) = 1
      BY <3>1, <3>2 DEF Lack
    <3> QED
      BY <1>3, <1>13, <1>14, <2>2, <2>3, <2>4, <2>5, <2>7, <2>8, <3>3
  <2>9. CASE c # p
    <3>1. ~(k = g /\ s = e)
      BY <1>8, <2>1, <2>2, <2>9
    <3>2. Lack(k, s, g, e) = 0
      BY <3>1 DEF Lack
    <3>3. new[c] = bh[c] /\ bh[c] \in Nat
      BY <1>12, <1>14, <2>2, <2>6, <2>9 DEF Heights
    <3> QED
      BY <2>2, <2>3, <2>4, <2>5, <2>7, <3>2, <3>3
  <2> QED
    BY <2>8, <2>9
<1>18. ASSUME NEW k \in S PROVE EvenAt(u, new, k, g, e)
  <2>1. CASE k = q
    BY <1>15, <2>1 DEF EvenAt
  <2>2. CASE k = p
    BY <1>16, <2>2 DEF EvenAt
  <2>3. CASE k # q /\ k # p
    BY <1>17, <2>3 DEF EvenAt
  <2> QED
    BY <2>1, <2>2, <2>3
<1>19. Even(u, S, new, g, e)
  BY <1>14, <1>18 DEF Even
<1>20. g # 0 => Kid(u, g, e) = p
  BY <1>4, <1>6, <1>8
<1>21. Removing(u, S, sub, new, p, g, e)
  BY <1>1, <1>5, <1>6, <1>8, <1>9, <1>10, <1>19, <1>20 DEF Removing
<1>22. Hue(u, p) = Hue(t, p)
  BY <1>1, <1>3, <1>4, <1>7
<1> QED
  BY <1>21, <1>22 DEF Raised

\* A red sibling is turned up first.
LEMMA TurnedUp ==
  ASSUME NEW t, NEW S, NEW sub, NEW bh, NEW n, NEW p, NEW d, Short(t, S, sub, bh, n, p, d),
         NEW q, q = Kid(t, p, Other(d)), Hue(t, q),
         NEW r, r = Rotate(Paint(Paint(t, q, FALSE), p, TRUE), p, d)
  PROVE  /\ \E sub2, bh2 : Short(r, S, sub2, bh2, n, p, d)
         /\ ~Hue(r, Kid(r, p, Other(d))) /\ Hue(r, p)
<1> PICK o, i, f : o = Other(d) /\ i = Kid(t, q, d) /\ f = Kid(t, q, o)
  OBVIOUS
<1>1. /\ Shape(t, S, sub) /\ Even(t, S, bh, p, d)
      /\ p \in S /\ d \in Sides /\ Kid(t, p, d) = n /\ ~Hue(t, n)
      /\ \A k \in S : ~Clash(t, k)
      /\ ~Hue(t, t.root)
  BY DEF Short
<1>2. o \in Sides /\ o # d /\ Other(o) = d /\ \A s \in Sides : s = d \/ s = o
  BY <1>1, SidesAre
<1>3. /\ q \in S /\ q # 0 /\ p # 0 /\ q # p /\ Up(t, q) = p
      /\ n \in S \union {0} /\ n # p /\ n # q
      /\ \A s \in Sides : /\ Kid(t, q, s) \in S \union {0} /\ Kid(t, q, s) # p /\ Kid(t, q, s) # q
                          /\ Kid(t, q, s) # 0 => Up(t, Kid(t, q, s)) = q
                          /\ Lack(q, s, p, d) = 0
                          /\ bh[q] = bh[Kid(t, q, s)] + Weight(t, q) /\ bh[Kid(t, q, s)] \in Nat
      /\ bh[n] \in Nat /\ bh[p] \in Nat /\ bh[q] \in Nat
      /\ bh[q] = bh[n] + 1
      /\ bh[p] = bh[n] + Weight(t, p) + 1
      /\ t.root # q
  <2>1. Sibling(t, S, bh, n, p, d, q)
    BY SiblingIs
  <2> QED
    BY <2>1 DEF Sibling
<1>4. /\ t \in TreeT /\ S \subseteq K0 /\ 0 \in K0 /\ 0 \notin S
      /\ \A k \in K0 : Hue(t, k) \in BOOLEAN
      /\ t.root \in K0 /\ Hue(t, 0) = FALSE
  BY <1>1, OffTree
<1>5. ~Hue(t, p)
  BY <1>1, <1>3 DEF Clash
<1>6. /\ i \in S \union {0} /\ i # p /\ i # q /\ (i # 0 => Up(t, i) = q) /\ ~Hue(t, i)
      /\ f \in S \union {0} /\ f # p /\ f # q
      /\ bh[q] = bh[i] + Weight(t, q) /\ bh[q] = bh[f] + Weight(t, q)
      /\ bh[i] \in Nat /\ bh[f] \in Nat
      /\ Lack(q, d, p, d) = 0 /\ Lack(q, o, p, d) = 0
  <2>1. /\ i \in S \union {0} /\ i # p /\ i # q /\ (i # 0 => Up(t, i) = q)
        /\ f \in S \union {0} /\ f # p /\ f # q
        /\ bh[q] = bh[i] + Weight(t, q) /\ bh[q] = bh[f] + Weight(t, q)
        /\ bh[i] \in Nat /\ bh[f] \in Nat
        /\ Lack(q, d, p, d) = 0 /\ Lack(q, o, p, d) = 0
    BY <1>1, <1>2, <1>3
  <2>2. ~Hue(t, i)
    BY <1>1, <1>4, <2>1 DEF Clash
  <2> QED
    BY <2>1, <2>2
<1>7. PICK a, b : a = Paint(t, q, FALSE) /\ b = Paint(a, p, TRUE)
  OBVIOUS
<1>8. r = Rotate(b, p, d)
  BY <1>7
<1>9. Painted(t, a, q, FALSE)
  BY <1>3, <1>4, <1>7, PaintIs
<1>10. Shape(a, S, sub)
  BY <1>1, <1>3, <1>9, PaintShape
<1>11. Painted(a, b, p, TRUE)
  <2>1. a \in TreeT
    BY <1>10 DEF Shape
  <2> QED
    BY <1>1, <1>4, <1>7, <2>1, PaintIs
<1>12. Shape(b, S, sub)
  BY <1>1, <1>10, <1>11, PaintShape
<1>13. /\ Alike(t, b)
       /\ \A k \in K0 : Hue(b, k) = IF k = p THEN TRUE ELSE IF k = q THEN FALSE ELSE Hue(t, k)
  BY <1>9, <1>11, AlikeTwice DEF Painted
<1>14. /\ b.root = t.root
       /\ \A k \in K0 : Up(b, k) = Up(t, k)
       /\ \A k \in K0 : \A x \in Sides : Kid(b, k, x) = Kid(t, k, x)
  BY <1>13 DEF Alike
<1>15. Kid(b, p, o) = q /\ Kid(b, p, d) = n /\ Kid(b, q, d) = i /\ Kid(b, q, o) = f
  BY <1>1, <1>2, <1>3, <1>4, <1>14
<1>16. Swung(b, r, S, p, q, d)
  <2>1. Swung(b, Rotate(b, p, d), S, p, Kid(b, p, Other(d)), d)
    BY <1>1, <1>3, <1>12, <1>15, RotateParts
  <2> QED
    BY <1>8, <1>15, <2>1
<1>17. PICK sub2 : Shape(r, S, sub2)
  <2>1. Kid(b, p, Other(d)) # 0
    BY <1>3, <1>15
  <2>2. Shape(Rotate(b, p, d), S, Turned(b, sub, p, d))
    BY <1>1, <1>12, <2>1, RotateShape
  <2> QED
    BY <1>8, <2>2
<1>18. /\ Kid(r, p, d) = n /\ Kid(r, p, o) = i
       /\ Up(r, p) = q
       /\ i # 0 => Up(r, i) = p
       /\ \A k \in K0 : k \notin {p, q} /\ (k = 0 \/ k # i) => Up(r, k) = Up(t, k)
       /\ \A k \in K0 : Hue(r, k) = Hue(b, k)
       /\ r.root = IF Up(t, p) = 0 THEN q ELSE t.root
  BY <1>1, <1>4, <1>14, <1>15, <1>16 DEF Swung
<1>19. /\ \A k \in K0 : k \notin {p, q} => Hue(r, k) = Hue(t, k)
       /\ Hue(r, p) /\ ~Hue(r, q)
  BY <1>1, <1>3, <1>4, <1>13, <1>18
<1>20. ASSUME NEW k \in S PROVE ~Clash(r, k)
  <2> SUFFICES ASSUME Hue(r, k), Hue(r, Up(r, k)) PROVE FALSE
    BY DEF Clash
  <2>1. k \in K0 /\ k # 0 /\ k # q
    BY <1>4, <1>19
  <2>2. k # p
    BY <1>18, <1>19
  <2>3. Hue(t, k)
    BY <1>19, <2>1, <2>2
  <2>4. k # i
    BY <1>6, <2>3
  <2>5. Up(r, k) = Up(t, k) /\ Up(t, k) \in K0
    BY <1>4, <1>18, <2>1, <2>2, <2>4, TypeIs
  <2>6. Up(t, k) # q
    BY <1>19, <2>5
  <2>7. Up(t, k) # p
    <3> SUFFICES ASSUME Up(t, k) = p PROVE FALSE
      OBVIOUS
    <3>1. SideOf(t, k) \in Sides /\ Kid(t, p, SideOf(t, k)) = k
      BY <1>1, <1>3, SideFound
    <3> QED
      BY <1>1, <1>2, <2>1, <2>3, <3>1
  <2>8. Clash(t, k)
    BY <1>19, <2>3, <2>5, <2>6, <2>7 DEF Clash
  <2> QED
    BY <1>1, <2>8
<1>21. \E bh2 : Even(r, S, bh2, p, d)
  <2>1. Heights(bh) /\ \A k \in S : EvenAt(t, bh, k, p, d)
    BY <1>1 DEF Even
  <2>2. Weight(t, p) = 1 /\ Weight(t, q) = 0 /\ Weight(b, p) = 0 /\ Weight(b, q) = 1
    BY <1>1, <1>3, <1>4, <1>5, <1>13 DEF Weight
  <2>3. Lack(p, d, p, d) = 1 /\ Lack(p, o, p, d) = 0
    BY <1>2 DEF Lack
  <2>4. PICK w \in Nat : w = bh[n] + 1
    BY <1>3
  <2>5. ASSUME NEW k \in S \ {p, q} PROVE EvenAt(b, bh, k, p, d)
    <3>1. k \in K0 /\ Hue(b, k) = Hue(t, k) /\ EvenAt(t, bh, k, p, d)
      BY <1>4, <1>13, <2>1
    <3> QED
      BY <1>13, <3>1, EvenAlike
  <2>6. /\ w = bh[n] + Weight(b, p) + Lack(p, d, p, d)
        /\ w = bh[i] + Weight(b, p) + Lack(p, o, p, d)
        /\ bh[p] = w + Weight(b, q) + Lack(q, d, p, d)
        /\ bh[p] = bh[f] + Weight(b, q) + Lack(q, o, p, d)
    BY <1>3, <1>6, <2>2, <2>3, <2>4
  <2>7. Fits(b, S, bh, p, q, d, w, p, d)
    BY <1>15, <2>1, <2>5, <2>6 DEF Fits
  <2>8. Fits(b, S, bh, p, Kid(b, p, Other(d)), d, w, p, d) /\ Kid(b, p, Other(d)) # 0
    BY <1>3, <1>15, <2>7
  <2>9. \E bh2 : Even(Rotate(b, p, d), S, bh2, p, d)
    BY <1>1, <1>12, <2>8, RotateEven
  <2> QED
    BY <1>8, <2>9
<1>22. PICK bh2 : Even(r, S, bh2, p, d)
  BY <1>21
<1>23. ~Hue(r, r.root)
  <2>1. Up(t, p) # 0 => t.root # p
    BY <1>1, NodeIs
  <2> QED
    BY <1>1, <1>3, <1>4, <1>18, <1>19, <2>1
<1>24. ~Hue(r, n) /\ ~Hue(r, i)
  BY <1>1, <1>3, <1>4, <1>6, <1>19
<1>25. Short(r, S, sub2, bh2, n, p, d)
  BY <1>1, <1>17, <1>18, <1>20, <1>22, <1>23, <1>24 DEF Short
<1> QED
  BY <1>18, <1>19, <1>24, <1>25

\* The state after the first step of a round
Readied(t, r, S, sub, n, p, d) ==
    /\ ~Hue(r, Kid(r, p, Other(d)))
    /\ \E sub2, bh2 : Short(r, S, sub2, bh2, n, p, d) /\ (Hue(r, p) \/ sub2 = sub)

\* After the first rotation the sibling is black.
LEMMA SiblingBlackIs ==
  ASSUME NEW t, NEW S, NEW sub, NEW bh, NEW n, NEW p, NEW d, Short(t, S, sub, bh, n, p, d)
  PROVE  Readied(t, SiblingBlack(t, p, d), S, sub, n, p, d)
<1>1. PICK q, r : q = Kid(t, p, Other(d)) /\ r = SiblingBlack(t, p, d)
  OBVIOUS
<1>2. q = t.node[p][Other(d)]
  <2>1. Other(d) \in Sides
    BY SidesAre DEF Short
  <2> QED
    BY <1>1, <2>1, KidIs
<1>3. r = IF Hue(t, q) THEN Rotate(Paint(Paint(t, q, FALSE), p, TRUE), p, d) ELSE t
  BY <1>1, <1>2 DEF SiblingBlack, Hue
<1>4. CASE Hue(t, q)
  <2>1. r = Rotate(Paint(Paint(t, q, FALSE), p, TRUE), p, d)
    BY <1>3, <1>4
  <2>2. (\E sub2, bh2 : Short(r, S, sub2, bh2, n, p, d)) /\ ~Hue(r, Kid(r, p, Other(d))) /\ Hue(r, p)
    BY <1>1, <1>4, <2>1, TurnedUp
  <2> QED
    BY <1>1, <2>2 DEF Readied
<1>5. CASE ~Hue(t, q)
  BY <1>1, <1>3, <1>5 DEF Readied
<1> QED
  BY <1>4, <1>5

\* The sibling's red child is on the far side.
Lends(r, S, n, p, d) ==
    LET q == Kid(r, p, Other(d))
    IN  /\ ~Hue(r, q) /\ Hue(r, Kid(r, q, Other(d)))
        /\ \E sub2, bh2 : Short(r, S, sub2, bh2, n, p, d)

\* It is brought there.
LEMMA Brought ==
  ASSUME NEW t, NEW S, NEW sub, NEW bh, NEW n, NEW p, NEW d, Short(t, S, sub, bh, n, p, d),
         NEW q, q = Kid(t, p, Other(d)), ~Hue(t, q), NEW i, i = Kid(t, q, d), Hue(t, i),
         ~Hue(t, Kid(t, q, Other(d))),
         NEW r, r = Rotate(Paint(Paint(t, i, FALSE), q, TRUE), q, Other(d))
  PROVE  Lends(r, S, n, p, d)
<1> PICK o, f, j, h : o = Other(d) /\ f = Kid(t, q, o) /\ j = Kid(t, i, o) /\ h = Kid(t, i, d)
  OBVIOUS
<1>1. /\ Shape(t, S, sub) /\ Even(t, S, bh, p, d)
      /\ p \in S /\ d \in Sides /\ Kid(t, p, d) = n /\ ~Hue(t, n)
      /\ \A k \in S : ~Clash(t, k)
      /\ ~Hue(t, t.root)
  BY DEF Short
<1>2. o \in Sides /\ o # d /\ Other(o) = d /\ \A s \in Sides : s = d \/ s = o
  BY <1>1, SidesAre
<1>3. /\ q \in S /\ q # 0 /\ p # 0 /\ q # p /\ Up(t, q) = p
      /\ n \in S \union {0} /\ n # p /\ n # q
      /\ \A s \in Sides : /\ Kid(t, q, s) \in S \union {0} /\ Kid(t, q, s) # p /\ Kid(t, q, s) # q
                          /\ Kid(t, q, s) # n \/ n = 0
                          /\ Kid(t, q, s) # 0 => Up(t, Kid(t, q, s)) = q
                          /\ Lack(q, s, p, d) = 0
                          /\ bh[q] = bh[Kid(t, q, s)] + Weight(t, q) /\ bh[Kid(t, q, s)] \in Nat
      /\ bh[n] \in Nat /\ bh[p] \in Nat /\ bh[q] \in Nat
      /\ t.root # q
  <2>1. Sibling(t, S, bh, n, p, d, q)
    BY SiblingIs
  <2> QED
    BY <2>1 DEF Sibling
<1>4. /\ t \in TreeT /\ S \subseteq K0 /\ 0 \in K0 /\ 0 \notin S
      /\ \A k \in K0 : Hue(t, k) \in BOOLEAN
      /\ t.root \in K0 /\ Hue(t, 0) = FALSE
  BY <1>1, OffTree
<1>5. /\ i \in S /\ i # 0 /\ i # p /\ i # q /\ i # n /\ Up(t, i) = q
      /\ f \in S \union {0} /\ f # p /\ f # q /\ ~Hue(t, f)
      /\ bh[q] = bh[i] + Weight(t, q) /\ bh[q] = bh[f] + Weight(t, q)
      /\ bh[i] \in Nat /\ bh[f] \in Nat
      /\ Lack(q, d, p, d) = 0 /\ Lack(q, o, p, d) = 0
  <2>1. i # 0
    BY <1>4
  <2>2. /\ i \in S \union {0} /\ i # p /\ i # q /\ (i # 0 => Up(t, i) = q) /\ (i # n \/ n = 0)
        /\ f \in S \union {0} /\ f # p /\ f # q
        /\ bh[q] = bh[i] + Weight(t, q) /\ bh[q] = bh[f] + Weight(t, q)
        /\ bh[i] \in Nat /\ bh[f] \in Nat
        /\ Lack(q, d, p, d) = 0 /\ Lack(q, o, p, d) = 0
    BY <1>1, <1>2, <1>3
  <2> QED
    BY <2>1, <2>2
<1>6. /\ j \in K0 /\ h \in K0
      /\ j # 0 => Up(t, j) = i
      /\ ~Hue(t, j)
  <2>1. j \in K0 /\ h \in K0
    BY <1>1, <1>2, <1>4, <1>5, TypeIs
  <2>2. j # 0 => j \in S /\ Up(t, j) = i
    BY <1>1, <1>2, <1>5, KidIn
  <2>3. ~Hue(t, j)
    BY <1>1, <1>4, <2>2 DEF Clash
  <2> QED
    BY <2>1, <2>2, <2>3
<1>7. PICK a, b : a = Paint(t, i, FALSE) /\ b = Paint(a, q, TRUE)
  OBVIOUS
<1>8. r = Rotate(b, q, o)
  BY <1>7
<1>9. Painted(t, a, i, FALSE)
  BY <1>4, <1>5, <1>7, PaintIs
<1>10. Shape(a, S, sub)
  BY <1>1, <1>5, <1>9, PaintShape
<1>11. Painted(a, b, q, TRUE)
  <2>1. a \in TreeT
    BY <1>10 DEF Shape
  <2> QED
    BY <1>3, <1>4, <1>7, <2>1, PaintIs
<1>12. Shape(b, S, sub)
  BY <1>3, <1>10, <1>11, PaintShape
<1>13. /\ Alike(t, b)
       /\ \A k \in K0 : Hue(b, k) = IF k = q THEN TRUE ELSE IF k = i THEN FALSE ELSE Hue(t, k)
  BY <1>9, <1>11, AlikeTwice DEF Painted
<1>14. /\ b.root = t.root
       /\ \A k \in K0 : Up(b, k) = Up(t, k)
       /\ \A k \in K0 : \A x \in Sides : Kid(b, k, x) = Kid(t, k, x)
  BY <1>13 DEF Alike
<1>15. /\ Kid(b, q, d) = i /\ Kid(b, q, o) = f /\ Kid(b, i, o) = j /\ Kid(b, i, d) = h
       /\ Kid(b, p, d) = n /\ Kid(b, p, o) = q
  BY <1>1, <1>2, <1>3, <1>4, <1>5, <1>14
<1>16. Swung(b, r, S, q, i, o)
  <2>1. Swung(b, Rotate(b, q, o), S, q, Kid(b, q, Other(o)), o)
    BY <1>2, <1>3, <1>5, <1>12, <1>15, RotateParts
  <2> QED
    BY <1>2, <1>8, <1>15, <2>1
<1>17. PICK sub2 : Shape(r, S, sub2)
  <2>1. Kid(b, q, Other(o)) # 0
    BY <1>2, <1>5, <1>15
  <2>2. Shape(Rotate(b, q, o), S, Turned(b, sub, q, o))
    BY <1>2, <1>3, <1>12, <2>1, RotateShape
  <2> QED
    BY <1>8, <2>2
<1>18. SideOf(b, q) = o /\ Up(b, q) = p
  <2>1. Up(b, q) = p
    BY <1>3, <1>4, <1>14
  <2>2. SideOf(b, q) \in Sides /\ Kid(b, p, SideOf(b, q)) = q
    BY <1>3, <1>12, <2>1, SideFound
  <2>3. IsKid(b, p, o, q) /\ IsKid(b, p, SideOf(b, q), q)
    BY <1>3, <1>15, <2>2 DEF IsKid
  <2> QED
    BY <1>1, <1>2, <1>12, <2>1, <2>2, <2>3, OneParent
<1>29. /\ Up(r, q) = i
       /\ j # 0 => Up(r, j) = q
       /\ Kid(r, i, o) = q
       /\ \A k \in K0 : k \notin {q, i} /\ (k = 0 \/ k # j) => Up(r, k) = Up(b, k)
       /\ r.root = IF Up(b, q) = 0 THEN i ELSE b.root
  BY <1>15, <1>16 DEF Swung
<1>30. \A k \in K0 : Hue(r, k) = Hue(b, k)
  BY <1>16 DEF Swung
<1>31. \A k \in K0 \ {q, i} : \A s \in Sides :
         Kid(r, k, s) = IF k # 0 /\ k = Up(b, q) /\ s = SideOf(b, q) THEN i ELSE Kid(b, k, s)
  BY <1>16 DEF Swung
<1>19. /\ Up(r, q) = i
       /\ j # 0 => Up(r, j) = q
       /\ Kid(r, i, o) = q
       /\ \A k \in K0 : k \notin {q, i} /\ (k = 0 \/ k # j) => Up(r, k) = Up(t, k)
       /\ r.root = t.root
  BY <1>3, <1>14, <1>18, <1>29
<1>20. /\ \A k \in K0 : k \notin {q, i} => Hue(r, k) = Hue(t, k)
       /\ Hue(r, q) /\ ~Hue(r, i)
  <2>1. Hue(b, q) /\ ~Hue(b, i)
    BY <1>3, <1>4, <1>5, <1>13
  <2>2. Hue(r, q) = Hue(b, q) /\ Hue(r, i) = Hue(b, i)
    BY <1>3, <1>4, <1>5, <1>30
  <2>3. \A k \in K0 : k \notin {q, i} => Hue(r, k) = Hue(t, k)
    BY <1>13, <1>30
  <2> QED
    BY <2>1, <2>2, <2>3
<1>21. Kid(r, p, d) = n /\ Kid(r, p, o) = i
  BY <1>1, <1>2, <1>3, <1>4, <1>5, <1>15, <1>18, <1>31
<1>22. ASSUME NEW k \in S PROVE ~Clash(r, k)
  <2> SUFFICES ASSUME Hue(r, k), Hue(r, Up(r, k)) PROVE FALSE
    BY DEF Clash
  <2>1. k \in K0 /\ k # 0 /\ k # i
    BY <1>4, <1>20
  <2>2. k # q
    BY <1>19, <1>20
  <2>3. Hue(t, k)
    BY <1>20, <2>1, <2>2
  <2>4. k # j
    BY <1>6, <2>3
  <2>5. Up(r, k) = Up(t, k) /\ Up(t, k) \in K0
    BY <1>4, <1>19, <2>1, <2>2, <2>4, TypeIs
  <2>6. Up(t, k) # i
    BY <1>20, <2>5
  <2>7. Up(t, k) # q
    <3> SUFFICES ASSUME Up(t, k) = q PROVE FALSE
      OBVIOUS
    <3>1. SideOf(t, k) \in Sides /\ Kid(t, q, SideOf(t, k)) = k
      BY <1>1, <1>3, SideFound
    <3> QED
      BY <1>2, <1>5, <2>1, <2>3, <3>1
  <2>8. Clash(t, k)
    BY <1>20, <2>3, <2>5, <2>6, <2>7 DEF Clash
  <2> QED
    BY <1>1, <2>8
<1>23. \E bh2 : Even(r, S, bh2, p, d)
  <2>1. Heights(bh) /\ \A k \in S : EvenAt(t, bh, k, p, d)
    BY <1>1 DEF Even
  <2>2. Weight(t, q) = 1 /\ Weight(t, i) = 0 /\ Weight(b, q) = 0 /\ Weight(b, i) = 1
    BY <1>3, <1>4, <1>5, <1>13 DEF Weight
  <2>3. Lack(i, d, p, d) = 0 /\ Lack(i, o, p, d) = 0
    BY <1>5 DEF Lack
  <2>4. /\ bh[i] = bh[j] + Weight(t, i) + Lack(i, o, p, d)
        /\ bh[i] = bh[h] + Weight(t, i) + Lack(i, d, p, d)
        /\ bh[j] \in Nat /\ bh[h] \in Nat
    BY <1>1, <1>2, <1>5, <1>6, <2>1 DEF EvenAt, Heights
  <2>5. ASSUME NEW k \in S \ {q, i} PROVE EvenAt(b, bh, k, p, d)
    <3>1. k \in K0 /\ Hue(b, k) = Hue(t, k) /\ EvenAt(t, bh, k, p, d)
      BY <1>4, <1>13, <2>1
    <3> QED
      BY <1>13, <3>1, EvenAlike
  <2>6. /\ bh[f] = bh[f] + Weight(b, q) + Lack(q, o, p, d)
        /\ bh[f] = bh[j] + Weight(b, q) + Lack(q, d, p, d)
        /\ bh[q] = bh[f] + Weight(b, i) + Lack(i, o, p, d)
        /\ bh[q] = bh[h] + Weight(b, i) + Lack(i, d, p, d)
    BY <1>3, <1>5, <2>2, <2>3, <2>4
  <2>7. Fits(b, S, bh, q, i, o, bh[f], p, d)
    BY <1>2, <1>5, <1>15, <2>1, <2>5, <2>6 DEF Fits
  <2>8. Fits(b, S, bh, q, Kid(b, q, Other(o)), o, bh[f], p, d) /\ Kid(b, q, Other(o)) # 0
    BY <1>2, <1>5, <1>15, <2>7
  <2>9. \E bh2 : Even(Rotate(b, q, o), S, bh2, p, d)
    BY <1>2, <1>3, <1>12, <2>8, RotateEven
  <2> QED
    BY <1>8, <2>9
<1>24. PICK bh2 : Even(r, S, bh2, p, d)
  BY <1>23
<1>25. ~Hue(r, r.root)
  BY <1>1, <1>3, <1>4, <1>19, <1>20
<1>26. ~Hue(r, n)
  BY <1>1, <1>3, <1>4, <1>5, <1>20
<1>27. Short(r, S, sub2, bh2, n, p, d)
  BY <1>1, <1>17, <1>21, <1>22, <1>24, <1>25, <1>26 DEF Short
<1> QED
  BY <1>19, <1>20, <1>21, <1>27 DEF Lends

\* With a red nephew the far one is red after the second.
LEMMA FarRedIs ==
  ASSUME NEW t, NEW S, NEW sub, NEW bh, NEW n, NEW p, NEW d, Short(t, S, sub, bh, n, p, d),
         NEW q, q = Kid(t, p, Other(d)), ~Hue(t, q), \E s \in Sides : Hue(t, Kid(t, q, s))
  PROVE  Lends(FarRed(t, p, d), S, n, p, d)
<1>1. PICK o, i, f, r : o = Other(d) /\ i = Kid(t, q, d) /\ f = Kid(t, q, o) /\ r = FarRed(t, p, d)
  OBVIOUS
<1>2. d \in Sides /\ o \in Sides /\ \A s \in Sides : s = d \/ s = o
  BY <1>1, SidesAre DEF Short
<1>3. q = t.node[p][o] /\ i = t.node[q][d] /\ f = t.node[q][o]
  BY <1>1, <1>2, KidIs
<1>4. Red(t, f) <=> Hue(t, f)
  <2>1. Shape(t, S, sub)
    BY DEF Short
  <2>2. Hue(t, 0) = FALSE
    BY <2>1, OffTree
  <2> QED
    BY <2>2 DEF Red, Hue
<1>5. r = IF Red(t, f) THEN t ELSE Rotate(Paint(Paint(t, i, FALSE), q, TRUE), q, o)
  BY <1>1, <1>3 DEF FarRed
<1>6. CASE Hue(t, f)
  <2>1. r = t
    BY <1>4, <1>5, <1>6
  <2> QED
    BY <1>1, <1>6, <2>1 DEF Lends
<1>7. CASE ~Hue(t, f)
  <2>1. Hue(t, i)
    BY <1>1, <1>2, <1>7
  <2>2. r = Rotate(Paint(Paint(t, i, FALSE), q, TRUE), q, o)
    BY <1>4, <1>5, <1>7
  <2>3. Lends(r, S, n, p, d)
    BY <1>1, <1>7, <2>1, <2>2, Brought
  <2> QED
    BY <1>1, <2>3
<1> QED
  BY <1>6, <1>7

\* The sibling takes the parent's place, and no path lacks a node.
LEMMA RefilledIs ==
  ASSUME NEW t, NEW S, NEW n, NEW p, NEW d, Lends(t, S, n, p, d)
  PROVE  \E sub2, bh2 : Valid(Refilled(t, p, d), S, sub2, bh2)
<1> PICK q, o, i, f, hue : /\ q = Kid(t, p, Other(d)) /\ o = Other(d) /\ i = Kid(t, q, d) /\ f = Kid(t, q, o)
                           /\ hue = Hue(t, p)
  OBVIOUS
<1>0. /\ ~Hue(t, q) /\ Hue(t, f)
      /\ \E sub2, bh2 : Short(t, S, sub2, bh2, n, p, d)
  BY DEF Lends
<1> PICK sub, bh : Short(t, S, sub, bh, n, p, d)
  BY <1>0
<1>1. /\ Shape(t, S, sub) /\ Even(t, S, bh, p, d)
      /\ p \in S /\ d \in Sides /\ Kid(t, p, d) = n /\ ~Hue(t, n)
      /\ \A k \in S : ~Clash(t, k)
      /\ ~Hue(t, t.root)
  BY DEF Short
<1>2. o \in Sides /\ o # d /\ Other(o) = d /\ \A s \in Sides : s = d \/ s = o
  BY <1>1, SidesAre
<1>3. /\ q \in S /\ q # 0 /\ p # 0 /\ q # p /\ Up(t, q) = p /\ Up(t, p) # q /\ Up(t, p) # p
      /\ n \in S \union {0} /\ n # p /\ n # q
      /\ \A s \in Sides : /\ Kid(t, q, s) \in S \union {0} /\ Kid(t, q, s) # p /\ Kid(t, q, s) # q
                          /\ Kid(t, q, s) # n \/ n = 0
                          /\ Kid(t, q, s) # 0 => Up(t, Kid(t, q, s)) = q
                          /\ bh[q] = bh[Kid(t, q, s)] + Weight(t, q) /\ bh[Kid(t, q, s)] \in Nat
      /\ bh[n] \in Nat /\ bh[p] \in Nat /\ bh[q] \in Nat
      /\ bh[q] = bh[n] + 1
      /\ bh[p] = bh[n] + Weight(t, p) + 1
      /\ t.root # q
  <2>1. Sibling(t, S, bh, n, p, d, q)
    BY SiblingIs
  <2> QED
    BY <2>1 DEF Sibling
<1>4. /\ t \in TreeT /\ S \subseteq K0 /\ 0 \in K0 /\ 0 \notin S
      /\ \A k \in K0 : Hue(t, k) \in BOOLEAN
      /\ t.root \in K0 /\ Hue(t, 0) = FALSE /\ hue \in BOOLEAN
  BY <1>1, OffTree
<1>5. /\ i \in S \union {0} /\ i # p /\ i # q /\ (i # 0 => Up(t, i) = q)
      /\ f \in S /\ f # 0 /\ f # p /\ f # q /\ f # n /\ Up(t, f) = q
      /\ bh[q] = bh[i] + Weight(t, q) /\ bh[q] = bh[f] + Weight(t, q)
      /\ bh[i] \in Nat /\ bh[f] \in Nat
  <2>1. f # 0
    BY <1>0, <1>4
  <2>2. /\ i \in S \union {0} /\ i # p /\ i # q /\ (i # 0 => Up(t, i) = q)
        /\ f \in S \union {0} /\ f # p /\ f # q /\ (f # 0 => Up(t, f) = q) /\ (f # n \/ n = 0)
        /\ bh[q] = bh[i] + Weight(t, q) /\ bh[q] = bh[f] + Weight(t, q)
        /\ bh[i] \in Nat /\ bh[f] \in Nat
    BY <1>1, <1>2, <1>3
  <2> QED
    BY <2>1, <2>2
<1>6. i # f
  <2>1. Kid(t, q, Other(o)) # f
    BY <1>1, <1>2, <1>3, <1>5, KidIn
  <2> QED
    BY <1>2, <2>1
<1>7. PICK a, b, c, r : a = Paint(t, q, hue) /\ b = Paint(a, p, FALSE) /\ c = Paint(b, f, FALSE) /\ r = Rotate(c, p, d)
  OBVIOUS
<1>8. r = Refilled(t, p, d)
  <2>1. q = t.node[p][o] /\ f = t.node[q][o] /\ hue = t.node[p].red
    BY <1>1, <1>2, KidIs DEF Hue
  <2> QED
    BY <1>7, <2>1 DEF Refilled
<1>9. Painted(t, a, q, hue)
  BY <1>3, <1>4, <1>7, PaintIs
<1>10. Shape(a, S, sub)
  BY <1>1, <1>3, <1>4, <1>9, PaintShape
<1>11. Painted(a, b, p, FALSE)
  <2>1. a \in TreeT
    BY <1>10 DEF Shape
  <2> QED
    BY <1>1, <1>4, <1>7, <2>1, PaintIs
<1>12. Shape(b, S, sub)
  BY <1>1, <1>10, <1>11, PaintShape
<1>13. Painted(b, c, f, FALSE)
  <2>1. b \in TreeT
    BY <1>12 DEF Shape
  <2> QED
    BY <1>4, <1>5, <1>7, <2>1, PaintIs
<1>14. Shape(c, S, sub)
  BY <1>5, <1>12, <1>13, PaintShape
<1>15. /\ Alike(t, c)
       /\ Hue(c, q) = hue /\ ~Hue(c, p) /\ ~Hue(c, f)
       /\ \A k \in K0 : k \notin {p, q, f} => Hue(c, k) = Hue(t, k)
  <2>1. Alike(t, a) /\ Hue(a, q) = hue /\ \A k \in K0 : k # q => Hue(a, k) = Hue(t, k)
    BY <1>3, <1>4, <1>9 DEF Painted
  <2>2. Alike(a, b) /\ Hue(b, p) = FALSE /\ \A k \in K0 : k # p => Hue(b, k) = Hue(a, k)
    BY <1>1, <1>4, <1>11 DEF Painted
  <2>3. Alike(b, c) /\ Hue(c, f) = FALSE /\ \A k \in K0 : k # f => Hue(c, k) = Hue(b, k)
    BY <1>4, <1>5, <1>13 DEF Painted
  <2>4. Alike(t, c)
    BY <2>1, <2>2, <2>3, AlikeTwice
  <2>5. q \in K0 /\ p \in K0 /\ f \in K0
    BY <1>1, <1>3, <1>4, <1>5
  <2>6. Hue(c, q) = hue
    BY <1>3, <1>5, <2>1, <2>2, <2>3, <2>5
  <2>7. Hue(c, p) = FALSE
    BY <1>5, <2>2, <2>3, <2>5
  <2>8. \A k \in K0 : k \notin {p, q, f} => Hue(c, k) = Hue(t, k)
    BY <2>1, <2>2, <2>3
  <2> QED
    BY <2>3, <2>4, <2>6, <2>7, <2>8
<1>16. /\ c.root = t.root
       /\ \A k \in K0 : Up(c, k) = Up(t, k)
       /\ \A k \in K0 : \A x \in Sides : Kid(c, k, x) = Kid(t, k, x)
  BY <1>15 DEF Alike
<1>17. /\ Kid(c, p, o) = q /\ Kid(c, p, d) = n /\ Kid(c, q, d) = i /\ Kid(c, q, o) = f
  BY <1>1, <1>2, <1>3, <1>4, <1>16
<1>18. Swung(c, r, S, p, q, d)
  <2>1. Swung(c, Rotate(c, p, d), S, p, Kid(c, p, Other(d)), d)
    BY <1>1, <1>3, <1>14, <1>17, RotateParts
  <2> QED
    BY <1>7, <1>17, <2>1
<1>19. PICK sub2 : Shape(r, S, sub2)
  <2>1. Kid(c, p, Other(d)) # 0
    BY <1>3, <1>17
  <2>2. Shape(Rotate(c, p, d), S, Turned(c, sub, p, d))
    BY <1>1, <1>14, <2>1, RotateShape
  <2> QED
    BY <1>7, <2>2
<1>20. /\ Up(r, q) = Up(c, p)
       /\ i # 0 => Up(r, i) = p
       /\ \A k \in K0 : k \notin {p, q} /\ (k = 0 \/ k # i) => Up(r, k) = Up(c, k)
       /\ r.root = IF Up(c, p) = 0 THEN q ELSE c.root
  BY <1>17, <1>18 DEF Swung
<1>21. \A k \in K0 : Hue(r, k) = Hue(c, k)
  BY <1>18 DEF Swung
<1>22. /\ Hue(r, q) = hue /\ ~Hue(r, p) /\ ~Hue(r, f)
       /\ \A k \in K0 : k \notin {p, q, f} => Hue(r, k) = Hue(t, k)
  <2>1. q \in K0 /\ p \in K0 /\ f \in K0
    BY <1>1, <1>3, <1>4, <1>5
  <2> QED
    BY <1>15, <1>21, <2>1
<1>23. /\ Up(r, q) = Up(t, p)
       /\ \A k \in K0 : k \notin {p, q} /\ (k = 0 \/ k # i) => Up(r, k) = Up(t, k)
       /\ r.root = IF Up(t, p) = 0 THEN q ELSE t.root
  <2>1. p \in K0 /\ Up(c, p) = Up(t, p)
    BY <1>1, <1>4, <1>16
  <2> QED
    BY <1>16, <1>20, <2>1
<1>24. ASSUME NEW k \in S PROVE ~Clash(r, k)
  <2> SUFFICES ASSUME Hue(r, k), Hue(r, Up(r, k)) PROVE FALSE
    BY DEF Clash
  <2>1. k \in K0 /\ k # 0 /\ k # p /\ k # f
    BY <1>4, <1>22
  <2>2. CASE k = q
    <3>1. hue /\ Hue(r, Up(t, p))
      BY <1>22, <1>23, <2>2
    <3>2. Up(t, p) \in K0 /\ Up(t, p) \notin {p, q, f}
      <4>1. Up(t, p) \in K0
        BY <1>1, <1>4, TypeIs
      <4> QED
        BY <1>3, <1>22, <3>1, <4>1
    <3>3. Hue(t, Up(t, p))
      BY <1>22, <3>1, <3>2
    <3>4. Clash(t, p)
      BY <3>1, <3>3 DEF Clash
    <3> QED
      BY <1>1, <3>4
  <2>3. CASE k # q
    <3>1. Hue(t, k)
      BY <1>22, <2>1, <2>3
    <3>2. k # i
      <4> SUFFICES ASSUME k = i PROVE FALSE
        OBVIOUS
      <4>1. Up(r, k) = p
        BY <1>20, <2>1
      <4> QED
        BY <1>22, <4>1
    <3>3. Up(r, k) = Up(t, k) /\ Up(t, k) \in K0
      BY <1>4, <1>23, <2>1, <2>3, <3>2, TypeIs
    <3>4. Up(t, k) # p /\ Up(t, k) # f
      BY <1>22, <3>3
    <3>5. Up(t, k) # q
      <4> SUFFICES ASSUME Up(t, k) = q PROVE FALSE
        OBVIOUS
      <4>1. SideOf(t, k) \in Sides /\ Kid(t, q, SideOf(t, k)) = k
        BY <1>1, <1>3, SideFound
      <4> QED
        BY <1>2, <2>1, <3>2, <4>1
    <3>6. Hue(t, Up(t, k))
      BY <1>22, <3>3, <3>4, <3>5
    <3> QED
      BY <1>1, <3>1, <3>6 DEF Clash
  <2> QED
    BY <2>2, <2>3
<1>25. PICK bh0 : bh0 = [bh EXCEPT ![f] = bh[f] + 1]
  OBVIOUS
<1>26. Heights(bh) /\ \A k \in S : EvenAt(t, bh, k, p, d)
  BY <1>1 DEF Even
<1>27. Heights(bh0) /\ bh0[f] = bh[f] + 1 /\ \A k \in K0 : k # f => bh0[k] = bh[k]
  BY <1>4, <1>5, <1>25, <1>26 DEF Heights
<1>28. /\ Weight(t, q) = 1 /\ Weight(t, f) = 0
       /\ Weight(c, p) = 1 /\ Weight(c, f) = 1 /\ Weight(c, q) = Weight(t, p)
  BY <1>0, <1>15 DEF Weight
<1>29. \A k \in S : \A s \in Sides : Lack(k, s, 0, "left") = 0
  BY <1>4 DEF Lack
<1>30. ASSUME NEW k \in S \ {p, q}, NEW s \in Sides
       PROVE  bh0[k] = bh0[Kid(c, k, s)] + Weight(c, k) + Lack(k, s, 0, "left")
  <2>1. PICK y : y = Kid(t, k, s) /\ y \in S \union {0} /\ (y # 0 => Up(t, y) = k)
    BY <1>1 DEF Shape, NodeRight, KidRight
  <2>2. k \in K0 /\ y \in K0 /\ Kid(c, k, s) = y /\ y # f
    BY <1>4, <1>5, <1>16, <2>1
  <2>3. bh[k] = bh[y] + Weight(t, k) /\ bh[y] \in Nat /\ bh[k] \in Nat /\ Weight(t, k) \in Nat
    <3>1. bh[k] = bh[y] + Weight(t, k) + Lack(k, s, p, d)
      BY <1>26, <2>1 DEF EvenAt
    <3>2. Lack(k, s, p, d) = 0
      BY DEF Lack
    <3>3. bh[y] \in Nat /\ bh[k] \in Nat /\ Weight(t, k) \in Nat
      BY <1>26, <2>2, WeightIs DEF Heights
    <3> QED
      BY <3>1, <3>2, <3>3
  <2>4. bh0[y] = bh[y] /\ Lack(k, s, 0, "left") = 0
    BY <1>27, <1>29, <2>2
  <2>5. CASE k = f
    <3>1. bh[f] = bh[y]
      BY <1>28, <2>3, <2>5
    <3> QED
      BY <1>27, <1>28, <2>2, <2>3, <2>4, <2>5, <3>1
  <2>6. CASE k # f
    <3>1. Weight(c, k) = Weight(t, k)
      BY <1>15, <2>2, <2>6 DEF Weight
    <3> QED
      BY <1>27, <2>2, <2>3, <2>4, <2>6, <3>1
  <2> QED
    BY <2>5, <2>6
<1>31. \E bh2 : Even(r, S, bh2, 0, "left")
  <2>1. PICK w \in Nat : w = bh[n] + 1
    BY <1>3
  <2>2. \A k \in S \ {p, q} : EvenAt(c, bh0, k, 0, "left")
    BY <1>30 DEF EvenAt
  <2>3. bh0[n] = bh[n] /\ bh0[i] = bh[i] /\ bh0[p] = bh[p] /\ bh0[f] = bh[f] + 1
    BY <1>1, <1>3, <1>4, <1>5, <1>6, <1>27
  <2>4. Lack(p, d, 0, "left") = 0 /\ Lack(p, o, 0, "left") = 0 /\ Lack(q, d, 0, "left") = 0 /\ Lack(q, o, 0, "left") = 0
    BY <1>1, <1>2, <1>3, <1>29
  <2>5. Weight(t, p) \in Nat
    BY WeightIs
  <2>6. bh[i] = bh[n] /\ bh[f] = bh[n]
    BY <1>3, <1>5, <1>28
  <2>7. /\ w = bh0[n] + Weight(c, p) + Lack(p, d, 0, "left")
        /\ w = bh0[i] + Weight(c, p) + Lack(p, o, 0, "left")
        /\ bh0[p] = w + Weight(c, q) + Lack(q, d, 0, "left")
        /\ bh0[p] = bh0[f] + Weight(c, q) + Lack(q, o, 0, "left")
    BY <1>3, <1>28, <2>1, <2>3, <2>4, <2>5, <2>6
  <2>8. Fits(c, S, bh0, p, q, d, w, 0, "left")
    BY <1>17, <1>27, <2>1, <2>2, <2>7 DEF Fits
  <2>9. Fits(c, S, bh0, p, Kid(c, p, Other(d)), d, w, 0, "left") /\ Kid(c, p, Other(d)) # 0
    BY <1>3, <1>17, <2>8
  <2>10. \E bh2 : Even(Rotate(c, p, d), S, bh2, 0, "left")
    BY <1>1, <1>14, <2>9, RotateEven
  <2> QED
    BY <1>7, <2>10
<1>32. PICK bh2 : Even(r, S, bh2, 0, "left")
  BY <1>31
<1>33. ~Hue(r, r.root)
  <2>1. t.root = p <=> Up(t, p) = 0
    BY <1>1, NodeIs
  <2>2. CASE Up(t, p) = 0
    <3>1. r.root = q /\ ~hue
      BY <1>1, <1>23, <2>1, <2>2
    <3> QED
      BY <1>22, <3>1
  <2>3. CASE Up(t, p) # 0
    <3>1. r.root = t.root /\ t.root # p
      BY <1>23, <2>1, <2>3
    <3> QED
      BY <1>1, <1>3, <1>4, <1>22, <3>1
  <2> QED
    BY <2>2, <2>3
<1>34. Valid(r, S, sub2, bh2)
  BY <1>19, <1>24, <1>32, <1>33 DEF Valid
<1> QED
  BY <1>8, <1>34

\* A red node takes the missing black one.
LEMMA Paid ==
  ASSUME NEW t, NEW S, NEW sub, NEW bh, NEW n, NEW p, NEW d, Removing(t, S, sub, bh, n, p, d),
         Hue(t, n), p # 0, NEW u, Painted(t, u, n, FALSE)
  PROVE  \E sub2, bh2 : Valid(u, S, sub2, bh2)
<1>1. /\ Shape(t, S, sub) /\ Even(t, S, bh, p, d)
      /\ n \in S \union {0} /\ p \in S /\ d \in Sides
      /\ Kid(t, p, d) = n
      /\ \A k \in S : Clash(t, k) => k = n \/ Up(t, k) = n
      /\ Hue(t, t.root) => t.root = n
  BY DEF Removing
<1>2. /\ t \in TreeT /\ S \subseteq K0 /\ 0 \in K0 /\ 0 \notin S
      /\ \A k \in K0 : Hue(t, k) \in BOOLEAN
      /\ t.root \in K0 /\ Hue(t, 0) = FALSE
  BY <1>1, OffTree
<1>3. n # 0 /\ n \in S /\ n # p /\ Up(t, n) = p
  <2>1. n # 0
    BY <1>2
  <2> QED
    BY <1>1, <2>1, KidIn
<1>4. Shape(u, S, sub)
  BY <1>1, <1>3, PaintShape
<1>5. /\ u.root = t.root
      /\ \A k \in K0 : Up(u, k) = Up(t, k)
      /\ \A k \in K0 : \A x \in Sides : Kid(u, k, x) = Kid(t, k, x)
      /\ \A k \in K0 : Hue(u, k) = IF k = n THEN FALSE ELSE Hue(t, k)
  BY DEF Painted, Alike
<1>6. ~Hue(u, n) /\ \A k \in K0 : k # n => Hue(u, k) = Hue(t, k)
  BY <1>2, <1>3, <1>5
<1>7. ASSUME NEW k \in S PROVE ~Clash(u, k)
  <2> SUFFICES ASSUME Hue(u, k), Hue(u, Up(u, k)) PROVE FALSE
    BY DEF Clash
  <2>1. k # n /\ k \in K0 /\ Up(u, k) = Up(t, k) /\ Up(t, k) \in K0
    BY <1>2, <1>5, <1>6, TypeIs
  <2>2. Up(t, k) # n
    BY <1>6, <2>1
  <2>3. Hue(t, k) /\ Hue(t, Up(t, k))
    BY <1>6, <2>1, <2>2
  <2> QED
    BY <1>1, <2>1, <2>2, <2>3 DEF Clash
<1>8. ~Hue(u, u.root)
  BY <1>1, <1>2, <1>5, <1>6
<1>9. PICK new : new = [bh EXCEPT ![n] = bh[n] + 1]
  OBVIOUS
<1>10. Heights(bh) /\ \A k \in S : EvenAt(t, bh, k, p, d)
  BY <1>1 DEF Even
<1>11. bh[n] \in Nat /\ Heights(new) /\ new[n] = bh[n] + 1 /\ \A k \in K0 : k # n => new[k] = bh[k]
  BY <1>2, <1>3, <1>9, <1>10 DEF Heights
<1>12. \A k \in S : \A x \in Sides : Lack(k, x, 0, "left") = 0
  BY <1>2 DEF Lack
<1>13. ASSUME NEW k \in S, NEW x \in Sides
       PROVE  new[k] = new[Kid(u, k, x)] + Weight(u, k) + Lack(k, x, 0, "left")
  <2>1. PICK c : c = Kid(t, k, x) /\ c \in S \union {0} /\ (c # 0 => Up(t, c) = k)
    BY <1>1 DEF Shape, NodeRight, KidRight
  <2>2. k \in K0 /\ c \in K0 /\ Kid(u, k, x) = c
    BY <1>2, <1>5, <2>1
  <2>3. bh[k] = bh[c] + Weight(t, k) + Lack(k, x, p, d)
    BY <1>10, <2>1 DEF EvenAt
  <2>4. bh[c] \in Nat /\ bh[k] \in Nat /\ Weight(t, k) \in Nat
    BY <1>10, <2>2, WeightIs DEF Heights
  <2>5. Lack(k, x, 0, "left") = 0
    BY <1>12
  <2>6. CASE k = n
    <3>1. Lack(k, x, p, d) = 0
      BY <1>3, <2>6 DEF Lack
    <3>2. Weight(t, k) = 0 /\ Weight(u, k) = 1
      BY <1>6, <2>6 DEF Weight
    <3>3. c # n
      BY <1>1, <1>3, <2>1, <2>6, NodeIs
    <3> QED
      BY <1>11, <2>2, <2>3, <2>4, <2>5, <2>6, <3>1, <3>2, <3>3
  <2>7. CASE k # n
    <3>1. Weight(u, k) = Weight(t, k)
      <4>1. Hue(u, k) = Hue(t, k)
        BY <1>6, <2>2, <2>7
      <4> QED
        BY <4>1 DEF Weight
    <3>2. new[k] = bh[k]
      BY <1>11, <2>2, <2>7
    <3>3. CASE c = n
      <4>1. k = p
        BY <1>3, <2>1, <3>3
      <4>2. IsKid(t, p, x, n) /\ IsKid(t, p, d, n)
        BY <1>1, <1>3, <2>1, <3>3, <4>1 DEF IsKid
      <4>3. x = d
        BY <1>1, <4>2, OneParent
      <4>4. Lack(k, x, p, d) = 1
        BY <4>1, <4>3 DEF Lack
      <4> QED
        BY <1>11, <2>2, <2>3, <2>4, <2>5, <3>1, <3>2, <3>3, <4>4
    <3>4. CASE c # n
      <4>1. ~(k = p /\ x = d)
        BY <1>1, <2>1, <3>4
      <4>2. Lack(k, x, p, d) = 0
        BY <4>1 DEF Lack
      <4>3. new[c] = bh[c]
        BY <1>11, <2>2, <3>4
      <4> QED
        BY <2>2, <2>3, <2>4, <2>5, <3>1, <3>2, <4>2, <4>3
    <3> QED
      BY <3>3, <3>4
  <2> QED
    BY <2>6, <2>7
<1>14. Even(u, S, new, 0, "left")
  BY <1>11, <1>13 DEF Even, EvenAt
<1> QED
  BY <1>4, <1>7, <1>8, <1>14 DEF Valid

\* What the loop ends with
LEMMA RemovalEnds ==
  ASSUME NEW t, NEW S, NEW sub, NEW bh, NEW n, NEW p, NEW d, Removing(t, S, sub, bh, n, p, d),
         Hue(t, n) \/ n = t.root
  PROVE  \E sub2, bh2 : Valid(IF n = 0 THEN t ELSE Paint(t, n, FALSE), S, sub2, bh2)
<1>1. /\ Shape(t, S, sub) /\ Even(t, S, bh, p, d)
      /\ n \in S \union {0} /\ p \in S \union {0} /\ d \in Sides
      /\ p = 0 => n = t.root
      /\ p # 0 => Kid(t, p, d) = n
      /\ \A k \in S : Clash(t, k) => k = n \/ Up(t, k) = n
      /\ Hue(t, t.root) => t.root = n
  BY DEF Removing
<1>2. t \in TreeT /\ S \subseteq K0 /\ 0 \in K0 /\ 0 \notin S /\ Hue(t, 0) = FALSE
  BY <1>1, OffTree
<1>3. CASE n = 0
  <2>1. t.root = 0
    BY <1>2, <1>3
  <2>2. S = {}
    BY <1>1, <2>1 DEF Shape, SubType
  <2>3. Even(t, S, bh, 0, "left")
    BY <1>1, <2>2 DEF Even
  <2>4. Valid(t, S, sub, bh)
    BY <1>1, <1>2, <2>1, <2>2, <2>3 DEF Valid
  <2> QED
    BY <1>3, <2>4
<1>4. CASE n # 0
  <2>1. PICK u : u = Paint(t, n, FALSE)
    OBVIOUS
  <2>2. n \in S
    BY <1>1, <1>4
  <2>3. Painted(t, u, n, FALSE)
    BY <1>2, <2>1, <2>2, PaintIs
  <2>4. CASE p # 0
    <3>1. n # t.root
      <4>1. Up(t, n) = p
        BY <1>1, <1>2, <1>4, <2>4, KidIn
      <4> QED
        BY <1>1, <2>2, <2>4, <4>1, NodeIs
    <3>2. \E sub2, bh2 : Valid(u, S, sub2, bh2)
      BY <2>3, <2>4, <3>1, Paid
    <3> QED
      BY <1>4, <2>1, <3>2
  <2>5. CASE p = 0
    <3>1. Heights(bh) /\ \A k \in S : EvenAt(t, bh, k, 0, d)
      BY <1>1, <2>5 DEF Even
    <3>2. \A k \in S : \A s \in Sides : Lack(k, s, 0, d) = Lack(k, s, 0, "left")
      BY <1>2 DEF Lack
    <3>3. Even(t, S, bh, 0, "left")
      BY <3>1, <3>2 DEF Even, EvenAt
    <3>4. \E bh2 : Valid(u, S, sub, bh2)
      BY <1>1, <2>2, <2>3, <2>5, <3>3, Blackened
    <3> QED
      BY <1>4, <2>1, <3>4
  <2> QED
    BY <2>4, <2>5
<1> QED
  BY <1>3, <1>4

\* Between two rounds, or after the last
Rounded(s, S, sub, bh, d) ==
    /\ Removing(s.t, S, sub, bh, s.node, s.parent, d)
    /\ s.stop <=> Hue(s.t, s.node)

Settled(s, S) == s.stop /\ s.node = s.t.root /\ \E sub, bh : Valid(s.t, S, sub, bh)

\* Where a round leads: a is how much was below the node before it.
Leads(u, S, a) ==
    \/ Settled(u, S)
    \/ \E sub, bh, d : Rounded(u, S, sub, bh, d) /\ (u.stop \/ Size(sub, u.node) > a)

StateT == [t : TreeT, node : K0, parent : K0, stop : BOOLEAN]

\* A round of tree_del() ends the lack, or moves it up the tree.
LEMMA RemoveRoundIs ==
  ASSUME NEW s, NEW S, NEW sub, NEW bh, NEW d, Rounded(s, S, sub, bh, d), ~s.stop, s.node # s.t.root
  PROVE  RemoveRound(s) \in StateT /\ Leads(RemoveRound(s), S, Size(sub, s.node))
<1> PICK t, n, p, u : t = s.t /\ n = s.node /\ p = s.parent /\ u = RemoveRound(s)
  OBVIOUS
<1>1. Removing(t, S, sub, bh, n, p, d) /\ ~Hue(t, n) /\ n # t.root
  BY DEF Rounded
<1>2. Short(t, S, sub, bh, n, p, d) /\ d = IF n = t.node[p].left THEN "left" ELSE "right"
  BY <1>1, RoundStarts
<1>3. PICK r : r = SiblingBlack(t, p, d)
  OBVIOUS
<1>4. PICK q : q = Kid(r, p, Other(d))
  OBVIOUS
<1>5. ~Hue(r, q) /\ \E sub2, bh2 : Short(r, S, sub2, bh2, n, p, d) /\ (Hue(r, p) \/ sub2 = sub)
  <2>1. Readied(t, r, S, sub, n, p, d)
    BY <1>2, <1>3, SiblingBlackIs
  <2> QED
    BY <1>4, <2>1 DEF Readied
<1>6. PICK sub2, bh2 : Short(r, S, sub2, bh2, n, p, d) /\ (Hue(r, p) \/ sub2 = sub)
  BY <1>5
<1>7. /\ Shape(r, S, sub2) /\ p \in S /\ d \in Sides /\ Kid(r, p, d) = n
  BY <1>6 DEF Short
<1>8. /\ r \in TreeT /\ S \subseteq K0 /\ 0 \in K0 /\ Hue(r, 0) = FALSE /\ p \in K0
      /\ \A k \in K0 : Hue(r, k) \in BOOLEAN
      /\ Up(r, p) \in K0
  <2>1. /\ r \in TreeT /\ S \subseteq K0 /\ 0 \in K0 /\ Hue(r, 0) = FALSE
        /\ \A k \in K0 : Hue(r, k) \in BOOLEAN
    BY <1>7, OffTree
  <2> QED
    BY <1>7, <2>1, TypeIs
<1>9. q = r.node[p][Other(d)] /\ q \in S
  <2>1. Other(d) \in Sides
    BY <1>7, SidesAre
  <2>2. Sibling(r, S, bh2, n, p, d, q)
    BY <1>4, <1>6, SiblingIs
  <2> QED
    BY <1>4, <2>1, <2>2, KidIs DEF Sibling
<1>10. PICK lends : lends = (Red(r, r.node[q].left) \/ Red(r, r.node[q].right))
  OBVIOUS
<1>11. lends <=> \E x \in Sides : Hue(r, Kid(r, q, x))
  <2>1. Kid(r, q, "left") = r.node[q].left /\ Kid(r, q, "right") = r.node[q].right
    BY DEF Kid
  <2>2. \A k : Red(r, k) <=> Hue(r, k) /\ k # 0
    BY DEF Red, Hue
  <2> QED
    BY <1>8, <1>10, <2>1, <2>2 DEF Sides
<1>12. PICK f : f = Refilled(FarRed(r, p, d), p, d)
  OBVIOUS
<1>13. u = IF lends
           THEN [t |-> f, node |-> f.root, parent |-> p, stop |-> TRUE]
           ELSE [t |-> Paint(r, q, TRUE), node |-> p, parent |-> Up(r, p), stop |-> Hue(r, p)]
  BY <1>2, <1>3, <1>9, <1>10, <1>12 DEF RemoveRound, Up, Hue
<1>14. CASE lends
  <2>1. Lends(FarRed(r, p, d), S, n, p, d)
    BY <1>4, <1>5, <1>6, <1>11, <1>14, FarRedIs
  <2>2. \E sub3, bh3 : Valid(f, S, sub3, bh3)
    BY <1>12, <2>1, RefilledIs
  <2>3. u.t = f /\ u.node = f.root /\ u.parent = p /\ u.stop = TRUE
        /\ u = [t |-> u.t, node |-> u.node, parent |-> u.parent, stop |-> u.stop]
    BY <1>13, <1>14
  <2>4. f \in TreeT /\ f.root \in K0
    <3>1. PICK sub3, bh3 : Valid(f, S, sub3, bh3)
      BY <2>2
    <3>2. Shape(f, S, sub3)
      BY <3>1 DEF Valid
    <3> QED
      BY <3>2, OffTree
  <2>5. u \in StateT
    BY <1>8, <2>3, <2>4 DEF StateT
  <2>6. Settled(u, S)
    BY <2>2, <2>3 DEF Settled
  <2> QED
    BY <2>5, <2>6 DEF Leads
<1>15. CASE ~lends
  <2>1. PICK v, g, e : v = Paint(r, q, TRUE) /\ g = Up(r, p) /\ e = SideOf(r, p)
    OBVIOUS
  <2>2. Painted(r, v, q, TRUE)
    BY <1>8, <1>9, <2>1, PaintIs
  <2>3. \A x \in Sides : ~Hue(r, Kid(r, q, x))
    BY <1>11, <1>15
  <2>4. (\E new : Removing(v, S, sub2, new, p, g, e)) /\ Hue(v, p) = Hue(r, p)
    <3>1. (\E new : Removing(v, S, sub2, new, p, Up(r, p), SideOf(r, p))) /\ Hue(v, p) = Hue(r, p)
      <4>1. Short(r, S, sub2, bh2, n, p, d) /\ ~Hue(r, q) /\ q = Kid(r, p, Other(d))
        BY <1>4, <1>5, <1>6
      <4>2. Raised(r, v, S, sub2, p)
        BY <2>2, <2>3, <4>1, RecolouredIs
      <4> QED
        BY <4>2 DEF Raised
    <3> QED
      BY <2>1, <3>1
  <2>5. PICK new : Removing(v, S, sub2, new, p, g, e)
    BY <2>4
  <2>6. u.t = v /\ u.node = p /\ u.parent = g /\ u.stop = Hue(r, p)
        /\ u = [t |-> u.t, node |-> u.node, parent |-> u.parent, stop |-> u.stop]
    BY <1>13, <1>15, <2>1
  <2>7. v \in TreeT
    BY <2>2 DEF Painted, Alike
  <2>8. u \in StateT
    BY <1>8, <2>1, <2>6, <2>7 DEF StateT
  <2>9. Rounded(u, S, sub2, new, e)
    BY <2>4, <2>5, <2>6 DEF Rounded
  <2>10. u.stop \/ Size(sub2, u.node) > Size(sub, n)
    <3> SUFFICES ASSUME ~u.stop PROVE Size(sub2, p) > Size(sub, n)
      BY <2>6
    <3>1. sub2 = sub
      BY <1>6, <2>6
    <3>2. Size(sub2, Kid(r, p, d)) < Size(sub2, p)
      BY <1>7, KidSmaller
    <3>3. Size(sub2, n) \in Nat /\ Size(sub2, p) \in Nat
      <4>1. n \in S \union {0}
        BY <1>1 DEF Removing
      <4> QED
        BY <1>7, <4>1, Sizes
    <3> QED
      BY <1>7, <3>1, <3>2, <3>3
  <2> QED
    BY <2>8, <2>9, <2>10 DEF Leads
<1> QED
  BY <1>14, <1>15

\* The rounds of tree_del()
RemoveStep(s) == IF s.stop \/ s.node = s.t.root THEN s ELSE RemoveRound(s)

RemoveStart(u) == [t |-> u.t, node |-> u.node, parent |-> u.parent, stop |-> Red(u.t, u.node)]

RemoveWalk(u, f) == f = [k \in Rounds |-> IF k = 0 THEN RemoveStart(u) ELSE RemoveStep(f[k - 1])]

RemoveEnd(s) == IF s.node = 0 THEN s.t ELSE Paint(s.t, s.node, FALSE)

\* The rebalancing of tree_del() is the repetition of RemoveStep.
LEMMA RemoveWalks ==
  ASSUME NEW t, NEW n
  PROVE  LET u == Unlinked(t, n)
         IN  Removed(t, n) = IF u.red THEN u.t ELSE RemoveEnd((CHOOSE f : RemoveWalk(u, f))[LastRound])
BY DEF Removed, RemoveWalk, RemoveStep, RemoveStart, RemoveEnd

\* After a rounds
Goes(s, S, a) ==
    \/ Settled(s, S)
    \/ \E sub, bh, d : /\ Rounded(s, S, sub, bh, d)
                       /\ s.stop \/ s.node = s.t.root \/ Size(sub, s.node) >= a

\* Each round that does not end it is about a larger subtree.
LEMMA RemoveStepIs ==
  ASSUME NEW s \in StateT, NEW S, NEW a \in Nat, Goes(s, S, a)
  PROVE  RemoveStep(s) \in StateT /\ Goes(RemoveStep(s), S, a + 1)
<1>1. CASE s.stop \/ s.node = s.t.root
  <2>1. RemoveStep(s) = s
    BY <1>1 DEF RemoveStep
  <2>2. Goes(s, S, a + 1)
    BY <1>1 DEF Goes
  <2> QED
    BY <2>1, <2>2
<1>2. CASE ~(s.stop \/ s.node = s.t.root)
  <2>1. PICK u : u = RemoveRound(s)
    OBVIOUS
  <2>2. RemoveStep(s) = u
    BY <1>2, <2>1 DEF RemoveStep
  <2>3. \E sub, bh, d : Rounded(s, S, sub, bh, d) /\ Size(sub, s.node) >= a
    BY <1>2 DEF Goes, Settled
  <2>4. PICK sub, bh, d : Rounded(s, S, sub, bh, d) /\ Size(sub, s.node) >= a
    BY <2>3
  <2>5. PICK z : z = Size(sub, s.node)
    OBVIOUS
  <2>6. u \in StateT /\ Leads(u, S, z)
    BY <1>2, <2>1, <2>4, <2>5, RemoveRoundIs
  <2>7. z \in Nat /\ z >= a
    <3>1. Shape(s.t, S, sub) /\ s.node \in S \union {0}
      BY <2>4 DEF Rounded, Removing
    <3> QED
      BY <2>4, <2>5, <3>1, Sizes
  <2>8. Goes(u, S, a + 1)
    <3>1. CASE Settled(u, S)
      BY <3>1 DEF Goes
    <3>2. CASE ~Settled(u, S)
      <4>1. \E sub2, bh2, d2 : Rounded(u, S, sub2, bh2, d2) /\ (u.stop \/ Size(sub2, u.node) > z)
        BY <2>6, <3>2 DEF Leads
      <4>2. PICK sub2, bh2, d2 : Rounded(u, S, sub2, bh2, d2) /\ (u.stop \/ Size(sub2, u.node) > z)
        BY <4>1
      <4>3. Size(sub2, u.node) \in Nat
        <5>1. Shape(u.t, S, sub2) /\ u.node \in S \union {0}
          BY <4>2 DEF Rounded, Removing
        <5> QED
          BY <5>1, Sizes
      <4>4. u.stop \/ Size(sub2, u.node) >= a + 1
        BY <2>7, <4>2, <4>3
      <4> QED
        BY <4>2, <4>4 DEF Goes
    <3> QED
      BY <3>1, <3>2
  <2> QED
    BY <2>2, <2>6, <2>8
<1> QED
  BY <1>1, <1>2

\* What the loop starts from
LEMMA RemoveStarts ==
  ASSUME NEW u, NEW S, NEW sub, NEW bh, NEW d, Removing(u.t, S, sub, bh, u.node, u.parent, d)
  PROVE  RemoveStart(u) \in StateT /\ Goes(RemoveStart(u), S, 0)
<1>1. PICK s : s = RemoveStart(u)
  OBVIOUS
<1>2. s.t = u.t /\ s.node = u.node /\ s.parent = u.parent /\ s.stop = Red(u.t, u.node)
      /\ s = [t |-> s.t, node |-> s.node, parent |-> s.parent, stop |-> s.stop]
  BY <1>1 DEF RemoveStart
<1>3. Shape(u.t, S, sub) /\ u.node \in S \union {0} /\ u.parent \in S \union {0}
  BY DEF Removing
<1>4. u.t \in TreeT /\ S \subseteq K0 /\ 0 \in K0 /\ Hue(u.t, 0) = FALSE /\ \A k \in K0 : Hue(u.t, k) \in BOOLEAN
  BY <1>3, OffTree
<1>5. s.stop = Hue(s.t, s.node) /\ s.stop \in BOOLEAN
  <2>1. Hue(u.t, u.node) \in BOOLEAN
    BY <1>3, <1>4
  <2>2. Red(u.t, u.node) = Hue(u.t, u.node)
    BY <1>4, <2>1 DEF Red, Hue
  <2> QED
    BY <1>2, <2>1, <2>2
<1>6. s \in StateT
  BY <1>2, <1>3, <1>4, <1>5 DEF StateT
<1>7. Rounded(s, S, sub, bh, d)
  BY <1>2, <1>5 DEF Rounded
<1>8. Size(sub, s.node) >= 0
  <2>1. Size(sub, s.node) \in Nat
    BY <1>2, <1>3, Sizes
  <2> QED
    BY <2>1
<1> QED
  BY <1>1, <1>6, <1>7, <1>8 DEF Goes

\* After the last round the tree is balanced.
LEMMA RemoveEndIs ==
  ASSUME NEW s, NEW S, Goes(s, S, LastRound)
  PROVE  \E sub, bh : Valid(RemoveEnd(s), S, sub, bh)
<1>1. CASE Settled(s, S)
  <2>1. PICK sub, bh : Valid(s.t, S, sub, bh)
    BY <1>1 DEF Settled
  <2>2. /\ Shape(s.t, S, sub) /\ Even(s.t, S, bh, 0, "left")
        /\ \A k \in S : ~Clash(s.t, k)
        /\ ~Hue(s.t, s.t.root)
    BY <2>1 DEF Valid
  <2>3. s.t.root \in S \union {0} /\ "left" \in Sides
    BY <2>2, OffTree DEF Sides
  <2>4. Removing(s.t, S, sub, bh, s.t.root, 0, "left")
    BY <2>2, <2>3 DEF Removing
  <2>5. \E sub2, bh2 : Valid(IF s.t.root = 0 THEN s.t ELSE Paint(s.t, s.t.root, FALSE), S, sub2, bh2)
    BY <2>4, RemovalEnds
  <2>6. s.node = s.t.root
    BY <1>1 DEF Settled
  <2> QED
    BY <2>5, <2>6 DEF RemoveEnd
<1>2. CASE ~Settled(s, S)
  <2>1. \E sub, bh, d : Rounded(s, S, sub, bh, d) /\ (s.stop \/ s.node = s.t.root \/ Size(sub, s.node) >= LastRound)
    BY <1>2 DEF Goes
  <2>2. PICK sub, bh, d : Rounded(s, S, sub, bh, d) /\ (s.stop \/ s.node = s.t.root \/ Size(sub, s.node) >= LastRound)
    BY <2>1
  <2>3. Removing(s.t, S, sub, bh, s.node, s.parent, d) /\ (s.stop <=> Hue(s.t, s.node))
    BY <2>2 DEF Rounded
  <2>4. ~(Size(sub, s.node) >= LastRound)
    <3>1. Shape(s.t, S, sub) /\ s.node \in S \union {0}
      BY <2>3 DEF Removing
    <3>2. Size(sub, s.node) \in Nat /\ Size(sub, s.node) <= Cardinality(S) /\ Cardinality(S) <= Cardinality(Keys)
          /\ Cardinality(S) \in Nat
      BY <3>1, Sizes
    <3>3. LastRound \in Nat /\ LastRound > Cardinality(Keys) /\ Cardinality(Keys) \in Nat
      BY RoundsAre
    <3> QED
      BY <3>2, <3>3
  <2>5. Hue(s.t, s.node) \/ s.node = s.t.root
    BY <2>2, <2>3, <2>4
  <2>6. \E sub2, bh2 : Valid(IF s.node = 0 THEN s.t ELSE Paint(s.t, s.node, FALSE), S, sub2, bh2)
    BY <2>3, <2>5, RemovalEnds
  <2> QED
    BY <2>6 DEF RemoveEnd
<1> QED
  BY <1>1, <1>2

\* tree_del() makes a balanced search tree with one key less.
LEMMA RemovedIs ==
  ASSUME NEW t, NEW S, NEW sub, NEW bh, Valid(t, S, sub, bh), NEW n \in S
  PROVE  \E sub2, bh2 : Valid(Removed(t, n), S \ {n}, sub2, bh2)
<1> PICK u, T : u = Unlinked(t, n) /\ T = S \ {n}
  OBVIOUS
<1>1. Freed(u, T)
  BY UnlinkedIs
<1>2. CASE u.red
  <2>1. Removed(t, n) = u.t
    BY <1>2, RemoveWalks
  <2> QED
    BY <1>1, <1>2, <2>1 DEF Freed
<1>3. CASE ~u.red
  <2>1. \E sub2, bh2, d : Removing(u.t, T, sub2, bh2, u.node, u.parent, d)
    BY <1>1, <1>3 DEF Freed
  <2>2. PICK sub2, bh2, d : Removing(u.t, T, sub2, bh2, u.node, u.parent, d)
    BY <2>1
  <2>3. PICK x : x = RemoveStart(u)
    OBVIOUS
  <2>4. x \in StateT /\ Goes(x, T, 0)
    BY <2>2, <2>3, RemoveStarts
  <2> DEFINE X == {s \in StateT : \E a \in Nat : Goes(s, T, a)}
             step == [s \in X |-> RemoveStep(s)]
  <2>5. x \in X
    BY <2>4
  <2>6. step \in [X -> X]
    <3>1. ASSUME NEW s \in X PROVE RemoveStep(s) \in X
      <4>1. PICK a \in Nat : Goes(s, T, a)
        OBVIOUS
      <4>2. PICK v : v = RemoveStep(s)
        OBVIOUS
      <4>3. v \in StateT /\ Goes(v, T, a + 1)
        BY <4>1, <4>2, RemoveStepIs
      <4>4. a + 1 \in Nat
        OBVIOUS
      <4> QED
        BY <4>2, <4>3, <4>4
    <3> HIDE DEF X
    <3> QED
      BY <3>1
  <2>7. \E f : RemoveWalk(u, f)
    <3>1. PICK f : Loops(f, X, x, step)
      <4> HIDE DEF X, step
      <4> QED
        BY <2>5, <2>6, LoopExists
    <3>2. ASSUME NEW k \in Rounds, k # 0 PROVE step[f[k - 1]] = RemoveStep(f[k - 1])
      <4>1. k - 1 \in Rounds
        BY <3>2, RoundsAre
      <4>2. f[k - 1] \in X
        BY <3>1, <4>1 DEF Loops
      <4> HIDE DEF X
      <4> QED
        BY <4>2
    <3>3. f = [k \in Rounds |-> IF k = 0 THEN x ELSE step[f[k - 1]]]
      BY <3>1 DEF Loops
    <3>4. [k \in Rounds |-> IF k = 0 THEN x ELSE step[f[k - 1]]]
          = [k \in Rounds |-> IF k = 0 THEN x ELSE RemoveStep(f[k - 1])]
      <4> HIDE DEF step, X
      <4> QED
        BY <3>2
    <3>5. f = [k \in Rounds |-> IF k = 0 THEN x ELSE RemoveStep(f[k - 1])]
      BY <3>3, <3>4
    <3> QED
      BY <2>3, <3>5 DEF RemoveWalk
  <2>8. PICK f : RemoveWalk(u, f) /\ Removed(t, n) = RemoveEnd(f[LastRound])
    BY <1>3, <2>7, RemoveWalks
  <2>9. \A k \in 0..LastRound : f[k] = IF k = 0 THEN x ELSE RemoveStep(f[k - 1])
    BY <2>3, <2>8, RoundsAre DEF RemoveWalk
  <2> DEFINE Good == {k \in 0..LastRound : f[k] \in StateT /\ Goes(f[k], T, k)}
  <2>10. 0 \in Good
    <3>1. 0 \in 0..LastRound /\ f[0] = x
      BY <2>9, RoundsAre
    <3> QED
      BY <2>4, <3>1
  <2>11. ASSUME NEW k \in 0..(LastRound - 1), k \in Good PROVE k + 1 \in Good
    <3>1. k + 1 \in 0..LastRound /\ k + 1 # 0 /\ (k + 1) - 1 = k /\ k \in Nat
      BY RoundsAre
    <3>2. PICK s, v : s = f[k] /\ v = f[k + 1]
      OBVIOUS
    <3>3. v = RemoveStep(s) /\ s \in StateT /\ Goes(s, T, k)
      BY <2>9, <2>11, <3>1, <3>2
    <3>4. v \in StateT /\ Goes(v, T, k + 1)
      BY <3>1, <3>3, RemoveStepIs
    <3> QED
      BY <3>1, <3>2, <3>4
  <2>12. LastRound \in Good
    <3>1. \A k \in 0..(LastRound - 1) : k \in Good => k + 1 \in Good
      BY <2>11
    <3>2. LastRound \in Nat /\ LastRound \in 0..LastRound
      BY RoundsAre
    <3> HIDE DEF Good
    <3> QED
      BY <2>10, <3>1, <3>2, UpTo
  <2>13. PICK s : s = f[LastRound] /\ Goes(s, T, LastRound)
    BY <2>12
  <2>14. \E sub3, bh3 : Valid(RemoveEnd(s), T, sub3, bh3)
    BY <2>13, RemoveEndIs
  <2> QED
    BY <2>8, <2>13, <2>14
<1> QED
  BY <1>2, <1>3

-----------------------------------------------------------------------------
\* The black nodes counted on the way up are the root's height.
BlackStep(s) ==
    IF s.here = 0 THEN s
    ELSE [here |-> tree.node[s.here].parent, sum |-> s.sum + IF tree.node[s.here].red THEN 0 ELSE 1]

BlackWalk(k, f) == f = [n \in Rounds |-> IF n = 0 THEN [here |-> k, sum |-> 0] ELSE BlackStep(f[n - 1])]

\* The count of black nodes is the repetition of BlackStep.
LEMMA BlackWalks ==
  ASSUME NEW k
  PROVE  Blacks(k) = (CHOOSE f : BlackWalk(k, f))[LastRound].sum
BY DEF Blacks, BlackWalk, BlackStep

\* Halfway: what is below here has been counted.
Counts(s, S, sub, bh, a) ==
    \/ s.here = 0 /\ s.sum = bh[tree.root]
    \/ s.here \in S /\ s.sum + Weight(tree, s.here) = bh[s.here] /\ Size(sub, s.here) >= a

CountT(S) == [here : S \union {0}, sum : Nat]

\* It goes up, and the sum is the height below.
LEMMA BlackStepIs ==
  ASSUME NEW S, NEW sub, NEW bh, Valid(tree, S, sub, bh), NEW s \in CountT(S)
  PROVE  /\ BlackStep(s) \in CountT(S)
         /\ \A a \in Nat : Counts(s, S, sub, bh, a) => Counts(BlackStep(s), S, sub, bh, a + 1)
<1> PICK u, h, g : u = BlackStep(s) /\ h = s.here /\ g = Up(tree, h)
  OBVIOUS
<1>1. /\ Shape(tree, S, sub) /\ Even(tree, S, bh, 0, "left")
  BY DEF Valid
<1>2. S \subseteq K0 /\ 0 \notin S
  BY <1>1, OffTree
<1>3. h \in S \union {0} /\ s.sum \in Nat
  BY DEF CountT
<1>4. CASE h = 0
  <2>1. u = s
    BY <1>4 DEF BlackStep
  <2>2. \A a \in Nat : Counts(s, S, sub, bh, a) => Counts(s, S, sub, bh, a + 1)
    BY <1>2, <1>4 DEF Counts
  <2> QED
    BY <2>1, <2>2
<1>5. CASE h # 0
  <2>1. u = [here |-> g, sum |-> s.sum + Weight(tree, h)]
    BY <1>5 DEF BlackStep, Up, Weight, Hue
  <2>2. h \in S /\ g \in S \union {0} /\ (tree.root = h <=> g = 0)
    BY <1>1, <1>3, <1>5, NodeIs
  <2>3. Weight(tree, h) \in Nat /\ Weight(tree, g) \in Nat
    BY WeightIs
  <2>4. u \in CountT(S)
    BY <1>3, <2>1, <2>2, <2>3 DEF CountT
  <2>5. ASSUME NEW a \in Nat, Counts(s, S, sub, bh, a) PROVE Counts(u, S, sub, bh, a + 1)
    <3>1. s.sum + Weight(tree, h) = bh[h] /\ Size(sub, h) >= a
      BY <1>5, <2>5 DEF Counts
    <3>2. u.here = g /\ u.sum = bh[h]
      BY <2>1, <3>1
    <3>3. CASE g = 0
      BY <2>2, <3>2, <3>3 DEF Counts
    <3>4. CASE g # 0
      <4>1. g \in S /\ Kid(tree, g, SideOf(tree, h)) = h /\ SideOf(tree, h) \in Sides
        BY <1>1, <2>2, <3>4, SideFound
      <4>2. bh[g] = bh[h] + Weight(tree, g) + Lack(g, SideOf(tree, h), 0, "left")
        BY <1>1, <4>1 DEF Even, EvenAt
      <4>3. Lack(g, SideOf(tree, h), 0, "left") = 0
        BY <3>4 DEF Lack
      <4>4. bh[h] \in Nat
        BY <1>1, <1>2, <2>2 DEF Even, Heights
      <4>5. Size(sub, h) < Size(sub, g)
        BY <1>1, <4>1, KidSmaller
      <4>6. Size(sub, h) \in Nat /\ Size(sub, g) \in Nat
        BY <1>1, <2>2, Sizes
      <4>7. u.sum + Weight(tree, g) = bh[g] /\ Size(sub, g) >= a + 1
        BY <2>3, <3>1, <3>2, <4>2, <4>3, <4>4, <4>5, <4>6
      <4> QED
        BY <3>2, <4>1, <4>7 DEF Counts
    <3> QED
      BY <3>3, <3>4
  <2> QED
    BY <2>4, <2>5
<1> QED
  BY <1>4, <1>5

\* From any missing child the count is the root's height.
LEMMA BlacksAre ==
  ASSUME NEW S, NEW sub, NEW bh, Valid(tree, S, sub, bh), NEW k \in S, NEW d \in Sides, Kid(tree, k, d) = 0
  PROVE  Blacks(k) = bh[tree.root]
<1> PICK x, X : x = [here |-> k, sum |-> 0] /\ X = CountT(S)
  OBVIOUS
<1> DEFINE step == [s \in X |-> BlackStep(s)]
<1>1. Shape(tree, S, sub) /\ Even(tree, S, bh, 0, "left")
  BY DEF Valid
<1>2. x \in X
  BY DEF CountT
<1>3. step \in [X -> X]
  <2>1. \A s \in X : BlackStep(s) \in X
    BY BlackStepIs
  <2> QED
    BY <2>1
<1>4. \E f : BlackWalk(k, f)
  <2>1. PICK f : Loops(f, X, x, step)
    <3> HIDE DEF step
    <3> QED
      BY <1>2, <1>3, LoopExists
  <2>2. ASSUME NEW n \in Rounds, n # 0 PROVE step[f[n - 1]] = BlackStep(f[n - 1])
    <3>1. n - 1 \in Rounds
      BY <2>2, RoundsAre
    <3>2. f[n - 1] \in X
      BY <2>1, <3>1 DEF Loops
    <3> QED
      BY <3>2
  <2>3. f = [n \in Rounds |-> IF n = 0 THEN x ELSE step[f[n - 1]]]
    BY <2>1 DEF Loops
  <2>4. [n \in Rounds |-> IF n = 0 THEN x ELSE step[f[n - 1]]]
        = [n \in Rounds |-> IF n = 0 THEN x ELSE BlackStep(f[n - 1])]
    <3> HIDE DEF step
    <3> QED
      BY <2>2
  <2>5. f = [n \in Rounds |-> IF n = 0 THEN x ELSE BlackStep(f[n - 1])]
    BY <2>3, <2>4
  <2> QED
    BY <2>5 DEF BlackWalk
<1>5. PICK f : BlackWalk(k, f) /\ Blacks(k) = f[LastRound].sum
  BY <1>4, BlackWalks
<1>6. \A n \in 0..LastRound : f[n] = IF n = 0 THEN x ELSE BlackStep(f[n - 1])
  BY <1>5, RoundsAre DEF BlackWalk
<1> DEFINE Good == {n \in 0..LastRound : f[n] \in X /\ Counts(f[n], S, sub, bh, n)}
<1>7. 0 \in Good
  <2>1. 0 \in 0..LastRound /\ f[0] = x
    BY <1>6, RoundsAre
  <2>2. bh[k] = bh[0] + Weight(tree, k) + Lack(k, d, 0, "left") /\ bh[0] = 0
    BY <1>1 DEF Even, EvenAt, Heights
  <2>3. Lack(k, d, 0, "left") = 0
    BY <1>1, NodeIs DEF Lack
  <2>4. Size(sub, k) >= 0 /\ Weight(tree, k) \in Nat
    BY <1>1, Sizes, WeightIs
  <2>5. Counts(x, S, sub, bh, 0)
    BY <2>2, <2>3, <2>4 DEF Counts
  <2> QED
    BY <1>2, <2>1, <2>5
<1>8. ASSUME NEW n \in 0..(LastRound - 1), n \in Good PROVE n + 1 \in Good
  <2>1. n + 1 \in 0..LastRound /\ n + 1 # 0 /\ (n + 1) - 1 = n /\ n \in Nat
    BY RoundsAre
  <2>2. PICK s, v : s = f[n] /\ v = f[n + 1]
    OBVIOUS
  <2>3. v = BlackStep(s) /\ s \in CountT(S) /\ Counts(s, S, sub, bh, n)
    BY <1>6, <1>8, <2>1, <2>2
  <2>4. v \in CountT(S) /\ Counts(v, S, sub, bh, n + 1)
    BY <2>1, <2>3, BlackStepIs
  <2> QED
    BY <2>1, <2>2, <2>4
<1>9. LastRound \in Good
  <2>1. \A n \in 0..(LastRound - 1) : n \in Good => n + 1 \in Good
    BY <1>8
  <2>2. LastRound \in Nat /\ LastRound \in 0..LastRound
    BY RoundsAre
  <2> HIDE DEF Good
  <2> QED
    BY <1>7, <2>1, <2>2, UpTo
<1>10. PICK s : s = f[LastRound] /\ Counts(s, S, sub, bh, LastRound)
  BY <1>9
<1>11. s.sum = bh[tree.root]
  <2> SUFFICES ASSUME s.here \in S, Size(sub, s.here) >= LastRound PROVE FALSE
    BY <1>10 DEF Counts
  <2>1. Size(sub, s.here) \in Nat /\ Size(sub, s.here) <= Cardinality(S) /\ Cardinality(S) <= Cardinality(Keys)
        /\ Cardinality(S) \in Nat
    BY <1>1, Sizes
  <2>2. LastRound \in Nat /\ LastRound > Cardinality(Keys) /\ Cardinality(Keys) \in Nat
    BY RoundsAre
  <2> QED
    BY <2>1, <2>2
<1> QED
  BY <1>5, <1>10, <1>11

-----------------------------------------------------------------------------
\* There are such functions: this holds of the tree between two calls.
TreeInv == \E sub, bh : Valid(tree, registered, sub, bh)

\* The empty tree is sound.
LEMMA TreeStarts == TreeInit => TreeInv
<1> SUFFICES ASSUME TreeInit PROVE TreeInv
  OBVIOUS
<1>1. tree = [root |-> 0, node |-> [k \in K0 |-> Nil]] /\ registered = {}
  BY DEF TreeInit, K0
<1>2. PICK sub, bh : sub = [k \in K0 |-> {}] /\ bh = [k \in K0 |-> 0]
  OBVIOUS
<1>3. 0 \in K0 /\ Nil \in NodeT
  BY DEF K0, Nil, NodeT
<1>4. tree \in TreeT /\ tree.root = 0 /\ \A k \in K0 : tree.node[k] = Nil
  BY <1>1, <1>3 DEF TreeT
<1>5. Shape(tree, {}, sub)
  BY <1>2, <1>3, <1>4 DEF Shape, SubType
<1>6. Even(tree, {}, bh, 0, "left")
  BY <1>2, <1>3 DEF Even, Heights
<1>7. ~Hue(tree, tree.root)
  BY <1>3, <1>4, NilIs
<1>8. Valid(tree, {}, sub, bh)
  BY <1>5, <1>6, <1>7 DEF Valid
<1> QED
  BY <1>1, <1>8 DEF TreeInv

\* tree_add() and tree_del() keep the tree sound.
LEMMA TreeSteps == TreeInv /\ [TreeNext]_treeVars => TreeInv'
<1> SUFFICES ASSUME TreeInv, [TreeNext]_treeVars PROVE TreeInv'
  OBVIOUS
<1>1. PICK sub, bh : Valid(tree, registered, sub, bh)
  BY DEF TreeInv
<1>2. ASSUME NEW key \in Keys, TreeAdd(key) PROVE TreeInv'
  <2>1. Shape(tree, registered, sub)
    BY <1>1 DEF Valid
  <2>2. Find(tree, key) = IF key \in registered THEN key ELSE 0
    BY <2>1, FindIs
  <2>3. key \in Keys \ registered
    BY <1>2, <2>2 DEF TreeAdd
  <2>4. \E sub2, bh2 : Valid(Inserted(tree, key), registered \union {key}, sub2, bh2)
    BY <1>1, <2>3, InsertedIs
  <2>5. tree' = Inserted(tree, key) /\ registered' = registered \union {key}
    BY <1>2 DEF TreeAdd
  <2> QED
    BY <2>4, <2>5 DEF TreeInv
<1>3. ASSUME NEW key \in Keys, TreeDel(key) PROVE TreeInv'
  <2>1. key \in registered /\ tree' = Removed(tree, key) /\ registered' = registered \ {key}
    BY <1>3 DEF TreeDel
  <2>2. \E sub2, bh2 : Valid(Removed(tree, key), registered \ {key}, sub2, bh2)
    BY <1>1, <2>1, RemovedIs
  <2> QED
    BY <2>1, <2>2 DEF TreeInv
<1>4. ASSUME UNCHANGED treeVars PROVE TreeInv'
  BY <1>4 DEF TreeInv, treeVars
<1> QED
  BY <1>2, <1>3, <1>4 DEF TreeNext

\* What TreeSound says of the links and colours follows.
LEMMA InvIsSound == TreeInv => TreeSound
<1> SUFFICES ASSUME TreeInv PROVE TreeSound
  OBVIOUS
<1>1. PICK sub, bh : Valid(tree, registered, sub, bh)
  BY DEF TreeInv
<1> PICK t, S : t = tree /\ S = registered
  OBVIOUS
<1>2. /\ Shape(t, S, sub) /\ \A k \in S : ~Clash(t, k)
      /\ ~Hue(t, t.root)
  BY <1>1 DEF Valid
<1>3. S \subseteq K0 /\ 0 \in K0 /\ 0 \notin S /\ Keys \subseteq K0 /\ \A k \in K0 \ S : t.node[k] = Nil
  <2>1. S \subseteq K0 /\ 0 \in K0 /\ 0 \notin S /\ Keys \subseteq K0
    BY <1>2, OffTree
  <2> QED
    BY <1>2, <2>1 DEF Shape
<1>4. \A key \in Keys : Find(tree, key) = IF key \in registered THEN key ELSE 0
  BY <1>2, FindIs
<1>5. t.root = 0 <=> S = {}
  <2>1. t.root \in S \union {0} /\ sub[t.root] = S /\ sub[0] = {}
    BY <1>2 DEF Shape, SubType
  <2> QED
    BY <1>3, <2>1
<1>6. ASSUME NEW k \in S
      PROVE  /\ t.node[k].parent = 0 <=> t.root = k
             /\ t.node[k].parent # 0 => k \in {t.node[t.node[k].parent].left, t.node[t.node[k].parent].right}
             /\ \A c \in {t.node[k].left, t.node[k].right} \ {0} : t.node[c].parent = k
  <2>1. PICK g : g = Up(t, k) /\ g = t.node[k].parent
    BY DEF Up
  <2>2. g = 0 <=> t.root = k
    BY <1>2, <2>1, NodeIs
  <2>3. g # 0 => k \in {t.node[g].left, t.node[g].right}
    <3>1. g # 0 => Kid(t, g, SideOf(t, k)) = k
      BY <1>2, <2>1, SideFound
    <3> QED
      BY <3>1 DEF Kid
  <2>4. ASSUME NEW c \in {t.node[k].left, t.node[k].right} \ {0} PROVE t.node[c].parent = k
    <3>1. PICK s \in Sides : Kid(t, k, s) = c
      BY DEF Sides, Kid
    <3>2. Up(t, c) = k
      BY <1>2, <3>1, KidIn
    <3> QED
      BY <3>2 DEF Up
  <2> QED
    BY <2>1, <2>2, <2>3, <2>4
<1>7. LinksAgree
  BY <1>3, <1>5, <1>6 DEF LinksAgree
<1>8. ~tree.node[tree.root].red
  BY <1>2 DEF Hue
<1>9. \A k \in registered : tree.node[k].red => ~tree.node[tree.node[k].parent].red
  BY <1>2 DEF Clash, Hue, Up
<1>10. ASSUME NEW k \in registered, 0 \in {tree.node[k].left, tree.node[k].right}
       PROVE  Blacks(k) = bh[tree.root]
  <2>1. PICK d \in Sides : Kid(tree, k, d) = 0
    BY <1>10 DEF Sides, Kid
  <2> QED
    BY <1>1, <2>1, BlacksAre
<1>11. Balanced
  BY <1>8, <1>9, <1>10 DEF Balanced
<1> QED
  BY <1>4, <1>7, <1>11 DEF TreeSound, FindsRegistered

(* After any sequence of tree_add() and tree_del(), for any finite set of  *)
(* keys: tree_find() finds exactly the registered keys, children and       *)
(* parents agree and nothing was written through NULL, no red node has a   *)
(* red child, and every path has the same number of black nodes.           *)
THEOREM TreeCorrect ==
  TreeSpec => []TreeSound
BY TreeStarts, TreeSteps, InvIsSound, PTL DEF TreeSpec
=============================================================================
