----------------------------- MODULE EpollProofs -----------------------------
(***************************************************************************)
(* libepoll, for any number of threads, sockets and poll groups: the port  *)
(* is freed by the thread that closed it, once no other thread is anywhere *)
(* in a call; no assertion but one fails; the driver and the threads hold  *)
(* nothing of a socket state that is free; and each socket that is known   *)
(* is watched or will be.                                                  *)
(*                                                                         *)
(* Each function of the source that changes a port is shown to keep        *)
(* PortInv, from which the invariant EpollInv of the specification         *)
(* follows step by step.                                                   *)
(***************************************************************************)
EXTENDS EpollProps, SequenceLemmas

-----------------------------------------------------------------------------
(* Queues of sockets and of groups, as sequences                           *)

\* What is left of a queue without its k-th node
LEMMA RemoveAtIs ==
  ASSUME NEW S, NEW q \in Seq(S), NEW k \in 1..Len(q)
  PROVE  /\ RemoveAt(q, k) \in Seq(S)
         /\ Len(RemoveAt(q, k)) = Len(q) - 1
         /\ \A i \in 1..(Len(q) - 1) : RemoveAt(q, k)[i] = q[IF i < k THEN i ELSE i + 1]
<1> DEFINE n == Len(q)
           a == SubSeq(q, 1, k - 1)
           b == SubSeq(q, k + 1, n)
<1>1. n \in Nat /\ k \in Nat /\ 1 <= k /\ k <= n
  OBVIOUS
<1>2. a \in Seq(S) /\ Len(a) = k - 1 /\ \A i \in 1..(k - 1) : a[i] = q[i]
  BY <1>1
<1>3. b \in Seq(S) /\ Len(b) = n - k /\ \A i \in 1..(n - k) : b[i] = q[k + i]
  BY <1>1, PartIs
<1> HIDE DEF a, b
<1>4. /\ a \o b \in Seq(S) /\ Len(a \o b) = Len(a) + Len(b)
      /\ \A i \in 1..Len(a) : (a \o b)[i] = a[i]
      /\ \A i \in 1..Len(b) : (a \o b)[Len(a) + i] = b[i]
  <2>1. a \in Seq(S) /\ b \in Seq(S)
    BY <1>2, <1>3
  <2> QED
    BY <2>1, JoinIs
<1>5. RemoveAt(q, k) = a \o b
  BY DEF RemoveAt, a, b
<1>6. Len(a \o b) = n - 1
  BY <1>1, <1>2, <1>3, <1>4
<1>7. ASSUME NEW i \in 1..(n - 1) PROVE (a \o b)[i] = q[IF i < k THEN i ELSE i + 1]
  <2>1. CASE i < k
    <3>1. i \in 1..(k - 1) /\ i \in 1..Len(a)
      BY <1>1, <1>2, <2>1
    <3> QED
      BY <1>2, <1>4, <2>1, <3>1
  <2>2. CASE ~(i < k)
    <3> DEFINE j == i - (k - 1)
    <3>1. j \in 1..(n - k) /\ Len(a) + j = i /\ k + j = i + 1
      BY <1>1, <1>2, <2>2
    <3>2. b[j] = q[k + j]
      BY <1>3, <3>1
    <3>3. (a \o b)[Len(a) + j] = b[j]
      BY <1>3, <1>4, <3>1
    <3> QED
      BY <2>2, <3>1, <3>2, <3>3
  <2> QED
    BY <2>1, <2>2
<1> QED
  BY <1>4, <1>5, <1>6, <1>7

\* Without(q, e) keeps the order of the others.
LEMMA WithoutCases ==
  ASSUME NEW S, NEW q \in Seq(S), NEW e
  PROVE  \/ e \notin ToSet(q) /\ Without(q, e) = q
         \/ \E k \in 1..Len(q) : q[k] = e /\ Without(q, e) = RemoveAt(q, k)
<1>1. CASE \E i \in 1..Len(q) : q[i] = e
  <2> DEFINE k == CHOOSE i \in DOMAIN q : q[i] = e
  <2>1. Without(q, e) = RemoveAt(q, k)
    BY <1>1 DEF Without, Contains
  <2>2. DOMAIN q = 1..Len(q)
    OBVIOUS
  <2>3. k \in DOMAIN q /\ q[k] = e
    BY <1>1, <2>2
  <2> HIDE DEF k
  <2> QED
    BY <2>1, <2>2, <2>3
<1>2. CASE ~ \E i \in 1..Len(q) : q[i] = e
  BY <1>2 DEF Without, Contains, ToSet
<1> QED
  BY <1>1, <1>2

\* Without() gives a queue of the same elements.
LEMMA WithoutType ==
  ASSUME NEW S, NEW q \in Seq(S), NEW e PROVE Without(q, e) \in Seq(S)
BY WithoutCases, RemoveAtIs

\* ... in which the others keep their order, for a queue without duplicates.
LEMMA WithoutIs ==
  ASSUME NEW S, NEW q \in Seq(S), IsInjective(q), NEW e
  PROVE  /\ Without(q, e) \in Seq(S)
         /\ IsInjective(Without(q, e))
         /\ ToSet(Without(q, e)) = ToSet(q) \ {e}
         /\ Len(Without(q, e)) = IF e \in ToSet(q) THEN Len(q) - 1 ELSE Len(q)
         /\ \A i, j \in DOMAIN Without(q, e) :
              i < j => \E k, l \in DOMAIN q : k < l /\ Without(q, e)[i] = q[k] /\ Without(q, e)[j] = q[l]
<1> DEFINE w == Without(q, e)
<1>1. CASE e \notin ToSet(q) /\ w = q
  BY <1>1
<1>2. ASSUME NEW k \in 1..Len(q), q[k] = e, w = RemoveAt(q, k)
      PROVE  /\ w \in Seq(S) /\ IsInjective(w) /\ ToSet(w) = ToSet(q) \ {e}
             /\ e \in ToSet(q) /\ Len(w) = Len(q) - 1
             /\ \A i, j \in DOMAIN w :
                  i < j => \E m, l \in DOMAIN q : m < l /\ w[i] = q[m] /\ w[j] = q[l]
  <2> DEFINE n == Len(q)
             At1(i) == IF i < k THEN i ELSE i + 1
  <2>1. n \in Nat /\ k \in Nat /\ DOMAIN q = 1..n
    OBVIOUS
  <2>2. w \in Seq(S) /\ Len(w) = n - 1 /\ \A i \in 1..(n - 1) : w[i] = q[At1(i)]
    BY <1>2, RemoveAtIs
  <2>3. DOMAIN w = 1..(n - 1)
    BY <2>2
  <2>4. \A i \in 1..(n - 1) : At1(i) \in 1..n /\ At1(i) # k
    BY <2>1
  <2>5. \A i, j \in 1..(n - 1) : (At1(i) = At1(j) => i = j) /\ (i < j => At1(i) < At1(j))
    BY <2>1
  <2>6. \A j \in 1..n : j # k => \E i \in 1..(n - 1) : At1(i) = j
    <3> SUFFICES ASSUME NEW j \in 1..n, j # k PROVE \E i \in 1..(n - 1) : At1(i) = j
      OBVIOUS
    <3>1. CASE j < k
      BY <2>1, <3>1
    <3>2. CASE j > k
      <4>1. j - 1 \in 1..(n - 1) /\ At1(j - 1) = j
        BY <2>1, <3>2
      <4> QED
        BY <4>1
    <3> QED
      BY <2>1, <3>1, <3>2
  <2>7. \A i, j \in 1..n : q[i] = q[j] => i = j
    BY <2>1 DEF IsInjective
  <2> HIDE DEF At1, n, w
  <2>8. IsInjective(w)
    BY <2>2, <2>3, <2>4, <2>5, <2>7 DEF IsInjective
  <2>9. ToSet(w) = ToSet(q) \ {e}
    <3>1. ASSUME NEW x \in ToSet(w) PROVE x \in ToSet(q) \ {e}
      <4>1. PICK i \in 1..(n - 1) : x = w[i]
        BY <2>3, <3>1 DEF ToSet
      <4>2. x = q[At1(i)] /\ At1(i) \in 1..n /\ At1(i) # k
        BY <2>2, <2>4, <4>1
      <4>3. x # e
        BY <1>2, <2>7, <4>2 DEF n
      <4> QED
        BY <2>1, <4>2, <4>3 DEF ToSet
    <3>2. ASSUME NEW x \in ToSet(q), x # e PROVE x \in ToSet(w)
      <4>1. PICK j \in 1..n : x = q[j]
        BY <2>1, <3>2 DEF ToSet
      <4>2. PICK i \in 1..(n - 1) : At1(i) = j
        BY <1>2, <2>6, <3>2, <4>1
      <4> QED
        BY <2>2, <2>3, <4>1, <4>2 DEF ToSet
    <3> QED
      BY <3>1, <3>2
  <2>10. e \in ToSet(q) /\ Len(w) = Len(q) - 1
    BY <1>2, <2>1, <2>2 DEF ToSet, n
  <2>11. \A i, j \in DOMAIN w :
           i < j => \E m, l \in DOMAIN q : m < l /\ w[i] = q[m] /\ w[j] = q[l]
    <3> SUFFICES ASSUME NEW i \in DOMAIN w, NEW j \in DOMAIN w, i < j
                 PROVE  \E m, l \in DOMAIN q : m < l /\ w[i] = q[m] /\ w[j] = q[l]
      OBVIOUS
    <3>1. i \in 1..(n - 1) /\ j \in 1..(n - 1)
      BY <2>3
    <3> QED
      BY <2>1, <2>2, <2>4, <2>5, <3>1
  <2> QED
    BY <2>2, <2>8, <2>9, <2>10, <2>11
<1> HIDE DEF w
<1>3. \/ e \notin ToSet(q) /\ w = q
      \/ \E k \in 1..Len(q) : q[k] = e /\ w = RemoveAt(q, k)
  BY WithoutCases DEF w
<1>4. /\ w \in Seq(S) /\ IsInjective(w) /\ ToSet(w) = ToSet(q) \ {e}
      /\ Len(w) = IF e \in ToSet(q) THEN Len(q) - 1 ELSE Len(q)
      /\ \A i, j \in DOMAIN w :
           i < j => \E k, l \in DOMAIN q : k < l /\ w[i] = q[k] /\ w[j] = q[l]
  <2>1. CASE e \notin ToSet(q) /\ w = q
    BY <2>1
  <2>2. CASE \E k \in 1..Len(q) : q[k] = e /\ w = RemoveAt(q, k)
    BY <1>2, <2>2
  <2> QED
    BY <1>3, <2>1, <2>2
<1> QED
  BY <1>4 DEF w

\* A node is put at the end of a queue.
LEMMA AppendIs ==
  ASSUME NEW S, NEW q \in Seq(S), NEW e \in S
  PROVE  /\ Append(q, e) \in Seq(S) /\ Len(Append(q, e)) = Len(q) + 1
         /\ ToSet(Append(q, e)) = ToSet(q) \cup {e}
         /\ IsInjective(q) /\ e \notin ToSet(q) => IsInjective(Append(q, e))
         /\ \A i \in 1..Len(q) : Append(q, e)[i] = q[i]
         /\ Append(q, e)[Len(q) + 1] = e
<1> DEFINE w == Append(q, e)
           n == Len(q)
<1>1. /\ w \in Seq(S) /\ Len(w) = n + 1 /\ n \in Nat
      /\ \A i \in 1..n : w[i] = q[i]
      /\ w[n + 1] = e /\ DOMAIN w = 1..(n + 1) /\ DOMAIN q = 1..n
  OBVIOUS
<1> HIDE DEF w, n
<1>2. ToSet(w) = ToSet(q) \cup {e}
  <2>1. \A i \in 1..(n + 1) : i \in 1..n \/ i = n + 1
    BY <1>1
  <2>2. \A i \in 1..n : i \in 1..(n + 1)
    BY <1>1
  <2>3. n + 1 \in 1..(n + 1)
    BY <1>1
  <2> QED
    BY <1>1, <2>1, <2>2, <2>3 DEF ToSet
<1>3. ASSUME IsInjective(q), e \notin ToSet(q) PROVE IsInjective(w)
  <2>1. \A i \in 1..n : w[i] # e
    BY <1>1, <1>3 DEF ToSet
  <2>2. \A i \in 1..(n + 1) : i \in 1..n \/ i = n + 1
    BY <1>1
  <2> QED
    BY <1>1, <1>3, <2>1, <2>2 DEF IsInjective
<1> QED
  BY <1>1, <1>2, <1>3 DEF w, n

\* A sequence without duplicates, the way EpollProps says it
LEMMA InjectiveCounts ==
  ASSUME NEW S, NEW q \in Seq(S), IsInjective(q) PROVE NoDuplicates(q)
<1>1. Len(q) \in Nat /\ q \in [1..Len(q) -> ToSet(q)]
  BY DEF ToSet
<1>2. q \in Bijection(1..Len(q), ToSet(q))
  BY <1>1 DEF Bijection, Injection, Surjection, IsInjective, ToSet
<1>3. ExistsBijection(1..Len(q), ToSet(q))
  BY <1>2 DEF ExistsBijection
<1> QED
  BY <1>1, <1>3, FS_CountingElements DEF NoDuplicates

-----------------------------------------------------------------------------
(* What a port is between two functions of the source: its types, how the  *)
(* polls, the tree, the queues and the groups fit together, and that a     *)
(* socket is served.  Then the queue of groups.                            *)

SockType == [used : BOOLEAN, group : 0..MaxGroups, base : OsSockets \cup {None},
             user : SUBSET DOMAIN Asks, oneshot : BOOLEAN, pending : SUBSET DOMAIN Asks,
             status : {"idle", "pending", "cancelled"}, deleting : BOOLEAN]
PollType == [state : {None, "pending", "cancelled", "done"}, base : OsSockets \cup {None},
             asked : SUBSET EpollToAfd(DOMAIN Asks)]
PortType == [iocp : BOOLEAN, tree : [OsSockets -> 0..MaxSocks], sock : [SockIds -> SockType],
             afd : [SockIds -> PollType], update : Seq(SockIds), deleted : Seq(SockIds),
             groups : Seq(Groups), size : [Groups -> Int], active : Int,
             failed : {None, "port_get_iocp_handle"}]

Staying(p) == {s \in SockIds : p.sock[s].used /\ ~p.sock[s].deleting}
Leaving(p) == {s \in SockIds : p.sock[s].used /\ p.sock[s].deleting}
Members(p, g) == {s \in SockIds : p.sock[s].used /\ p.sock[s].group = g}

PollRight(p, s) ==
  /\ ~p.sock[s].used => p.sock[s] = FreeSock
  /\ p.sock[s].used => p.sock[s].group \in Groups
  /\ p.sock[s].status = "idle" => p.afd[s] = NoPoll
  /\ p.sock[s].status = "pending" => p.afd[s].state \in {"pending", "done"}
  /\ p.sock[s].status = "cancelled" => p.afd[s].state \in {"cancelled", "done"}
  /\ p.sock[s].status # "pending" => p.sock[s].pending = {}

TreeRight(p) ==
  /\ \A s \in Staying(p) : p.sock[s].base \in OsSockets /\ p.tree[p.sock[s].base] = s
  /\ \A o \in OsSockets : p.tree[o] # NoId => p.tree[o] \in Staying(p) /\ p.sock[p.tree[o]].base = o

QueueRight(p) ==
  /\ IsInjective(p.update) /\ IsInjective(p.deleted)
  /\ ToSet(p.update) \subseteq Staying(p)
  /\ ToSet(p.deleted) = Leaving(p)

Served(p, s) ==
  /\ s \in Leaving(p) => p.sock[s].status # "idle"
  /\ s \in Staying(p) =>
       \/ s \in ToSet(p.update)
       \/ p.sock[s].status = "cancelled"
       \/ p.sock[s].status = "pending" /\ Unwatched(p, s) = {}

GroupQueue(groups, size) ==
  /\ IsInjective(groups)
  /\ ToSet(groups) = 1..Len(groups)
  /\ \A g \in Groups : size[g] \in 0..MaxGroupSize /\ (g > Len(groups) => size[g] = 0)
  /\ \A i, j \in DOMAIN groups :
       i < j /\ size[groups[i]] < MaxGroupSize => size[groups[j]] < MaxGroupSize

GroupsRight(p) ==
  p.failed = None =>
    GroupQueue(p.groups, p.size) /\ \A g \in Groups : p.size[g] = Cardinality(Members(p, g))

Shape(p) ==
  /\ p \in PortType
  /\ p.failed \in {None, "port_get_iocp_handle"}
  /\ \A s \in SockIds : PollRight(p, s)
  /\ TreeRight(p)
  /\ QueueRight(p)
  /\ GroupsRight(p)

PortInv(p) == Shape(p) /\ \A s \in SockIds : Served(p, s)

-----------------------------------------------------------------------------
\* A new group is put at the end, where the last one has no room.
LEMMA GroupMade ==
  ASSUME NEW groups \in Seq(Groups), NEW size \in [Groups -> Int], GroupQueue(groups, size),
         NEW g \in Groups, g = Len(groups) + 1
  PROVE  /\ Append(groups, g) \in Seq(Groups) /\ GroupQueue(Append(groups, g), size)
         /\ Append(groups, g) # <<>> /\ Last(Append(groups, g)) = g /\ size[g] = 0
<1> DEFINE w == Append(groups, g)
           n == Len(groups)
<1>1. /\ w \in Seq(Groups) /\ Len(w) = n + 1 /\ ToSet(w) = ToSet(groups) \cup {g}
      /\ IsInjective(groups) /\ g \notin ToSet(groups) => IsInjective(w)
      /\ \A i \in 1..n : w[i] = groups[i]
      /\ w[n + 1] = g
  BY AppendIs
<1>2. n \in Nat /\ DOMAIN w = 1..(n + 1) /\ DOMAIN groups = 1..n
  BY <1>1
<1>3. /\ IsInjective(groups) /\ ToSet(groups) = 1..n /\ size[g] = 0
      /\ \A h \in Groups : size[h] \in 0..MaxGroupSize /\ (h > n => size[h] = 0)
      /\ \A i, j \in DOMAIN groups :
           i < j /\ size[groups[i]] < MaxGroupSize => size[groups[j]] < MaxGroupSize
  BY <1>2 DEF GroupQueue, Groups
<1> HIDE DEF w, n
<1>4. ToSet(w) = 1..Len(w) /\ IsInjective(w)
  BY <1>1, <1>2, <1>3 DEF n
<1>5. \A h \in Groups : h > Len(w) => size[h] = 0
  BY <1>1, <1>2, <1>3 DEF Groups
<1>6. \A i, j \in DOMAIN w : i < j /\ size[w[i]] < MaxGroupSize => size[w[j]] < MaxGroupSize
  <2> SUFFICES ASSUME NEW i \in 1..(n + 1), NEW j \in 1..(n + 1), i < j, size[w[i]] < MaxGroupSize
               PROVE  size[w[j]] < MaxGroupSize
    BY <1>2
  <2>1. i \in 1..n
    BY <1>2
  <2>2. CASE j = n + 1
    BY <1>1, <1>3, <2>2, GroupAssumption
  <2>3. CASE j # n + 1
    <3>1. j \in 1..n
      BY <1>2, <2>3
    <3> QED
      BY <1>1, <1>2, <1>3, <2>1, <3>1
  <2> QED
    BY <2>2, <2>3
<1>7. GroupQueue(w, size)
  BY <1>3, <1>4, <1>5, <1>6 DEF GroupQueue
<1>8. w # <<>> /\ Last(w) = g
  BY <1>1, <1>2 DEF Last
<1> QED
  BY <1>1, <1>3, <1>7, <1>8 DEF w

\* The rest of the queue, when g leaves its place and its count changes
LEMMA OthersOrdered ==
  ASSUME NEW groups \in Seq(Groups), NEW size \in [Groups -> Int], GroupQueue(groups, size),
         NEW g \in Groups, g \in ToSet(groups), NEW k \in 0..MaxGroupSize
  PROVE  LET w == Without(groups, g)
             new == [size EXCEPT ![g] = k]
         IN
         /\ w \in Seq(Groups) /\ IsInjective(w) /\ ToSet(w) = (1..Len(groups)) \ {g}
         /\ Len(w) = Len(groups) - 1
         /\ new \in [Groups -> Int] /\ new[g] = k
         /\ \A h \in Groups : new[h] \in 0..MaxGroupSize /\ (h > Len(groups) => new[h] = 0)
         /\ \A i, j \in DOMAIN w : i < j /\ new[w[i]] < MaxGroupSize => new[w[j]] < MaxGroupSize
<1> DEFINE w == Without(groups, g)
           new == [size EXCEPT ![g] = k]
<1>1. /\ IsInjective(groups) /\ ToSet(groups) = 1..Len(groups) /\ Len(groups) \in Nat
      /\ \A h \in Groups : size[h] \in 0..MaxGroupSize /\ (h > Len(groups) => size[h] = 0)
      /\ \A i, j \in DOMAIN groups :
           i < j /\ size[groups[i]] < MaxGroupSize => size[groups[j]] < MaxGroupSize
  BY DEF GroupQueue
<1>2. /\ w \in Seq(Groups) /\ IsInjective(w) /\ ToSet(w) = ToSet(groups) \ {g}
      /\ Len(w) = Len(groups) - 1
      /\ \A i, j \in DOMAIN w :
           i < j => \E m, l \in DOMAIN groups : m < l /\ w[i] = groups[m] /\ w[j] = groups[l]
  BY <1>1, WithoutIs
<1>3. new \in [Groups -> Int] /\ new[g] = k /\ \A h \in Groups : h # g => new[h] = size[h]
  BY GroupAssumption
<1> HIDE DEF w, new
<1>4. \A h \in Groups : new[h] \in 0..MaxGroupSize /\ (h > Len(groups) => new[h] = 0)
  <2>1. g <= Len(groups)
    BY <1>1
  <2> QED
    BY <1>1, <1>3, <2>1 DEF Groups
<1>5. ASSUME NEW i \in DOMAIN w, NEW j \in DOMAIN w, i < j, new[w[i]] < MaxGroupSize
      PROVE  new[w[j]] < MaxGroupSize
  <2>1. w[i] \in Groups /\ w[j] \in Groups /\ w[i] # g /\ w[j] # g
    <3>1. w[i] \in ToSet(w) /\ w[j] \in ToSet(w)
      BY DEF ToSet
    <3>2. ToSet(w) \subseteq Groups
      BY <1>2 DEF ToSet
    <3> QED
      BY <1>2, <3>1, <3>2
  <2>2. PICK m \in DOMAIN groups, l \in DOMAIN groups : m < l /\ w[i] = groups[m] /\ w[j] = groups[l]
    BY <1>2, <1>5
  <2> QED
    BY <1>1, <1>3, <1>5, <2>1, <2>2
<1> QED
  BY <1>1, <1>2, <1>3, <1>4, <1>5 DEF w, new

\* One more socket in the last group, which goes to the start when it is full
LEMMA GroupFilled ==
  ASSUME NEW groups \in Seq(Groups), NEW size \in [Groups -> Int], GroupQueue(groups, size),
         groups # <<>>, NEW g, g = Last(groups), size[g] < MaxGroupSize
  PROVE  LET new == [size EXCEPT ![g] = @ + 1] IN
         /\ g \in Groups
         /\ new[g] # MaxGroupSize => GroupQueue(groups, new)
         /\ new[g] = MaxGroupSize =>
              /\ <<g>> \o Without(groups, g) \in Seq(Groups)
              /\ GroupQueue(<<g>> \o Without(groups, g), new)
<1> DEFINE n == Len(groups)
           w == Without(groups, g)
           k == size[g] + 1
           new == [size EXCEPT ![g] = k]
<1>1. n \in Nat /\ n >= 1 /\ g = groups[n] /\ g \in Groups /\ DOMAIN groups = 1..n
  BY DEF Last
<1>2. g \in ToSet(groups)
  BY <1>1 DEF ToSet
<1>3. k \in 0..MaxGroupSize
  BY <1>1, GroupAssumption DEF GroupQueue
<1>4. /\ w \in Seq(Groups) /\ IsInjective(w) /\ ToSet(w) = (1..n) \ {g}
      /\ Len(w) = n - 1
      /\ new \in [Groups -> Int] /\ new[g] = k
      /\ \A h \in Groups : new[h] \in 0..MaxGroupSize /\ (h > n => new[h] = 0)
      /\ \A i, j \in DOMAIN w : i < j /\ new[w[i]] < MaxGroupSize => new[w[j]] < MaxGroupSize
  <2> HIDE DEF k
  <2> QED
    BY <1>1, <1>2, <1>3, OthersOrdered
<1>5. IsInjective(groups) /\ ToSet(groups) = 1..n /\ \A i \in 1..n : groups[i] \in Groups
  BY <1>1 DEF GroupQueue
<1>9. \A i, j \in 1..n :
        i < j /\ size[groups[i]] < MaxGroupSize => size[groups[j]] < MaxGroupSize
  BY <1>1 DEF GroupQueue
<1>10. \A h \in Groups : h # g => new[h] = size[h]
  OBVIOUS
<1>11. k \in Int /\ k <= MaxGroupSize /\ MaxGroupSize \in Nat
  BY <1>3, GroupAssumption
<1> HIDE DEF new, k, n, w
<1>6. ASSUME k # MaxGroupSize PROVE GroupQueue(groups, new)
  <2>1. \A i \in 1..n : i # n => groups[i] # g
    <3>1. n \in 1..n
      BY <1>1
    <3> QED
      BY <1>1, <1>5, <3>1 DEF IsInjective
  <2>2. ASSUME NEW i \in 1..n, NEW j \in 1..n, i < j, new[groups[i]] < MaxGroupSize
        PROVE  new[groups[j]] < MaxGroupSize
    <3>1. groups[i] \in Groups /\ groups[j] \in Groups /\ groups[i] # g
      BY <1>1, <1>5, <2>1, <2>2
    <3>2. CASE j = n
      <4>1. new[groups[j]] = k
        BY <1>1, <1>4, <3>2
      <4> QED
        BY <1>6, <1>11, <4>1
    <3>3. CASE j # n
      <4>1. groups[j] # g
        BY <2>1, <3>3
      <4> QED
        BY <1>9, <1>10, <2>2, <3>1, <4>1
    <3> QED
      BY <3>2, <3>3
  <2> QED
    BY <1>1, <1>4, <1>5, <2>2 DEF GroupQueue, n
<1>7. ASSUME k = MaxGroupSize
      PROVE  <<g>> \o w \in Seq(Groups) /\ GroupQueue(<<g>> \o w, new)
  <2> DEFINE f == <<g>> \o w
  <2>1. /\ f \in Seq(Groups) /\ Len(f) = n /\ DOMAIN f = 1..n /\ DOMAIN w = 1..(n - 1)
        /\ f[1] = g /\ \A i \in 1..(n - 1) : f[1 + i] = w[i]
    <3>1. <<g>> \in Seq(Groups) /\ Len(<<g>>) = 1 /\ <<g>>[1] = g
      BY <1>1
    <3>2. w \in Seq(Groups)
      BY <1>4
    <3>3. /\ f \in Seq(Groups) /\ Len(f) = Len(<<g>>) + Len(w)
          /\ \A i \in 1..Len(<<g>>) : f[i] = <<g>>[i]
          /\ \A i \in 1..Len(w) : f[Len(<<g>>) + i] = w[i]
      BY <3>1, <3>2, JoinIs
    <3> HIDE DEF f
    <3> QED
      BY <1>1, <1>4, <3>1, <3>3
  <2> HIDE DEF f
  <2>2. \A i \in 1..n : i = 1 \/ (i - 1 \in 1..(n - 1) /\ f[i] = w[i - 1])
    <3> SUFFICES ASSUME NEW i \in 1..n, i # 1 PROVE i - 1 \in 1..(n - 1) /\ f[i] = w[i - 1]
      OBVIOUS
    <3>1. i - 1 \in 1..(n - 1) /\ 1 + (i - 1) = i
      BY <1>1
    <3> QED
      BY <2>1, <3>1
  <2>3. \A i \in 1..(n - 1) : w[i] # g /\ w[i] \in Groups
    <3>1. \A i \in 1..(n - 1) : w[i] \in ToSet(w)
      BY <2>1 DEF ToSet
    <3>2. \A i \in 1..(n - 1) : w[i] \in Groups
      BY <1>4, <2>1
    <3> QED
      BY <1>4, <3>1, <3>2
  <2>4. IsInjective(f)
    <3>1. ASSUME NEW i \in 1..n, NEW j \in 1..n, f[i] = f[j] PROVE i = j
      <4>1. CASE i = 1 \/ j = 1
        BY <2>1, <2>2, <2>3, <3>1, <4>1
      <4>2. CASE i # 1 /\ j # 1
        <5>2. i - 1 \in DOMAIN w /\ j - 1 \in DOMAIN w /\ w[i - 1] = w[j - 1]
          BY <2>1, <2>2, <3>1, <4>2
        <5>1. i - 1 = j - 1
          BY <1>4, <5>2 DEF IsInjective
        <5> QED
          BY <5>1, <1>1
      <4> QED
        BY <4>1, <4>2
    <3> QED
      BY <2>1, <3>1 DEF IsInjective
  <2>5. ToSet(f) = 1..n
    <3>1. ToSet(f) = ToSet(w) \cup {g}
      <4>1. \A i \in 1..(n - 1) : 1 + i \in 1..n
        BY <1>1
      <4>2. 1 \in 1..n
        BY <1>1
      <4>3. ASSUME NEW x \in ToSet(w) PROVE x \in ToSet(f)
        <5>1. PICK i \in 1..(n - 1) : x = w[i]
          BY <2>1, <4>3 DEF ToSet
        <5> QED
          BY <2>1, <4>1, <5>1 DEF ToSet
      <4>4. ASSUME NEW x \in ToSet(f) PROVE x \in ToSet(w) \cup {g}
        <5>1. PICK i \in 1..n : x = f[i]
          BY <2>1, <4>4 DEF ToSet
        <5> QED
          BY <2>1, <2>2, <5>1 DEF ToSet
      <4>5. g \in ToSet(f)
        BY <2>1, <4>2 DEF ToSet
      <4> QED
        BY <4>3, <4>4, <4>5
    <3> QED
      BY <1>2, <1>4, <1>5, <3>1
  <2>6. ASSUME NEW i \in 1..n, NEW j \in 1..n, i < j, new[f[i]] < MaxGroupSize
        PROVE  new[f[j]] < MaxGroupSize
    <3>1. i # 1
      BY <1>4, <1>7, <2>1, <2>6, GroupAssumption
    <3>2. j # 1 /\ i - 1 < j - 1
      BY <2>6, <1>1
    <3>3. i - 1 \in DOMAIN w /\ j - 1 \in DOMAIN w /\ f[i] = w[i - 1] /\ f[j] = w[j - 1]
      BY <2>1, <2>2, <3>1, <3>2
    <3> QED
      BY <1>4, <2>6, <3>2, <3>3
  <2> QED
    BY <1>4, <2>1, <2>4, <2>5, <2>6 DEF GroupQueue, f
<1>8. new = [size EXCEPT ![g] = @ + 1]
  BY DEF new, k
<1> QED
  BY <1>1, <1>4, <1>6, <1>7, <1>8 DEF w

\* One socket less in the group, which goes to the end
LEMMA GroupEased ==
  ASSUME NEW groups \in Seq(Groups), NEW size \in [Groups -> Int], GroupQueue(groups, size),
         NEW g \in Groups, size[g] >= 1
  PROVE  /\ Append(Without(groups, g), g) \in Seq(Groups)
         /\ GroupQueue(Append(Without(groups, g), g), [size EXCEPT ![g] = @ - 1])
<1> DEFINE n == Len(groups)
           w == Without(groups, g)
           k == size[g] - 1
           new == [size EXCEPT ![g] = k]
           f == Append(w, g)
<1>1. n \in Nat /\ g \in 1..n /\ g \in ToSet(groups) /\ k \in 0..MaxGroupSize /\ k < MaxGroupSize
  <2>1. size[g] \in 1..MaxGroupSize /\ ~(g > n) /\ ToSet(groups) = 1..n
    BY GroupAssumption DEF GroupQueue
  <2>2. n \in Nat /\ g \in Nat \ {0} /\ MaxGroupSize \in Nat
    BY GroupAssumption DEF Groups
  <2>3. g \in 1..n
    BY <2>1, <2>2
  <2> QED
    BY <2>1, <2>2, <2>3
<1>2. /\ w \in Seq(Groups) /\ IsInjective(w) /\ ToSet(w) = (1..n) \ {g}
      /\ Len(w) = n - 1
      /\ new \in [Groups -> Int] /\ new[g] = k
      /\ \A h \in Groups : new[h] \in 0..MaxGroupSize /\ (h > n => new[h] = 0)
      /\ \A i, j \in DOMAIN w : i < j /\ new[w[i]] < MaxGroupSize => new[w[j]] < MaxGroupSize
  BY <1>1, OthersOrdered
<1> HIDE DEF w, new, k
<1>3. /\ f \in Seq(Groups) /\ Len(f) = Len(w) + 1 /\ ToSet(f) = ToSet(w) \cup {g}
      /\ IsInjective(w) /\ g \notin ToSet(w) => IsInjective(f)
      /\ \A i \in 1..Len(w) : f[i] = w[i]
      /\ f[Len(w) + 1] = g
  BY <1>2, AppendIs
<1> HIDE DEF f, n
<1>4. Len(f) = n /\ DOMAIN f = 1..n /\ DOMAIN w = 1..(n - 1) /\ ToSet(f) = 1..n /\ IsInjective(f)
  BY <1>1, <1>2, <1>3
<1>5. ASSUME NEW i \in 1..n, NEW j \in 1..n, i < j, new[f[i]] < MaxGroupSize
      PROVE  new[f[j]] < MaxGroupSize
  <2>1. CASE j = n
    BY <1>1, <1>2, <1>3, <2>1
  <2>2. CASE j # n
    <3>1. i \in 1..(n - 1) /\ j \in 1..(n - 1)
      BY <1>1, <1>5, <2>2
    <3> QED
      BY <1>2, <1>3, <1>4, <1>5, <3>1
  <2> QED
    BY <2>1, <2>2
<1>6. GroupQueue(f, new)
  BY <1>2, <1>4, <1>5 DEF GroupQueue
<1> QED
  BY <1>3, <1>6 DEF f, w, new, k

-----------------------------------------------------------------------------
(* One socket at a time: what the functions that change it leave.          *)

\* A port with the socket s on its way out
Detached(p, s) ==
  /\ p \in PortType
  /\ p.failed \in {None, "port_get_iocp_handle"}
  /\ \A r \in SockIds \ {s} : PollRight(p, r)
  /\ p.sock[s].used /\ p.sock[s].deleting /\ p.sock[s].group \in Groups
  /\ \A r \in Staying(p) : p.sock[r].base \in OsSockets /\ p.tree[p.sock[r].base] = r
  /\ \A o \in OsSockets : p.tree[o] # NoId => p.tree[o] \in Staying(p) /\ p.sock[p.tree[o]].base = o
  /\ IsInjective(p.update) /\ IsInjective(p.deleted)
  /\ ToSet(p.update) \subseteq Staying(p)
  /\ ToSet(p.deleted) \ {s} = Leaving(p) \ {s}
  /\ GroupsRight(p)

\* q is what p becomes by a step that is about the socket s.
Only(p, q, s) ==
  /\ q.iocp = p.iocp /\ q.active = p.active /\ q.failed = p.failed
  /\ \A r \in SockIds \ {s} : q.sock[r] = p.sock[r] /\ q.afd[r] = p.afd[r]
  /\ ToSet(q.update) \ {s} = ToSet(p.update) \ {s}

\* A step about one socket leaves the others served.
LEMMA OthersServed ==
  ASSUME NEW p, NEW q, NEW s \in SockIds, Only(p, q, s),
         \A r \in SockIds \ {s} : Served(p, r)
  PROVE  \A r \in SockIds \ {s} : Served(q, r)
BY DEF Only, Served, Staying, Leaving, Unwatched

\* Two steps about the same socket
LEMMA OnlyTwice ==
  ASSUME NEW p, NEW q, NEW u, NEW s, Only(p, q, s), Only(q, u, s) PROVE Only(p, u, s)
BY DEF Only

\* Who is in which group, and the groups, stay as they are.
LEMMA GroupsSame ==
  ASSUME NEW p, NEW q, GroupsRight(p), q.failed = p.failed, q.groups = p.groups, q.size = p.size,
         \A r \in SockIds : q.sock[r].used = p.sock[r].used /\ q.sock[r].group = p.sock[r].group
  PROVE  GroupsRight(q)
<1>1. ASSUME NEW g PROVE Members(q, g) = Members(p, g)
  BY DEF Members
<1> QED
  BY <1>1 DEF GroupsRight

\* port_cancel_socket_update(), port_remove_deleted_socket()
LEMMA DequeueIs ==
  ASSUME NEW p \in PortType, NEW s \in SockIds
  PROVE  /\ Dequeue(p, s) \in PortType
         /\ Dequeue(p, s).iocp = p.iocp /\ Dequeue(p, s).tree = p.tree /\ Dequeue(p, s).sock = p.sock
         /\ Dequeue(p, s).afd = p.afd /\ Dequeue(p, s).groups = p.groups
         /\ Dequeue(p, s).size = p.size /\ Dequeue(p, s).active = p.active
         /\ Dequeue(p, s).failed = p.failed
         /\ Dequeue(p, s).update = Without(p.update, s)
         /\ Dequeue(p, s).deleted = Without(p.deleted, s)
<1>1. Without(p.update, s) \in Seq(SockIds) /\ Without(p.deleted, s) \in Seq(SockIds)
  <2>1. p.update \in Seq(SockIds) /\ p.deleted \in Seq(SockIds)
    BY DEF PortType
  <2> QED
    BY <2>1, WithoutType
<1> QED
  BY <1>1 DEF Dequeue, PortType

\* sock__cancel_poll(), field by field
LEMMA CancelIs ==
  ASSUME NEW p \in PortType, NEW s \in SockIds
  PROVE  LET q == CancelPoll(p, s) IN
         /\ q \in PortType
         /\ q.iocp = p.iocp /\ q.tree = p.tree /\ q.groups = p.groups /\ q.size = p.size
         /\ q.active = p.active /\ q.failed = p.failed /\ q.update = p.update /\ q.deleted = p.deleted
         /\ q.sock = [p.sock EXCEPT ![s] = [@ EXCEPT !.status = "cancelled", !.pending = {}]]
         /\ q.afd = [p.afd EXCEPT ![s].state = IF @ = "pending" THEN "cancelled" ELSE @]
<1> DEFINE sock == [p.sock EXCEPT ![s] = [@ EXCEPT !.status = "cancelled", !.pending = {}]]
           afd == [p.afd EXCEPT ![s].state = IF @ = "pending" THEN "cancelled" ELSE @]
<1>1. sock \in [SockIds -> SockType]
  <2>1. p.sock \in [SockIds -> SockType]
    BY DEF PortType
  <2>2. p.sock[s] \in SockType
    BY <2>1
  <2>3. [p.sock[s] EXCEPT !.status = "cancelled", !.pending = {}] \in SockType
    BY <2>2 DEF SockType
  <2> QED
    BY <2>1, <2>3
<1>2. afd \in [SockIds -> PollType]
  <2>1. p.afd \in [SockIds -> PollType]
    BY DEF PortType
  <2>2. p.afd[s] \in PollType
    BY <2>1
  <2> DEFINE a == [p.afd[s] EXCEPT !.state = IF @ = "pending" THEN "cancelled" ELSE @]
  <2>3. a \in PollType
    BY <2>2 DEF PollType
  <2>4. afd = [p.afd EXCEPT ![s] = a]
    OBVIOUS
  <2> HIDE DEF a, afd
  <2> QED
    BY <2>1, <2>3, <2>4
<1>3. CancelPoll(p, s) = [p EXCEPT !.sock = sock, !.afd = afd]
  BY DEF CancelPoll
<1> HIDE DEF sock, afd
<1>4. CancelPoll(p, s) \in PortType
  BY <1>1, <1>2, <1>3 DEF PortType
<1>5. LET q == CancelPoll(p, s) IN
         /\ q.iocp = p.iocp /\ q.tree = p.tree /\ q.groups = p.groups /\ q.size = p.size
         /\ q.active = p.active /\ q.failed = p.failed /\ q.update = p.update /\ q.deleted = p.deleted
         /\ q.sock = sock /\ q.afd = afd
  BY <1>3 DEF PortType
<1> QED
  BY <1>4, <1>5 DEF sock, afd

\* sock__delete() for a socket in the tree, up to the question whether to keep it
LEMMA UnlinkIs ==
  ASSUME NEW p \in PortType, NEW s \in SockIds
  PROVE  LET q == Unlink(p, s) IN
         /\ q \in PortType
         /\ q.iocp = p.iocp /\ q.afd = p.afd /\ q.groups = p.groups /\ q.size = p.size
         /\ q.active = p.active /\ q.failed = p.failed
         /\ q.update = Without(p.update, s) /\ q.deleted = Without(p.deleted, s)
         /\ q.tree = [p.tree EXCEPT ![p.sock[s].base] = NoId]
         /\ q.sock = [p.sock EXCEPT ![s] = [@ EXCEPT !.deleting = TRUE]]
<1> DEFINE d == Dequeue(p, s)
           sock == [p.sock EXCEPT ![s] = [@ EXCEPT !.deleting = TRUE]]
           tree == [p.tree EXCEPT ![p.sock[s].base] = NoId]
<1>1. sock \in [SockIds -> SockType]
  <2>1. p.sock \in [SockIds -> SockType]
    BY DEF PortType
  <2>2. p.sock[s] \in SockType
    BY <2>1
  <2>3. [p.sock[s] EXCEPT !.deleting = TRUE] \in SockType
    BY <2>2 DEF SockType
  <2> QED
    BY <2>1, <2>3
<1>2. tree \in [OsSockets -> 0..MaxSocks]
  <2>1. p.tree \in [OsSockets -> 0..MaxSocks] /\ NoId \in 0..MaxSocks
    BY GroupAssumption DEF PortType, NoId
  <2> QED
    BY <2>1
<1>3. /\ d \in PortType
      /\ d.iocp = p.iocp /\ d.tree = p.tree /\ d.sock = p.sock
      /\ d.afd = p.afd /\ d.groups = p.groups /\ d.size = p.size /\ d.active = p.active
      /\ d.failed = p.failed
      /\ d.update = Without(p.update, s) /\ d.deleted = Without(p.deleted, s)
  BY DequeueIs
<1> HIDE DEF d
<1>4. Unlink(p, s) = [d EXCEPT !.tree = tree, !.sock = sock]
  BY <1>3 DEF PortType, Unlink, d
<1> HIDE DEF sock, tree
<1>5. Unlink(p, s) \in PortType
  BY <1>1, <1>2, <1>3, <1>4 DEF PortType
<1>6. LET q == Unlink(p, s) IN
         /\ q.iocp = d.iocp /\ q.afd = d.afd /\ q.groups = d.groups /\ q.size = d.size
         /\ q.active = d.active /\ q.failed = d.failed /\ q.update = d.update /\ q.deleted = d.deleted
         /\ q.sock = sock /\ q.tree = tree
  BY <1>3, <1>4 DEF PortType
<1> QED
  BY <1>3, <1>5, <1>6 DEF sock, tree

\* poll_group_release(), whose assertion holds for a group that counts its sockets
LEMMA ReleaseIs ==
  ASSUME NEW p \in PortType, NEW g \in Groups, p.failed = None => p.size[g] \in 1..MaxGroupSize
  PROVE  LET q == GroupRelease(p, g) IN
         /\ q \in PortType
         /\ q.iocp = p.iocp /\ q.tree = p.tree /\ q.sock = p.sock /\ q.afd = p.afd
         /\ q.active = p.active /\ q.failed = p.failed /\ q.update = p.update /\ q.deleted = p.deleted
         /\ q.groups = Append(Without(p.groups, g), g)
         /\ q.size = [p.size EXCEPT ![g] = @ - 1]
<1> DEFINE groups == Append(Without(p.groups, g), g)
           size == [p.size EXCEPT ![g] = @ - 1]
<1>1. groups \in Seq(Groups)
  <2>1. p.groups \in Seq(Groups)
    BY DEF PortType
  <2>2. Without(p.groups, g) \in Seq(Groups)
    BY <2>1, WithoutType
  <2> QED
    BY <2>2, AppendIs
<1>2. size \in [Groups -> Int]
  BY DEF PortType
<1>3. GroupRelease(p, g) = [p EXCEPT !.size = size, !.groups = groups]
  <2>1. (IF p.size[g] \in 1..MaxGroupSize THEN p ELSE Fail(p, "poll_group_release")) = p
    BY DEF PortType, Fail
  <2> QED
    BY <2>1 DEF GroupRelease, PortType
<1> HIDE DEF groups, size
<1> QED
  BY <1>1, <1>2, <1>3 DEF PortType, groups, size

\* A step that changes only what the socket asks and how its poll stands
LEMMA LinksSame ==
  ASSUME NEW p, NEW q \in PortType, NEW s \in SockIds, Shape(p), PollRight(q, s),
         q.iocp = p.iocp, q.tree = p.tree, q.update = p.update, q.deleted = p.deleted,
         q.groups = p.groups, q.size = p.size, q.active = p.active, q.failed = p.failed,
         \A r \in SockIds \ {s} : q.sock[r] = p.sock[r] /\ q.afd[r] = p.afd[r],
         q.sock[s].used = p.sock[s].used, q.sock[s].group = p.sock[s].group,
         q.sock[s].base = p.sock[s].base, q.sock[s].deleting = p.sock[s].deleting
  PROVE  Shape(q) /\ Only(p, q, s)
<1>1. \A r \in SockIds : PollRight(q, r)
  BY DEF Shape, PollRight
<1>2. \A r \in SockIds : /\ q.sock[r].used = p.sock[r].used /\ q.sock[r].group = p.sock[r].group
                         /\ q.sock[r].base = p.sock[r].base /\ q.sock[r].deleting = p.sock[r].deleting
  OBVIOUS
<1>3. Staying(q) = Staying(p) /\ Leaving(q) = Leaving(p)
  BY <1>2 DEF Staying, Leaving
<1>4. TreeRight(q) /\ QueueRight(q)
  <2>1. \A r \in Staying(p) : r \in SockIds
    BY DEF Staying
  <2> QED
    BY <1>2, <1>3, <2>1 DEF Shape, TreeRight, QueueRight
<1>5. GroupsRight(q)
  BY <1>2, GroupsSame DEF Shape
<1> QED
  BY <1>1, <1>4, <1>5 DEF Shape, Only

\* A pending poll is cancelled; the port stays as it should be.
LEMMA CancelKeeps ==
  ASSUME NEW p, NEW s \in SockIds, Shape(p), p.sock[s].status = "pending"
  PROVE  /\ Shape(CancelPoll(p, s)) /\ Only(p, CancelPoll(p, s), s)
         /\ CancelPoll(p, s).sock[s].used = p.sock[s].used
         /\ CancelPoll(p, s).sock[s].deleting = p.sock[s].deleting
         /\ CancelPoll(p, s).sock[s].status = "cancelled"
         /\ CancelPoll(p, s).update = p.update
         /\ p.afd[s].state = "done" => CancelPoll(p, s).afd[s].state = "done"
<1> DEFINE q == CancelPoll(p, s)
<1>1. p \in PortType /\ p.sock \in [SockIds -> SockType] /\ p.afd \in [SockIds -> PollType]
  BY DEF Shape, PortType
<1>2. /\ q \in PortType
      /\ q.iocp = p.iocp /\ q.tree = p.tree /\ q.groups = p.groups /\ q.size = p.size
      /\ q.active = p.active /\ q.failed = p.failed /\ q.update = p.update /\ q.deleted = p.deleted
      /\ q.sock = [p.sock EXCEPT ![s] = [@ EXCEPT !.status = "cancelled", !.pending = {}]]
      /\ q.afd = [p.afd EXCEPT ![s].state = IF @ = "pending" THEN "cancelled" ELSE @]
  BY <1>1, CancelIs
<1> HIDE DEF q
<1>3. /\ q.sock[s] = [p.sock[s] EXCEPT !.status = "cancelled", !.pending = {}]
      /\ q.afd[s].state = (IF p.afd[s].state = "pending" THEN "cancelled" ELSE p.afd[s].state)
      /\ \A r \in SockIds \ {s} : q.sock[r] = p.sock[r] /\ q.afd[r] = p.afd[r]
  <2>1. p.sock[s] \in SockType /\ p.afd[s] \in PollType
    BY <1>1
  <2> QED
    BY <1>1, <1>2, <2>1 DEF PollType
<1>4. /\ q.sock[s].used = p.sock[s].used /\ q.sock[s].group = p.sock[s].group
      /\ q.sock[s].base = p.sock[s].base /\ q.sock[s].deleting = p.sock[s].deleting
      /\ q.sock[s].status = "cancelled" /\ q.sock[s].pending = {}
  <2>1. p.sock[s] \in SockType
    BY <1>1
  <2> QED
    BY <1>3, <2>1 DEF SockType
<1>5. p.sock[s].used
  BY DEF Shape, PollRight, FreeSock
<1>6. PollRight(q, s)
  BY <1>3, <1>4, <1>5 DEF Shape, PollRight
<1>7. Shape(q) /\ Only(p, q, s)
  BY <1>2, <1>3, <1>4, <1>6, LinksSame
<1> QED
  BY <1>2, <1>3, <1>4, <1>7 DEF q

\* sock__delete() takes the socket out of the tree and the update queue.
LEMMA UnlinkDetaches ==
  ASSUME NEW p, NEW s \in SockIds, Shape(p), s \in Staying(p)
  PROVE  /\ Detached(Unlink(p, s), s) /\ Only(p, Unlink(p, s), s)
         /\ Unlink(p, s).sock[s] = [p.sock[s] EXCEPT !.deleting = TRUE]
         /\ Unlink(p, s).afd = p.afd
         /\ PollRight(Unlink(p, s), s)
<1> DEFINE q == Unlink(p, s)
           b == p.sock[s].base
<1>1. /\ p \in PortType /\ p.sock \in [SockIds -> SockType] /\ p.tree \in [OsSockets -> 0..MaxSocks]
      /\ p.update \in Seq(SockIds) /\ p.deleted \in Seq(SockIds)
  BY DEF Shape, PortType
<1>2. /\ q \in PortType
      /\ q.iocp = p.iocp /\ q.afd = p.afd /\ q.groups = p.groups /\ q.size = p.size
      /\ q.active = p.active /\ q.failed = p.failed
      /\ q.update = Without(p.update, s) /\ q.deleted = Without(p.deleted, s)
      /\ q.tree = [p.tree EXCEPT ![b] = NoId]
      /\ q.sock = [p.sock EXCEPT ![s] = [@ EXCEPT !.deleting = TRUE]]
  BY <1>1, UnlinkIs
<1>3. /\ IsInjective(q.update) /\ ToSet(q.update) = ToSet(p.update) \ {s}
      /\ IsInjective(q.deleted) /\ ToSet(q.deleted) = ToSet(p.deleted) \ {s}
  <2>1. IsInjective(p.update) /\ IsInjective(p.deleted)
    BY DEF Shape, QueueRight
  <2> QED
    BY <1>1, <1>2, <2>1, WithoutIs
<1> HIDE DEF q
<1>4. /\ q.sock[s] = [p.sock[s] EXCEPT !.deleting = TRUE]
      /\ \A r \in SockIds \ {s} : q.sock[r] = p.sock[r]
  BY <1>1, <1>2
<1>5. /\ q.sock[s].used = p.sock[s].used /\ q.sock[s].group = p.sock[s].group
      /\ q.sock[s].status = p.sock[s].status /\ q.sock[s].pending = p.sock[s].pending
      /\ q.sock[s].deleting
  <2>1. p.sock[s] \in SockType
    BY <1>1
  <2> QED
    BY <1>4, <2>1 DEF SockType
<1>6. p.sock[s].used /\ p.sock[s].group \in Groups
  BY DEF Staying, Shape, PollRight
<1>7. Staying(q) = Staying(p) \ {s} /\ Leaving(q) \ {s} = Leaving(p) \ {s} /\ s \notin Leaving(p)
  BY <1>4, <1>5 DEF Staying, Leaving
<1>8. PollRight(q, s) /\ \A r \in SockIds \ {s} : PollRight(q, r)
  BY <1>2, <1>4, <1>5, <1>6 DEF Shape, PollRight
<1>9. b \in OsSockets /\ p.tree[b] = s
  BY DEF Shape, TreeRight
<1>10. q.tree[b] = NoId /\ \A o \in OsSockets \ {b} : q.tree[o] = p.tree[o]
  BY <1>1, <1>2, <1>9
<1>11. \A r \in Staying(q) : q.sock[r].base \in OsSockets /\ q.tree[q.sock[r].base] = r
  <2> SUFFICES ASSUME NEW r \in Staying(q)
               PROVE  q.sock[r].base \in OsSockets /\ q.tree[q.sock[r].base] = r
    OBVIOUS
  <2>1. r \in Staying(p) /\ r # s /\ r \in SockIds
    BY <1>7 DEF Staying
  <2>2. p.sock[r].base \in OsSockets /\ p.tree[p.sock[r].base] = r
    BY <2>1 DEF Shape, TreeRight
  <2>3. p.sock[r].base # b
    BY <1>9, <2>1, <2>2
  <2> QED
    BY <1>4, <1>10, <2>1, <2>2, <2>3
<1>12. \A o \in OsSockets : q.tree[o] # NoId => q.tree[o] \in Staying(q) /\ q.sock[q.tree[o]].base = o
  <2> SUFFICES ASSUME NEW o \in OsSockets, q.tree[o] # NoId
               PROVE  q.tree[o] \in Staying(q) /\ q.sock[q.tree[o]].base = o
    OBVIOUS
  <2>1. o # b /\ q.tree[o] = p.tree[o]
    BY <1>10
  <2>2. p.tree[o] \in Staying(p) /\ p.sock[p.tree[o]].base = o
    BY <2>1 DEF Shape, TreeRight
  <2>3. p.tree[o] # s /\ p.tree[o] \in SockIds
    BY <2>1, <2>2 DEF Staying
  <2> QED
    BY <1>4, <1>7, <2>1, <2>2, <2>3
<1>13. GroupsRight(q)
  <2>1. \A r \in SockIds : q.sock[r].used = p.sock[r].used /\ q.sock[r].group = p.sock[r].group
    BY <1>4, <1>5
  <2> QED
    BY <1>2, <2>1, GroupsSame DEF Shape
<1>14. ToSet(q.update) \subseteq Staying(q) /\ ToSet(q.deleted) \ {s} = Leaving(q) \ {s}
  BY <1>3, <1>7 DEF Shape, QueueRight
<1>15. Detached(q, s)
  BY <1>2, <1>3, <1>5, <1>6, <1>8, <1>11, <1>12, <1>13, <1>14 DEF Detached, Shape
<1>16. Only(p, q, s)
  BY <1>2, <1>3, <1>4 DEF Only
<1> QED
  BY <1>2, <1>4, <1>8, <1>15, <1>16 DEF q

\* A socket on its way out is in neither the tree nor the update queue.
LEMMA LeavingDetached ==
  ASSUME NEW p, NEW s \in SockIds, Shape(p), s \in Leaving(p) PROVE Detached(p, s)
BY DEF Shape, Detached, Leaving, TreeRight, QueueRight, PollRight

\* The sockets of a group can be counted.
LEMMA MembersFinite ==
  ASSUME NEW p, NEW g
  PROVE  IsFiniteSet(Members(p, g)) /\ Cardinality(Members(p, g)) \in Nat
<1>1. IsFiniteSet(SockIds)
  BY FS_Interval, GroupAssumption DEF SockIds
<1>2. Members(p, g) \subseteq SockIds
  BY DEF Members
<1> QED
  BY <1>1, <1>2, FS_Subset, FS_CardinalityType

\* A group with a member counts it.
LEMMA MemberCounted ==
  ASSUME NEW p, NEW s \in SockIds, p.sock[s].used, p.sock[s].group \in Groups,
         GroupsRight(p), p.failed = None
  PROVE  p.size[p.sock[s].group] \in 1..MaxGroupSize
<1> DEFINE g == p.sock[s].group
<1>1. s \in Members(p, g)
  BY DEF Members
<1>2. IsFiniteSet(Members(p, g)) /\ Cardinality(Members(p, g)) \in Nat
  BY MembersFinite
<1>3. Cardinality(Members(p, g)) # 0
  BY <1>1, <1>2, FS_EmptySet
<1>4. p.size[g] = Cardinality(Members(p, g)) /\ p.size[g] \in 0..MaxGroupSize
  BY DEF GroupsRight, GroupQueue
<1> QED
  BY <1>2, <1>3, <1>4, GroupAssumption

\* sock__free(), field by field
LEMMA FreeIs ==
  ASSUME NEW p \in PortType, NEW s \in SockIds, p.sock[s].group \in Groups,
         p.failed = None => p.size[p.sock[s].group] \in 1..MaxGroupSize
  PROVE  LET q == SockFree(p, s)
             g == p.sock[s].group
         IN
         /\ q \in PortType
         /\ q.iocp = p.iocp /\ q.tree = p.tree /\ q.afd = p.afd
         /\ q.active = p.active /\ q.failed = p.failed
         /\ q.update = Without(p.update, s) /\ q.deleted = Without(p.deleted, s)
         /\ q.groups = Append(Without(p.groups, g), g)
         /\ q.size = [p.size EXCEPT ![g] = @ - 1]
         /\ q.sock = [p.sock EXCEPT ![s] = FreeSock]
<1> DEFINE d == Dequeue(p, s)
           g == p.sock[s].group
           r == GroupRelease(d, g)
<1>1. /\ d \in PortType
      /\ d.iocp = p.iocp /\ d.tree = p.tree /\ d.sock = p.sock
      /\ d.afd = p.afd /\ d.groups = p.groups /\ d.size = p.size /\ d.active = p.active
      /\ d.failed = p.failed
      /\ d.update = Without(p.update, s) /\ d.deleted = Without(p.deleted, s)
  BY DequeueIs
<1> HIDE DEF d
<1>2. /\ r \in PortType
      /\ r.iocp = d.iocp /\ r.tree = d.tree /\ r.sock = d.sock /\ r.afd = d.afd
      /\ r.active = d.active /\ r.failed = d.failed /\ r.update = d.update /\ r.deleted = d.deleted
      /\ r.groups = Append(Without(d.groups, g), g)
      /\ r.size = [d.size EXCEPT ![g] = @ - 1]
  BY <1>1, ReleaseIs
<1>3. FreeSock \in SockType
  BY GroupAssumption DEF FreeSock, SockType, NoId, None
<1>4. SockFree(p, s) = [r EXCEPT !.sock[s] = FreeSock]
  BY DEF SockFree, d
<1> HIDE DEF r
<1>5. [r.sock EXCEPT ![s] = FreeSock] \in [SockIds -> SockType]
  <2>1. r.sock \in [SockIds -> SockType]
    BY <1>2 DEF PortType
  <2> QED
    BY <1>3, <2>1
<1> HIDE DEF g
<1>6. /\ SockFree(p, s) \in PortType
      /\ LET q == SockFree(p, s) IN
         /\ q.iocp = r.iocp /\ q.tree = r.tree /\ q.afd = r.afd
         /\ q.active = r.active /\ q.failed = r.failed
         /\ q.update = r.update /\ q.deleted = r.deleted
         /\ q.groups = r.groups /\ q.size = r.size
         /\ q.sock = [r.sock EXCEPT ![s] = FreeSock]
  BY <1>2, <1>4, <1>5 DEF PortType
<1> QED
  BY <1>1, <1>2, <1>6 DEF g

\* sock__delete() of a socket without a poll frees it,
LEMMA FreeDetached ==
  ASSUME NEW p, NEW s \in SockIds, Detached(p, s), p.afd[s] = NoPoll
  PROVE  /\ Shape(SockFree(p, s)) /\ Only(p, SockFree(p, s), s)
         /\ Served(SockFree(p, s), s)
         /\ s \notin ToSet(SockFree(p, s).update)
<1> DEFINE q == SockFree(p, s)
           g == p.sock[s].group
<1>1. /\ p \in PortType /\ p.sock \in [SockIds -> SockType] /\ p.groups \in Seq(Groups)
      /\ p.size \in [Groups -> Int] /\ p.update \in Seq(SockIds) /\ p.deleted \in Seq(SockIds)
      /\ g \in Groups /\ p.sock[s].used /\ p.sock[s].deleting /\ GroupsRight(p)
  BY DEF Detached, PortType
<1>2. p.failed = None => p.size[g] \in 1..MaxGroupSize
  BY <1>1, MemberCounted
<1>3. /\ q \in PortType
      /\ q.iocp = p.iocp /\ q.tree = p.tree /\ q.afd = p.afd
      /\ q.active = p.active /\ q.failed = p.failed
      /\ q.update = Without(p.update, s) /\ q.deleted = Without(p.deleted, s)
      /\ q.groups = Append(Without(p.groups, g), g)
      /\ q.size = [p.size EXCEPT ![g] = @ - 1]
      /\ q.sock = [p.sock EXCEPT ![s] = FreeSock]
  BY <1>1, <1>2, FreeIs
<1> HIDE DEF q
<1>4. /\ IsInjective(q.update) /\ ToSet(q.update) = ToSet(p.update) \ {s}
      /\ IsInjective(q.deleted) /\ ToSet(q.deleted) = ToSet(p.deleted) \ {s}
  <2>1. /\ IsInjective(p.update) /\ p.update \in Seq(SockIds)
        /\ IsInjective(p.deleted) /\ p.deleted \in Seq(SockIds)
    BY <1>1 DEF Detached
  <2>2. q.update = Without(p.update, s) /\ q.deleted = Without(p.deleted, s)
    BY <1>3
  <2>3. IsInjective(Without(p.update, s)) /\ ToSet(Without(p.update, s)) = ToSet(p.update) \ {s}
    BY <2>1, WithoutIs
  <2>4. IsInjective(Without(p.deleted, s)) /\ ToSet(Without(p.deleted, s)) = ToSet(p.deleted) \ {s}
    BY <2>1, WithoutIs
  <2> QED
    BY <2>2, <2>3, <2>4
<1>5. q.sock[s] = FreeSock /\ \A r \in SockIds \ {s} : q.sock[r] = p.sock[r]
  BY <1>1, <1>3
<1>6. ~q.sock[s].used /\ q.sock[s].status = "idle" /\ q.sock[s].pending = {}
  BY <1>5 DEF FreeSock
<1>7. Staying(q) = Staying(p) /\ s \notin Staying(p) /\ Leaving(q) = Leaving(p) \ {s}
  BY <1>1, <1>5, <1>6 DEF Staying, Leaving
<1>8. \A r \in SockIds : PollRight(q, r)
  BY <1>3, <1>5, <1>6 DEF Detached, PollRight
<1>9. TreeRight(q)
  <2>1. \A r \in Staying(p) : r # s /\ r \in SockIds
    BY <1>7 DEF Staying
  <2> QED
    BY <1>3, <1>5, <1>7, <2>1 DEF Detached, TreeRight
<1>10. QueueRight(q)
  BY <1>4, <1>7 DEF Detached, QueueRight
<1>11. GroupsRight(q)
  <2> SUFFICES ASSUME p.failed = None
               PROVE  /\ GroupQueue(q.groups, q.size)
                      /\ \A h \in Groups : q.size[h] = Cardinality(Members(q, h))
    BY <1>3 DEF GroupsRight
  <2>1. GroupQueue(p.groups, p.size) /\ \A h \in Groups : p.size[h] = Cardinality(Members(p, h))
    BY <1>1 DEF GroupsRight
  <2>2. p.size[g] \in Int /\ p.size[g] >= 1
    BY <1>1, <1>2
  <2>3. GroupQueue(q.groups, q.size)
    <3>1. p.groups \in Seq(Groups) /\ p.size \in [Groups -> Int] /\ g \in Groups
      BY <1>1
    <3> HIDE DEF g
    <3>2. GroupQueue(Append(Without(p.groups, g), g), [p.size EXCEPT ![g] = @ - 1])
      BY <2>1, <2>2, <3>1, GroupEased
    <3> QED
      BY <1>3, <3>2
  <2>4. Members(q, g) = Members(p, g) \ {s} /\ s \in Members(p, g)
    BY <1>1, <1>5, <1>6 DEF Members
  <2>5. \A h \in Groups \ {g} : Members(q, h) = Members(p, h)
    BY <1>1, <1>5, <1>6 DEF Members
  <2>6. Cardinality(Members(q, g)) = Cardinality(Members(p, g)) - 1
    <3>1. IsFiniteSet(Members(p, g))
      BY MembersFinite
    <3> QED
      BY <2>4, <3>1, FS_RemoveElement
  <2>7. q.size[g] = p.size[g] - 1 /\ \A h \in Groups \ {g} : q.size[h] = p.size[h]
    BY <1>1, <1>3
  <2> QED
    BY <2>1, <2>3, <2>5, <2>6, <2>7
<1>12. Shape(q)
  BY <1>3, <1>8, <1>9, <1>10, <1>11 DEF Shape, Detached
<1>13. Only(p, q, s)
  BY <1>3, <1>4, <1>5 DEF Only
<1>14. Served(q, s) /\ s \notin ToSet(q.update)
  BY <1>4, <1>7 DEF Served
<1> QED
  BY <1>12, <1>13, <1>14 DEF q

\* and one whose poll has not ended goes to the queue of deleted ones.
LEMMA KeepDetached ==
  ASSUME NEW p, NEW s \in SockIds, Detached(p, s), PollRight(p, s), p.sock[s].status # "idle"
  PROVE  /\ Shape(AddDeleted(p, s)) /\ Only(p, AddDeleted(p, s), s)
         /\ Served(AddDeleted(p, s), s)
         /\ s \notin ToSet(AddDeleted(p, s).update)
         /\ AddDeleted(p, s).sock = p.sock /\ AddDeleted(p, s).afd = p.afd
<1> DEFINE q == AddDeleted(p, s)
<1>1. /\ p \in PortType /\ p.update \in Seq(SockIds) /\ p.deleted \in Seq(SockIds)
      /\ p.sock[s].used /\ p.sock[s].deleting /\ GroupsRight(p)
      /\ IsInjective(p.update) /\ IsInjective(p.deleted)
      /\ ToSet(p.update) \subseteq Staying(p) /\ ToSet(p.deleted) \ {s} = Leaving(p) \ {s}
  BY DEF Detached, PortType
<1>2. s \notin Staying(p) /\ s \in Leaving(p)
  BY <1>1 DEF Staying, Leaving
<1>3. s \notin ToSet(p.update) /\ ~Contains(p.update, s)
  <2>1. s \notin ToSet(p.update)
    BY <1>1, <1>2
  <2> QED
    BY <1>1, <2>1 DEF ToSet, Contains
<1>4. Contains(p.deleted, s) <=> s \in ToSet(p.deleted)
  BY <1>1 DEF ToSet, Contains
<1>5. /\ q.iocp = p.iocp /\ q.tree = p.tree /\ q.afd = p.afd /\ q.sock = p.sock
      /\ q.active = p.active /\ q.failed = p.failed /\ q.update = p.update
      /\ q.groups = p.groups /\ q.size = p.size /\ q \in PortType
      /\ IsInjective(q.deleted) /\ ToSet(q.deleted) = ToSet(p.deleted) \cup {s}
  <2>1. CASE s \in ToSet(p.deleted)
    <3>1. q = p
      BY <1>4, <2>1 DEF AddDeleted, Enqueued
    <3> QED
      BY <1>1, <2>1, <3>1
  <2>2. CASE s \notin ToSet(p.deleted)
    <3> DEFINE d == Append(p.deleted, s)
    <3>1. q = [p EXCEPT !.deleted = d]
      BY <1>3, <1>4, <2>2 DEF AddDeleted, Enqueued
    <3>2. d \in Seq(SockIds) /\ IsInjective(d) /\ ToSet(d) = ToSet(p.deleted) \cup {s}
      BY <1>1, <2>2, AppendIs
    <3> HIDE DEF q, d
    <3> QED
      BY <1>1, <3>1, <3>2 DEF PortType
  <2> QED
    BY <2>1, <2>2
<1> HIDE DEF q
<1>6. Staying(q) = Staying(p) /\ Leaving(q) = Leaving(p)
  BY <1>5 DEF Staying, Leaving
<1>7. \A r \in SockIds : PollRight(q, r)
  BY <1>5 DEF Detached, PollRight
<1>8. TreeRight(q)
  BY <1>5, <1>6 DEF Detached, TreeRight
<1>9. QueueRight(q)
  BY <1>1, <1>2, <1>5, <1>6 DEF QueueRight
<1>10. GroupsRight(q)
  BY <1>1, <1>5, GroupsSame
<1>11. Shape(q)
  BY <1>5, <1>7, <1>8, <1>9, <1>10 DEF Shape, Detached
<1>12. Only(p, q, s) /\ Served(q, s)
  BY <1>2, <1>5, <1>6 DEF Only, Served
<1> QED
  BY <1>3, <1>5, <1>11, <1>12 DEF q

\* sock__delete(): of the others nothing changes, and the socket is freed or is waiting
\* for its poll to end.
LEMMA DeleteKeeps ==
  ASSUME NEW p, NEW s \in SockIds, Shape(p), p.sock[s].used
  PROVE  /\ Shape(SockDelete(p, s)) /\ Only(p, SockDelete(p, s), s)
         /\ Served(SockDelete(p, s), s)
         /\ s \notin ToSet(SockDelete(p, s).update)
         /\ p.afd[s].state = "done" => SockDelete(p, s).afd[s].state = "done"
<1> DEFINE r == SockDelete(p, s)
<1>0. p.sock[s] \in SockType
  BY DEF Shape, PortType
<1>1. CASE p.sock[s].deleting
  <2>1. Detached(p, s) /\ PollRight(p, s)
    <3>1. s \in Leaving(p)
      BY <1>1 DEF Leaving
    <3> QED
      BY <3>1, LeavingDetached DEF Shape
  <2>2. CASE p.sock[s].status = "idle"
    <3>1. r = SockFree(p, s)
      BY <1>1, <2>2 DEF SockDelete, MustKeep
    <3>2. p.afd[s] = NoPoll
      BY <2>1, <2>2 DEF PollRight
    <3>3. p.afd[s].state # "done"
      BY <3>2 DEF NoPoll, None
    <3> QED
      BY <2>1, <3>1, <3>2, <3>3, FreeDetached
  <2>3. CASE p.sock[s].status # "idle"
    <3>1. r = AddDeleted(p, s)
      BY <1>1, <2>3 DEF SockDelete, MustKeep
    <3> QED
      BY <2>1, <2>3, <3>1, KeepDetached
  <2> QED
    BY <2>2, <2>3
<1>2. CASE ~p.sock[s].deleting
  <2> DEFINE c == IF p.sock[s].status = "pending" THEN CancelPoll(p, s) ELSE p
             q == Unlink(c, s)
  <2>1. /\ Shape(c) /\ Only(p, c, s)
        /\ c.sock[s].used /\ ~c.sock[s].deleting
        /\ c.sock[s].status = "idle" <=> p.sock[s].status = "idle"
        /\ p.afd[s].state = "done" => c.afd[s].state = "done"
    <3>1. CASE p.sock[s].status = "pending"
      <4>1. c = CancelPoll(p, s)
        BY <3>1
      <4>2. /\ Shape(c) /\ Only(p, c, s)
            /\ c.sock[s].used = p.sock[s].used /\ c.sock[s].deleting = p.sock[s].deleting
            /\ c.sock[s].status = "cancelled"
            /\ p.afd[s].state = "done" => c.afd[s].state = "done"
        BY <3>1, <4>1, CancelKeeps
      <4> QED
        BY <1>2, <3>1, <4>2
    <3>2. CASE p.sock[s].status # "pending"
      BY <1>2, <3>2 DEF Only
    <3> QED
      BY <3>1, <3>2
  <2> HIDE DEF c
  <2>2. s \in Staying(c)
    BY <2>1 DEF Staying
  <2>3. /\ Detached(q, s) /\ Only(c, q, s) /\ PollRight(q, s)
        /\ q.sock[s] = [c.sock[s] EXCEPT !.deleting = TRUE] /\ q.afd = c.afd
    BY <2>1, <2>2, UnlinkDetaches
  <2>4. q.sock[s].status = c.sock[s].status
    <3>1. c.sock[s] \in SockType
      BY <2>1 DEF Shape, PortType
    <3> QED
      BY <2>3, <3>1 DEF SockType
  <2>5. Only(p, q, s)
    BY <2>1, <2>3, OnlyTwice
  <2>6. r = IF q.sock[s].status # "idle" THEN AddDeleted(q, s) ELSE SockFree(q, s)
    BY <1>2 DEF SockDelete, MustKeep, c
  <2> HIDE DEF q, r
  <2>7. CASE p.sock[s].status = "idle"
    <3>1. q.afd[s] = NoPoll /\ q.afd[s].state # "done"
      BY <2>1, <2>3, <2>4, <2>7 DEF PollRight, NoPoll, None
    <3>2. r = SockFree(q, s)
      BY <2>1, <2>4, <2>6, <2>7
    <3>3. Shape(r) /\ Only(q, r, s) /\ Served(r, s) /\ s \notin ToSet(r.update)
      BY <2>3, <3>1, <3>2, FreeDetached
    <3> QED
      BY <2>1, <2>3, <2>5, <3>1, <3>3, OnlyTwice DEF r
  <2>8. CASE p.sock[s].status # "idle"
    <3>1. r = AddDeleted(q, s) /\ q.sock[s].status # "idle"
      BY <2>1, <2>4, <2>6, <2>8
    <3>2. Shape(r) /\ Only(q, r, s) /\ Served(r, s) /\ s \notin ToSet(r.update) /\ r.afd = q.afd
      BY <2>3, <3>1, KeepDetached
    <3> QED
      BY <2>1, <2>3, <2>5, <3>2, OnlyTwice DEF r
  <2> QED
    BY <2>7, <2>8
<1> QED
  BY <1>1, <1>2

\* ... also when its poll could not be cancelled.
LEMMA UncancelledKeeps ==
  ASSUME NEW p, NEW s \in SockIds, Shape(p), s \in Staying(p), p.sock[s].status = "pending"
  PROVE  LET q == SockDeleteUncancelled(p, s) IN
         Shape(q) /\ Only(p, q, s) /\ Served(q, s) /\ s \notin ToSet(q.update) /\ q.afd = p.afd
<1> DEFINE u == Unlink(p, s)
           q == AddDeleted(u, s)
<1>1. /\ Detached(u, s) /\ Only(p, u, s) /\ PollRight(u, s) /\ u.afd = p.afd
      /\ u.sock[s] = [p.sock[s] EXCEPT !.deleting = TRUE]
  BY UnlinkDetaches
<1>2. u.sock[s].status # "idle"
  <2>1. p.sock[s] \in SockType
    BY DEF Shape, PortType
  <2> QED
    BY <1>1, <2>1 DEF SockType
<1> HIDE DEF u
<1>3. Shape(q) /\ Only(u, q, s) /\ Served(q, s) /\ s \notin ToSet(q.update) /\ q.afd = u.afd
  BY <1>1, <1>2, KeepDetached
<1>4. Only(p, q, s)
  BY <1>1, <1>3, OnlyTwice
<1> QED
  BY <1>1, <1>3, <1>4 DEF SockDeleteUncancelled, u

-----------------------------------------------------------------------------
(* Requests and updates                                                    *)

\* What the driver has completed stays so.
DoneKept(p, q) == \A r \in SockIds : p.afd[r].state = "done" => q.afd[r].state = "done"

\* A step for the socket s that goes well
Well(p, q, s) == Shape(q) /\ Only(p, q, s) /\ Served(q, s) /\ DoneKept(p, q)

\* Polls that are done stay so.
LEMMA OnlyDone ==
  ASSUME NEW p, NEW q, NEW s \in SockIds, Only(p, q, s),
         p.afd[s].state = "done" => q.afd[s].state = "done"
  PROVE  DoneKept(p, q)
BY DEF Only, DoneKept

\* port_request_socket_update()
LEMMA RequestKeeps ==
  ASSUME NEW p, NEW s \in SockIds, Shape(p), s \in Staying(p)
  PROVE  /\ Well(p, RequestUpdate(p, s), s)
         /\ RequestUpdate(p, s).sock = p.sock /\ RequestUpdate(p, s).afd = p.afd
<1> DEFINE q == RequestUpdate(p, s)
<1>1. /\ p \in PortType /\ p.update \in Seq(SockIds) /\ p.deleted \in Seq(SockIds)
      /\ IsInjective(p.update) /\ IsInjective(p.deleted)
      /\ ToSet(p.update) \subseteq Staying(p) /\ ToSet(p.deleted) = Leaving(p)
  BY DEF Shape, PortType, QueueRight
<1>2. s \notin ToSet(p.deleted)
  BY <1>1 DEF Staying, Leaving
<1>3. Enqueued(p, s) <=> s \in ToSet(p.update)
  BY <1>1, <1>2 DEF ToSet, Contains, Enqueued
<1>4. /\ q.iocp = p.iocp /\ q.tree = p.tree /\ q.afd = p.afd /\ q.sock = p.sock
      /\ q.active = p.active /\ q.failed = p.failed /\ q.deleted = p.deleted
      /\ q.groups = p.groups /\ q.size = p.size /\ q \in PortType
      /\ IsInjective(q.update) /\ ToSet(q.update) = ToSet(p.update) \cup {s}
  <2>1. CASE s \in ToSet(p.update)
    <3>1. q = p
      BY <1>3, <2>1 DEF RequestUpdate
    <3> QED
      BY <1>1, <2>1, <3>1
  <2>2. CASE s \notin ToSet(p.update)
    <3> DEFINE u == Append(p.update, s)
    <3>1. q = [p EXCEPT !.update = u]
      BY <1>3, <2>2 DEF RequestUpdate
    <3>2. u \in Seq(SockIds) /\ IsInjective(u) /\ ToSet(u) = ToSet(p.update) \cup {s}
      BY <1>1, <2>2, AppendIs
    <3> HIDE DEF q, u
    <3> QED
      BY <1>1, <3>1, <3>2 DEF PortType
  <2> QED
    BY <2>1, <2>2
<1> HIDE DEF q
<1>5. Staying(q) = Staying(p) /\ Leaving(q) = Leaving(p)
  BY <1>4 DEF Staying, Leaving
<1>6. \A r \in SockIds : PollRight(q, r)
  BY <1>4 DEF Shape, PollRight
<1>7. TreeRight(q) /\ QueueRight(q)
  BY <1>1, <1>4, <1>5 DEF Shape, TreeRight, QueueRight
<1>8. GroupsRight(q)
  BY <1>4, GroupsSame DEF Shape
<1>9. Shape(q) /\ Only(p, q, s) /\ DoneKept(p, q)
  BY <1>4, <1>6, <1>7, <1>8 DEF Shape, Only, DoneKept
<1>10. Served(q, s)
  BY <1>4, <1>5 DEF Served, Staying, Leaving
<1> QED
  BY <1>4, <1>9, <1>10 DEF q, Well

\* port_cancel_socket_update() for a socket in the tree
LEMMA DequeueKeeps ==
  ASSUME NEW p, NEW s \in SockIds, Shape(p), s \in Staying(p)
  PROVE  /\ Shape(Dequeue(p, s)) /\ Only(p, Dequeue(p, s), s)
         /\ Dequeue(p, s).sock = p.sock /\ Dequeue(p, s).afd = p.afd
         /\ ToSet(Dequeue(p, s).update) = ToSet(p.update) \ {s}
<1> DEFINE q == Dequeue(p, s)
<1>1. /\ p \in PortType /\ p.update \in Seq(SockIds) /\ p.deleted \in Seq(SockIds)
      /\ IsInjective(p.update) /\ IsInjective(p.deleted)
      /\ ToSet(p.update) \subseteq Staying(p) /\ ToSet(p.deleted) = Leaving(p)
  BY DEF Shape, PortType, QueueRight
<1>2. /\ q \in PortType
      /\ q.iocp = p.iocp /\ q.tree = p.tree /\ q.sock = p.sock
      /\ q.afd = p.afd /\ q.groups = p.groups /\ q.size = p.size /\ q.active = p.active
      /\ q.failed = p.failed
      /\ q.update = Without(p.update, s) /\ q.deleted = Without(p.deleted, s)
  BY <1>1, DequeueIs
<1> HIDE DEF q
<1>3. IsInjective(q.update) /\ ToSet(q.update) = ToSet(p.update) \ {s}
  BY <1>1, <1>2, WithoutIs
<1>4. IsInjective(q.deleted) /\ ToSet(q.deleted) = ToSet(p.deleted)
  <2>1. s \notin ToSet(p.deleted)
    BY <1>1 DEF Staying, Leaving
  <2>2. IsInjective(q.deleted) /\ ToSet(q.deleted) = ToSet(p.deleted) \ {s}
    BY <1>1, <1>2, WithoutIs
  <2> QED
    BY <2>1, <2>2
<1>5. Staying(q) = Staying(p) /\ Leaving(q) = Leaving(p)
  BY <1>2 DEF Staying, Leaving
<1>6. \A r \in SockIds : PollRight(q, r)
  BY <1>2 DEF Shape, PollRight
<1>7. TreeRight(q) /\ QueueRight(q)
  BY <1>1, <1>2, <1>3, <1>4, <1>5 DEF Shape, TreeRight, QueueRight
<1>8. GroupsRight(q)
  BY <1>2, GroupsSame DEF Shape
<1>9. Shape(q) /\ Only(p, q, s)
  BY <1>2, <1>3, <1>6, <1>7, <1>8 DEF Shape, Only
<1> QED
  BY <1>2, <1>3, <1>9 DEF q

\* What the user asks for always has EPOLLERR in it.
LEMMA UserType ==
  ASSUME NEW request \in Requests
  PROVE  User(request) \in SUBSET DOMAIN Asks /\ User(request) # {}
<1>1. "err" \in DOMAIN Asks
  BY DEF Asks
<1> QED
  BY <1>1, RequestAssumption DEF User

\* sock_set_event(): the socket is queued, unless its poll watches what is asked for.
LEMMA SetEventKeeps ==
  ASSUME NEW p, NEW s \in SockIds, Shape(p), s \in Staying(p), NEW request \in Requests
  PROVE  Well(p, SetEvent(p, s, request), s)
<1> DEFINE once == "oneshot" \in request
           c == [p.sock[s] EXCEPT !.user = User(request), !.oneshot = once]
           q == WithRequest(p, s, request)
<1>1. /\ p \in PortType /\ p.sock \in [SockIds -> SockType] /\ p.sock[s] \in SockType
      /\ p.sock[s].used /\ ~p.sock[s].deleting
  BY DEF Shape, PortType, Staying
<1>2. User(request) \in SUBSET DOMAIN Asks /\ User(request) # {}
  BY UserType
<1>3. /\ c \in SockType /\ c.used = p.sock[s].used /\ c.group = p.sock[s].group
      /\ c.base = p.sock[s].base /\ c.deleting = p.sock[s].deleting
      /\ c.status = p.sock[s].status /\ c.pending = p.sock[s].pending /\ c.user = User(request)
  <2>1. once \in BOOLEAN
    OBVIOUS
  <2> HIDE DEF once
  <2> QED
    BY <1>1, <1>2, <2>1 DEF SockType
<1>4. q = [p EXCEPT !.sock = [p.sock EXCEPT ![s] = c]]
  BY DEF WithRequest
<1> HIDE DEF c, q
<1>5. /\ q \in PortType
      /\ q.iocp = p.iocp /\ q.tree = p.tree /\ q.afd = p.afd /\ q.update = p.update
      /\ q.deleted = p.deleted /\ q.groups = p.groups /\ q.size = p.size
      /\ q.active = p.active /\ q.failed = p.failed
      /\ q.sock = [p.sock EXCEPT ![s] = c]
  BY <1>1, <1>3, <1>4 DEF PortType
<1>6. q.sock[s] = c /\ \A r \in SockIds \ {s} : q.sock[r] = p.sock[r]
  BY <1>1, <1>5
<1>7. PollRight(q, s)
  <2>1. PollRight(p, s)
    BY DEF Shape
  <2> QED
    BY <1>1, <1>3, <1>5, <1>6, <2>1 DEF PollRight
<1>8. Shape(q) /\ Only(p, q, s)
  BY <1>3, <1>5, <1>6, <1>7, LinksSame
<1>9. s \in Staying(q) /\ s \notin Leaving(q) /\ DoneKept(p, q)
  BY <1>1, <1>3, <1>5, <1>6 DEF Staying, Leaving, DoneKept
<1>10. CASE Unwatched(q, s) # {}
  <2>1. SetEvent(p, s, request) = RequestUpdate(q, s)
    BY <1>10 DEF SetEvent, q
  <2>2. Well(q, RequestUpdate(q, s), s)
    BY <1>8, <1>9, RequestKeeps
  <2> QED
    BY <1>8, <1>9, <2>1, <2>2, OnlyTwice DEF Well, DoneKept
<1>11. CASE Unwatched(q, s) = {}
  <2>1. SetEvent(p, s, request) = q
    BY <1>11 DEF SetEvent, q
  <2>2. q.sock[s].pending # {}
    BY <1>2, <1>3, <1>6, <1>11 DEF Unwatched
  <2>3. q.sock[s].status = "pending"
    BY <1>7, <2>2 DEF PollRight
  <2> QED
    BY <1>8, <1>9, <1>11, <2>1, <2>3 DEF Well, Served
<1> QED
  BY <1>10, <1>11

\* A poll asks for events of the driver that stand for those of the user.
LEMMA AsksType ==
  ASSUME NEW events \in SUBSET DOMAIN Asks
  PROVE  EpollToAfd(events) \in SUBSET EpollToAfd(DOMAIN Asks)
BY DEF EpollToAfd

\* A poll is started: it watches all that the user asks for.
LEMMA StartKeeps ==
  ASSUME NEW p, NEW s \in SockIds, Shape(p), s \in Staying(p), p.sock[s].status = "idle"
  PROVE  /\ Shape(StartPoll(p, s)) /\ Only(p, StartPoll(p, s), s) /\ DoneKept(p, StartPoll(p, s))
         /\ s \in Staying(StartPoll(p, s))
         /\ StartPoll(p, s).sock[s].status = "pending"
         /\ Unwatched(StartPoll(p, s), s) = {}
         /\ StartPoll(p, s).update = p.update
<1> DEFINE q == StartPoll(p, s)
           c == [p.sock[s] EXCEPT !.status = "pending", !.pending = p.sock[s].user]
           a == [state |-> "pending", base |-> p.sock[s].base,
                 asked |-> EpollToAfd(p.sock[s].user)]
<1>1. /\ p \in PortType /\ p.sock \in [SockIds -> SockType] /\ p.sock[s] \in SockType
      /\ p.afd \in [SockIds -> PollType] /\ p.sock[s].used /\ ~p.sock[s].deleting
  BY DEF Shape, PortType, Staying
<1>2. /\ c \in SockType /\ c.used = p.sock[s].used /\ c.group = p.sock[s].group
      /\ c.base = p.sock[s].base /\ c.deleting = p.sock[s].deleting
      /\ c.status = "pending" /\ c.pending = c.user
  BY <1>1 DEF SockType
<1>3. a \in PollType /\ a.state = "pending"
  <2>1. p.sock[s].user \in SUBSET DOMAIN Asks /\ p.sock[s].base \in OsSockets \cup {None}
    BY <1>1 DEF SockType
  <2>2. EpollToAfd(p.sock[s].user) \in SUBSET EpollToAfd(DOMAIN Asks)
    BY <2>1, AsksType
  <2> QED
    BY <2>1, <2>2 DEF PollType
<1>4. q = [p EXCEPT !.sock = [p.sock EXCEPT ![s] = c], !.afd = [p.afd EXCEPT ![s] = a]]
  BY DEF StartPoll
<1> HIDE DEF c, a, q
<1>5. /\ q \in PortType
      /\ q.iocp = p.iocp /\ q.tree = p.tree /\ q.update = p.update
      /\ q.deleted = p.deleted /\ q.groups = p.groups /\ q.size = p.size
      /\ q.active = p.active /\ q.failed = p.failed
      /\ q.sock = [p.sock EXCEPT ![s] = c] /\ q.afd = [p.afd EXCEPT ![s] = a]
  <2>1. [p.sock EXCEPT ![s] = c] \in [SockIds -> SockType]
    BY <1>1, <1>2
  <2>2. [p.afd EXCEPT ![s] = a] \in [SockIds -> PollType]
    BY <1>1, <1>3
  <2> QED
    BY <1>1, <1>4, <2>1, <2>2 DEF PortType
<1>6. /\ q.sock[s] = c /\ q.afd[s] = a
      /\ \A r \in SockIds \ {s} : q.sock[r] = p.sock[r] /\ q.afd[r] = p.afd[r]
  BY <1>1, <1>5
<1>7. PollRight(q, s)
  BY <1>1, <1>2, <1>3, <1>6 DEF Shape, PollRight
<1>8. Shape(q) /\ Only(p, q, s)
  BY <1>2, <1>5, <1>6, <1>7, LinksSame
<1>9. p.afd[s].state # "done"
  BY DEF Shape, PollRight, NoPoll, None
<1>10. s \in Staying(q) /\ Unwatched(q, s) = {}
  BY <1>1, <1>2, <1>6 DEF Staying, Unwatched
<1> QED
  BY <1>2, <1>5, <1>6, <1>8, <1>9, <1>10, OnlyDone DEF q

\* sock_update() for a socket of the update queue
LEMMA UpdateKeeps ==
  ASSUME NEW p, NEW s, NEW at, Shape(p), s \in ToSet(p.update)
  PROVE  /\ s \in SockIds
         /\ Well(p, SockUpdate(p, s, at), s)
         /\ ToSet(SockUpdate(p, s, at).update) = ToSet(p.update) \ {s}
<1> DEFINE q == SockUpdate(p, s, at)
<1>1. s \in Staying(p) /\ s \in SockIds /\ p.sock[s].used /\ ~p.sock[s].deleting
  <2>1. s \in Staying(p)
    BY DEF Shape, QueueRight
  <2> QED
    BY <2>1 DEF Staying
<1>2. p.sock[s].status \in {"idle", "pending", "cancelled"}
  <2>1. p.sock \in [SockIds -> SockType]
    BY DEF Shape, PortType
  <2>2. p.sock[s] \in SockType
    BY <1>1, <2>1
  <2> QED
    BY <2>2 DEF SockType
<1>3. CASE p.sock[s].status = "idle" /\ p.sock[s].base \notin at
  <2>1. q = SockDelete(p, s)
    BY <1>1, <1>3 DEF SockUpdate
  <2>2. /\ Shape(q) /\ Only(p, q, s) /\ Served(q, s) /\ s \notin ToSet(q.update)
        /\ p.afd[s].state = "done" => q.afd[s].state = "done"
    BY <1>1, <2>1, DeleteKeeps
  <2>3. ToSet(q.update) = ToSet(p.update) \ {s}
    BY <2>2 DEF Only
  <2> QED
    BY <1>1, <2>2, <2>3, OnlyDone DEF Well
<1>4. ASSUME NEW c, Shape(c), Only(p, c, s), DoneKept(p, c), s \in Staying(c), c.update = p.update,
             q = Dequeue(c, s),
             \/ c.sock[s].status = "cancelled"
             \/ c.sock[s].status = "pending" /\ Unwatched(c, s) = {}
      PROVE  Well(p, q, s) /\ ToSet(q.update) = ToSet(p.update) \ {s}
  <2>1. /\ Shape(q) /\ Only(c, q, s) /\ q.sock = c.sock /\ q.afd = c.afd
        /\ ToSet(q.update) = ToSet(c.update) \ {s}
    BY <1>1, <1>4, DequeueKeeps
  <2> HIDE DEF q
  <2>2. Only(p, q, s)
    BY <1>4, <2>1, OnlyTwice
  <2>3. DoneKept(p, q)
    BY <1>4, <2>1 DEF DoneKept
  <2>4. Served(q, s)
    BY <1>4, <2>1 DEF Served, Staying, Leaving, Unwatched
  <2> QED
    BY <1>4, <2>1, <2>2, <2>3, <2>4 DEF Well
<1>5. CASE p.sock[s].status = "idle" /\ p.sock[s].base \in at
  <2> DEFINE c == StartPoll(p, s)
  <2>1. q = Dequeue(c, s)
    BY <1>1, <1>5 DEF SockUpdate
  <2>2. /\ Shape(c) /\ Only(p, c, s) /\ DoneKept(p, c) /\ s \in Staying(c)
        /\ c.sock[s].status = "pending" /\ Unwatched(c, s) = {} /\ c.update = p.update
    BY <1>1, <1>5, StartKeeps
  <2> HIDE DEF c, q
  <2> QED
    BY <1>1, <1>4, <2>1, <2>2 DEF q
<1>6. CASE p.sock[s].status = "pending" /\ Unwatched(p, s) # {}
  <2> DEFINE c == CancelPoll(p, s)
  <2>1. q = Dequeue(c, s)
    BY <1>1, <1>6 DEF SockUpdate, CallsDriver
  <2>2. /\ Shape(c) /\ Only(p, c, s)
        /\ c.sock[s].used = p.sock[s].used /\ c.sock[s].deleting = p.sock[s].deleting
        /\ c.sock[s].status = "cancelled" /\ c.update = p.update
        /\ p.afd[s].state = "done" => c.afd[s].state = "done"
    BY <1>1, <1>6, CancelKeeps
  <2> HIDE DEF c, q
  <2>3. s \in Staying(c) /\ DoneKept(p, c)
    BY <1>1, <2>2, OnlyDone DEF Staying
  <2> QED
    BY <1>1, <1>4, <2>1, <2>2, <2>3 DEF q
<1>7. CASE p.sock[s].status # "idle" /\ ~CallsDriver(p, s)
  <2>1. q = Dequeue(p, s)
    BY <1>1, <1>7 DEF SockUpdate
  <2>2. \/ p.sock[s].status = "cancelled"
        \/ p.sock[s].status = "pending" /\ Unwatched(p, s) = {}
    BY <1>2, <1>7 DEF CallsDriver
  <2>3. Only(p, p, s) /\ DoneKept(p, p)
    BY DEF Only, DoneKept
  <2> HIDE DEF q
  <2> QED
    BY <1>1, <1>4, <2>1, <2>2, <2>3 DEF q
<1> QED
  BY <1>1, <1>2, <1>3, <1>5, <1>6, <1>7 DEF CallsDriver

-----------------------------------------------------------------------------
(* Completions, and the updates of the whole queue                         *)

\* sock_feed_event() for a completion of a poll that is done
LEMMA FeedKeeps ==
  ASSUME NEW p, NEW c, Shape(p), c.sock \in SockIds, p.afd[c.sock].state = "done"
  PROVE  /\ Shape(SockFeed(p, c)) /\ Only(p, SockFeed(p, c), c.sock)
         /\ Served(SockFeed(p, c), c.sock)
<1> DEFINE s == c.sock
           told == Reported(p, c)
           k == [p.sock[s] EXCEPT !.status = "idle", !.pending = {}]
           q == [p EXCEPT !.sock = [p.sock EXCEPT ![s] = k], !.afd = [p.afd EXCEPT ![s] = NoPoll]]
           r == SockFeed(p, c)
<1>1. /\ p \in PortType /\ p.sock \in [SockIds -> SockType] /\ p.sock[s] \in SockType
      /\ p.afd \in [SockIds -> PollType] /\ PollRight(p, s) /\ s \in SockIds
  BY DEF Shape, PortType
<1>2. p.sock[s].used
  BY <1>1 DEF PollRight, FreeSock, NoPoll, None
<1>3. NoPoll \in PollType
  BY DEF NoPoll, PollType
<1>4. /\ k \in SockType /\ k.used = p.sock[s].used /\ k.group = p.sock[s].group
      /\ k.base = p.sock[s].base /\ k.deleting = p.sock[s].deleting
      /\ k.status = "idle" /\ k.pending = {}
  BY <1>1 DEF SockType
<1>5. \/ (p.sock[s].deleting \/ "local_close" \in c.events) /\ r = SockDelete(q, s)
      \/ /\ ~p.sock[s].deleting
         /\ \/ r = RequestUpdate(q, s)
            \/ r = RequestUpdate([q EXCEPT !.sock[s] = [@ EXCEPT !.user = {}, !.oneshot = FALSE]], s)
  BY DEF SockFeed, Requeue
<1> HIDE DEF k, told, r
<1>6. /\ q \in PortType
      /\ q.iocp = p.iocp /\ q.tree = p.tree /\ q.update = p.update
      /\ q.deleted = p.deleted /\ q.groups = p.groups /\ q.size = p.size
      /\ q.active = p.active /\ q.failed = p.failed
      /\ q.sock = [p.sock EXCEPT ![s] = k] /\ q.afd = [p.afd EXCEPT ![s] = NoPoll]
  <2>1. [p.sock EXCEPT ![s] = k] \in [SockIds -> SockType]
    BY <1>1, <1>4
  <2>2. [p.afd EXCEPT ![s] = NoPoll] \in [SockIds -> PollType]
    BY <1>1, <1>3
  <2> QED
    BY <1>1, <2>1, <2>2 DEF PortType
<1> HIDE DEF q
<1>7. /\ q.sock[s] = k /\ q.afd[s] = NoPoll
      /\ \A t \in SockIds \ {s} : q.sock[t] = p.sock[t] /\ q.afd[t] = p.afd[t]
  BY <1>1, <1>6
<1>8. PollRight(q, s)
  BY <1>1, <1>2, <1>4, <1>7 DEF PollRight
<1>9. Shape(q) /\ Only(p, q, s)
  <2> HIDE DEF s
  <2> QED
    BY <1>1, <1>4, <1>6, <1>7, <1>8, LinksSame
<1>10. CASE r = SockDelete(q, s)
  <2>1. q.sock[s].used
    BY <1>2, <1>4, <1>7
  <2>2. Shape(r) /\ Only(q, r, s) /\ Served(r, s)
    BY <1>1, <1>9, <1>10, <2>1, DeleteKeeps
  <2>3. Only(p, r, s)
    BY <1>9, <2>2, OnlyTwice
  <2> QED
    BY <2>2, <2>3 DEF r, s
<1>11. ASSUME NEW u, r = RequestUpdate(u, s), Shape(u), Only(q, u, s), s \in Staying(u)
       PROVE  Shape(r) /\ Only(p, r, s) /\ Served(r, s)
  <2>1. Well(u, r, s)
    BY <1>1, <1>11, RequestKeeps
  <2>2. Only(p, u, s)
    BY <1>9, <1>11, OnlyTwice
  <2>3. Only(p, r, s)
    BY <2>1, <2>2, OnlyTwice DEF Well
  <2> QED
    BY <2>1, <2>3 DEF Well
<1>12. CASE ~p.sock[s].deleting /\ r = RequestUpdate(q, s)
  <2>1. s \in Staying(q) /\ Only(q, q, s)
    BY <1>1, <1>2, <1>4, <1>7, <1>12 DEF Staying, Only
  <2>2. Shape(r) /\ Only(p, r, s) /\ Served(r, s)
    BY <1>9, <1>11, <1>12, <2>1
  <2> QED
    BY <2>2 DEF r, s
<1>13. CASE /\ ~p.sock[s].deleting
            /\ r = RequestUpdate([q EXCEPT !.sock[s] = [@ EXCEPT !.user = {}, !.oneshot = FALSE]], s)
  <2> DEFINE l == [q.sock[s] EXCEPT !.user = {}, !.oneshot = FALSE]
             u == [q EXCEPT !.sock = [q.sock EXCEPT ![s] = l]]
  <2>1. /\ l \in SockType /\ l.used = q.sock[s].used /\ l.group = q.sock[s].group
        /\ l.base = q.sock[s].base /\ l.deleting = q.sock[s].deleting
        /\ l.status = q.sock[s].status /\ l.pending = q.sock[s].pending
    BY <1>4, <1>7 DEF SockType
  <2>2. r = RequestUpdate(u, s)
    BY <1>13
  <2> HIDE DEF l
  <2>3. /\ u \in PortType
        /\ u.iocp = q.iocp /\ u.tree = q.tree /\ u.update = q.update
        /\ u.deleted = q.deleted /\ u.groups = q.groups /\ u.size = q.size
        /\ u.active = q.active /\ u.failed = q.failed
        /\ u.sock = [q.sock EXCEPT ![s] = l] /\ u.afd = q.afd
    <3>1. q.sock \in [SockIds -> SockType]
      BY <1>6 DEF PortType
    <3>2. [q.sock EXCEPT ![s] = l] \in [SockIds -> SockType]
      BY <2>1, <3>1
    <3> QED
      BY <1>6, <3>2 DEF PortType
  <2> HIDE DEF u
  <2>4. u.sock[s] = l /\ \A t \in SockIds \ {s} : u.sock[t] = q.sock[t]
    <3>1. q.sock \in [SockIds -> SockType]
      BY <1>6 DEF PortType
    <3> QED
      BY <1>1, <2>3, <3>1
  <2>5. PollRight(u, s)
    BY <1>8, <1>2, <1>4, <1>7, <2>1, <2>3, <2>4 DEF PollRight
  <2>6. Shape(u) /\ Only(q, u, s)
    <3> HIDE DEF s
    <3> QED
      BY <1>1, <1>9, <2>1, <2>3, <2>4, <2>5, LinksSame
  <2>7. s \in Staying(u)
    BY <1>1, <1>2, <1>4, <1>7, <1>13, <2>1, <2>4 DEF Staying
  <2>8. Shape(r) /\ Only(p, r, s) /\ Served(r, s)
    BY <1>11, <2>2, <2>6, <2>7
  <2> QED
    BY <2>8 DEF r, s
<1> QED
  BY <1>5, <1>10, <1>12, <1>13

-----------------------------------------------------------------------------
\* The rounds of port__update_events()
IsUpdated(f, p, n, at) ==
  f = [k \in 0..n |-> IF k = 0 THEN p ELSE SockUpdate(f[k - 1], p.update[k], at)]

\* The recursive function of UpdateFirst() exists.
LEMMA UpdatedExists ==
  ASSUME NEW p, NEW n \in Nat, NEW at PROVE \E f : IsUpdated(f, p, n, at)
<1> DEFINE Follows(f, m) == \A i \in 0..m : f[i] = IF i = 0 THEN p ELSE SockUpdate(f[i - 1], p.update[i], at)
           Good == {m \in 0..n : \E f : f = [i \in 0..m |-> f[i]] /\ Follows(f, m)}
<1>2. 0 \in Good
  <2> DEFINE f == [i \in 0..0 |-> p]
  <2>1. f = [i \in 0..0 |-> f[i]] /\ Follows(f, 0) /\ 0 \in 0..n
    OBVIOUS
  <2> HIDE DEF f, Follows
  <2> QED
    BY <2>1
<1>3. ASSUME NEW k \in 0..(n - 1), k \in Good PROVE k + 1 \in Good
  <2>1. PICK f : f = [i \in 0..k |-> f[i]] /\ Follows(f, k)
    BY <1>3
  <2> DEFINE next == SockUpdate(f[k], p.update[k + 1], at)
             g == [i \in 0..(k + 1) |-> IF i = k + 1 THEN next ELSE f[i]]
  <2>2. g = [i \in 0..(k + 1) |-> g[i]]
    OBVIOUS
  <2>3. ASSUME NEW i \in 0..(k + 1)
        PROVE  g[i] = IF i = 0 THEN p ELSE SockUpdate(g[i - 1], p.update[i], at)
    <3>1. CASE i = k + 1
      <4>1. g[i] = next /\ i # 0 /\ i - 1 = k
        BY <3>1
      <4>2. g[k] = f[k]
        <5>1. k \in 0..(k + 1) /\ k # k + 1
          OBVIOUS
        <5> QED
          BY <5>1
      <4> QED
        BY <3>1, <4>1, <4>2
    <3>2. CASE i # k + 1
      <4>1. i \in 0..k
        BY <3>2
      <4>2. f[i] = IF i = 0 THEN p ELSE SockUpdate(f[i - 1], p.update[i], at)
        BY <2>1, <4>1
      <4>3. g[i] = f[i]
        BY <3>2
      <4>4. ASSUME i # 0 PROVE g[i - 1] = f[i - 1]
        <5>1. i - 1 \in 0..(k + 1) /\ i - 1 # k + 1
          BY <4>1, <4>4
        <5> QED
          BY <5>1
      <4> QED
        BY <4>2, <4>3, <4>4
    <3> QED
      BY <3>1, <3>2
  <2>4. Follows(g, k + 1)
    BY <2>3
  <2>5. k + 1 \in 0..n
    OBVIOUS
  <2> HIDE DEF g, Follows
  <2> QED
    BY <2>2, <2>4, <2>5
<1>4. n \in Good
  <2>1. n \in 0..n
    OBVIOUS
  <2> HIDE DEF Good
  <2>2. \A k \in 0..n : k \in Good
    BY <1>2, <1>3, UpTo
  <2> QED
    BY <2>1, <2>2
<1>5. PICK f : f = [i \in 0..n |-> f[i]] /\ Follows(f, n)
  BY <1>4
<1>6. f = [i \in 0..n |-> IF i = 0 THEN p ELSE SockUpdate(f[i - 1], p.update[i], at)]
  BY <1>5
<1> QED
  BY <1>6 DEF IsUpdated

\* q is what p becomes by steps for its sockets that go well.
AllWell(p, q) ==
  /\ PortInv(q) /\ DoneKept(p, q)
  /\ q.iocp = p.iocp /\ q.active = p.active /\ q.failed = p.failed

\* A queue of nothing is empty.
LEMMA NoneIsEmpty ==
  ASSUME NEW S, NEW q \in Seq(S), ToSet(q) = {} PROVE q = <<>>
<1> SUFFICES ASSUME q # <<>> PROVE FALSE
  OBVIOUS
<1>1. 1 \in DOMAIN q
  OBVIOUS
<1>2. q[1] \in ToSet(q)
  BY <1>1 DEF ToSet
<1> QED
  BY <1>2

\* port__update_events(), for a part of the queue or for all of it
LEMMA UpdateFirstKeeps ==
  ASSUME NEW p, PortInv(p), NEW at, NEW n \in 0..Len(p.update)
  PROVE  /\ AllWell(p, UpdateFirst(p, n, at))
         /\ n = Len(p.update) => UpdateFirst(p, n, at).update = <<>>
<1> DEFINE len == Len(p.update)
           Left(k) == {p.update[i] : i \in (k + 1)..len}
<1>1. p.update \in Seq(SockIds) /\ len \in Nat /\ n \in Nat /\ n <= len /\ IsInjective(p.update)
  BY DEF PortInv, Shape, PortType, QueueRight
<1>2. UpdateFirst(p, n, at) = (CHOOSE f : IsUpdated(f, p, n, at))[n]
  BY DEF UpdateFirst, IsUpdated
<1>3. PICK f : IsUpdated(f, p, n, at) /\ UpdateFirst(p, n, at) = f[n]
  BY <1>1, <1>2, UpdatedExists
<1>4. f[0] = p /\ \A k \in 0..(n - 1) : f[k + 1] = SockUpdate(f[k], p.update[k + 1], at)
  <2>1. 0 \in 0..n /\ \A k \in 0..(n - 1) : k + 1 \in 0..n /\ k + 1 # 0 /\ (k + 1) - 1 = k
    BY <1>1
  <2> QED
    BY <1>3, <2>1 DEF IsUpdated
<1> DEFINE Good == {k \in 0..n : AllWell(p, f[k]) /\ ToSet(f[k].update) = Left(k)}
<1>5. 0 \in Good
  <2>1. ToSet(p.update) = Left(0)
    BY <1>1 DEF ToSet
  <2> QED
    BY <1>1, <1>4, <2>1 DEF AllWell, DoneKept
<1>6. ASSUME NEW k \in 0..(n - 1), k \in Good PROVE k + 1 \in Good
  <2> DEFINE s == p.update[k + 1]
             q == f[k]
             u == f[k + 1]
  <2>1. AllWell(p, q) /\ ToSet(q.update) = Left(k) /\ u = SockUpdate(q, s, at)
    BY <1>4, <1>6
  <2>2. k \in Nat /\ k + 1 \in (k + 1)..len /\ k + 1 \in 0..n
    BY <1>1
  <2>3. s \in ToSet(q.update)
    BY <2>1, <2>2
  <2>4. Left(k + 1) = Left(k) \ {s}
    <3>1. \A i, j \in 1..len : p.update[i] = p.update[j] => i = j
      BY <1>1 DEF IsInjective
    <3>2. \A i \in (k + 1)..len : i \in 1..len /\ (i = k + 1 \/ i \in (k + 2)..len)
      BY <2>2
    <3>3. \A i \in (k + 2)..len : i \in (k + 1)..len /\ i # k + 1
      BY <2>2
    <3>4. k + 1 \in 1..len
      BY <2>2, <3>2
    <3>5. (k + 1) + 1 = k + 2
      OBVIOUS
    <3> QED
      BY <3>1, <3>2, <3>3, <3>4, <3>5
  <2> HIDE DEF s, q, u, Left
  <2>5. s \in SockIds /\ Well(q, u, s) /\ ToSet(u.update) = Left(k + 1)
    BY <2>1, <2>3, <2>4, UpdateKeeps DEF AllWell, PortInv
  <2>6. \A r \in SockIds : Served(u, r)
    BY <2>1, <2>5, OthersServed DEF AllWell, PortInv, Well
  <2>7. AllWell(p, u)
    BY <2>1, <2>5, <2>6 DEF AllWell, PortInv, Well, Only, DoneKept
  <2> QED
    BY <2>2, <2>5, <2>7 DEF u
<1>7. AllWell(p, f[n]) /\ ToSet(f[n].update) = Left(n)
  <2> HIDE DEF Good
  <2>1. \A k \in 0..n : k \in Good
    BY <1>1, <1>5, <1>6, UpTo
  <2>2. n \in 0..n
    BY <1>1
  <2> QED
    BY <2>1, <2>2 DEF Good
<1>8. ASSUME n = len PROVE f[n].update = <<>>
  <2>1. ToSet(f[n].update) = {}
    BY <1>1, <1>7, <1>8
  <2>2. f[n].update \in Seq(SockIds)
    BY <1>7 DEF AllWell, PortInv, Shape, PortType
  <2> QED
    BY <2>1, <2>2, NoneIsEmpty
<1> QED
  BY <1>3, <1>7, <1>8

-----------------------------------------------------------------------------
(* The completions of one round                                            *)

\* The rounds of port__feed_events()
IsFed(f, p, cs, n) ==
  f = [k \in 0..n |-> IF k = 0 THEN p ELSE SockFeed(f[k - 1], cs[k])]

\* The recursive function of FeedFirst() exists.
LEMMA FedExists ==
  ASSUME NEW p, NEW n \in Nat, NEW cs PROVE \E f : IsFed(f, p, cs, n)
<1> DEFINE Follows(f, m) == \A i \in 0..m : f[i] = IF i = 0 THEN p ELSE SockFeed(f[i - 1], cs[i])
           Good == {m \in 0..n : \E f : f = [i \in 0..m |-> f[i]] /\ Follows(f, m)}
<1>2. 0 \in Good
  <2> DEFINE f == [i \in 0..0 |-> p]
  <2>1. f = [i \in 0..0 |-> f[i]] /\ Follows(f, 0) /\ 0 \in 0..n
    OBVIOUS
  <2> HIDE DEF f, Follows
  <2> QED
    BY <2>1
<1>3. ASSUME NEW k \in 0..(n - 1), k \in Good PROVE k + 1 \in Good
  <2>1. PICK f : f = [i \in 0..k |-> f[i]] /\ Follows(f, k)
    BY <1>3
  <2> DEFINE next == SockFeed(f[k], cs[k + 1])
             g == [i \in 0..(k + 1) |-> IF i = k + 1 THEN next ELSE f[i]]
  <2>2. g = [i \in 0..(k + 1) |-> g[i]]
    OBVIOUS
  <2>3. ASSUME NEW i \in 0..(k + 1)
        PROVE  g[i] = IF i = 0 THEN p ELSE SockFeed(g[i - 1], cs[i])
    <3>1. CASE i = k + 1
      <4>1. g[i] = next /\ i # 0 /\ i - 1 = k
        BY <3>1
      <4>2. g[k] = f[k]
        <5>1. k \in 0..(k + 1) /\ k # k + 1
          OBVIOUS
        <5> QED
          BY <5>1
      <4> QED
        BY <3>1, <4>1, <4>2
    <3>2. CASE i # k + 1
      <4>1. i \in 0..k
        BY <3>2
      <4>2. f[i] = IF i = 0 THEN p ELSE SockFeed(f[i - 1], cs[i])
        BY <2>1, <4>1
      <4>3. g[i] = f[i]
        BY <3>2
      <4>4. ASSUME i # 0 PROVE g[i - 1] = f[i - 1]
        <5>1. i - 1 \in 0..(k + 1) /\ i - 1 # k + 1
          BY <4>1, <4>4
        <5> QED
          BY <5>1
      <4> QED
        BY <4>2, <4>3, <4>4
    <3> QED
      BY <3>1, <3>2
  <2>4. Follows(g, k + 1)
    BY <2>3
  <2>5. k + 1 \in 0..n
    OBVIOUS
  <2> HIDE DEF g, Follows
  <2> QED
    BY <2>2, <2>4, <2>5
<1>4. n \in Good
  <2>1. n \in 0..n
    OBVIOUS
  <2> HIDE DEF Good
  <2>2. \A k \in 0..n : k \in Good
    BY <1>2, <1>3, UpTo
  <2> QED
    BY <2>1, <2>2
<1>5. PICK f : f = [i \in 0..n |-> f[i]] /\ Follows(f, n)
  BY <1>4
<1>6. f = [i \in 0..n |-> IF i = 0 THEN p ELSE SockFeed(f[i - 1], cs[i])]
  BY <1>5
<1> QED
  BY <1>6 DEF IsFed

\* Each of the completions is for a poll of its own, which is done.
Feedable(p, cs) ==
  /\ \A i \in 1..Len(cs) : cs[i].sock \in SockIds /\ p.afd[cs[i].sock].state = "done"
  /\ \A i, j \in 1..Len(cs) : cs[i].sock = cs[j].sock => i = j

\* port__feed_events(), for completions of polls that are done, each for another socket
LEMMA FeedFirstKeeps ==
  ASSUME NEW p, PortInv(p), NEW cs, Len(cs) \in Nat, Feedable(p, cs)
  PROVE  LET q == FeedFirst(p, cs, Len(cs)) IN
         /\ PortInv(q)
         /\ q.iocp = p.iocp /\ q.active = p.active /\ q.failed = p.failed
         /\ \A r \in SockIds : (\A i \in 1..Len(cs) : cs[i].sock # r) => q.afd[r] = p.afd[r]
<1> DEFINE n == Len(cs)
<1>1. /\ n \in Nat
      /\ \A i \in 1..n : cs[i].sock \in SockIds /\ p.afd[cs[i].sock].state = "done"
      /\ \A i, j \in 1..n : cs[i].sock = cs[j].sock => i = j
  BY DEF Feedable
<1> HIDE DEF n
<1>2. FeedFirst(p, cs, n) = (CHOOSE f : IsFed(f, p, cs, n))[n]
  BY DEF FeedFirst, IsFed
<1>3. PICK f : IsFed(f, p, cs, n) /\ FeedFirst(p, cs, n) = f[n]
  BY <1>1, <1>2, FedExists
<1>4. f[0] = p /\ \A k \in 0..(n - 1) : f[k + 1] = SockFeed(f[k], cs[k + 1])
  <2>1. 0 \in 0..n /\ \A k \in 0..(n - 1) : k + 1 \in 0..n /\ k + 1 # 0 /\ (k + 1) - 1 = k
    BY <1>1
  <2> QED
    BY <1>3, <2>1 DEF IsFed
<1> DEFINE Fine(k) ==
             /\ PortInv(f[k])
             /\ f[k].iocp = p.iocp /\ f[k].active = p.active /\ f[k].failed = p.failed
             /\ \A r \in SockIds : (\A i \in 1..k : cs[i].sock # r) => f[k].afd[r] = p.afd[r]
           Good == {k \in 0..n : Fine(k)}
<1>5. 0 \in Good
  BY <1>1, <1>4
<1>6. ASSUME NEW k \in 0..(n - 1), k \in Good PROVE k + 1 \in Good
  <2> DEFINE c == cs[k + 1]
             q == f[k]
             u == f[k + 1]
  <2>1. Fine(k) /\ u = SockFeed(q, c)
    BY <1>4, <1>6
  <2>2. k \in Nat /\ k + 1 \in 1..n /\ k + 1 \in 0..n /\ \A i \in 1..k : i \in 1..n /\ i # k + 1
    BY <1>1
  <2>3. c.sock \in SockIds /\ q.afd[c.sock] = p.afd[c.sock] /\ p.afd[c.sock].state = "done"
    BY <1>1, <2>1, <2>2
  <2> HIDE DEF c, q, u
  <2>4. Shape(u) /\ Only(q, u, c.sock) /\ Served(u, c.sock)
    <3>1. Shape(q) /\ q.afd[c.sock].state = "done"
      BY <2>1, <2>3 DEF PortInv, q
    <3> QED
      BY <2>1, <2>3, <3>1, FeedKeeps
  <2>5. \A r \in SockIds : Served(u, r)
    <3>1. \A r \in SockIds \ {c.sock} : Served(q, r)
      BY <2>1 DEF PortInv, q
    <3>2. \A r \in SockIds \ {c.sock} : Served(u, r)
      BY <2>3, <2>4, <3>1, OthersServed
    <3> QED
      BY <2>4, <3>2
  <2>6. ASSUME NEW r \in SockIds, \A i \in 1..(k + 1) : cs[i].sock # r PROVE u.afd[r] = p.afd[r]
    <3>1. \A i \in 1..k : i \in 1..(k + 1)
      BY <2>2
    <3>2. k + 1 \in 1..(k + 1)
      BY <2>2
    <3>3. c.sock # r
      BY <2>6, <3>2 DEF c
    <3>4. q.afd[r] = p.afd[r]
      BY <2>1, <2>6, <3>1 DEF q
    <3> QED
      BY <2>4, <3>3, <3>4 DEF Only
  <2>7. u.iocp = p.iocp /\ u.active = p.active /\ u.failed = p.failed
    BY <2>1, <2>4 DEF Only, q
  <2> QED
    BY <2>2, <2>4, <2>5, <2>6, <2>7 DEF PortInv, u
<1>7. n \in Good
  <2>1. n \in 0..n
    BY <1>1
  <2> HIDE DEF Good
  <2>2. \A k \in 0..n : k \in Good
    BY <1>1, <1>5, <1>6, UpTo
  <2> QED
    BY <2>1, <2>2
<1> QED
  BY <1>3, <1>7 DEF n

-----------------------------------------------------------------------------
(* New sockets                                                             *)

\* The end of poll_group_acquire(), field by field
LEMMA TakenIs ==
  ASSUME NEW p \in PortType, NEW g \in Groups
  PROVE  LET q == GroupTaken(p, g)
             size == [p.size EXCEPT ![g] = @ + 1]
         IN
         /\ q \in PortType
         /\ q.iocp = p.iocp /\ q.tree = p.tree /\ q.sock = p.sock /\ q.afd = p.afd
         /\ q.active = p.active /\ q.failed = p.failed /\ q.update = p.update /\ q.deleted = p.deleted
         /\ q.size = size
         /\ q.groups = IF size[g] = MaxGroupSize THEN <<g>> \o Without(p.groups, g) ELSE p.groups
<1> DEFINE size == [p.size EXCEPT ![g] = @ + 1]
           full == <<g>> \o Without(p.groups, g)
           u == [p EXCEPT !.size = size]
<1>1. full \in Seq(Groups)
  <2>1. p.groups \in Seq(Groups)
    BY DEF PortType
  <2>2. Without(p.groups, g) \in Seq(Groups) /\ <<g>> \in Seq(Groups)
    BY <2>1, WithoutType
  <2> HIDE DEF full
  <2> QED
    BY <2>2, JoinIs DEF full
<1>2. size \in [Groups -> Int]
  BY DEF PortType
<1>3. GroupTaken(p, g) = IF u.size[g] = MaxGroupSize
                         THEN [u EXCEPT !.groups = <<g>> \o Without(@, g)] ELSE u
  BY DEF GroupTaken
<1> HIDE DEF size
<1>4. /\ u \in PortType /\ u.size = size /\ u.groups = p.groups
      /\ u.iocp = p.iocp /\ u.tree = p.tree /\ u.sock = p.sock /\ u.afd = p.afd
      /\ u.active = p.active /\ u.failed = p.failed /\ u.update = p.update /\ u.deleted = p.deleted
  BY <1>2 DEF PortType
<1>5. GroupTaken(p, g) = IF size[g] = MaxGroupSize THEN [u EXCEPT !.groups = full] ELSE u
  BY <1>3, <1>4
<1> HIDE DEF full, u
<1>6. LET q == GroupTaken(p, g) IN
         /\ q \in PortType
         /\ q.iocp = p.iocp /\ q.tree = p.tree /\ q.sock = p.sock /\ q.afd = p.afd
         /\ q.active = p.active /\ q.failed = p.failed /\ q.update = p.update /\ q.deleted = p.deleted
         /\ q.size = size
         /\ q.groups = IF size[g] = MaxGroupSize THEN full ELSE p.groups
  BY <1>1, <1>4, <1>5 DEF PortType
<1> QED
  BY <1>6 DEF size, full

\* poll_group_acquire(): the queue of groups stays in order, unless there is
\* no completion handle for a new group.
LEMMA AcquireKeeps ==
  ASSUME NEW p \in PortType, GroupsRight(p), p.failed = None, NEW g \in Groups, g = GroupFor(p)
  PROVE  LET q == GroupAcquire(p, g) IN
         /\ q \in PortType
         /\ q.iocp = p.iocp /\ q.tree = p.tree /\ q.sock = p.sock /\ q.afd = p.afd
         /\ q.active = p.active /\ q.update = p.update /\ q.deleted = p.deleted
         /\ q.size = [p.size EXCEPT ![g] = @ + 1]
         /\ \/ q.failed = None /\ GroupQueue(q.groups, q.size)
            \/ q.failed = "port_get_iocp_handle" /\ ~p.iocp
<1> DEFINE q == GroupAcquire(p, g)
<1>1. /\ p.groups \in Seq(Groups) /\ p.size \in [Groups -> Int] /\ GroupQueue(p.groups, p.size)
  BY DEF PortType, GroupsRight
<1>2. ASSUME NEW a \in PortType, q = GroupTaken(a, g),
             a.iocp = p.iocp, a.tree = p.tree, a.sock = p.sock, a.afd = p.afd,
             a.active = p.active, a.update = p.update, a.deleted = p.deleted, a.size = p.size,
             \/ /\ a.failed = None /\ GroupQueue(a.groups, a.size)
                /\ a.groups # <<>> /\ g = Last(a.groups) /\ a.size[g] < MaxGroupSize
             \/ a.failed = "port_get_iocp_handle" /\ ~p.iocp
      PROVE  /\ q \in PortType
             /\ q.iocp = p.iocp /\ q.tree = p.tree /\ q.sock = p.sock /\ q.afd = p.afd
             /\ q.active = p.active /\ q.update = p.update /\ q.deleted = p.deleted
             /\ q.size = [p.size EXCEPT ![g] = @ + 1]
             /\ \/ q.failed = None /\ GroupQueue(q.groups, q.size)
                \/ q.failed = "port_get_iocp_handle" /\ ~p.iocp
  <2> DEFINE size == [a.size EXCEPT ![g] = @ + 1]
  <2>1. /\ q \in PortType
        /\ q.iocp = a.iocp /\ q.tree = a.tree /\ q.sock = a.sock /\ q.afd = a.afd
        /\ q.active = a.active /\ q.failed = a.failed /\ q.update = a.update /\ q.deleted = a.deleted
        /\ q.size = size
        /\ q.groups = IF size[g] = MaxGroupSize THEN <<g>> \o Without(a.groups, g) ELSE a.groups
    BY <1>2, TakenIs
  <2> HIDE DEF q
  <2>2. CASE a.failed = None
    <3>1. a.groups \in Seq(Groups) /\ a.size \in [Groups -> Int] /\ GroupQueue(a.groups, a.size)
          /\ a.groups # <<>> /\ g = Last(a.groups) /\ a.size[g] < MaxGroupSize
      BY <1>2, <2>2 DEF PortType, None
    <3>2. /\ size[g] # MaxGroupSize => GroupQueue(a.groups, size)
          /\ size[g] = MaxGroupSize => GroupQueue(<<g>> \o Without(a.groups, g), size)
      BY <3>1, GroupFilled
    <3> HIDE DEF size
    <3>3. GroupQueue(q.groups, q.size)
      BY <2>1, <3>2
    <3> QED
      BY <1>2, <2>1, <2>2, <3>3 DEF size
  <2>3. CASE a.failed # None
    BY <1>2, <2>1, <2>3
  <2> QED
    BY <2>2, <2>3
<1>3. CASE LastHasRoom(p)
  <2>1. q = GroupTaken(p, g) /\ g = Last(p.groups)
    BY <1>3 DEF GroupAcquire, GroupFor
  <2>2. p.groups # <<>> /\ p.size[g] < MaxGroupSize
    BY <1>3, <2>1 DEF LastHasRoom
  <2> HIDE DEF q
  <2> QED
    BY <1>1, <1>2, <2>1, <2>2 DEF q
<1>4. CASE ~LastHasRoom(p) /\ p.iocp
  <2> DEFINE w == Append(p.groups, g)
             a == [p EXCEPT !.groups = w]
  <2>1. q = GroupTaken(a, g) /\ g = Len(p.groups) + 1
    BY <1>4 DEF GroupAcquire, GroupFor
  <2>2. w \in Seq(Groups) /\ GroupQueue(w, p.size) /\ w # <<>> /\ Last(w) = g /\ p.size[g] = 0
    BY <1>1, <2>1, GroupMade
  <2> HIDE DEF w
  <2>3. /\ a \in PortType /\ a.iocp = p.iocp /\ a.tree = p.tree /\ a.sock = p.sock /\ a.afd = p.afd
        /\ a.active = p.active /\ a.update = p.update /\ a.deleted = p.deleted /\ a.size = p.size
        /\ a.failed = p.failed /\ a.groups = w
    BY <2>2 DEF PortType
  <2>4. a.size[g] < MaxGroupSize
    BY <2>2, <2>3, GroupAssumption
  <2> HIDE DEF q, a
  <2> QED
    BY <1>2, <2>1, <2>2, <2>3, <2>4 DEF q
<1>5. CASE ~LastHasRoom(p) /\ ~p.iocp
  <2> DEFINE name == "port_get_iocp_handle"
             a == [p EXCEPT !.failed = name]
  <2>1. q = GroupTaken(Fail(p, name), g)
    BY <1>5 DEF GroupAcquire
  <2>2. Fail(p, name) = a
    BY DEF Fail
  <2>5. name \in {None, "port_get_iocp_handle"}
    BY DEF name
  <2> HIDE DEF name
  <2>3. /\ a \in PortType /\ a.iocp = p.iocp /\ a.tree = p.tree /\ a.sock = p.sock /\ a.afd = p.afd
        /\ a.active = p.active /\ a.update = p.update /\ a.deleted = p.deleted /\ a.size = p.size
        /\ a.failed = name
    BY <2>5 DEF PortType
  <2>4. q = GroupTaken(a, g)
    BY <2>1, <2>2
  <2> HIDE DEF q, a
  <2> QED
    BY <1>2, <1>5, <2>3, <2>4 DEF q, name
<1> QED
  BY <1>3, <1>4, <1>5 DEF q

\* sock_new() and its way back
LEMMA NewKeeps ==
  ASSUME NEW p, Shape(p), p.failed = None, NEW o \in OsSockets, p.tree[o] = NoId,
         NEW s \in SockIds, ~p.sock[s].used, NEW g \in Groups, g = GroupFor(p)
  PROVE  LET q == SockNew(p, o, s, g) IN
         /\ Shape(q) /\ s \in Staying(q)
         /\ q.iocp = p.iocp /\ q.active = p.active /\ q.update = p.update /\ q.afd = p.afd
         /\ q.failed # None => ~p.iocp
         /\ \A r \in SockIds \ {s} : q.sock[r] = p.sock[r]
<1> DEFINE q == SockNew(p, o, s, g)
           a == GroupAcquire(p, g)
           c == [FreeSock EXCEPT !.used = TRUE, !.base = o, !.group = g]
<1>1. /\ p \in PortType /\ p.sock \in [SockIds -> SockType] /\ p.tree \in [OsSockets -> 0..MaxSocks]
      /\ p.size \in [Groups -> Int] /\ GroupsRight(p)
  BY DEF Shape, PortType
<1>2. /\ a \in PortType
      /\ a.iocp = p.iocp /\ a.tree = p.tree /\ a.sock = p.sock /\ a.afd = p.afd
      /\ a.active = p.active /\ a.update = p.update /\ a.deleted = p.deleted
      /\ a.size = [p.size EXCEPT ![g] = @ + 1]
      /\ \/ a.failed = None /\ GroupQueue(a.groups, a.size)
         \/ a.failed = "port_get_iocp_handle" /\ ~p.iocp
  BY <1>1, AcquireKeeps
<1>3. /\ c \in SockType /\ c.used /\ c.base = o /\ c.group = g /\ ~c.deleting
      /\ c.status = "idle" /\ c.pending = {}
  <2>1. /\ FreeSock \in SockType /\ ~FreeSock.deleting
        /\ FreeSock.status = "idle" /\ FreeSock.pending = {}
    BY GroupAssumption DEF FreeSock, SockType, NoId
  <2>2. g \in 0..MaxGroups /\ o \in OsSockets \cup {None}
    BY GroupAssumption DEF Groups
  <2> QED
    BY <2>1, <2>2 DEF SockType
<1> DEFINE tree == [p.tree EXCEPT ![o] = s]
           sock == [p.sock EXCEPT ![s] = c]
<1>4. q = [a EXCEPT !.tree = tree, !.sock = sock]
  BY <1>2 DEF SockNew
<1> HIDE DEF a, c
<1>5. /\ q \in PortType
      /\ q.iocp = a.iocp /\ q.afd = a.afd /\ q.active = a.active /\ q.update = a.update
      /\ q.deleted = a.deleted /\ q.size = a.size /\ q.groups = a.groups /\ q.failed = a.failed
      /\ q.tree = tree /\ q.sock = sock
  <2>1. tree \in [OsSockets -> 0..MaxSocks]
    <3>1. s \in 0..MaxSocks
      BY GroupAssumption DEF SockIds
    <3> QED
      BY <1>1, <3>1
  <2>2. sock \in [SockIds -> SockType]
    BY <1>1, <1>3
  <2> HIDE DEF tree, sock
  <2> QED
    BY <1>2, <1>4, <2>1, <2>2 DEF PortType
<1> HIDE DEF q
<1>6. /\ q.sock[s] = c /\ \A r \in SockIds \ {s} : q.sock[r] = p.sock[r]
      /\ q.tree[o] = s /\ \A b \in OsSockets \ {o} : q.tree[b] = p.tree[b]
  BY <1>1, <1>5
<1>7. /\ Staying(q) = Staying(p) \cup {s} /\ s \notin Staying(p)
      /\ Leaving(q) = Leaving(p)
  BY <1>3, <1>6 DEF Staying, Leaving
<1>8. \A r \in SockIds : PollRight(q, r)
  <2>1. p.afd[s] = NoPoll
    BY DEF Shape, PollRight, FreeSock
  <2> QED
    BY <1>2, <1>3, <1>5, <1>6, <2>1 DEF Shape, PollRight
<1>9. TreeRight(q)
  <2>1. \A r \in Staying(p) : r \in SockIds /\ r # s /\ p.sock[r].base \in OsSockets
                              /\ p.tree[p.sock[r].base] = r /\ p.sock[r].base # o
    <3> SUFFICES ASSUME NEW r \in Staying(p)
                 PROVE  r \in SockIds /\ r # s /\ p.sock[r].base \in OsSockets
                        /\ p.tree[p.sock[r].base] = r /\ p.sock[r].base # o
      OBVIOUS
    <3>1. r \in SockIds /\ r # s /\ p.sock[r].base \in OsSockets /\ p.tree[p.sock[r].base] = r
      BY <1>7 DEF Shape, TreeRight, Staying
    <3>2. r # NoId
      BY <3>1, GroupAssumption DEF SockIds, NoId
    <3> QED
      BY <3>1, <3>2
  <2>2. \A r \in Staying(q) : q.sock[r].base \in OsSockets /\ q.tree[q.sock[r].base] = r
    BY <1>3, <1>6, <1>7, <2>1
  <2>3. \A b \in OsSockets : q.tree[b] # NoId => q.tree[b] \in Staying(q) /\ q.sock[q.tree[b]].base = b
    BY <1>3, <1>6, <1>7, <2>1 DEF Shape, TreeRight
  <2> QED
    BY <2>2, <2>3 DEF TreeRight
<1>10. QueueRight(q)
  BY <1>2, <1>5, <1>7 DEF Shape, QueueRight
<1>11. GroupsRight(q)
  <2> SUFFICES ASSUME q.failed = None
               PROVE  /\ GroupQueue(q.groups, q.size)
                      /\ \A h \in Groups : q.size[h] = Cardinality(Members(q, h))
    BY DEF GroupsRight
  <2>1. GroupQueue(q.groups, q.size)
    BY <1>2, <1>5 DEF None
  <2>2. Members(q, g) = Members(p, g) \cup {s} /\ s \notin Members(p, g)
    BY <1>3, <1>6 DEF Members
  <2>3. \A h \in Groups \ {g} : Members(q, h) = Members(p, h)
    BY <1>3, <1>6 DEF Members
  <2>4. Cardinality(Members(q, g)) = Cardinality(Members(p, g)) + 1
    <3>1. IsFiniteSet(Members(p, g))
      BY MembersFinite
    <3> QED
      BY <2>2, <3>1, FS_AddElement
  <2>5. q.size[g] = p.size[g] + 1 /\ \A h \in Groups \ {g} : q.size[h] = p.size[h]
    BY <1>1, <1>2, <1>5
  <2>6. \A h \in Groups : p.size[h] = Cardinality(Members(p, h))
    BY <1>1 DEF GroupsRight
  <2> QED
    BY <2>1, <2>3, <2>4, <2>5, <2>6
<1>12. Shape(q)
  BY <1>2, <1>5, <1>8, <1>9, <1>10, <1>11 DEF Shape
<1> QED
  BY <1>2, <1>5, <1>6, <1>7, <1>12 DEF q, None

\* sock_new() that fails gives back the place in the group.
LEMMA NewFailsKeeps ==
  ASSUME NEW p, PortInv(p), p.failed = None, NEW g \in Groups, g = GroupFor(p)
  PROVE  LET q == SockNewFails(p, g) IN
         /\ PortInv(q)
         /\ q.iocp = p.iocp /\ q.active = p.active /\ q.update = p.update /\ q.afd = p.afd
         /\ q.failed # None => ~p.iocp
<1> DEFINE q == SockNewFails(p, g)
           a == GroupAcquire(p, g)
<1>1. p \in PortType /\ p.size \in [Groups -> Int] /\ GroupsRight(p)
  BY DEF PortInv, Shape, PortType
<1>2. /\ a \in PortType
      /\ a.iocp = p.iocp /\ a.tree = p.tree /\ a.sock = p.sock /\ a.afd = p.afd
      /\ a.active = p.active /\ a.update = p.update /\ a.deleted = p.deleted
      /\ a.size = [p.size EXCEPT ![g] = @ + 1]
      /\ \/ a.failed = None /\ GroupQueue(a.groups, a.size)
         \/ a.failed = "port_get_iocp_handle" /\ ~p.iocp
  BY <1>1, AcquireKeeps
<1>3. q = GroupRelease(a, g)
  BY DEF SockNewFails
<1> HIDE DEF a, q
<1>4. p.size[g] \in Nat
  <2>1. p.size[g] \in 0..MaxGroupSize
    BY <1>1 DEF GroupsRight, GroupQueue
  <2> QED
    BY <2>1
<1>5. a.size[g] = p.size[g] + 1
  BY <1>1, <1>2
<1>6. a.failed = None => a.size[g] \in 1..MaxGroupSize
  <2>1. ASSUME a.failed = None PROVE a.size[g] \in 0..MaxGroupSize
    BY <1>2, <2>1 DEF GroupQueue, None
  <2> QED
    BY <1>4, <1>5, <2>1, GroupAssumption
<1>7. /\ q \in PortType
      /\ q.iocp = a.iocp /\ q.tree = a.tree /\ q.sock = a.sock /\ q.afd = a.afd
      /\ q.active = a.active /\ q.failed = a.failed /\ q.update = a.update /\ q.deleted = a.deleted
      /\ q.groups = Append(Without(a.groups, g), g)
      /\ q.size = [a.size EXCEPT ![g] = @ - 1]
  <2>1. a \in PortType
    BY <1>2
  <2>2. LET r == GroupRelease(a, g) IN
         /\ r \in PortType
         /\ r.iocp = a.iocp /\ r.tree = a.tree /\ r.sock = a.sock /\ r.afd = a.afd
         /\ r.active = a.active /\ r.failed = a.failed /\ r.update = a.update /\ r.deleted = a.deleted
         /\ r.groups = Append(Without(a.groups, g), g)
         /\ r.size = [a.size EXCEPT ![g] = @ - 1]
    BY <2>1, <1>6, ReleaseIs
  <2> QED
    BY <1>3, <2>2
<1>8. q.size = p.size
  BY <1>1, <1>2, <1>7
<1>9. GroupsRight(q)
  <2> SUFFICES ASSUME q.failed = None
               PROVE  /\ GroupQueue(q.groups, q.size)
                      /\ \A h \in Groups : q.size[h] = Cardinality(Members(q, h))
    BY DEF GroupsRight
  <2>1. a.failed = None /\ GroupQueue(a.groups, a.size) /\ a.size[g] >= 1
    BY <1>2, <1>4, <1>5, <1>7 DEF None
  <2>2. a.groups \in Seq(Groups) /\ a.size \in [Groups -> Int]
    BY <1>2 DEF PortType
  <2>3. GroupQueue(q.groups, q.size)
    BY <1>7, <2>1, <2>2, GroupEased
  <2>4. \A h : Members(q, h) = Members(p, h)
    BY <1>2, <1>7 DEF Members
  <2> QED
    BY <1>1, <1>8, <2>3, <2>4 DEF GroupsRight
<1>10. Staying(q) = Staying(p) /\ Leaving(q) = Leaving(p)
  BY <1>2, <1>7 DEF Staying, Leaving
<1>11. TreeRight(q) /\ QueueRight(q)
  BY <1>2, <1>7, <1>10 DEF PortInv, Shape, TreeRight, QueueRight
<1>12. \A r \in SockIds : PollRight(q, r) /\ Served(q, r)
  BY <1>2, <1>7, <1>10 DEF PortInv, Shape, PollRight, Served, Unwatched
<1> QED
  BY <1>2, <1>7, <1>9, <1>11, <1>12 DEF PortInv, Shape, q, None

-----------------------------------------------------------------------------
(* The life of the port.  Where a thread is: in a call with a reference,   *)
(* about to signal that it has given back the last one, or on its way      *)
(* through epoll_close()                                                   *)

Inside  == {"wait", "ctl", "polling", "woken", "unref"}
Closing == {"close", "destroy", "await", "poison", "delete", "closed"}
Labels  == {"idle", "signal"} \cup Inside \cup Closing

LifeTypeOK ==
  /\ pc \in [Threads -> Labels]
  /\ lock \in [refs : Int, state : {"live", "destroy", "poison"}]
  /\ inTree \in BOOLEAN

Counted == lock.refs = Cardinality(Holding)

\* One thread closes the port, and only when nobody can find it any more.
OneCloser ==
  /\ inTree => \A t \in Threads : pc[t] \notin Closing
  /\ \A t, u \in Threads : pc[t] \in Closing /\ pc[u] \in Closing => t = u
  /\ lock.state = "destroy" => \E t \in Threads : pc[t] \in {"await", "poison"}

\* Who signals does so when all references are given back, alone, and to a
\* thread that waits for it.
OneSignal ==
  \A t \in Threads : pc[t] = "signal" =>
    /\ Holding = {}
    /\ \E u \in Threads : pc[u] = "await"
    /\ \A u \in Threads : pc[u] = "signal" => u = t

\* After that the thread that closes the port is the only one in a call.
CloserAlone ==
  \A t \in Threads : pc[t] \in {"poison", "delete", "closed"} =>
    \A u \in Threads \ {t} : pc[u] = "idle"

Freed == ~alive => \E t \in Threads : pc[t] = "closed"

LifeInv == LifeTypeOK /\ Counted /\ OneCloser /\ OneSignal /\ CloserAlone /\ Freed

-----------------------------------------------------------------------------
\* The steps that matter to the life of the port are those of the reflock;
\* in the others a thread stays inside its call, or within epoll_close().
Stays(t) ==
  /\ UNCHANGED handle
  /\ \E l \in Inside : pc[t] \in Inside \ {"unref"} /\ Goto(t, l)

\* The steps that keep to that
LEMMA StaysSteps ==
  ASSUME NEW t \in Threads,
         \/ Poll(t) \/ (\E n \in 1..Cardinality(SockIds) : Dequeued(t, n)) \/ TimedOut(t)
         \/ WokenWithout(t) \/ WokenWithEvents(t) \/ WokenInVain(t) \/ Ctl(t)
  PROVE  Stays(t)
<1> USE DEF At, Inside, Stays, Goto
<1>1. CASE Poll(t)
  BY <1>1 DEF Poll, StartPolling, FailPolling
<1>2. CASE (\E n \in 1..Cardinality(SockIds) : Dequeued(t, n)) \/ TimedOut(t)
  BY <1>2 DEF Dequeued, TimedOut, handle
<1>3. CASE WokenWithout(t) \/ WokenWithEvents(t) \/ WokenInVain(t)
  BY <1>3 DEF WokenWithout, WokenWithEvents, WokenInVain, StartPolling, FailPolling, Leave
<1>4. CASE Ctl(t)
  BY <1>4 DEF Ctl, CtlAdd, CtlMod, CtlAddFails, CtlDel, CtlRefused
<1> QED
  BY <1>1, <1>2, <1>3, <1>4

\* Who is inside a call holds a reference, before the step and after it.
LEMMA StaysKeeps ==
  ASSUME LifeInv, NEW t \in Threads, Stays(t) PROVE LifeInv'
<1> USE DEF LifeInv, LifeTypeOK, handle, Inside, Closing, Labels
<1>1. PICK l \in Inside : pc[t] \in Inside \ {"unref"} /\ pc' = [pc EXCEPT ![t] = l]
  BY DEF Stays, Goto
<1>2. UNCHANGED <<inTree, lock, alive>>
  BY DEF Stays
<1>3. Holding' = Holding
  BY <1>1 DEF Holding
<1>4. LifeTypeOK' /\ Counted'
  BY <1>1, <1>2, <1>3 DEF Counted
<1>5. \A u \in Threads \ {t} : pc'[u] = pc[u]
  BY <1>1
<1>6. pc[t] \notin Closing /\ pc'[t] \notin Closing /\ pc[t] # "signal" /\ pc'[t] # "signal"
  BY <1>1
<1>7. OneCloser'
  BY <1>2, <1>5, <1>6 DEF OneCloser
<1>8. OneSignal'
  BY <1>2, <1>3, <1>5, <1>6 DEF OneSignal
<1>9. CloserAlone'
  BY <1>1, <1>5, <1>6 DEF CloserAlone
<1>10. Freed'
  BY <1>2, <1>5, <1>6 DEF Freed
<1> QED
  BY <1>4, <1>7, <1>8, <1>9, <1>10

-----------------------------------------------------------------------------
\* How the set of threads with a reference, and its size, change
LEMMA Joins ==
  ASSUME IsFiniteSet(Threads), Counted, NEW t \in Threads, t \notin Holding,
         Holding' = Holding \cup {t}, lock'.refs = lock.refs + 1
  PROVE  Counted'
<1>1. IsFiniteSet(Holding)
  BY FS_Subset DEF Holding
<1>2. Cardinality(Holding \cup {t}) = Cardinality(Holding) + 1
  BY <1>1, FS_AddElement
<1> QED
  BY <1>2 DEF Counted

\* ... and one less
LEMMA Departs ==
  ASSUME IsFiniteSet(Threads), Counted, NEW t \in Threads, t \in Holding,
         Holding' = Holding \ {t}, lock'.refs = lock.refs - 1
  PROVE  Counted' /\ (lock'.refs = 0 <=> Holding' = {})
<1>1. IsFiniteSet(Holding) /\ IsFiniteSet(Holding')
  BY FS_Subset DEF Holding
<1>2. Cardinality(Holding') = Cardinality(Holding) - 1
  BY <1>1, FS_RemoveElement
<1> QED
  BY <1>1, <1>2, FS_EmptySet DEF Counted

\* A call begins: nobody closes the port yet, so nobody signals.
LEMMA CallKeeps ==
  ASSUME IsFiniteSet(Threads), LifeInv, NEW t \in Threads, CallWait(t) \/ CallCtl(t) \/ CallClose(t)
  PROVE  LifeInv'
<1> USE DEF LifeInv, LifeTypeOK, Inside, Closing, Labels, At, Goto
<1>1. /\ inTree /\ pc[t] = "idle" /\ alive' = alive
      /\ lock' = [lock EXCEPT !.refs = @ + 1]
      /\ \/ inTree' = inTree /\ \E l \in Inside : pc' = [pc EXCEPT ![t] = l]
         \/ inTree' = FALSE /\ pc' = [pc EXCEPT ![t] = "close"]
  BY DEF CallWait, CallCtl, CallClose
<1>2. LifeTypeOK'
  <2>1. pc' \in [Threads -> Labels] /\ inTree' \in BOOLEAN
    BY <1>1
  <2>2. lock' \in [refs : Int, state : {"live", "destroy", "poison"}]
    BY <1>1
  <2> QED
    BY <2>1, <2>2
<1>3. Holding' = Holding \cup {t} /\ t \notin Holding
  BY <1>1 DEF Holding
<1>4. Counted'
  BY <1>1, <1>3, Joins
<1>5. \A u \in Threads : pc[u] \notin Closing /\ pc[u] # "signal"
  BY <1>1 DEF OneCloser, OneSignal
<1>6. \A u \in Threads : pc'[u] # "signal" /\ (pc'[u] \in Closing => u = t /\ pc'[u] = "close")
  BY <1>1, <1>5
<1>7. OneCloser'
  <2>1. inTree' => \A u \in Threads : pc'[u] \notin Closing
    BY <1>1, <1>5
  <2>2. lock'.state # "destroy"
    BY <1>1, <1>5 DEF OneCloser
  <2> QED
    BY <1>6, <2>1, <2>2 DEF OneCloser
<1>8. OneSignal' /\ CloserAlone'
  BY <1>6 DEF OneSignal, CloserAlone
<1>9. Freed'
  BY <1>1, <1>5 DEF Freed
<1> QED
  BY <1>2, <1>4, <1>7, <1>8, <1>9

\* A reference is given back; the last one, of a lock being destroyed, by a
\* thread that goes to signal.
LEMMA UnrefKeeps ==
  ASSUME IsFiniteSet(Threads), LifeInv, NEW t \in Threads, Unref(t) PROVE LifeInv'
<1> USE DEF LifeInv, LifeTypeOK, Inside, Closing, Labels, At, Goto
<1> DEFINE last == lock' = [refs |-> 0, state |-> "destroy"]
<1>1. /\ pc[t] = "unref" /\ UNCHANGED <<inTree, alive>>
      /\ lock' = [lock EXCEPT !.refs = @ - 1]
      /\ pc' = [pc EXCEPT ![t] = IF last THEN "signal" ELSE "idle"]
  BY DEF Unref
<1>2. LifeTypeOK'
  BY <1>1
<1>3. Holding' = Holding \ {t} /\ t \in Holding
  BY <1>1 DEF Holding
<1>4. Counted' /\ (lock'.refs = 0 <=> Holding' = {})
  BY <1>1, <1>3, Departs
<1>5. \A u \in Threads \ {t} : pc'[u] = pc[u]
  BY <1>1
<1>6. pc'[t] \in {"signal", "idle"} /\ lock'.state = lock.state
  BY <1>1
<1>7. OneCloser'
  BY <1>1, <1>5, <1>6 DEF OneCloser
<1>8. \A u \in Threads : pc[u] # "signal" /\ pc[u] \notin {"poison", "delete", "closed"}
  BY <1>1, <1>3 DEF OneSignal, CloserAlone
<1>9. OneSignal'
  <2>1. ASSUME pc'[t] = "signal" PROVE Holding' = {} /\ \E u \in Threads : pc'[u] = "await"
    <3>1. lock'.refs = 0 /\ lock.state = "destroy"
      BY <1>1, <2>1
    <3>2. PICK u \in Threads : pc[u] = "await"
      BY <1>8, <3>1 DEF OneCloser
    <3> QED
      BY <1>1, <1>4, <1>5, <3>1, <3>2
  <2> QED
    BY <1>5, <1>8, <2>1 DEF OneSignal
<1>10. CloserAlone'
  BY <1>5, <1>6, <1>8 DEF CloserAlone
<1>11. Freed'
  BY <1>1, <1>5 DEF Freed
<1> QED
  BY <1>2, <1>4, <1>7, <1>9, <1>10, <1>11

-----------------------------------------------------------------------------
\* epoll_close() gives back its own reference, and waits for the others.
LEMMA DestroyKeeps ==
  ASSUME IsFiniteSet(Threads), LifeInv, NEW t \in Threads, UnrefAndDestroy(t) PROVE LifeInv'
<1> USE DEF LifeInv, LifeTypeOK, Inside, Closing, Labels, At, Goto
<1>1. /\ pc[t] = "destroy" /\ UNCHANGED <<inTree, alive>>
      /\ lock' = [refs |-> lock.refs - 1, state |-> "destroy"]
      /\ pc' = [pc EXCEPT ![t] = IF lock.refs - 1 > 0 THEN "await" ELSE "poison"]
  BY DEF UnrefAndDestroy, Await
<1>2. LifeTypeOK'
  BY <1>1
<1>3. Holding' = Holding \ {t} /\ t \in Holding
  BY <1>1 DEF Holding
<1>4. Counted' /\ (lock'.refs = 0 <=> Holding' = {}) /\ lock'.refs \in Nat
  <2>1. lock'.refs = lock.refs - 1
    BY <1>1
  <2>2. Counted' /\ (lock'.refs = 0 <=> Holding' = {})
    BY <1>3, <2>1, Departs
  <2>3. IsFiniteSet(Holding')
    BY <1>3, FS_Subset DEF Holding
  <2>4. Cardinality(Holding') \in Nat
    BY <2>3, FS_CardinalityType
  <2> QED
    BY <2>2, <2>4 DEF Counted
<1>5. \A u \in Threads \ {t} : pc'[u] = pc[u] /\ pc[u] \notin Closing
  BY <1>1 DEF OneCloser
<1>6. \A u \in Threads : pc[u] # "signal"
  BY <1>3 DEF OneSignal
<1>7. pc'[t] \in {"await", "poison"}
  BY <1>1
<1>8. ~inTree
  BY <1>1 DEF OneCloser
<1>9. OneCloser'
  BY <1>1, <1>5, <1>7, <1>8 DEF OneCloser
<1>10. OneSignal'
  BY <1>5, <1>6, <1>7 DEF OneSignal
<1>11. CloserAlone'
  <2>1. ASSUME pc'[t] = "poison", NEW u \in Threads \ {t} PROVE pc'[u] = "idle"
    <3>1. lock'.refs = 0
      BY <1>1, <1>4, <2>1
    <3>2. pc'[u] \notin Inside
      BY <1>4, <3>1 DEF Holding
    <3> QED
      BY <1>2, <1>5, <1>6, <3>2
  <2> QED
    BY <1>5, <1>7, <2>1 DEF CloserAlone
<1>12. Freed'
  BY <1>1, <1>5 DEF Freed
<1> QED
  BY <1>2, <1>4, <1>9, <1>10, <1>11, <1>12

\* The thread that signals and the one that waits go on together.
LEMMA SignalKeeps ==
  ASSUME LifeInv, NEW t \in Threads, NEW u \in Threads, Signal(t, u) PROVE LifeInv'
<1> USE DEF LifeInv, LifeTypeOK, Inside, Closing, Labels, At, Goto, handle
<1>1. /\ pc[t] = "signal" /\ pc[u] = "await" /\ t # u /\ UNCHANGED <<inTree, lock, alive>>
      /\ pc' = [pc EXCEPT ![t] = "idle", ![u] = "poison"]
  BY DEF Signal
<1>2. LifeTypeOK'
  BY <1>1
<1>3. Holding' = Holding /\ Holding = {}
  BY <1>1 DEF Holding, OneSignal
<1>4. \A v \in Threads \ {t, u} : pc'[v] = pc[v] /\ pc[v] \notin Closing /\ pc[v] # "signal"
  BY <1>1 DEF OneCloser, OneSignal
<1>5. \A v \in Threads \ {u} : pc'[v] = "idle"
  BY <1>1, <1>3, <1>4 DEF Holding
<1>6. pc'[u] = "poison" /\ ~inTree
  BY <1>1 DEF OneCloser
<1>7. OneCloser'
  BY <1>1, <1>5, <1>6 DEF OneCloser
<1>8. Freed'
  BY <1>1, <1>4 DEF Freed
<1> QED
  BY <1>1, <1>2, <1>3, <1>5, <1>6, <1>7, <1>8 DEF Counted, OneSignal, CloserAlone

\* epoll_close() on its way: the completion handle, the lock, the port.
LEMMA CloserKeeps ==
  ASSUME LifeInv, NEW t \in Threads, PortClose(t) \/ Poison(t) \/ PortDelete(t) PROVE LifeInv'
<1> USE DEF LifeInv, LifeTypeOK, Inside, Closing, Labels, At, Goto, handle
<1>1. /\ inTree' = inTree
      /\ \/ pc[t] = "close" /\ pc' = [pc EXCEPT ![t] = "destroy"] /\ UNCHANGED <<lock, alive>>
         \/ /\ pc[t] = "poison" /\ pc' = [pc EXCEPT ![t] = "delete"]
            /\ lock' = [refs |-> 0, state |-> "poison"] /\ alive' = alive
         \/ pc[t] = "delete" /\ pc' = [pc EXCEPT ![t] = "closed"] /\ lock' = lock
  BY DEF PortClose, Poison, PortDelete
<1>2. LifeTypeOK'
  BY <1>1
<1>3. \A u \in Threads \ {t} : pc'[u] = pc[u] /\ pc[u] \notin Closing
  BY <1>1 DEF OneCloser
<1>4. pc'[t] \in {"destroy", "delete", "closed"} /\ ~inTree
  BY <1>1 DEF OneCloser
<1>5. Holding' = Holding
  BY <1>1, <1>3 DEF Holding
<1>6. Counted'
  <2>1. pc[t] = "poison" => Holding = {}
    BY DEF CloserAlone, Holding
  <2> QED
    BY <1>1, <1>5, <2>1, FS_EmptySet DEF Counted
<1>7. OneCloser'
  <2>1. lock'.state = "destroy" => \E u \in Threads : pc'[u] \in {"await", "poison"}
    BY <1>1, <1>3 DEF OneCloser
  <2> QED
    BY <1>1, <1>3, <1>4, <2>1 DEF OneCloser
<1>8. OneSignal'
  BY <1>1, <1>3, <1>4, <1>5 DEF OneSignal
<1>9. CloserAlone'
  BY <1>1, <1>3, <1>4 DEF CloserAlone
<1>10. Freed'
  BY <1>1, <1>3 DEF Freed
<1> QED
  BY <1>2, <1>6, <1>7, <1>8, <1>9, <1>10

-----------------------------------------------------------------------------
LEMMA NextLife ==
  ASSUME IsFiniteSet(Threads) PROVE LifeInv /\ [Next]_vars => LifeInv'
<1> SUFFICES ASSUME LifeInv, [Next]_vars PROVE LifeInv'
  OBVIOUS
<1>1. ASSUME UNCHANGED <<pc, handle>> PROVE LifeInv'
  BY <1>1 DEF handle, LifeInv, LifeTypeOK, Counted, Holding, OneCloser, OneSignal, CloserAlone, Freed
<1>2. ASSUME NEW t \in Threads, Step(t) PROVE LifeInv'
  BY <1>2, StaysSteps, StaysKeeps, UnrefKeeps, DestroyKeeps, SignalKeeps, CloserKeeps DEF Step
<1>3. ASSUME NEW t \in Threads, CallWait(t) \/ CallCtl(t) \/ CallClose(t) PROVE LifeInv'
  BY <1>3, CallKeeps
<1>4. ASSUME NEW t \in Threads, TimedOut(t) PROVE LifeInv'
  BY <1>4, StaysSteps, StaysKeeps
<1>5. ASSUME NEW s \in SockIds, PollEnds(s) \/ PollCancelled(s) \/ PollFails(s)
      PROVE  LifeInv'
  BY <1>1, <1>5 DEF PollEnds, PollCancelled, PollFails, Queue
<1>6. ASSUME NEW o \in OsSockets, CloseSocket(o) \/ \E e \in Ready : BecomesReady(o, e) \/ NotReady(o, e)
      PROVE  LifeInv'
  BY <1>1, <1>6 DEF CloseSocket, BecomesReady, NotReady
<1>7. CASE UNCHANGED vars
  BY <1>1, <1>7 DEF vars, handle
<1> QED
  BY <1>2, <1>3, <1>4, <1>5, <1>6, <1>7 DEF Next

\* In the beginning nobody is in a call.
LEMMA InitLife == Init => LifeInv
<1> SUFFICES ASSUME Init PROVE LifeInv
  OBVIOUS
<1>1. Holding = {}
  BY DEF Init, Holding
<1> QED
  BY <1>1, FS_EmptySet DEF Init, LifeInv, LifeTypeOK, Labels, Closing, Counted, OneCloser,
                           OneSignal, CloserAlone, Freed

(* The reflock counts the threads that use the port, and epoll_close()     *)
(* frees it only when no other thread is in a call and none can find it    *)
(* (cwepoll.c:1563, reflock_unref_and_destroy), for any number of threads.  *)
THEOREM FreedAloneCorrect ==
  ASSUME IsFiniteSet(Threads) PROVE Spec => []FreedAlone
<1>1. Init => LifeInv
  BY InitLife
<1>2. LifeInv /\ [Next]_vars => LifeInv'
  BY NextLife
<1>3. LifeInv => FreedAlone
  <2> SUFFICES ASSUME LifeInv, ~alive PROVE ~inTree /\ \A t \in Threads : pc[t] \in {"idle", "closed"}
    BY DEF LifeInv, Counted, FreedAlone
  <2>1. PICK t \in Threads : pc[t] = "closed"
    BY DEF LifeInv, Freed
  <2> QED
    BY <2>1 DEF LifeInv, OneCloser, CloserAlone, Closing
<1> QED
  BY <1>1, <1>2, <1>3, PTL DEF Spec

-----------------------------------------------------------------------------
(* The whole: the port, its life, and the completions in the hands of the  *)
(* driver and of the threads                                               *)

Occurrences == EpollToAfd(DOMAIN Asks) \cup {"failed"}
Completion == [sock : SockIds, events : SUBSET Occurrences]

\* Completions for polls that are done, each for another socket
AllDone(p, q) == \A i \in DOMAIN q : p.afd[q[i].sock].state = "done"
Once(q) == \A i, j \in DOMAIN q : q[i].sock = q[j].sock => i = j
Apart(q, r) == \A i \in DOMAIN q, j \in DOMAIN r : q[i].sock # r[j].sock

\* The completions that are queued or in the hands of a thread
HandsRight ==
  /\ packets \in Seq(Completion) /\ got \in [Threads -> Seq(Completion)]
  /\ AllDone(port, packets) /\ Once(packets)
  /\ \A t \in Threads : /\ AllDone(port, got[t]) /\ Once(got[t]) /\ Apart(packets, got[t])
                        /\ got[t] # <<>> => pc[t] = "woken"
  /\ \A t, u \in Threads : t # u => Apart(got[t], got[u])

Polling == {t \in Threads : pc[t] \in {"polling", "woken"}}
ActiveRight == port.active = Cardinality(Polling)

LockRight ==
  /\ \A t \in Threads : pc[t] \in {"await", "poison"} => lock.state = "destroy"
  /\ lock.state = "poison" => \E t \in Threads : pc[t] \in {"delete", "closed"}

CloseRight ==
  /\ \A t \in Threads : pc[t] \in Closing \ {"close"} => ~port.iocp
  /\ ~port.iocp => packets = <<>> /\ ~inTree
  /\ port.failed # None => ~port.iocp

EpollInv ==
  /\ LifeInv
  /\ failures \in Nat
  /\ PortInv(port)
  /\ HandsRight
  /\ ActiveRight
  /\ QueueServed
  /\ LockRight
  /\ CloseRight

-----------------------------------------------------------------------------
\* The completions stay where they are.
LEMMA HandsStay ==
  ASSUME HandsRight, UNCHANGED <<packets, got>>, DoneKept(port, port'),
         \A t \in Threads : pc[t] = "woken" => pc'[t] = "woken" \/ got[t] = <<>>
  PROVE  HandsRight'
<1>1. \A q \in Seq(Completion) : AllDone(port, q) => AllDone(port', q)
  <2> SUFFICES ASSUME NEW q \in Seq(Completion), AllDone(port, q), NEW i \in DOMAIN q
               PROVE  port'.afd[q[i].sock].state = "done"
    BY DEF AllDone
  <2>1. q[i] \in Completion
    OBVIOUS
  <2>2. q[i].sock \in SockIds
    BY <2>1 DEF Completion
  <2> QED
    BY <2>2 DEF AllDone, DoneKept
<1> QED
  BY <1>1 DEF HandsRight

\* A part of a queue of completions
LEMMA PartOnce ==
  ASSUME NEW q \in Seq(Completion), Once(q), NEW m \in Nat, NEW n \in Nat, m <= n, n <= Len(q)
  PROVE  LET r == SubSeq(q, m + 1, n) IN
         /\ r \in Seq(Completion) /\ Once(r)
         /\ \A i \in DOMAIN r : m + i \in DOMAIN q /\ m + i \in (m + 1)..n /\ r[i] = q[m + i]
<1> DEFINE r == SubSeq(q, m + 1, n)
<1>1. r \in Seq(Completion) /\ Len(r) = n - m /\ \A i \in 1..(n - m) : r[i] = q[m + i]
  BY PartIs
<1> HIDE DEF r
<1>2. DOMAIN r = 1..(n - m)
  BY <1>1
<1>3. \A i \in DOMAIN r : i \in Nat /\ m + i \in DOMAIN q /\ m + i \in (m + 1)..n /\ r[i] = q[m + i]
  BY <1>1, <1>2
<1>4. \A i, j \in DOMAIN r : m + i = m + j => i = j
  BY <1>3
<1>5. Once(r)
  BY <1>3, <1>4 DEF Once
<1> QED
  BY <1>1, <1>3, <1>5 DEF r

\* A thread takes the first completions.
LEMMA HandsTaken ==
  ASSUME HandsRight, port' = port, NEW t \in Threads, NEW n \in 1..Len(packets),
         pc[t] = "polling",
         got' = [got EXCEPT ![t] = SubSeq(packets, 1, n)],
         packets' = SubSeq(packets, n + 1, Len(packets)),
         \A u \in Threads \ {t} : pc'[u] = pc[u],
         pc'[t] = "woken"
  PROVE  HandsRight'
<1> DEFINE a == SubSeq(packets, 1, n)
           b == SubSeq(packets, n + 1, Len(packets))
           k == 0
<1>1. packets \in Seq(Completion) /\ Once(packets) /\ Len(packets) \in Nat /\ n \in Nat /\ n <= Len(packets)
  BY DEF HandsRight
<1>2. /\ a \in Seq(Completion) /\ Once(a)
      /\ \A i \in DOMAIN a : i \in DOMAIN packets /\ i \in 1..n /\ a[i] = packets[i]
  <2>1. /\ SubSeq(packets, k + 1, n) \in Seq(Completion) /\ Once(SubSeq(packets, k + 1, n))
        /\ \A i \in DOMAIN SubSeq(packets, k + 1, n) :
             /\ k + i \in DOMAIN packets /\ k + i \in (k + 1)..n
             /\ SubSeq(packets, k + 1, n)[i] = packets[k + i]
    <3>1. k \in Nat /\ k <= n
      BY <1>1
    <3> HIDE DEF k
    <3> QED
      BY <1>1, <3>1, PartOnce
  <2>2. k + 1 = 1
    OBVIOUS
  <2>3. SubSeq(packets, k + 1, n) = a
    BY <2>2
  <2>4. \A i \in DOMAIN a : i \in Nat
    BY <2>1, <2>3
  <2>5. \A i \in DOMAIN a : k + i = i
    BY <2>4
  <2> HIDE DEF a
  <2> QED
    BY <2>1, <2>2, <2>3, <2>5
<1>3. /\ b \in Seq(Completion) /\ Once(b)
      /\ \A i \in DOMAIN b : /\ n + i \in DOMAIN packets /\ n + i \in (n + 1)..Len(packets)
                             /\ b[i] = packets[n + i]
  BY <1>1, PartOnce
<1> HIDE DEF a, b
<1>4. Apart(b, a)
  <2> SUFFICES ASSUME NEW i \in DOMAIN b, NEW j \in DOMAIN a, b[i].sock = a[j].sock PROVE FALSE
    BY DEF Apart
  <2>1. n + i = j
    BY <1>1, <1>2, <1>3 DEF Once
  <2> QED
    BY <1>1, <1>2, <1>3, <2>1
<1>5. AllDone(port, a) /\ AllDone(port, b)
  <2>1. AllDone(port, packets)
    BY DEF HandsRight
  <2>2. AllDone(port, a)
    BY <1>2, <2>1 DEF AllDone
  <2>3. AllDone(port, b)
    BY <1>3, <2>1 DEF AllDone
  <2> QED
    BY <2>2, <2>3
<1>6. \A u \in Threads : Apart(a, got[u]) /\ Apart(b, got[u])
  BY <1>2, <1>3 DEF HandsRight, Apart
<1>7. got' = [got EXCEPT ![t] = a] /\ packets' = b /\ got \in [Threads -> Seq(Completion)]
  BY DEF a, b, HandsRight
<1>8. got'[t] = a /\ \A u \in Threads \ {t} : got'[u] = got[u]
  BY <1>7
<1>9. got' \in [Threads -> Seq(Completion)]
  BY <1>2, <1>7
<1>10. \A u \in Threads \ {t} : Apart(a, got[u]) /\ Apart(got[u], a)
  BY <1>6 DEF Apart
<1>11. \A u, v \in Threads : u # v => Apart(got'[u], got'[v])
  BY <1>8, <1>10 DEF HandsRight
<1>12. \A u \in Threads : /\ AllDone(port, got'[u]) /\ Once(got'[u]) /\ Apart(b, got'[u])
                          /\ got'[u] # <<>> => pc'[u] = "woken"
  BY <1>2, <1>4, <1>5, <1>6, <1>8 DEF HandsRight
<1> QED
  BY <1>3, <1>5, <1>7, <1>9, <1>11, <1>12 DEF HandsRight

\* A thread has told of its completions.
LEMMA HandsEmptied ==
  ASSUME HandsRight, packets' = packets, NEW t \in Threads,
         got' = [got EXCEPT ![t] = <<>>],
         \A r \in SockIds : /\ port.afd[r].state = "done"
                            /\ \A i \in DOMAIN got[t] : got[t][i].sock # r
                            => port'.afd[r].state = "done",
         \A u \in Threads \ {t} : pc'[u] = pc[u]
  PROVE  HandsRight'
<1>1. got' \in [Threads -> Seq(Completion)]
  BY DEF HandsRight
<1>2. got'[t] = <<>> /\ \A u \in Threads \ {t} : got'[u] = got[u]
  BY DEF HandsRight
<1>3. \A q \in Seq(Completion) : AllDone(port, q) /\ Apart(q, got[t]) => AllDone(port', q)
  <2> SUFFICES ASSUME NEW q \in Seq(Completion), AllDone(port, q), Apart(q, got[t]), NEW i \in DOMAIN q
               PROVE  port'.afd[q[i].sock].state = "done"
    BY DEF AllDone
  <2>1. q[i] \in Completion
    OBVIOUS
  <2>2. q[i].sock \in SockIds
    BY <2>1 DEF Completion
  <2>3. \A j \in DOMAIN got[t] : got[t][j].sock # q[i].sock
    BY DEF Apart
  <2> QED
    BY <2>2, <2>3 DEF AllDone
<1>4. AllDone(port', packets') /\ Once(packets') /\ packets' \in Seq(Completion)
  BY <1>3 DEF HandsRight
<1>5. \A q : AllDone(port', <<>>) /\ Once(<<>>) /\ Apart(q, <<>>) /\ Apart(<<>>, q)
  BY DEF AllDone, Once, Apart
<1>6. \A u \in Threads : /\ AllDone(port', got'[u]) /\ Once(got'[u]) /\ Apart(packets', got'[u])
                         /\ got'[u] # <<>> => pc'[u] = "woken"
  BY <1>2, <1>3, <1>5 DEF HandsRight
<1>7. \A u, v \in Threads : u # v => Apart(got'[u], got'[v])
  BY <1>2, <1>5 DEF HandsRight
<1> QED
  BY <1>1, <1>4, <1>6, <1>7 DEF HandsRight

\* The driver queues a completion for a poll that was not done.
LEMMA HandsQueued ==
  ASSUME HandsRight, UNCHANGED <<got, pc>>, NEW s \in SockIds, port.afd[s].state # "done",
         DoneKept(port, port'), port'.afd[s].state = "done",
         NEW c \in Completion, c.sock = s, packets' = Append(packets, c)
  PROVE  HandsRight'
<1> DEFINE n == Len(packets)
<1>1. packets \in Seq(Completion) /\ n \in Nat /\ Once(packets) /\ AllDone(port, packets)
  BY DEF HandsRight
<1>2. /\ packets' \in Seq(Completion) /\ DOMAIN packets' = 1..(n + 1) /\ DOMAIN packets = 1..n
      /\ packets'[n + 1] = c /\ \A i \in 1..n : packets'[i] = packets[i]
  BY <1>1
<1> HIDE DEF n
<1>3. \A q \in Seq(Completion) : AllDone(port, q) =>
        AllDone(port', q) /\ \A i \in DOMAIN q : q[i].sock # s
  <2> SUFFICES ASSUME NEW q \in Seq(Completion), AllDone(port, q), NEW i \in DOMAIN q
               PROVE  port'.afd[q[i].sock].state = "done" /\ q[i].sock # s
    BY DEF AllDone
  <2>1. q[i] \in Completion
    OBVIOUS
  <2>2. q[i].sock \in SockIds
    BY <2>1 DEF Completion
  <2> QED
    BY <2>2 DEF AllDone, DoneKept
<1>4. \A i \in 1..(n + 1) : i = n + 1 \/ i \in 1..n
  BY <1>1
<1>5. AllDone(port', packets')
  BY <1>1, <1>2, <1>3, <1>4 DEF AllDone
<1>6. Once(packets')
  <2>1. \A i \in 1..n : packets'[i].sock # s
    BY <1>1, <1>2, <1>3
  <2> QED
    BY <1>1, <1>2, <1>4, <2>1 DEF Once
<1>7. \A t \in Threads : Apart(packets', got[t])
  <2> SUFFICES ASSUME NEW t \in Threads, NEW i \in DOMAIN packets', NEW j \in DOMAIN got[t]
               PROVE  packets'[i].sock # got[t][j].sock
    BY DEF Apart
  <2>1. got[t] \in Seq(Completion) /\ AllDone(port, got[t]) /\ Apart(packets, got[t])
    BY DEF HandsRight
  <2>2. CASE i = n + 1
    <3>1. packets'[i].sock = s
      BY <1>2, <2>2
    <3>2. got[t][j].sock # s
      BY <1>3, <2>1
    <3> QED
      BY <3>1, <3>2
  <2>3. CASE i \in 1..n
    <3>1. packets'[i] = packets[i] /\ i \in DOMAIN packets
      BY <1>2, <2>3
    <3>2. packets[i].sock # got[t][j].sock
      BY <2>1, <3>1 DEF Apart
    <3> QED
      BY <3>1, <3>2
  <2> QED
    BY <1>2, <1>4, <2>2, <2>3
<1>8. \A t \in Threads : got[t] \in Seq(Completion) /\ AllDone(port', got[t])
  BY <1>3 DEF HandsRight
<1> QED
  BY <1>2, <1>5, <1>6, <1>7, <1>8 DEF HandsRight

-----------------------------------------------------------------------------
(* The steps of epoll_ctl() and epoll_wait()                               *)

\* The updates, as the calls make them: all of them, or fewer and a failure
LEMMA AllKeeps ==
  ASSUME NEW p, PortInv(p), NEW q, q = UpdateFirst(p, Len(p.update), open)
  PROVE  AllWell(p, q) /\ q.update = <<>>
<1>1. Len(p.update) \in 0..Len(p.update)
  BY DEF PortInv, Shape, PortType
<1> QED
  BY <1>1, UpdateFirstKeeps

\* ... a part of them
LEMMA SomeKeeps ==
  ASSUME NEW p, PortInv(p), NEW n \in 0..(Len(p.update) - 1)
  PROVE  AllWell(p, UpdateFirst(p, n, open))
<1>1. n \in 0..Len(p.update)
  BY DEF PortInv, Shape, PortType
<1> QED
  BY <1>1, UpdateFirstKeeps

\* port__update_events_if_polling()
LEMMA IfPollingKeeps ==
  ASSUME failures \in Nat, NEW p, NEW q, PortInv(p), UpdatesIfPolling(p, q)
  PROVE  /\ AllWell(p, q) /\ failures' \in Nat
         /\ q.active > 0 /\ failures' = 0 => q.update = <<>>
<1>1. CASE p.active > 0 /\ UpdatesAll(p, q)
  BY <1>1, AllKeeps DEF UpdatesAll
<1>2. CASE p.active > 0 /\ UpdatesSome(p, q)
  BY <1>2, SomeKeeps DEF UpdatesSome
<1>3. CASE ~(p.active > 0)
  BY <1>3 DEF UpdatesIfPolling, AllWell, DoneKept
<1> QED
  BY <1>1, <1>2, <1>3 DEF UpdatesIfPolling

\* active_poll_count matters to nothing else in a port.
LEMMA ActiveSet ==
  ASSUME NEW p, PortInv(p), NEW k \in Int
  PROVE  LET q == [p EXCEPT !.active = k] IN
         /\ PortInv(q) /\ q.active = k
         /\ q.iocp = p.iocp /\ q.afd = p.afd /\ q.failed = p.failed /\ q.update = p.update
         /\ q.sock = p.sock /\ q.tree = p.tree /\ q.deleted = p.deleted
<1> DEFINE q == [p EXCEPT !.active = k]
<1>1. /\ q \in PortType /\ q.active = k
      /\ q.iocp = p.iocp /\ q.afd = p.afd /\ q.failed = p.failed /\ q.update = p.update
      /\ q.sock = p.sock /\ q.tree = p.tree /\ q.deleted = p.deleted
      /\ q.groups = p.groups /\ q.size = p.size
  BY DEF PortInv, Shape, PortType
<1> HIDE DEF q
<1>2. Staying(q) = Staying(p) /\ Leaving(q) = Leaving(p) /\ \A g : Members(q, g) = Members(p, g)
  BY <1>1 DEF Staying, Leaving, Members
<1>3. TreeRight(q) /\ QueueRight(q)
  BY <1>1, <1>2 DEF PortInv, Shape, TreeRight, QueueRight
<1>4. GroupsRight(q)
  BY <1>1, <1>2 DEF PortInv, Shape, GroupsRight
<1>5. \A s \in SockIds : PollRight(q, s) /\ Served(q, s)
  BY <1>1, <1>2 DEF PortInv, Shape, PollRight, Served, Unwatched
<1> QED
  BY <1>1, <1>3, <1>4, <1>5 DEF PortInv, Shape, q

\* port__poll() that gets as far as giving the lock back
LEMMA StartPollingKeeps ==
  ASSUME NEW p, PortInv(p), NEW t \in Threads, StartPolling(t, p)
  PROVE  /\ PortInv(port') /\ DoneKept(p, port')
         /\ port'.iocp = p.iocp /\ port'.active = p.active + 1 /\ port'.failed = p.failed
         /\ port'.update = <<>> /\ failures' = failures
<1> DEFINE k == p.active + 1
           a == [p EXCEPT !.active = k]
<1>1. k \in Int
  BY DEF PortInv, Shape, PortType
<1>2. port' = UpdateFirst(a, Len(a.update), open) /\ failures' = failures
  BY DEF StartPolling, UpdatesAll
<1> HIDE DEF k
<1>3. PortInv(a) /\ a.active = k /\ a.iocp = p.iocp /\ a.afd = p.afd /\ a.failed = p.failed
  BY <1>1, ActiveSet
<1> HIDE DEF a
<1>4. AllWell(a, port') /\ port'.update = <<>>
  BY <1>2, <1>3, AllKeeps
<1> QED
  BY <1>2, <1>3, <1>4 DEF AllWell, DoneKept, k

\* Updates, and updates again
LEMMA WellTwice ==
  ASSUME NEW p, NEW q, NEW r, AllWell(p, q), AllWell(q, r) PROVE AllWell(p, r)
BY DEF AllWell, DoneKept

\* port__poll() whose updates fail
LEMMA FailPollingKeeps ==
  ASSUME failures \in Nat, NEW p, PortInv(p), NEW t \in Threads, FailPolling(t, p)
  PROVE  AllWell(p, port') /\ failures' \in Nat /\ failures' # 0
<1>1. failures' = failures + 1
  BY DEF FailPolling
<1>2. PICK n \in 0..(Len(p.update) - 1) :
        LET q == UpdateFirst(p, n, open) IN port' = q \/ port' = UpdateFirst(q, Len(q.update), open)
  BY DEF FailPolling
<1> DEFINE q == UpdateFirst(p, n, open)
<1>3. AllWell(p, q)
  BY SomeKeeps
<1>4. port' = q \/ port' = UpdateFirst(q, Len(q.update), open)
  BY <1>2
<1> HIDE DEF q
<1>5. PortInv(q)
  BY <1>3 DEF AllWell
<1>6. port' = q \/ AllWell(q, port')
  BY <1>4, <1>5, AllKeeps
<1> QED
  BY <1>1, <1>3, <1>6, WellTwice

-----------------------------------------------------------------------------
\* The threads that wait for completions are counted.
LEMMA ActiveKeeps ==
  ASSUME IsFiniteSet(Threads), LifeInv, ActiveRight, NEW t \in Threads, NEW l, Goto(t, l),
         port'.active = port.active - (IF pc[t] \in {"polling", "woken"} THEN 1 ELSE 0)
                                    + (IF l \in {"polling", "woken"} THEN 1 ELSE 0)
  PROVE  ActiveRight'
<1> DEFINE in == {"polling", "woken"}
<1>1. pc' = [pc EXCEPT ![t] = l] /\ pc'[t] = l /\ \A u \in Threads \ {t} : pc'[u] = pc[u]
  BY DEF Goto, LifeInv, LifeTypeOK
<1>2. IsFiniteSet(Polling) /\ Cardinality(Polling) \in Nat
  BY FS_Subset, FS_CardinalityType DEF Polling
<1>3. /\ l \in in => Polling' = Polling \cup {t}
      /\ l \notin in => Polling' = Polling \ {t}
      /\ t \in Polling <=> pc[t] \in in
  BY <1>1 DEF Polling
<1>4. CASE pc[t] \in in
  <2>1. t \in Polling /\ Polling \cup {t} = Polling
    BY <1>3, <1>4
  <2>2. Cardinality(Polling \ {t}) = Cardinality(Polling) - 1
    BY <1>2, <2>1, FS_RemoveElement
  <2>3. port'.active = IF l \in in THEN port.active - 1 + 1 ELSE port.active - 1 + 0
    BY <1>4
  <2> HIDE DEF in
  <2> QED
    BY <1>2, <1>3, <2>1, <2>2, <2>3 DEF ActiveRight
<1>5. CASE pc[t] \notin in
  <2>1. t \notin Polling /\ Polling \ {t} = Polling
    BY <1>3, <1>5
  <2>2. Cardinality(Polling \cup {t}) = Cardinality(Polling) + 1
    BY <1>2, <2>1, FS_AddElement
  <2>3. port'.active = IF l \in in THEN port.active - 0 + 1 ELSE port.active - 0 + 0
    BY <1>5
  <2> HIDE DEF in
  <2>4. CASE l \in in
    <3>1. Polling' = Polling \cup {t}
      BY <1>3, <2>4
    <3>2. port'.active = port.active + 1
      BY <1>2, <2>3, <2>4 DEF ActiveRight
    <3> QED
      BY <2>2, <3>1, <3>2 DEF ActiveRight
  <2>5. CASE l \notin in
    <3>1. Polling' = Polling
      BY <1>3, <2>1, <2>5
    <3>2. port'.active = port.active
      BY <1>2, <2>3, <2>5 DEF ActiveRight
    <3> QED
      BY <3>1, <3>2 DEF ActiveRight
  <2> QED
    BY <2>4, <2>5
<1> QED
  BY <1>4, <1>5

\* A thread that goes on within epoll_ctl() or epoll_wait()
LEMMA StaysRight ==
  ASSUME EpollInv, LifeInv', NEW t \in Threads, Stays(t),
         failures' \in Nat, PortInv(port'), HandsRight', ActiveRight', QueueServed',
         port'.iocp = port.iocp, port'.failed # None => ~port.iocp,
         packets = <<>> => packets' = <<>>
  PROVE  EpollInv'
<1>1. PICK l \in Inside : pc[t] \in Inside /\ pc' = [pc EXCEPT ![t] = l] /\ UNCHANGED <<inTree, lock>>
  BY DEF Stays, Goto, handle
<1>2. pc \in [Threads -> Labels]
  BY DEF EpollInv, LifeInv, LifeTypeOK
<1>3. /\ \A u \in Threads \ {t} : pc'[u] = pc[u]
      /\ pc'[t] \notin Closing /\ pc[t] \notin Closing
  BY <1>1, <1>2 DEF Inside, Closing
<1>4. LockRight'
  BY <1>1, <1>3 DEF EpollInv, LockRight, Closing
<1>5. CloseRight'
  BY <1>1, <1>3 DEF EpollInv, CloseRight
<1> QED
  BY <1>4, <1>5 DEF EpollInv

\* A port on its way through epoll_ctl()
CtlWell(q) ==
  /\ PortInv(q) /\ DoneKept(port, q)
  /\ q.iocp = port.iocp /\ q.active = port.active
  /\ q.failed # None => ~port.iocp

\* A step about one socket, which is served after it
LEMMA OneChanged ==
  ASSUME NEW p, NEW q, NEW s \in SockIds, Shape(q), Only(p, q, s), Served(q, s),
         \A r \in SockIds \ {s} : Served(p, r)
  PROVE  PortInv(q)
BY OthersServed DEF PortInv

\* epoll_ctl() ends with the updates.
LEMMA CtlUpdates ==
  ASSUME EpollInv, NEW p, CtlWell(p), UpdatesIfPolling(p, port')
  PROVE  CtlWell(port') /\ failures' \in Nat /\ QueueServed'
<1>1. /\ AllWell(p, port') /\ failures' \in Nat
      /\ port'.active > 0 /\ failures' = 0 => port'.update = <<>>
  BY IfPollingKeeps DEF EpollInv, CtlWell
<1> QED
  BY <1>1 DEF AllWell, CtlWell, DoneKept, QueueServed

\* ... begins with the request of the user,
LEMMA SetEventWell ==
  ASSUME NEW p, NEW s \in SockIds, Shape(p), s \in Staying(p), NEW request \in Requests,
         p.afd = port.afd, p.iocp = port.iocp, p.active = port.active,
         p.failed # None => ~port.iocp,
         \A r \in SockIds \ {s} : Served(p, r)
  PROVE  CtlWell(SetEvent(p, s, request))
<1> DEFINE q == SetEvent(p, s, request)
<1>1. Shape(q) /\ Only(p, q, s) /\ Served(q, s) /\ DoneKept(p, q)
  BY SetEventKeeps DEF Well
<1> HIDE DEF q
<1>2. PortInv(q)
  BY <1>1, OneChanged
<1> QED
  BY <1>1, <1>2 DEF CtlWell, DoneKept, Only, q

\* ... for a socket that is new, in the first free place,
LEMMA AddWell ==
  ASSUME EpollInv, port.failed = None, NEW o \in OsSockets, port.tree[o] = NoId,
         NEW free, free = {s \in SockIds : ~port.sock[s].used}, free # {},
         NEW g \in Groups, g = GroupFor(port), NEW request \in Requests
  PROVE  CtlWell(SetEvent(SockNew(port, o, Min(free), g), Min(free), request))
<1> DEFINE s == Min(free)
           q == SockNew(port, o, s, g)
<1>1. s \in SockIds /\ ~port.sock[s].used
  <2>1. free \subseteq Nat
    BY DEF SockIds
  <2>2. \E m \in free : \A k \in free : m <= k
    BY <2>1, LeastNumber
  <2>3. s \in free
    BY <2>2 DEF Min
  <2> QED
    BY <2>3
<1> HIDE DEF s
<1>2. PortInv(port)
  BY DEF EpollInv
<1>3. /\ Shape(q) /\ s \in Staying(q)
      /\ q.iocp = port.iocp /\ q.active = port.active /\ q.update = port.update /\ q.afd = port.afd
      /\ q.failed # None => ~port.iocp
      /\ \A r \in SockIds \ {s} : q.sock[r] = port.sock[r]
  BY <1>1, <1>2, NewKeeps DEF PortInv
<1> HIDE DEF q
<1>4. \A r \in SockIds \ {s} : Served(q, r)
  BY <1>2, <1>3 DEF PortInv, Served, Staying, Leaving, Unwatched
<1>5. CtlWell(SetEvent(q, s, request))
  BY <1>1, <1>3, <1>4, SetEventWell
<1> QED
  BY <1>5 DEF q, s

\* What the calls of epoll_ctl() leave
LEMMA CtlSteps ==
  ASSUME EpollInv, NEW t \in Threads, Ctl(t)
  PROVE  /\ CtlWell(port') /\ failures' \in Nat /\ QueueServed'
         /\ UNCHANGED <<packets, got>> /\ pc[t] = "ctl" /\ Goto(t, "unref")
<1>1. PortInv(port) /\ Shape(port) /\ failures \in Nat /\ QueueServed
  BY DEF EpollInv, PortInv
<1>0. UNCHANGED <<packets, got>> /\ pc[t] = "ctl" /\ Goto(t, "unref")
  BY DEF Ctl, CtlAdd, CtlAddFails, CtlMod, CtlDel, CtlRefused, At, kernel
<1>2. ASSUME NEW o \in OsSockets, NEW request \in Requests, CtlAdd(t, o, request)
      PROVE  CtlWell(port') /\ failures' \in Nat /\ QueueServed'
  <2> DEFINE free == {s \in SockIds : ~port.sock[s].used}
             g == GroupFor(port)
             p == SetEvent(SockNew(port, o, Min(free), g), Min(free), request)
  <2>1. /\ port.failed = None /\ port.tree[o] = NoId /\ free # {} /\ g \in Groups
        /\ UpdatesIfPolling(p, port')
    BY <1>2 DEF CtlAdd, At
  <2>2. CtlWell(p)
    BY <2>1, AddWell
  <2> HIDE DEF p
  <2> QED
    BY <2>1, <2>2, CtlUpdates
<1>3. ASSUME NEW o \in OsSockets, NEW request \in Requests, CtlMod(t, o, request)
      PROVE  CtlWell(port') /\ failures' \in Nat /\ QueueServed'
  <2> DEFINE s == port.tree[o]
             p == SetEvent(port, s, request)
  <2>1. port.failed = None /\ s # NoId /\ UpdatesIfPolling(p, port')
    BY <1>3 DEF CtlMod, At
  <2>2. s \in Staying(port) /\ s \in SockIds
    BY <1>1, <2>1 DEF Shape, TreeRight, Staying
  <2>3. CtlWell(p)
    BY <1>1, <2>1, <2>2, SetEventWell DEF PortInv
  <2> HIDE DEF p
  <2> QED
    BY <2>1, <2>3, CtlUpdates
<1>4. CASE CtlAddFails(t)
  <2> DEFINE g == GroupFor(port)
  <2>1. port.failed = None /\ g \in Groups /\ port' = SockNewFails(port, g) /\ failures' = failures
    BY <1>4 DEF CtlAddFails, At
  <2>2. /\ PortInv(port')
        /\ port'.iocp = port.iocp /\ port'.active = port.active /\ port'.update = port.update
        /\ port'.afd = port.afd
        /\ port'.failed # None => ~port.iocp
    BY <1>1, <2>1, NewFailsKeeps
  <2>3. CtlWell(port')
    BY <2>2 DEF CtlWell, DoneKept
  <2>4. QueueServed'
    BY <1>1, <2>1, <2>2 DEF QueueServed
  <2> QED
    BY <1>1, <1>0, <2>1, <2>3, <2>4
<1>5. ASSUME NEW o \in OsSockets, CtlDel(t, o)
      PROVE  CtlWell(port') /\ failures' \in Nat /\ QueueServed'
  <2> DEFINE s == port.tree[o]
             q == port'
  <2>1. /\ port.failed = None /\ s # NoId
        /\ \/ q = SockDelete(port, s) /\ failures' = failures
           \/ /\ q = SockDeleteUncancelled(port, s) /\ failures' = failures + 1
              /\ port.sock[s].status = "pending"
    BY <1>5 DEF CtlDel, Deletes, At
  <2>2. s \in SockIds /\ port.sock[s].used /\ s \in Staying(port)
    BY <1>1, <2>1 DEF Shape, TreeRight, Staying
  <2>3. /\ Shape(q) /\ Only(port, q, s) /\ Served(q, s) /\ s \notin ToSet(q.update)
        /\ port.afd[s].state = "done" => q.afd[s].state = "done"
    BY <1>1, <2>1, <2>2, DeleteKeeps, UncancelledKeeps
  <2> HIDE DEF q
  <2>4. PortInv(q) /\ DoneKept(port, q)
    BY <1>1, <2>2, <2>3, OneChanged, OnlyDone DEF PortInv
  <2>5. q.iocp = port.iocp /\ q.active = port.active /\ q.failed = port.failed
        /\ ToSet(q.update) \ {s} = ToSet(port.update) \ {s}
    BY <2>3 DEF Only
  <2>6. port.update = <<>> => q.update = <<>>
    <3>1. port.update = <<>> => ToSet(port.update) = {}
      BY DEF ToSet
    <3>2. port.update = <<>> => ToSet(q.update) = {}
      BY <2>3, <2>5, <3>1
    <3>3. q.update \in Seq(SockIds)
      BY <2>3 DEF Shape, PortType
    <3> QED
      BY <3>2, <3>3, NoneIsEmpty
  <2> QED
    BY <1>1, <2>1, <2>4, <2>5, <2>6 DEF CtlWell, QueueServed, q
<1>6. CASE CtlRefused(t)
  <2>1. port.failed = None /\ port' = port /\ failures' = failures
    BY <1>6 DEF CtlRefused, At
  <2>2. CtlWell(port)
    BY <1>1, <2>1 DEF CtlWell, DoneKept
  <2>3. CtlWell(port')
    BY <2>1, <2>2
  <2>4. QueueServed'
    BY <1>1, <2>1 DEF QueueServed
  <2> QED
    BY <1>1, <1>0, <2>1, <2>3, <2>4
<1> QED
  BY <1>2, <1>3, <1>4, <1>5, <1>6, <1>0 DEF Ctl

\* epoll_ctl() keeps the invariant.
LEMMA CtlRight ==
  ASSUME IsFiniteSet(Threads), EpollInv, LifeInv', NEW t \in Threads, Ctl(t)
  PROVE  EpollInv'
<1>1. /\ CtlWell(port') /\ failures' \in Nat /\ QueueServed'
      /\ UNCHANGED <<packets, got>> /\ pc[t] = "ctl" /\ Goto(t, "unref")
  BY CtlSteps
<1>2. HandsRight'
  <2>1. \A u \in Threads : pc[u] = "woken" => pc'[u] = "woken"
    BY <1>1 DEF Goto, EpollInv, LifeInv, LifeTypeOK
  <2> QED
    BY <1>1, <2>1, HandsStay DEF EpollInv, CtlWell
<1>3. ActiveRight'
  <2> DEFINE l == "unref"
  <2>1. port.active \in Int
    BY DEF EpollInv, PortInv, Shape, PortType
  <2>2. port'.active = port.active - (IF pc[t] \in {"polling", "woken"} THEN 1 ELSE 0)
                                   + (IF l \in {"polling", "woken"} THEN 1 ELSE 0)
    BY <1>1, <2>1 DEF CtlWell
  <2>3. Goto(t, l)
    BY <1>1
  <2> HIDE DEF l
  <2> QED
    BY <2>2, <2>3, ActiveKeeps DEF EpollInv
<1>4. Stays(t)
  BY StaysSteps
<1> QED
  BY <1>1, <1>2, <1>3, <1>4, StaysRight DEF CtlWell

\* epoll_wait() with a port that is as it should be: it waits, or it leaves.
LEMMA WaitRight ==
  ASSUME IsFiniteSet(Threads), EpollInv, LifeInv', NEW t \in Threads, Stays(t),
         packets' = packets, got' = [got EXCEPT ![t] = <<>>],
         NEW p, PortInv(p), p.iocp = port.iocp, p.failed = None,
         p.active = port.active - (IF pc[t] \in {"polling", "woken"} THEN 1 ELSE 0),
         \A r \in SockIds : /\ port.afd[r].state = "done"
                            /\ \A i \in DOMAIN got[t] : got[t][i].sock # r
                            => p.afd[r].state = "done",
         StartPolling(t, p) \/ FailPolling(t, p) \/ Leave(t, p)
  PROVE  EpollInv'
<1> DEFINE l == IF StartPolling(t, p) THEN "polling" ELSE "unref"
<1>1. failures \in Nat
  BY DEF EpollInv
<1>2. /\ PortInv(port') /\ DoneKept(p, port') /\ failures' \in Nat
      /\ port'.iocp = p.iocp /\ port'.failed = None
      /\ port'.active > 0 /\ failures' = 0 => port'.update = <<>>
      /\ port'.active = p.active + (IF l \in {"polling", "woken"} THEN 1 ELSE 0)
  <2>1. CASE StartPolling(t, p)
    BY <1>1, <2>1, StartPollingKeeps
  <2>2. p.active + 0 = p.active
    BY DEF PortInv, Shape, PortType
  <2>3. CASE FailPolling(t, p) /\ ~StartPolling(t, p)
    BY <1>1, <2>2, <2>3, FailPollingKeeps DEF AllWell
  <2>4. CASE Leave(t, p) /\ ~StartPolling(t, p)
    <3>1. UpdatesIfPolling(p, port')
      BY <2>4 DEF Leave
    <3> QED
      BY <1>1, <2>2, <2>4, <3>1, IfPollingKeeps DEF AllWell
  <2> QED
    BY <2>1, <2>3, <2>4
<1>3. Goto(t, l)
  BY DEF StartPolling, FailPolling, Leave
<1> HIDE DEF l
<1>4. port'.active = port.active - (IF pc[t] \in {"polling", "woken"} THEN 1 ELSE 0)
                                 + (IF l \in {"polling", "woken"} THEN 1 ELSE 0)
  BY <1>2
<1>5. ActiveRight'
  BY <1>3, <1>4, ActiveKeeps DEF EpollInv
<1>6. HandsRight'
  <2>1. \A u \in Threads \ {t} : pc'[u] = pc[u]
    BY <1>3 DEF Goto, EpollInv, LifeInv, LifeTypeOK
  <2>2. \A r \in SockIds : /\ port.afd[r].state = "done"
                           /\ \A i \in DOMAIN got[t] : got[t][i].sock # r
                           => port'.afd[r].state = "done"
    BY <1>2 DEF DoneKept
  <2> QED
    BY <2>1, <2>2, HandsEmptied DEF EpollInv
<1>7. QueueServed'
  BY <1>2 DEF QueueServed
<1> QED
  BY <1>2, <1>5, <1>6, <1>7, StaysRight

\* The port without the thread that was woken
LEMMA Eased ==
  ASSUME PortInv(port)
  PROVE  LET a == [port EXCEPT !.active = @ - 1] IN
         /\ PortInv(a) /\ a.active = port.active - 1
         /\ a.iocp = port.iocp /\ a.afd = port.afd /\ a.failed = port.failed
<1> DEFINE k == port.active - 1
<1>1. k \in Int
  BY DEF PortInv, Shape, PortType
<1> HIDE DEF k
<1>2. LET a == [port EXCEPT !.active = k] IN
         /\ PortInv(a) /\ a.active = k
         /\ a.iocp = port.iocp /\ a.afd = port.afd /\ a.failed = port.failed
  BY <1>1, ActiveSet
<1> QED
  BY <1>2 DEF k

\* What port__feed_events() leaves of the port
LEMMA FedRight ==
  ASSUME EpollInv, NEW t \in Threads, pc[t] = "woken"
  PROVE  /\ PortInv(Fed(t)) /\ Fed(t).active = port.active - 1
         /\ Fed(t).iocp = port.iocp /\ Fed(t).failed = port.failed
         /\ \A r \in SockIds : /\ port.afd[r].state = "done"
                               /\ \A i \in DOMAIN got[t] : got[t][i].sock # r
                               => Fed(t).afd[r].state = "done"
<1> DEFINE a == [port EXCEPT !.active = @ - 1]
           cs == got[t]
<1>1. /\ PortInv(a) /\ a.active = port.active - 1
      /\ a.iocp = port.iocp /\ a.afd = port.afd /\ a.failed = port.failed
  BY Eased DEF EpollInv
<1>2. cs \in Seq(Completion) /\ AllDone(port, cs) /\ Once(cs)
  BY DEF EpollInv, HandsRight
<1>3. Fed(t) = FeedFirst(a, cs, Len(cs))
  BY DEF Fed
<1> HIDE DEF a, cs
<1>4. Len(cs) \in Nat /\ DOMAIN cs = 1..Len(cs) /\ \A i \in 1..Len(cs) : cs[i].sock \in SockIds
  <2>1. Len(cs) \in Nat /\ DOMAIN cs = 1..Len(cs) /\ \A i \in 1..Len(cs) : cs[i] \in Completion
    BY <1>2
  <2> QED
    BY <2>1 DEF Completion
<1>5. Feedable(a, cs)
  BY <1>1, <1>2, <1>4 DEF Feedable, AllDone, Once
<1>6. LET q == FeedFirst(a, cs, Len(cs)) IN
         /\ PortInv(q)
         /\ q.iocp = a.iocp /\ q.active = a.active /\ q.failed = a.failed
         /\ \A r \in SockIds : (\A i \in 1..Len(cs) : cs[i].sock # r) => q.afd[r] = a.afd[r]
  BY <1>1, <1>4, <1>5, FeedFirstKeeps
<1> QED
  BY <1>1, <1>3, <1>4, <1>6 DEF cs

\* epoll_wait() begins to wait.
LEMMA PollRightly ==
  ASSUME IsFiniteSet(Threads), EpollInv, LifeInv', NEW t \in Threads, Poll(t) PROVE EpollInv'
<1>1. /\ port.failed = None /\ pc[t] = "wait" /\ packets' = packets /\ got' = got
      /\ StartPolling(t, port) \/ FailPolling(t, port)
  BY DEF Poll, At, kernel
<1>2. PortInv(port) /\ port.active \in Int
  BY DEF EpollInv, PortInv, Shape, PortType
<1>3. port.active = port.active - (IF pc[t] \in {"polling", "woken"} THEN 1 ELSE 0)
  BY <1>1, <1>2
<1>4. got' = [got EXCEPT ![t] = <<>>]
  <2>1. got[t] = <<>> /\ got \in [Threads -> Seq(Completion)]
    BY <1>1 DEF EpollInv, HandsRight
  <2> QED
    BY <1>1, <2>1
<1>5. Stays(t)
  BY StaysSteps
<1> QED
  BY <1>1, <1>2, <1>3, <1>4, <1>5, WaitRight

\* It looks at the completions it was woken with.
LEMMA WokenRightly ==
  ASSUME IsFiniteSet(Threads), EpollInv, LifeInv', NEW t \in Threads,
         WokenWithout(t) \/ WokenWithEvents(t) \/ WokenInVain(t)
  PROVE EpollInv'
<1>1. port.failed = None /\ pc[t] = "woken" /\ packets' = packets
  BY DEF WokenWithout, WokenWithEvents, WokenInVain, At, kernel
<1>2. Stays(t)
  BY StaysSteps
<1>3. port.active - 1 = port.active - (IF pc[t] \in {"polling", "woken"} THEN 1 ELSE 0)
  BY <1>1
<1>4. CASE WokenWithout(t)
  <2> DEFINE p == [port EXCEPT !.active = @ - 1]
  <2>1. got[t] = <<>> /\ got' = got /\ Leave(t, p)
    BY <1>4 DEF WokenWithout
  <2>2. /\ PortInv(p) /\ p.active = port.active - 1
        /\ p.iocp = port.iocp /\ p.afd = port.afd /\ p.failed = port.failed
    BY Eased DEF EpollInv
  <2>3. got' = [got EXCEPT ![t] = <<>>]
    <3>1. got \in [Threads -> Seq(Completion)]
      BY DEF EpollInv, HandsRight
    <3> QED
      BY <2>1, <3>1
  <2> HIDE DEF p
  <2> QED
    BY <1>1, <1>2, <1>3, <2>1, <2>2, <2>3, WaitRight
<1>5. CASE WokenWithEvents(t) \/ WokenInVain(t)
  <2> DEFINE p == Fed(t)
  <2>1. got' = [got EXCEPT ![t] = <<>>] /\ (StartPolling(t, p) \/ FailPolling(t, p) \/ Leave(t, p))
    BY <1>5 DEF WokenWithEvents, WokenInVain
  <2>2. /\ PortInv(p) /\ p.active = port.active - 1
        /\ p.iocp = port.iocp /\ p.failed = port.failed
        /\ \A r \in SockIds : /\ port.afd[r].state = "done"
                              /\ \A i \in DOMAIN got[t] : got[t][i].sock # r
                              => p.afd[r].state = "done"
    BY <1>1, FedRight
  <2> HIDE DEF p
  <2> QED
    BY <1>1, <1>2, <1>3, <2>1, <2>2, WaitRight
<1> QED
  BY <1>4, <1>5

\* A thread has its completions, or none.
LEMMA WakesRightly ==
  ASSUME IsFiniteSet(Threads), EpollInv, LifeInv', NEW t \in Threads,
         TimedOut(t) \/ \E n \in 1..Cardinality(SockIds) : Dequeued(t, n)
  PROVE EpollInv'
<1>1. /\ port.failed = None /\ pc[t] = "polling" /\ port' = port /\ failures' = failures
      /\ Goto(t, "woken")
  BY DEF TimedOut, Dequeued, At, kernel
<1>2. \A u \in Threads \ {t} : pc'[u] = pc[u]
  BY <1>1 DEF Goto, EpollInv, LifeInv, LifeTypeOK
<1>3. pc'[t] = "woken"
  BY <1>1 DEF Goto, EpollInv, LifeInv, LifeTypeOK
<1>4. HandsRight' /\ (packets = <<>> => packets' = <<>>)
  <2>1. CASE TimedOut(t)
    <3>1. UNCHANGED <<packets, got>>
      BY <2>1 DEF TimedOut, kernel
    <3>2. DoneKept(port, port')
      BY <1>1 DEF DoneKept
    <3>3. HandsRight'
      BY <1>2, <1>3, <3>1, <3>2, HandsStay DEF EpollInv
    <3> QED
      BY <3>1, <3>3
  <2>2. ASSUME NEW n \in 1..Cardinality(SockIds), Dequeued(t, n)
        PROVE  HandsRight' /\ (packets = <<>> => packets' = <<>>)
    <3>1. /\ n \in 1..Len(packets)
          /\ got' = [got EXCEPT ![t] = SubSeq(packets, 1, n)]
          /\ packets' = SubSeq(packets, n + 1, Len(packets))
      BY <2>2 DEF Dequeued
    <3>2. HandsRight'
      BY <1>1, <1>2, <1>3, <3>1, HandsTaken DEF EpollInv
    <3>3. packets # <<>>
      BY <3>1
    <3> QED
      BY <3>2, <3>3
  <2> QED
    BY <2>1, <2>2
<1>5. ActiveRight'
  <2> DEFINE l == "woken"
  <2>1. port.active \in Int
    BY DEF EpollInv, PortInv, Shape, PortType
  <2>2. port'.active = port.active - (IF pc[t] \in {"polling", "woken"} THEN 1 ELSE 0)
                                   + (IF l \in {"polling", "woken"} THEN 1 ELSE 0)
    BY <1>1, <2>1
  <2>3. Goto(t, l)
    BY <1>1
  <2> HIDE DEF l
  <2> QED
    BY <2>2, <2>3, ActiveKeeps DEF EpollInv
<1>6. PortInv(port') /\ failures' \in Nat /\ QueueServed'
  BY <1>1 DEF EpollInv, QueueServed
<1>7. Stays(t)
  BY StaysSteps
<1> QED
  BY <1>1, <1>4, <1>5, <1>6, <1>7, StaysRight

-----------------------------------------------------------------------------
(* The steps of the reflock and of epoll_close()                           *)

\* A step that has to do with neither the sockets nor the completions
LEMMA ElsewhereRight ==
  ASSUME EpollInv, LifeInv', UNCHANGED <<port, packets, got, failures>>,
         \A u \in Threads : pc'[u] = pc[u] \/ {pc[u], pc'[u]} \cap {"polling", "woken"} = {},
         LockRight', CloseRight'
  PROVE  EpollInv'
<1>1. DoneKept(port, port')
  BY DEF DoneKept
<1>2. HandsRight'
  BY <1>1, HandsStay DEF EpollInv
<1>3. Polling' = Polling
  BY DEF Polling
<1>4. ActiveRight'
  BY <1>3 DEF EpollInv, ActiveRight
<1>5. QueueServed' /\ PortInv(port') /\ failures' \in Nat
  BY DEF EpollInv, QueueServed
<1> QED
  BY <1>2, <1>4, <1>5 DEF EpollInv

\* A call finds the port and takes a reference.
LEMMA CallRight ==
  ASSUME EpollInv, LifeInv', NEW t \in Threads, CallWait(t) \/ CallCtl(t) \/ CallClose(t)
  PROVE  EpollInv'
<1> USE DEF At, Goto
<1>1. /\ UNCHANGED <<port, packets, got, failures>> /\ pc[t] = "idle" /\ inTree
      /\ lock' = [lock EXCEPT !.refs = @ + 1]
      /\ \E l \in {"wait", "ctl", "close"} : pc' = [pc EXCEPT ![t] = l]
  BY DEF CallWait, CallCtl, CallClose, kernel
<1>2. pc \in [Threads -> Labels] /\ lock'.state = lock.state
  BY <1>1 DEF EpollInv, LifeInv, LifeTypeOK
<1>3. pc'[t] \in {"wait", "ctl", "close"} /\ \A u \in Threads \ {t} : pc'[u] = pc[u]
  BY <1>1, <1>2
<1>4. LockRight'
  BY <1>1, <1>2, <1>3 DEF EpollInv, LockRight
<1>5. CloseRight'
  BY <1>1, <1>3 DEF EpollInv, CloseRight, Closing
<1> QED
  BY <1>1, <1>3, <1>4, <1>5, ElsewhereRight

\* Who holds a reference finds the lock counting it, and not yet poisoned.
LEMMA HeldRight ==
  ASSUME IsFiniteSet(Threads), EpollInv, NEW t \in Threads, pc[t] \in {"unref", "destroy"}
  PROVE  lock.refs # 0 /\ lock.state # "poison" /\ (pc[t] = "destroy" => lock.state = "live")
<1>1. t \in Holding /\ IsFiniteSet(Holding)
  BY FS_Subset DEF Holding
<1>2. lock.refs = Cardinality(Holding)
  BY DEF EpollInv, LifeInv, Counted
<1>3. lock.refs # 0
  BY <1>1, <1>2, FS_EmptySet
<1>4. \A u \in Threads : pc[u] \notin {"poison", "delete", "closed"}
  BY DEF EpollInv, LifeInv, CloserAlone
<1>5. lock.state # "poison"
  BY <1>4 DEF EpollInv, LockRight
<1>6. pc[t] = "destroy" => lock.state # "destroy"
  BY DEF EpollInv, LifeInv, OneCloser, Closing
<1>7. lock.state \in {"live", "destroy", "poison"}
  BY DEF EpollInv, LifeInv, LifeTypeOK
<1> QED
  BY <1>3, <1>5, <1>6, <1>7

\* reflock_unref(), whose assertion holds
LEMMA UnrefRight ==
  ASSUME IsFiniteSet(Threads), EpollInv, LifeInv', NEW t \in Threads, Unref(t)
  PROVE  EpollInv'
<1> USE DEF At, Goto
<1>1. lock.refs # 0 /\ lock.state # "poison"
  BY HeldRight DEF Unref
<1>2. /\ UNCHANGED <<port, inTree, packets, got, failures>> /\ pc[t] = "unref"
      /\ lock' = [lock EXCEPT !.refs = @ - 1]
      /\ \E l \in {"signal", "idle"} : pc' = [pc EXCEPT ![t] = l]
  BY <1>1 DEF Unref, kernel
<1>3. pc \in [Threads -> Labels] /\ lock'.state = lock.state
  BY <1>2 DEF EpollInv, LifeInv, LifeTypeOK
<1>4. pc'[t] \in {"signal", "idle"} /\ \A u \in Threads \ {t} : pc'[u] = pc[u]
  BY <1>2, <1>3
<1>5. LockRight'
  BY <1>2, <1>3, <1>4 DEF EpollInv, LockRight
<1>6. CloseRight'
  BY <1>2, <1>4 DEF EpollInv, CloseRight, Closing
<1> QED
  BY <1>2, <1>4, <1>5, <1>6, ElsewhereRight

\* reflock_unref_and_destroy(), whose assertion holds, up to its waiting
LEMMA DestroyRight ==
  ASSUME IsFiniteSet(Threads), EpollInv, LifeInv', NEW t \in Threads, UnrefAndDestroy(t)
  PROVE  EpollInv'
<1> USE DEF At, Goto
<1>1. lock.refs # 0 /\ lock.state = "live"
  BY HeldRight DEF UnrefAndDestroy
<1>2. /\ UNCHANGED <<port, inTree, packets, got, failures>> /\ pc[t] = "destroy"
      /\ lock' = [refs |-> lock.refs - 1, state |-> "destroy"]
      /\ \E l \in {"await", "poison"} : pc' = [pc EXCEPT ![t] = l]
  BY <1>1 DEF UnrefAndDestroy, kernel
<1>3. pc \in [Threads -> Labels] /\ lock'.state = "destroy"
  BY <1>2 DEF EpollInv, LifeInv, LifeTypeOK
<1>4. pc'[t] \in {"await", "poison"} /\ \A u \in Threads \ {t} : pc'[u] = pc[u]
  BY <1>2, <1>3
<1>5. LockRight'
  BY <1>3 DEF LockRight
<1>6. CloseRight'
  <2>1. ~port.iocp
    BY <1>2 DEF EpollInv, CloseRight, Closing
  <2> QED
    BY <1>2, <1>4, <2>1 DEF EpollInv, CloseRight
<1> QED
  BY <1>2, <1>4, <1>5, <1>6, ElsewhereRight

\* The one who signals and the one who waits go on together.
LEMMA SignalRight ==
  ASSUME EpollInv, LifeInv', NEW t \in Threads, NEW u \in Threads, Signal(t, u)
  PROVE  EpollInv'
<1> USE DEF At, Goto
<1>1. /\ UNCHANGED <<port, inTree, lock, packets, got, failures>> /\ pc[t] = "signal" /\ pc[u] = "await"
      /\ pc' = [pc EXCEPT ![t] = "idle", ![u] = "poison"]
  BY DEF Signal, kernel, handle
<1>2. pc \in [Threads -> Labels] /\ t # u
  BY <1>1 DEF EpollInv, LifeInv, LifeTypeOK
<1>3. pc'[t] = "idle" /\ pc'[u] = "poison" /\ \A v \in Threads \ {t, u} : pc'[v] = pc[v]
  BY <1>1, <1>2
<1>4. LockRight'
  BY <1>1, <1>3 DEF EpollInv, LockRight
<1>5. CloseRight'
  BY <1>1, <1>3 DEF EpollInv, CloseRight, Closing
<1>6. \A v \in Threads : pc'[v] = pc[v] \/ {pc[v], pc'[v]} \cap {"polling", "woken"} = {}
  BY <1>1, <1>3
<1> QED
  BY <1>1, <1>4, <1>5, <1>6, ElsewhereRight

\* reflock_unref_and_destroy(), whose last assertion holds
LEMMA PoisonRight ==
  ASSUME IsFiniteSet(Threads), EpollInv, LifeInv', NEW t \in Threads, Poison(t)
  PROVE  EpollInv'
<1> USE DEF At, Goto
<1>1. pc[t] = "poison"
  BY DEF Poison
<1>2. lock = [refs |-> 0, state |-> "destroy"]
  <2>1. Holding = {}
    BY <1>1 DEF EpollInv, LifeInv, CloserAlone, Holding
  <2>2. lock.refs = 0
    BY <2>1, FS_EmptySet DEF EpollInv, LifeInv, Counted
  <2>3. lock.state = "destroy" /\ lock \in [refs : Int, state : {"live", "destroy", "poison"}]
    BY <1>1 DEF EpollInv, LockRight, LifeInv, LifeTypeOK
  <2> QED
    BY <2>2, <2>3
<1>3. /\ UNCHANGED <<port, inTree, packets, got, failures>>
      /\ lock' = [refs |-> 0, state |-> "poison"]
      /\ pc' = [pc EXCEPT ![t] = "delete"]
  BY <1>2 DEF Poison, kernel
<1>4. pc \in [Threads -> Labels] /\ lock'.state = "poison"
  BY <1>3 DEF EpollInv, LifeInv, LifeTypeOK
<1>5. pc'[t] = "delete" /\ \A u \in Threads \ {t} : pc'[u] = pc[u] /\ pc[u] \notin Closing
  BY <1>1, <1>3, <1>4 DEF EpollInv, LifeInv, OneCloser, Closing
<1>6. LockRight'
  BY <1>4, <1>5 DEF LockRight, Closing
<1>7. CloseRight'
  <2>1. ~port.iocp
    BY <1>1 DEF EpollInv, CloseRight, Closing
  <2> QED
    BY <1>3, <1>5, <2>1 DEF EpollInv, CloseRight
<1> QED
  BY <1>1, <1>3, <1>5, <1>6, <1>7, ElsewhereRight

-----------------------------------------------------------------------------
\* The completion handle is closed.
LEMMA ClosedRight ==
  ASSUME EpollInv, LifeInv', NEW t \in Threads, PortClose(t)
  PROVE  EpollInv'
<1> USE DEF At, Goto
<1>1. /\ UNCHANGED <<inTree, lock, got, failures>> /\ pc[t] = "close" /\ packets' = <<>>
      /\ port' = [port EXCEPT !.iocp = FALSE]
      /\ pc' = [pc EXCEPT ![t] = "destroy"]
  BY DEF PortClose, handle
<1>2. pc \in [Threads -> Labels] /\ PortInv(port)
  BY DEF EpollInv, LifeInv, LifeTypeOK
<1>3. pc'[t] = "destroy" /\ \A u \in Threads \ {t} : pc'[u] = pc[u]
  BY <1>1, <1>2
<1> DEFINE q == [port EXCEPT !.iocp = FALSE]
<1>4. /\ q \in PortType /\ ~q.iocp
      /\ q.active = port.active /\ q.afd = port.afd /\ q.failed = port.failed /\ q.update = port.update
      /\ q.sock = port.sock /\ q.tree = port.tree /\ q.deleted = port.deleted
      /\ q.groups = port.groups /\ q.size = port.size
  BY <1>2 DEF PortInv, Shape, PortType
<1>5. port' = q
  BY <1>1
<1> HIDE DEF q
<1>6. Staying(q) = Staying(port) /\ Leaving(q) = Leaving(port) /\ \A g : Members(q, g) = Members(port, g)
  BY <1>4 DEF Staying, Leaving, Members
<1>7. TreeRight(q) /\ QueueRight(q)
  BY <1>2, <1>4, <1>6 DEF PortInv, Shape, TreeRight, QueueRight
<1>8. GroupsRight(q)
  BY <1>2, <1>4, <1>6 DEF PortInv, Shape, GroupsRight
<1>9. \A s \in SockIds : PollRight(q, s) /\ Served(q, s)
  BY <1>2, <1>4, <1>6 DEF PortInv, Shape, PollRight, Served, Unwatched
<1>10. PortInv(q)
  BY <1>2, <1>4, <1>7, <1>8, <1>9 DEF PortInv, Shape
<1>11. HandsRight'
  <2>1. \A r : Once(<<>>) /\ Apart(<<>>, r) /\ AllDone(r, <<>>) /\ <<>> \in Seq(Completion)
    BY DEF Once, Apart, AllDone
  <2>2. \A r : AllDone(port', r) = AllDone(port, r)
    BY <1>4, <1>5 DEF AllDone
  <2>3. \A u \in Threads : got[u] # <<>> => pc'[u] = "woken"
    BY <1>1, <1>3 DEF EpollInv, HandsRight
  <2> QED
    BY <1>1, <2>1, <2>2, <2>3 DEF EpollInv, HandsRight
<1>12. ActiveRight'
  <2>1. Polling' = Polling
    BY <1>1, <1>3 DEF Polling
  <2> QED
    BY <1>4, <1>5, <2>1 DEF EpollInv, ActiveRight
<1>13. QueueServed'
  BY <1>1, <1>4, <1>5 DEF EpollInv, QueueServed
<1>14. LockRight'
  BY <1>1, <1>3 DEF EpollInv, LockRight
<1>15. CloseRight'
  <2>1. ~inTree
    BY <1>1 DEF EpollInv, LifeInv, OneCloser, Closing
  <2> QED
    BY <1>1, <1>4, <1>5, <2>1 DEF CloseRight
<1> QED
  BY <1>1, <1>5, <1>10, <1>11, <1>12, <1>13, <1>14, <1>15 DEF EpollInv

\* port_new()
LEMMA NewIsRight == PortInv(NewPort) /\ PortInv([NewPort EXCEPT !.iocp = FALSE])
<1> DEFINE Blank(iocp) == [iocp |-> iocp, tree |-> [o \in OsSockets |-> NoId],
                           sock |-> [s \in SockIds |-> FreeSock],
                           afd |-> [s \in SockIds |-> NoPoll],
                           update |-> <<>>, deleted |-> <<>>, groups |-> <<>>,
                           size |-> [g \in Groups |-> 0], active |-> 0, failed |-> None]
<1> SUFFICES ASSUME NEW iocp \in BOOLEAN, NEW q, q = Blank(iocp) PROVE PortInv(q)
  <2>1. NewPort = Blank(TRUE)
    BY DEF NewPort
  <2>2. ASSUME NEW x, NEW y PROVE [Blank(x) EXCEPT !.iocp = y] = Blank(y)
    OBVIOUS
  <2> HIDE DEF Blank
  <2> QED
    BY <2>1, <2>2
<1>1. /\ q.iocp = iocp /\ q.active = 0 /\ q.failed = None /\ q.update = <<>> /\ q.deleted = <<>>
      /\ q.groups = <<>> /\ q.size = [g \in Groups |-> 0] /\ q.tree = [o \in OsSockets |-> NoId]
      /\ q.sock = [s \in SockIds |-> FreeSock] /\ q.afd = [s \in SockIds |-> NoPoll]
  OBVIOUS
<1>2. q \in PortType
  <2> DEFINE size == [g \in Groups |-> 0]
             tree == [o \in OsSockets |-> NoId]
             sock == [s \in SockIds |-> FreeSock]
             afd  == [s \in SockIds |-> NoPoll]
             none == <<>>
  <2>1. FreeSock \in SockType
    BY GroupAssumption DEF FreeSock, SockType, NoId
  <2>2. NoPoll \in PollType
    BY DEF NoPoll, PollType
  <2>3. NoId \in 0..MaxSocks
    BY GroupAssumption DEF NoId
  <2>4. /\ size \in [Groups -> Int] /\ tree \in [OsSockets -> 0..MaxSocks]
        /\ sock \in [SockIds -> SockType] /\ afd \in [SockIds -> PollType]
        /\ none \in Seq(Groups) /\ none \in Seq(SockIds)
    BY <2>1, <2>2, <2>3
  <2>5. q = [iocp |-> iocp, tree |-> tree, sock |-> sock, afd |-> afd, update |-> none,
             deleted |-> none, groups |-> none, size |-> size, active |-> 0, failed |-> None]
    OBVIOUS
  <2> HIDE DEF size, tree, sock, afd, none
  <2> QED
    BY <2>4, <2>5 DEF PortType
<1>3. Staying(q) = {} /\ Leaving(q) = {} /\ \A g : Members(q, g) = {}
  BY <1>1 DEF Staying, Leaving, Members, FreeSock
<1>4. TreeRight(q)
  BY <1>1, <1>3 DEF TreeRight
<1>5. \A S : ToSet(<<>>) = {} /\ IsInjective(<<>>)
  BY DEF ToSet, IsInjective
<1>6. QueueRight(q)
  BY <1>1, <1>3, <1>5 DEF QueueRight
<1>7. GroupsRight(q)
  <2>1. \A g \in Groups : q.size[g] = 0
    BY <1>1
  <2>2. Cardinality({}) = 0
    BY FS_EmptySet
  <2>3. Len(q.groups) = 0 /\ DOMAIN q.groups = {} /\ ToSet(q.groups) = {} /\ IsInjective(q.groups)
    BY <1>1, <1>5
  <2>4. 1..0 = {} /\ 0 \in 0..MaxGroupSize
    BY GroupAssumption
  <2> QED
    BY <1>3, <2>1, <2>2, <2>3, <2>4 DEF GroupsRight, GroupQueue
<1>8. \A s \in SockIds : PollRight(q, s) /\ Served(q, s)
  <2> SUFFICES ASSUME NEW s \in SockIds PROVE PollRight(q, s) /\ Served(q, s)
    OBVIOUS
  <2>1. q.sock[s] = FreeSock /\ q.afd[s] = NoPoll
    BY <1>1
  <2>2. ~FreeSock.used /\ FreeSock.status = "idle" /\ FreeSock.pending = {}
    BY DEF FreeSock
  <2> QED
    BY <1>3, <2>1, <2>2 DEF PollRight, Served
<1> QED
  BY <1>1, <1>2, <1>4, <1>6, <1>7, <1>8 DEF PortInv, Shape

\* All the sockets are found when the port is freed.
LEMMA DeletedRight ==
  ASSUME EpollInv, LifeInv', NEW t \in Threads, PortDelete(t)
  PROVE  EpollInv'
<1> USE DEF At, Goto
<1> DEFINE found == {port.tree[o] : o \in OsSockets} \cup ToSet(port.deleted)
           lost  == {s \in SockIds : port.sock[s].used} \ found
<1>1. pc[t] = "delete"
  BY DEF PortDelete
<1>2. pc \in [Threads -> Labels] /\ PortInv(port)
  BY DEF EpollInv, LifeInv, LifeTypeOK
<1>3. ~port.iocp /\ packets = <<>> /\ ~inTree
  BY <1>1 DEF EpollInv, CloseRight, Closing
<1>4. Staying(port) \subseteq found /\ Leaving(port) \subseteq found
  BY <1>2 DEF PortInv, Shape, TreeRight, QueueRight
<1>5. lost = {}
  BY <1>4 DEF Staying, Leaving
<1>6. ToSet(port.update) \ found = {}
  BY <1>2, <1>4 DEF PortInv, Shape, QueueRight
<1>7. /\ port' = [NewPort EXCEPT !.iocp = FALSE]
      /\ UNCHANGED <<inTree, lock, packets, got, failures>>
      /\ pc' = [pc EXCEPT ![t] = "closed"]
  BY <1>3, <1>5, <1>6 DEF PortDelete, kernel
<1>8. PortInv(port')
  BY <1>7, NewIsRight
<1>9. /\ pc'[t] = "closed"
      /\ \A u \in Threads \ {t} : pc'[u] = pc[u] /\ pc[u] = "idle"
  BY <1>1, <1>2, <1>7 DEF EpollInv, LifeInv, CloserAlone
<1>10. port'.active = 0 /\ port'.update = <<>> /\ ~port'.iocp /\ port'.failed = None
  BY <1>7 DEF NewPort
<1>11. HandsRight'
  <2>1. \A u \in Threads : got[u] = <<>>
    BY <1>1, <1>9 DEF EpollInv, HandsRight
  <2>2. \A r : Once(<<>>) /\ Apart(<<>>, r) /\ AllDone(r, <<>>) /\ <<>> \in Seq(Completion)
    BY DEF Once, Apart, AllDone
  <2> QED
    BY <1>3, <1>7, <2>1, <2>2 DEF EpollInv, HandsRight
<1>12. ActiveRight'
  <2>1. Polling' = {}
    BY <1>9 DEF Polling
  <2> QED
    BY <1>10, <2>1, FS_EmptySet DEF ActiveRight
<1>13. QueueServed' /\ failures' \in Nat
  BY <1>7, <1>10 DEF QueueServed, EpollInv
<1>14. LockRight'
  BY <1>7, <1>9 DEF EpollInv, LockRight
<1>15. CloseRight'
  BY <1>3, <1>7, <1>10 DEF CloseRight
<1> QED
  BY <1>8, <1>11, <1>12, <1>13, <1>14, <1>15 DEF EpollInv

-----------------------------------------------------------------------------
(* The steps of the driver, and the theorems                               *)

\* The driver ends a poll, and queues its completion if it can.
LEMMA QueueRightly ==
  ASSUME EpollInv, LifeInv', NEW s \in SockIds, port.afd[s].state \in {"pending", "cancelled"},
         NEW events \in SUBSET Occurrences, Queue(s, events), failures' \in {failures, failures + 1}
  PROVE  EpollInv'
<1> DEFINE poll == [port.afd[s] EXCEPT !.state = "done"]
           afd == [port.afd EXCEPT ![s] = poll]
           q == [port EXCEPT !.afd = afd]
           c == [sock |-> s, events |-> events]
<1>1. /\ PortInv(port) /\ Shape(port) /\ port.afd \in [SockIds -> PollType] /\ PollRight(port, s)
      /\ port.afd[s] \in PollType /\ port \in PortType
  BY DEF EpollInv, PortInv, Shape, PortType
<1>2. /\ port' = q /\ UNCHANGED <<inTree, lock, got, pc>>
      /\ packets' = IF port.iocp THEN Append(packets, c) ELSE packets
  BY DEF Queue, handle
<1>3. poll \in PollType /\ poll.state = "done"
  BY <1>1 DEF PollType
<1>4. afd \in [SockIds -> PollType] /\ afd[s] = poll /\ \A r \in SockIds \ {s} : afd[r] = port.afd[r]
  BY <1>1, <1>3
<1>5. c \in Completion /\ c.sock = s
  BY DEF Completion
<1> HIDE DEF poll, afd, c
<1>6. /\ q \in PortType /\ q.afd = afd /\ q.sock = port.sock
      /\ q.iocp = port.iocp /\ q.tree = port.tree /\ q.update = port.update /\ q.deleted = port.deleted
      /\ q.groups = port.groups /\ q.size = port.size /\ q.active = port.active /\ q.failed = port.failed
  BY <1>1, <1>4 DEF PortType
<1> HIDE DEF q
<1>7. PollRight(q, s)
  <2>1. port.sock[s].status # "idle"
    BY <1>1 DEF PollRight, NoPoll, None
  <2> QED
    BY <1>1, <1>3, <1>4, <1>6, <2>1 DEF PollRight
<1>8. Shape(q) /\ Only(port, q, s)
  BY <1>1, <1>4, <1>6, <1>7, LinksSame
<1>9. PortInv(q)
  BY <1>1, <1>6, <1>8 DEF PortInv, Served, Staying, Leaving, Unwatched
<1>10. DoneKept(port, q) /\ q.afd[s].state = "done" /\ port.afd[s].state # "done"
  BY <1>3, <1>4, <1>6 DEF DoneKept
<1>11. HandsRight'
  <2>1. CASE port.iocp
    <3>1. packets' = Append(packets, c)
      BY <1>2, <2>1
    <3> QED
      BY <1>2, <1>5, <1>10, <3>1, HandsQueued DEF EpollInv
  <2>2. CASE ~port.iocp
    BY <1>2, <1>10, <2>2, HandsStay DEF EpollInv
  <2> QED
    BY <2>1, <2>2
<1>12. ActiveRight'
  BY <1>2, <1>6 DEF EpollInv, ActiveRight, Polling
<1>13. QueueServed'
  BY <1>2, <1>6 DEF EpollInv, QueueServed
<1>14. LockRight'
  BY <1>2 DEF EpollInv, LockRight
<1>15. CloseRight'
  BY <1>2, <1>6 DEF EpollInv, CloseRight
<1> QED
  BY <1>2, <1>9, <1>11, <1>12, <1>13, <1>14, <1>15 DEF EpollInv

\* The three ways in which a poll ends
LEMMA DriverRight ==
  ASSUME EpollInv, LifeInv', NEW s \in SockIds, PollEnds(s) \/ PollCancelled(s) \/ PollFails(s)
  PROVE  EpollInv'
<1>1. CASE PollEnds(s)
  <2>1. port.afd[s].asked \in SUBSET EpollToAfd(DOMAIN Asks)
    BY DEF EpollInv, PortInv, Shape, PortType, PollType
  <2>2. Here(s) \in SUBSET Occurrences
    BY <2>1 DEF Here, Occurrences
  <2> QED
    BY <1>1, <2>2, QueueRightly DEF PollEnds
<1>2. CASE PollCancelled(s)
  BY <1>2, QueueRightly DEF PollCancelled
<1>3. CASE PollFails(s)
  BY <1>3, QueueRightly DEF PollFails, Occurrences
<1> QED
  BY <1>1, <1>2, <1>3

\* What happens on the application's sockets
LEMMA UntouchedRight ==
  ASSUME EpollInv, LifeInv', UNCHANGED <<port, inTree, lock, packets, pc, got, failures>>
  PROVE  EpollInv'
<1>1. LockRight' /\ CloseRight'
  BY DEF EpollInv, LockRight, CloseRight
<1> QED
  BY <1>1, ElsewhereRight

\* Every step keeps the invariant.
LEMMA NextRight ==
  ASSUME IsFiniteSet(Threads) PROVE EpollInv /\ [Next]_vars => EpollInv'
<1> SUFFICES ASSUME EpollInv, [Next]_vars PROVE EpollInv'
  OBVIOUS
<1>1. LifeInv'
  BY NextLife DEF EpollInv
<1>2. ASSUME NEW t \in Threads, Step(t) PROVE EpollInv'
  <2>1. CASE Poll(t)
    BY <1>1, <2>1, PollRightly
  <2>2. CASE TimedOut(t) \/ \E n \in 1..Cardinality(SockIds) : Dequeued(t, n)
    BY <1>1, <2>2, WakesRightly
  <2>3. CASE WokenWithout(t) \/ WokenWithEvents(t) \/ WokenInVain(t)
    BY <1>1, <2>3, WokenRightly
  <2>4. CASE Ctl(t)
    BY <1>1, <2>4, CtlRight
  <2>5. CASE PortClose(t)
    BY <1>1, <2>5, ClosedRight
  <2>6. CASE UnrefAndDestroy(t)
    BY <1>1, <2>6, DestroyRight
  <2>7. CASE Poison(t)
    BY <1>1, <2>7, PoisonRight
  <2>8. CASE PortDelete(t)
    BY <1>1, <2>8, DeletedRight
  <2>9. CASE Unref(t)
    BY <1>1, <2>9, UnrefRight
  <2>10. CASE \E u \in Threads : Signal(t, u)
    BY <1>1, <2>10, SignalRight
  <2> QED
    BY <1>2, <2>1, <2>2, <2>3, <2>4, <2>5, <2>6, <2>7, <2>8, <2>9, <2>10 DEF Step
<1>3. ASSUME NEW t \in Threads, CallWait(t) \/ CallCtl(t) \/ CallClose(t) PROVE EpollInv'
  BY <1>1, <1>3, CallRight
<1>4. ASSUME NEW t \in Threads, TimedOut(t) PROVE EpollInv'
  BY <1>1, <1>4, WakesRightly
<1>5. ASSUME NEW s \in SockIds, PollEnds(s) \/ PollCancelled(s) \/ PollFails(s)
      PROVE  EpollInv'
  BY <1>1, <1>5, DriverRight
<1>6. ASSUME NEW o \in OsSockets, CloseSocket(o) \/ \E e \in Ready : BecomesReady(o, e) \/ NotReady(o, e)
      PROVE  EpollInv'
  BY <1>1, <1>6, UntouchedRight DEF CloseSocket, BecomesReady, NotReady, handle
<1>7. CASE UNCHANGED vars
  BY <1>1, <1>7, UntouchedRight DEF vars
<1> QED
  BY <1>2, <1>3, <1>4, <1>5, <1>6, <1>7 DEF Next

\* The new port has it.
LEMMA InitRight == Init => EpollInv
<1> SUFFICES ASSUME Init PROVE EpollInv
  OBVIOUS
<1>1. LifeInv
  BY InitLife
<1>3. PortInv(port)
  BY NewIsRight DEF Init
<1>4. HandsRight
  <2>1. \A r : Once(<<>>) /\ Apart(<<>>, r) /\ AllDone(r, <<>>) /\ <<>> \in Seq(Completion)
    BY DEF Once, Apart, AllDone
  <2> QED
    BY <2>1 DEF Init, HandsRight
<1>5. ActiveRight
  <2>1. Polling = {}
    BY DEF Init, Polling
  <2> QED
    BY <2>1, FS_EmptySet DEF Init, NewPort, ActiveRight
<1>6. QueueServed /\ failures \in Nat
  BY DEF Init, NewPort, QueueServed
<1>7. LockRight /\ CloseRight
  BY DEF Init, NewPort, LockRight, CloseRight, Closing
<1> QED
  BY <1>1, <1>3, <1>4, <1>5, <1>6, <1>7 DEF EpollInv

\* The invariant
LEMMA EpollInvCorrect == ASSUME IsFiniteSet(Threads) PROVE Spec => []EpollInv
BY InitRight, NextRight, PTL DEF Spec

(* None of the assertions in sock_update(), poll_group_release(),          *)
(* reflock_unref() and port_delete() fails, and that of                    *)
(* port_get_iocp_handle() (cwepoll.c:1436) only in an epoll_ctl() that met *)
(* epoll_close(), for any number of threads, sockets and poll groups.      *)
THEOREM AssertionsHoldCorrect ==
  ASSUME IsFiniteSet(Threads) PROVE Spec => []AssertionsHold
<1>1. EpollInv => AssertionsHold
  BY DEF EpollInv, PortInv, Shape, CloseRight, AssertionsHold
<1> QED
  BY <1>1, EpollInvCorrect, PTL

(* Once sock__free() (cwepoll.c:1609) frees a socket state, the driver has *)
(* no poll that writes to it, and no completion that is queued or in the   *)
(* hands of a thread in port__feed_events() refers to it.                  *)
THEOREM FreedQuietCorrect ==
  ASSUME IsFiniteSet(Threads) PROVE Spec => []FreedQuiet
<1>1. EpollInv => FreedQuiet
  <2> SUFFICES ASSUME EpollInv, NEW s \in SockIds, s \notin Used
               PROVE  port.afd[s] = NoPoll /\ \A c \in InHand : c.sock # s
    BY DEF FreedQuiet
  <2>1. port.afd[s] = NoPoll
    BY DEF EpollInv, PortInv, Shape, PollRight, FreeSock, Used
  <2>2. ASSUME NEW c \in InHand PROVE port.afd[c.sock].state = "done"
    <3>1. CASE c \in ToSet(packets)
      BY <3>1 DEF EpollInv, HandsRight, AllDone, ToSet
    <3>2. ASSUME NEW t \in Threads, c \in ToSet(got[t]) PROVE port.afd[c.sock].state = "done"
      BY <3>2 DEF EpollInv, HandsRight, AllDone, ToSet
    <3> QED
      BY <3>1, <3>2 DEF InHand
  <2> QED
    BY <2>1, <2>2 DEF NoPoll, None
<1> QED
  BY <1>1, EpollInvCorrect, PTL

(* What the user asked for with epoll_ctl() is watched by a poll of the    *)
(* driver, or the socket is queued for a new one or gets there when its    *)
(* old poll ends; and while threads wait no socket is left in the queue    *)
(* (cwepoll.c:1159, port__update_events), unless the driver refused.       *)
THEOREM WantedWatchedCorrect ==
  ASSUME IsFiniteSet(Threads) PROVE Spec => []WantedWatched
<1>1. EpollInv => WantedWatched
  <2> SUFFICES ASSUME EpollInv, NEW o \in OsSockets, NEW s, s = port.tree[o], s # NoId
               PROVE  \/ Contains(port.update, s)
                      \/ port.sock[s].status # "idle" /\ Unwatched(port, s) = {} /\ port.afd[s] # NoPoll
                      \/ port.sock[s].status = "cancelled" /\ port.afd[s] # NoPoll
    BY DEF EpollInv, WantedWatched
  <2>1. s \in Staying(port) /\ s \in SockIds /\ PollRight(port, s) /\ Served(port, s)
    BY DEF EpollInv, PortInv, Shape, TreeRight, Staying
  <2>2. port.sock[s].status \in {"pending", "cancelled"} => port.afd[s] # NoPoll
    BY <2>1 DEF PollRight, NoPoll, None
  <2>3. s \in ToSet(port.update) => Contains(port.update, s)
    <3>1. DOMAIN port.update = 1..Len(port.update)
      BY DEF EpollInv, PortInv, Shape, PortType
    <3> QED
      BY <3>1 DEF ToSet, Contains
  <2> QED
    BY <2>1, <2>2, <2>3 DEF Served
<1> QED
  BY <1>1, EpollInvCorrect, PTL

(* The tree, the two queues, the poll groups and active_poll_count agree   *)
(* on the sockets there are: none is lost, none is twice in a queue, a     *)
(* group counts its sockets (cwepoll.c:985, poll_group_acquire).           *)
THEOREM QueuesRightCorrect ==
  ASSUME IsFiniteSet(Threads) PROVE Spec => []QueuesRight
<1>1. EpollInv => QueuesRight
  <2> SUFFICES ASSUME EpollInv PROVE QueuesRight
    OBVIOUS
  <2>1. PortInv(port) /\ Shape(port) /\ port \in PortType
    BY DEF EpollInv, PortInv, Shape
  <2>2. TypeOK
    BY <2>1 DEF EpollInv, ActiveRight, Polling, TypeOK, PortType, SockType
  <2>3. GroupsSound
    <3> SUFFICES ASSUME port.failed = None
                 PROVE  /\ NoDuplicates(port.groups)
                        /\ \A g \in Groups :
                             /\ port.size[g] = Cardinality({s \in Used : port.sock[s].group = g})
                             /\ port.size[g] \in 0..MaxGroupSize
                        /\ \A i, j \in DOMAIN port.groups :
                             i < j /\ port.size[port.groups[i]] < MaxGroupSize
                             => port.size[port.groups[j]] < MaxGroupSize
      BY DEF GroupsSound
    <3>1. GroupQueue(port.groups, port.size) /\ \A g \in Groups : port.size[g] = Cardinality(Members(port, g))
      BY <2>1 DEF Shape, GroupsRight
    <3>2. \A g : Members(port, g) = {s \in Used : port.sock[s].group = g}
      BY DEF Members, Used
    <3>3. port.groups \in Seq(Groups)
      BY <2>1 DEF PortType
    <3>4. NoDuplicates(port.groups)
      BY <3>1, <3>3, InjectiveCounts DEF GroupQueue, NoDuplicates
    <3> QED
      BY <3>1, <3>2, <3>4 DEF GroupQueue
  <2>4. /\ port.update \in Seq(SockIds) /\ port.deleted \in Seq(SockIds)
        /\ IsInjective(port.update) /\ IsInjective(port.deleted)
        /\ ToSet(port.update) \subseteq Staying(port)
        /\ ToSet(port.deleted) = Leaving(port)
    BY <2>1 DEF PortType, Shape, QueueRight
  <2>5. NoDuplicates(port.update) /\ NoDuplicates(port.deleted)
    BY <2>4, InjectiveCounts DEF NoDuplicates
  <2>6. /\ Leaving(port) = {s \in Used : port.sock[s].deleting}
        /\ Staying(port) = Used \ Leaving(port)
    BY DEF Leaving, Staying, Used
  <2>7. \A s \in Staying(port) : port.tree[port.sock[s].base] = s
    BY <2>1 DEF Shape, TreeRight
  <2>8. \A s \in Leaving(port) : port.afd[s] # NoPoll
    <3> SUFFICES ASSUME NEW s \in Leaving(port) PROVE port.afd[s] # NoPoll
      OBVIOUS
    <3>1. s \in SockIds /\ port.sock[s].status # "idle" /\ PollRight(port, s)
      BY <2>1 DEF PortInv, Shape, Served, Leaving
    <3>2. port.sock[s].status \in {"idle", "pending", "cancelled"}
      <4>1. port.sock[s] \in SockType
        BY <2>1, <3>1 DEF PortType
      <4> QED
        BY <4>1 DEF SockType
    <3> QED
      BY <3>1, <3>2 DEF PollRight, NoPoll, None
  <2> QED
    BY <2>2, <2>3, <2>4, <2>5, <2>6, <2>7, <2>8 DEF QueuesRight
<1> QED
  BY <1>1, EpollInvCorrect, PTL
=============================================================================
