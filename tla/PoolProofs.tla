----------------------------- MODULE PoolProofs -----------------------------
(***************************************************************************)
(* Proofs about the memory pool, for any number of blocks, any block size  *)
(* init() ends with, and any requests: the lists of the classes and the    *)
(* pieces of the blocks stay right (PoolSound), the counters say what the  *)
(* pool holds (CountersAccounted), and free() lets no unused blocks pile   *)
(* up (FreeReclaims).                                                      *)
(*                                                                         *)
(* PoolSound says what a walk over a list, or over a chain of free pieces, *)
(* meets.  The invariant says what the links are: each class's list is a   *)
(* sequence of the blocks with room, linked both ways, and each block's    *)
(* offsets make a sequence of exactly the pieces nobody holds.  It adds    *)
(* what the code rests on without saying so: a piece that is handed out    *)
(* has no piece behind it, so that it can be returned to a full block,     *)
(* which leaves the offset alone.                                          *)
(*                                                                         *)
(* An operation is proved right in two halves: what it does to the list of *)
(* one class, and what it does to the pieces of one block.  The counters   *)
(* are accounted for on top of it: a step says which blocks are live and   *)
(* which pieces are held after it, and the counters follow modulo their    *)
(* width.                                                                  *)
(***************************************************************************)
EXTENDS MemPool, SequenceLemmas

USE SizesAssumption, BoundsAssumption

Ends == Blocks \union {NULL}

\* A block that is allocated
IsBlock(x) ==
    /\ x = [class |-> x.class, pre |-> x.pre, next |-> x.next, head |-> x.head,
            use |-> x.use, offset |-> x.offset]
    /\ x.class \in Classes /\ x.pre \in Ends /\ x.next \in Ends
    /\ x.offset # <<>>

\* The pieces `out' of block x are handed out; the others are on its chain.
PiecesRight(x, out) ==
    LET n == Pieces(x.class)
    IN  /\ x.offset \in [1..n -> 0..n]
        /\ out \subseteq 1..n /\ x.use = Cardinality(out)
        /\ \A i \in out : x.offset[i] = None
        /\ \E c : IsChain(1..n, None, x.offset, x.head, c) /\ In(c) = (1..n) \ out

Shaped(m) ==
    /\ m = [block |-> m.block, list |-> m.list]
    /\ m.block = [b \in Blocks |-> m.block[b]]
    /\ m.list = [c \in Classes |-> [head |-> m.list[c].head, tail |-> m.list[c].tail]]

MemoryType(m) ==
    /\ m = [block |-> m.block, list |-> m.list]
    /\ m.block = [b \in Blocks |-> m.block[b]]
    /\ m.list = [c \in Classes |-> [head |-> m.list[c].head, tail |-> m.list[c].tail]]
    /\ \A b \in Blocks : m.block[b] = Freed \/ IsBlock(m.block[b])
    /\ \A c \in Classes : m.list[c].head \in Ends /\ m.list[c].tail \in Ends

\* The list of class c is l, from m_head to m_tail.
Linked(m, c, l) ==
    /\ l \in Seq(Blocks)
    /\ \A i, j \in 1..Len(l) : l[i] = l[j] => i = j
    /\ m.list[c].head = IF l = <<>> THEN NULL ELSE l[1]
    /\ l # <<>> => m.list[c].tail = l[Len(l)]
    /\ \A i \in 1..Len(l) : IsBlock(m.block[l[i]]) /\ m.block[l[i]].class = c
    /\ \A i \in 1..Len(l) : m.block[l[i]].next = IF i < Len(l) THEN l[i + 1] ELSE NULL
    /\ \A i \in 2..Len(l) : m.block[l[i]].pre = l[i - 1]

\* r is m with the links of some blocks of class c changed, and their list.
Relinks(m, r, c) ==
    /\ MemoryType(r)
    /\ \A b \in Blocks : m.block[b] = Freed => r.block[b] = Freed
    /\ \A b \in Blocks : IsBlock(m.block[b]) =>
         /\ IsBlock(r.block[b])
         /\ r.block[b].class = m.block[b].class /\ r.block[b].head = m.block[b].head
         /\ r.block[b].use = m.block[b].use /\ r.block[b].offset = m.block[b].offset
    /\ \A b \in Blocks : IsBlock(m.block[b]) /\ m.block[b].class # c => r.block[b] = m.block[b]
    /\ \A d \in Classes \ {c} : r.list[d] = m.list[d]

\* Only blocks of class c, and their list, are other in r than in m.
Mine(x, c) == x = Freed \/ (IsBlock(x) /\ x.class = c)
Touches(m, r, c) ==
    /\ \A b \in Blocks : \/ r.block[b] = m.block[b]
                         \/ Mine(m.block[b], c) /\ Mine(r.block[b], c)
    /\ \A d \in Classes \ {c} : r.list[d] = m.list[d]

\* What the pieces of a block depend on is the same in x and y.
Alike(x, y) ==
    /\ IsBlock(x) /\ IsBlock(y)
    /\ y.class = x.class /\ y.head = x.head /\ y.use = x.use /\ y.offset = x.offset

\* Nothing but links is other in the blocks outside B.
Kept(m, r, B) ==
    \A b \in Blocks \ B :
       (m.block[b] = Freed /\ r.block[b] = Freed) \/ Alike(m.block[b], r.block[b])

\* The blocks of class c with a piece to hand out, which are to be in its list
Room(m, c) ==
    {b \in Blocks : IsBlock(m.block[b]) /\ m.block[b].class = c /\ m.block[b].head # None}

ListRight(m, c) == \E l : Linked(m, c, l) /\ In(l) = Room(m, c)

Out(H, b) == {i \in Nat : <<b, i>> \in H}

\* The callers hold the pieces H.
PiecesSound(m, H) ==
    /\ \A p \in H : p \in Blocks \X Nat /\ IsBlock(m.block[p[1]])
    /\ \A b \in Blocks : IsBlock(m.block[b]) => PiecesRight(m.block[b], Out(H, b))

Sound(m, H) == MemoryType(m) /\ PiecesSound(m, H) /\ \A c \in Classes : ListRight(m, c)

\* l without its k-th block, and l with b behind the first.
Without(l, k) == [i \in 1..(Len(l) - 1) |-> IF i < k THEN l[i] ELSE l[i + 1]]
Behind(l, b) == [i \in 1..(Len(l) + 1) |-> IF i = 1 THEN l[1] ELSE IF i = 2 THEN b ELSE l[i - 1]]

-----------------------------------------------------------------------------
\* The sizes of the classes.

\* The recursive definition of Size has a solution.
LEMMA SizeDoubles ==
  /\ Size[0] = StartSize
  /\ \A c \in 1..BlockSize : Size[c] = 2 * Size[c - 1]
<1> DEFINE Step(f, c) == IF c = 0 THEN StartSize ELSE 2 * f[c - 1]
           Upto(f, k) == f = [c \in 0..k |-> Step(f, c)]
           Good == {k \in 0..BlockSize : \E f : Upto(f, k)}
<1>1. 0 \in Good
  <2> DEFINE f == [c \in 0..0 |-> StartSize]
  <2>1. Upto(f, 0)
    OBVIOUS
  <2> HIDE DEF f, Upto
  <2> QED
    BY <2>1
<1>2. ASSUME NEW k \in 0..(BlockSize - 1), k \in Good PROVE k + 1 \in Good
  <2>1. PICK f : Upto(f, k)
    BY <1>2
  <2> DEFINE g == [c \in 0..(k + 1) |-> IF c <= k THEN f[c] ELSE 2 * f[k]]
  <2>2. ASSUME NEW c \in 0..(k + 1) PROVE g[c] = Step(g, c)
    <3>1. CASE c = 0
      BY <2>1, <3>1
    <3>2. CASE c # 0 /\ c <= k
      <4>1. c \in 0..k /\ c - 1 \in 0..k /\ c - 1 <= k /\ c - 1 \in 0..(k + 1)
        BY <3>2
      <4>2. f[c] = 2 * f[c - 1]
        BY <2>1, <3>2, <4>1
      <4>3. g[c] = f[c] /\ g[c - 1] = f[c - 1]
        BY <3>2, <4>1
      <4> QED
        BY <3>2, <4>2, <4>3
    <3>3. CASE c = k + 1
      <4> c # 0 /\ c - 1 = k /\ ~(c <= k) /\ g[k] = f[k] /\ g[c] = 2 * f[k]
        BY <3>3
      <4> QED
        OBVIOUS
    <3> QED
      BY <3>1, <3>2, <3>3
  <2>3. Upto(g, k + 1)
    BY <2>2
  <2> HIDE DEF g, Upto
  <2> QED
    BY <2>3
<1>3. PICK f : Upto(f, BlockSize)
  <2>1. \A k \in 0..BlockSize : k \in Good
    <3> HIDE DEF Good
    <3> QED
      BY <1>1, <1>2, UpTo
  <2> BlockSize \in 0..BlockSize
    OBVIOUS
  <2> QED
    BY <2>1
<1>4. Size = CHOOSE g : Upto(g, BlockSize)
  BY Zenon DEF Size
<1>5. Upto(Size, BlockSize)
  <2> HIDE DEF Upto
  <2> QED
    BY <1>3, <1>4
<1>6. \A c \in 0..BlockSize : Size[c] = Step(Size, c)
  BY <1>5
<1>7. 0 \in 0..BlockSize /\ \A c \in 1..BlockSize : c \in 0..BlockSize /\ c # 0
  OBVIOUS
<1> QED
  BY <1>6, <1>7

LEMMA SizeTypes == \A c \in 0..BlockSize : Size[c] \in Nat \ {0}
<1> DEFINE Good == {c \in 0..BlockSize : Size[c] \in Nat \ {0}}
<1>1. 0 \in Good
  BY SizeDoubles
<1>2. ASSUME NEW k \in 0..(BlockSize - 1), k \in Good PROVE k + 1 \in Good
  <2> k + 1 \in 1..BlockSize /\ k + 1 - 1 = k
    OBVIOUS
  <2> Size[k + 1] = 2 * Size[k]
    BY SizeDoubles
  <2> QED
    BY <1>2
<1> HIDE DEF Good
<1>3. \A k \in 0..BlockSize : k \in Good
  BY <1>1, <1>2, UpTo
<1> QED
  BY <1>3 DEF Good

\* The sizes rise strictly.
LEMMA SizeGrows ==
  ASSUME NEW c \in 0..BlockSize, NEW d \in 0..BlockSize, c <= d
  PROVE  Size[c] <= Size[d]
<1> DEFINE Good == {k \in 0..(BlockSize - c) : Size[c] <= Size[c + k]}
<1>1. 0 \in Good
  BY SizeTypes
<1>2. ASSUME NEW k \in 0..(BlockSize - c - 1), k \in Good PROVE k + 1 \in Good
  <2>1. c + k + 1 \in 1..BlockSize /\ c + k + 1 - 1 = c + k /\ c + k \in 0..BlockSize
    OBVIOUS
  <2>2. Size[c + k + 1] = 2 * Size[c + k]
    BY <2>1, SizeDoubles
  <2>3. Size[c + k] \in Nat /\ Size[c] \in Nat
    BY <2>1, SizeTypes
  <2>4. Size[c] <= Size[c + (k + 1)]
    BY <1>2, <2>2, <2>3
  <2> QED
    BY <2>4
<1>3. \A k \in 0..(BlockSize - c) : k \in Good
  <2> HIDE DEF Good
  <2> QED
    BY <1>1, <1>2, UpTo
<1>4. d - c \in Good /\ c + (d - c) = d
  BY <1>3
<1> QED
  BY <1>4

\* A block of a class has room for two pieces at least.
LEMMA PiecesIs ==
  ASSUME NEW c \in Classes
  PROVE  Pieces(c) \in Nat /\ Pieces(c) >= 2
<1>1. c \in 0..BlockSize /\ Size[c] < BlockSize
  BY DEF Classes
<1>2. PICK k \in 1..BlockSize : BlockSize = Size[k]
  OBVIOUS
<1>3. c + 1 <= k
  BY <1>1, <1>2, SizeGrows, SizeTypes
<1>4. Size[c + 1] <= BlockSize /\ Size[c + 1] = 2 * Size[c]
  <2>1. PICK d : d = c + 1
    OBVIOUS
  <2>2. d \in 1..BlockSize /\ d - 1 = c /\ d \in 0..BlockSize /\ k \in 0..BlockSize /\ d <= k
    BY <1>1, <1>3, <2>1
  <2>3. Size[d] <= Size[k]
    BY <2>2, SizeGrows
  <2>4. Size[d] = 2 * Size[d - 1]
    BY <2>2, SizeDoubles
  <2> QED
    BY <1>2, <2>1, <2>2, <2>3, <2>4
<1>5. ASSUME NEW s \in Nat \ {0}, 2 * s <= BlockSize
      PROVE  BlockSize \div s \in Nat /\ BlockSize \div s >= 2
  BY <1>5
<1> QED
  BY <1>1, <1>4, <1>5, SizeTypes DEF Pieces

\* There are finitely many classes.
LEMMA ClassesBelow ==
  ASSUME NEW c \in Classes, NEW d \in 0..c
  PROVE  d \in Classes
<1>1. c \in 0..BlockSize /\ d \in 0..BlockSize /\ Size[c] < BlockSize /\ Size[d] <= Size[c]
  BY SizeGrows DEF Classes
<1> QED
  BY <1>1, SizeTypes DEF Classes

\* What Min and Max are of the classes that fit, and of those with an unused block
LEMMA LeastIs ==
  ASSUME NEW T, T \subseteq Nat, T # {}
  PROVE  Min(T) \in T
<1> PICK m \in T : \A k \in T : m <= k
  BY LeastNumber
<1> QED
  BY DEF Min

LEMMA GreatestIs ==
  ASSUME NEW n \in Nat, NEW T, T \subseteq 0..n, T # {}
  PROVE  Max(T) \in T /\ \A k \in T : k <= Max(T)
<1> DEFINE U == {n - k : k \in T}
<1>1. U \subseteq Nat /\ U # {}
  <2>1. ASSUME NEW k \in T PROVE n - k \in Nat
    <3> k \in 0..n
      OBVIOUS
    <3> QED
      OBVIOUS
  <2> QED
    BY <2>1
<1>2. PICK u \in U : \A v \in U : u <= v
  <2> HIDE DEF U
  <2> QED
    BY <1>1, LeastNumber
<1>3. PICK m \in T : u = n - m
  OBVIOUS
<1>4. ASSUME NEW k \in T PROVE k <= m
  <2>1. n - k \in U
    OBVIOUS
  <2>2. n - m <= n - k
    BY <1>2, <1>3, <2>1
  <2>3. k \in Nat /\ m \in Nat
    OBVIOUS
  <2> QED
    BY <2>2, <2>3
<1>5. \A k \in T : m >= k
  <2>1. ASSUME NEW k \in T PROVE k \in Nat /\ m \in Nat
    <3> k \in 0..n /\ m \in 0..n
      OBVIOUS
    <3> QED
      OBVIOUS
  <2> QED
    BY <1>4, <2>1
<1> QED
  BY <1>5 DEF Max

-----------------------------------------------------------------------------
\* The pieces of one block.

\* A live block and a free one cannot be confused.
LEMMA BlockAlive == \A x : IsBlock(x) => x # Freed
BY DEF IsBlock, Freed

LEMMA Typed ==
  ASSUME NEW n \in Nat, n >= 2, NEW f \in [1..n -> 0..n]
  PROVE  f # <<>>
<1>1. 1 \in DOMAIN f
  OBVIOUS
<1>2. DOMAIN <<>> = {}
  OBVIOUS
<1> QED
  BY <1>1, <1>2

\* create_me() leaves all pieces free.
LEMMA CreatedRight ==
  ASSUME NEW c \in Classes
  PROVE  /\ IsBlock(CreateMe(c)) /\ PiecesRight(CreateMe(c), {}) /\ CreateMe(c).class = c
         /\ CreateMe(c).head = 1 /\ CreateMe(c).next = NULL /\ CreateMe(c).pre = NULL
         /\ CreateMe(c).offset[1] = 2
<1> DEFINE x == CreateMe(c)
           n == Pieces(c)
           l == [i \in 1..n |-> i]
<1>1. n \in Nat /\ n >= 2
  BY PiecesIs
<1>2. /\ x.class = c /\ x.pre = NULL /\ x.next = NULL /\ x.head = 1 /\ x.use = 0
      /\ x.offset = [i \in 1..n |-> IF i < n THEN i + 1 ELSE None]
      /\ x = [class |-> x.class, pre |-> x.pre, next |-> x.next, head |-> x.head,
              use |-> x.use, offset |-> x.offset]
  BY DEF CreateMe
<1> HIDE DEF x, n
<1>3. x.offset \in [1..n -> 0..n]
  BY <1>1, <1>2 DEF None
<1>4. x.offset # <<>>
  BY <1>1, <1>3, Typed
<1>5. IsChain(1..n, None, x.offset, 1, l) /\ In(l) = 1..n
  <2>1. l \in Seq(1..n) /\ Len(l) = n /\ \A i \in 1..n : l[i] = i
    BY <1>1
  <2> HIDE DEF l
  <2>2. l # <<>> /\ 1 \in 1..n
    BY <1>1, <2>1
  <2>3. ASSUME NEW i \in 1..n
        PROVE  x.offset[l[i]] = IF i < n THEN l[i + 1] ELSE None
    <3>1. l[i] = i /\ x.offset[i] = IF i < n THEN i + 1 ELSE None
      BY <1>1, <1>2, <2>1
    <3>2. i < n => i + 1 \in 1..n
      BY <1>1
    <3>3. i < n => l[i + 1] = i + 1
      BY <2>1, <3>2
    <3> QED
      BY <3>1, <3>3
  <2> QED
    BY <2>1, <2>2, <2>3 DEF IsChain, In
<1>6. Cardinality({}) = 0
  BY FS_EmptySet
<1> HIDE DEF l
<1>7. IsBlock(x)
  BY <1>2, <1>4 DEF IsBlock, Ends
<1>8. PiecesRight(x, {})
  BY <1>2, <1>3, <1>5, <1>6 DEF PiecesRight, n
<1>9. x.offset[1] = 2
  BY <1>1, <1>2
<1> QED
  BY <1>2, <1>7, <1>8, <1>9 DEF x

\* head_tack_node is NULL when all pieces are handed out, and only then.
LEMMA HeadIs ==
  ASSUME NEW x, NEW out, IsBlock(x), PiecesRight(x, out)
  PROVE  /\ Pieces(x.class) \in Nat /\ Pieces(x.class) >= 2
         /\ x.head = None => out = 1..Pieces(x.class)
         /\ x.head # None => x.head \in (1..Pieces(x.class)) \ out
         /\ IsFiniteSet(out) /\ Cardinality(out) \in 0..Pieces(x.class)
<1> DEFINE n == Pieces(x.class)
<1>1. n \in Nat /\ n >= 2
  BY PiecesIs DEF IsBlock
<1>2. PICK c : IsChain(1..n, None, x.offset, x.head, c) /\ In(c) = (1..n) \ out
  BY DEF PiecesRight
<1> HIDE DEF n
<1>3. None \notin 1..n
  BY DEF None
<1>4. /\ x.head = None => c = <<>>
      /\ x.head # None => x.head \in In(c)
  <2>1. PICK S, l, h, e : S = 1..n /\ l = x.offset /\ h = x.head /\ e = None
    OBVIOUS
  <2>2. IsChain(S, e, l, h, c) /\ e \notin S
    BY <1>2, <1>3, <2>1
  <2>3. (h = e <=> c = <<>>) /\ (c # <<>> => h \in In(c))
    BY <2>2, ChainEnds
  <2> QED
    BY <2>1, <2>3
<1>5. c = <<>> => In(c) = {}
  BY DEF In
<1>6. out \subseteq 1..n
  BY DEF PiecesRight, n
<1>7. IsFiniteSet(1..n) /\ Cardinality(1..n) = n
  <2>1. n \in Int /\ 1 \in Int /\ ~(1 > n)
    BY <1>1
  <2>2. IsFiniteSet(1..n) /\ Cardinality(1..n) = IF 1 > n THEN 0 ELSE n - 1 + 1
    BY <2>1, FS_Interval
  <2> QED
    BY <1>1, <2>2
<1>8. IsFiniteSet(out) /\ Cardinality(out) <= n /\ Cardinality(out) \in Nat
  BY <1>6, <1>7, FS_Subset, FS_CardinalityType
<1>9. x.head = None => out = 1..n
  BY <1>2, <1>4, <1>5, <1>6
<1>10. x.head # None => x.head \in (1..n) \ out
  BY <1>2, <1>4
<1>11. Cardinality(out) \in 0..n
  BY <1>1, <1>8
<1> QED
  BY <1>1, <1>8, <1>9, <1>10, <1>11 DEF n

\* tack_node() hands the first free piece out.
LEMMA TackedRight ==
  ASSUME NEW x, NEW out, IsBlock(x), PiecesRight(x, out), x.head # None
  PROVE  /\ IsBlock(Tacked(x)) /\ PiecesRight(Tacked(x), out \union {x.head})
         /\ Tacked(x).class = x.class /\ Tacked(x).pre = x.pre /\ Tacked(x).next = x.next
         /\ Tacked(x).head = x.offset[x.head]
<1> DEFINE n == Pieces(x.class)
           h == x.head
           y == Tacked(x)
<1>1. n \in Nat /\ n >= 2 /\ h \in (1..n) \ out /\ IsFiniteSet(out)
  BY HeadIs
<1>2. /\ x.offset \in [1..n -> 0..n] /\ out \subseteq 1..n /\ x.use = Cardinality(out)
      /\ \A i \in out : x.offset[i] = None
  BY DEF PiecesRight
<1>3. PICK c : IsChain(1..n, None, x.offset, h, c) /\ In(c) = (1..n) \ out
  BY DEF PiecesRight
<1>4. /\ y = [class |-> x.class, pre |-> x.pre, next |-> x.next, head |-> x.offset[h],
              use |-> x.use + 1, offset |-> [x.offset EXCEPT ![h] = None]]
  <2>1. PICK u, v, w, z, a, o : /\ u = x.class /\ v = x.pre /\ w = x.next /\ z = x.head
                               /\ a = x.use /\ o = x.offset
    OBVIOUS
  <2> DEFINE R(head, use, offset) ==
               [class |-> u, pre |-> v, next |-> w, head |-> head, use |-> use, offset |-> offset]
  <2>2. x = R(z, a, o)
    BY <2>1 DEF IsBlock
  <2>3. PICK f, p, k : f = o[z] /\ p = [o EXCEPT ![z] = None] /\ k = a + 1
    OBVIOUS
  <2>4. [x EXCEPT !.head = f] = R(f, a, o)
    BY <2>2
  <2>5. [R(f, a, o) EXCEPT !.offset[z] = None] = R(f, a, p)
    BY <2>3
  <2>6. [R(f, a, p) EXCEPT !.use = a + 1] = R(f, k, p)
    BY <2>3
  <2>7. Tacked(x) = [[[x EXCEPT !.head = f] EXCEPT !.offset[z] = None] EXCEPT !.use = a + 1]
    BY <2>1, <2>2, <2>3 DEF Tacked
  <2> QED
    BY <2>1, <2>3, <2>4, <2>5, <2>6, <2>7
<1> HIDE DEF n, y, h
<1>5. /\ y.class = x.class /\ y.pre = x.pre /\ y.next = x.next /\ y.head = x.offset[h]
      /\ y.use = x.use + 1 /\ y.offset = [x.offset EXCEPT ![h] = None]
      /\ y = [class |-> y.class, pre |-> y.pre, next |-> y.next, head |-> y.head,
              use |-> y.use, offset |-> y.offset]
  BY <1>4
<1>6. y.offset \in [1..n -> 0..n] /\ y.offset # <<>>
  <2> y.offset \in [1..n -> 0..n]
    BY <1>1, <1>2, <1>5 DEF None
  <2> QED
    BY <1>1, Typed
<1>7. IsBlock(y)
  BY <1>5, <1>6 DEF IsBlock
<1>8. None \notin 1..n /\ h # None
  BY <1>1 DEF None
<1>9. /\ IsChain(1..n, None, x.offset, x.offset[h], Tail(c)) /\ In(Tail(c)) = In(c) \ {h}
  <2>1. PICK S, l, e : S = 1..n /\ l = x.offset /\ e = None
    OBVIOUS
  <2>2. IsChain(S, e, l, h, c) /\ e \notin S /\ h # e
    BY <1>3, <1>8, <2>1
  <2>3. IsChain(S, e, l, l[h], Tail(c)) /\ In(Tail(c)) = In(c) \ {h}
    BY <2>2, ChainShrinks
  <2> QED
    BY <2>1, <2>3
<1>10. IsChain(1..n, None, y.offset, y.head, Tail(c))
  <2>1. \A i \in In(Tail(c)) : y.offset[i] = x.offset[i]
    BY <1>2, <1>3, <1>5, <1>9
  <2> QED
    BY <1>5, <1>8, <1>9, <2>1, ChainKept
<1>11. In(Tail(c)) = (1..n) \ (out \union {h})
  BY <1>3, <1>9
<1>12. y.use = Cardinality(out \union {h})
  <2>1. h \notin out /\ IsFiniteSet(out)
    BY <1>1
  <2>2. Cardinality(out \union {h}) = Cardinality(out) + 1
    BY <2>1, FS_AddElement
  <2> QED
    BY <1>2, <1>5, <2>2
<1>13. \A i \in out \union {h} : y.offset[i] = None
  BY <1>1, <1>2, <1>5
<1>14. PiecesRight(y, out \union {h})
  BY <1>1, <1>2, <1>5, <1>6, <1>10, <1>11, <1>12, <1>13 DEF PiecesRight, n
<1> QED
  BY <1>5, <1>7, <1>14 DEF y, h

\* return_node() puts the piece first on the chain.
LEMMA ReturnedRight ==
  ASSUME NEW x, NEW out, IsBlock(x), PiecesRight(x, out), NEW i \in out
  PROVE  /\ IsBlock(Returned(x, i)) /\ PiecesRight(Returned(x, i), out \ {i})
         /\ Returned(x, i).class = x.class /\ Returned(x, i).pre = x.pre
         /\ Returned(x, i).next = x.next /\ Returned(x, i).head = i
         /\ i \in Nat /\ i # None
<1> DEFINE n == Pieces(x.class)
           y == Returned(x, i)
<1>1. n \in Nat /\ n >= 2 /\ IsFiniteSet(out)
      /\ (x.head # None => x.head \in 1..n)
  BY HeadIs
<1>2. /\ x.offset \in [1..n -> 0..n] /\ out \subseteq 1..n /\ x.use = Cardinality(out)
      /\ \A j \in out : x.offset[j] = None
  BY DEF PiecesRight
<1>3. PICK c : IsChain(1..n, None, x.offset, x.head, c) /\ In(c) = (1..n) \ out
  BY DEF PiecesRight
<1>4. /\ y = [class |-> x.class, pre |-> x.pre, next |-> x.next, head |-> i,
              use |-> x.use - 1,
              offset |-> [x.offset EXCEPT ![i] = IF x.head # None THEN x.head ELSE x.offset[i]]]
  <2>1. PICK u, v, w, z, a, o : /\ u = x.class /\ v = x.pre /\ w = x.next /\ z = x.head
                               /\ a = x.use /\ o = x.offset
    OBVIOUS
  <2> DEFINE R(head, use, offset) ==
               [class |-> u, pre |-> v, next |-> w, head |-> head, use |-> use, offset |-> offset]
  <2>2. x = R(z, a, o)
    BY <2>1 DEF IsBlock
  <2>3. PICK f, p, k : f = (IF z # None THEN z ELSE o[i]) /\ p = [o EXCEPT ![i] = f] /\ k = a - 1
    OBVIOUS
  <2>4. [x EXCEPT !.offset[i] = f] = R(z, a, p)
    BY <2>2, <2>3
  <2>5. [R(z, a, p) EXCEPT !.head = i] = R(i, a, p)
    OBVIOUS
  <2>6. [R(i, a, p) EXCEPT !.use = a - 1] = R(i, k, p)
    BY <2>3
  <2>7. Returned(x, i) = [[[x EXCEPT !.offset[i] = f] EXCEPT !.head = i] EXCEPT !.use = a - 1]
    BY <2>1, <2>2, <2>3 DEF Returned
  <2> QED
    BY <2>1, <2>3, <2>4, <2>5, <2>6, <2>7
<1> HIDE DEF n, y
<1>5. /\ y.class = x.class /\ y.pre = x.pre /\ y.next = x.next /\ y.head = i
      /\ y.use = x.use - 1
      /\ y.offset = [x.offset EXCEPT ![i] = IF x.head # None THEN x.head ELSE x.offset[i]]
      /\ y = [class |-> y.class, pre |-> y.pre, next |-> y.next, head |-> y.head,
              use |-> y.use, offset |-> y.offset]
  BY <1>4
<1>6. i \in 1..n /\ i \in Nat /\ i # None /\ None \notin 1..n
  BY <1>1, <1>2 DEF None
<1>7. y.offset[i] = x.head
  BY <1>2, <1>5, <1>6
<1>8. y.offset \in [1..n -> 0..n] /\ y.offset # <<>>
  <2> y.offset \in [1..n -> 0..n]
    BY <1>1, <1>2, <1>5, <1>6
  <2> QED
    BY <1>1, Typed
<1>9. IsBlock(y)
  BY <1>5, <1>8 DEF IsBlock
<1>10. \A j \in 1..n : j # i => y.offset[j] = x.offset[j]
  BY <1>2, <1>5, <1>6
<1>11. /\ IsChain(1..n, None, y.offset, i, <<i>> \o c)
       /\ In(<<i>> \o c) = In(c) \union {i}
  <2>1. i \notin In(c) /\ \A j \in In(c) : y.offset[j] = x.offset[j]
    BY <1>3, <1>10
  <2> QED
    <3>1. PICK S, l, k, e, h : S = 1..n /\ l = x.offset /\ k = y.offset /\ e = None /\ h = x.head
      OBVIOUS
    <3>2. /\ IsChain(S, e, l, h, c) /\ e \notin S /\ i \in S /\ k[i] = h
          /\ \A j \in In(c) : k[j] = l[j]
      BY <1>3, <1>6, <1>7, <2>1, <3>1
    <3>3. IsChain(S, e, k, i, <<i>> \o c) /\ In(<<i>> \o c) = In(c) \union {i}
      BY <2>1, <3>2, ChainPushes
    <3> QED
      BY <3>1, <3>3
<1>12. In(<<i>> \o c) = (1..n) \ (out \ {i})
  BY <1>3, <1>6, <1>11
<1>13. y.use = Cardinality(out \ {i})
  BY <1>1, <1>2, <1>5, FS_RemoveElement
<1>14. \A j \in out \ {i} : y.offset[j] = None
  BY <1>2, <1>10
<1>15. PiecesRight(y, out \ {i})
  BY <1>2, <1>5, <1>8, <1>11, <1>12, <1>13, <1>14 DEF PiecesRight, n
<1> QED
  BY <1>5, <1>6, <1>9, <1>15 DEF y

-----------------------------------------------------------------------------
\* The links of one list.

\* Links that are set one at a time
LEMMA PreSet ==
  ASSUME NEW x, IsBlock(x), NEW v \in Ends, NEW y, y = [x EXCEPT !.pre = v]
  PROVE  /\ IsBlock(y) /\ y.pre = v /\ y.next = x.next /\ y.class = x.class
         /\ y.head = x.head /\ y.use = x.use /\ y.offset = x.offset
BY DEF IsBlock

LEMMA NextSet ==
  ASSUME NEW x, IsBlock(x), NEW v \in Ends, NEW y, y = [x EXCEPT !.next = v]
  PROVE  /\ IsBlock(y) /\ y.pre = x.pre /\ y.next = v /\ y.class = x.class
         /\ y.head = x.head /\ y.use = x.use /\ y.offset = x.offset
BY DEF IsBlock

LEMMA RelinksAgain ==
  ASSUME NEW m, NEW r, NEW s, NEW c, Relinks(m, r, c), Relinks(r, s, c)
  PROVE  Relinks(m, s, c)
BY DEF Relinks

\* A change of links is within the class.
LEMMA RelinksTouches ==
  ASSUME NEW m, MemoryType(m), NEW r, NEW c, Relinks(m, r, c)
  PROVE  Touches(m, r, c)
<1>1. ASSUME NEW b \in Blocks
      PROVE  r.block[b] = m.block[b] \/ (Mine(m.block[b], c) /\ Mine(r.block[b], c))
  <2>1. m.block[b] = Freed \/ IsBlock(m.block[b])
    BY DEF MemoryType
  <2>2. CASE m.block[b] = Freed
    BY <2>2 DEF Relinks
  <2>3. CASE IsBlock(m.block[b]) /\ m.block[b].class # c
    BY <2>3 DEF Relinks
  <2>4. CASE IsBlock(m.block[b]) /\ m.block[b].class = c
    BY <2>4 DEF Relinks, Mine
  <2> QED
    BY <2>1, <2>2, <2>3, <2>4
<1>2. \A d \in Classes \ {c} : r.list[d] = m.list[d]
  BY DEF Relinks
<1> QED
  BY <1>1, <1>2 DEF Touches

LEMMA TouchesAgain ==
  ASSUME NEW m, NEW r, NEW s, NEW c, Touches(m, r, c), Touches(r, s, c)
  PROVE  Touches(m, s, c)
BY DEF Touches

\* It leaves the lists of the other classes as they are.
LEMMA OtherLists ==
  ASSUME NEW m, NEW r, NEW c \in Classes, NEW d \in Classes, c # d, NEW l,
         Touches(m, r, c), Linked(m, d, l)
  PROVE  Linked(r, d, l)
<1>1. ASSUME NEW i \in 1..Len(l) PROVE r.block[l[i]] = m.block[l[i]]
  <2>1. l[i] \in Blocks /\ IsBlock(m.block[l[i]]) /\ m.block[l[i]].class # c
    BY DEF Linked
  <2>2. ~Mine(m.block[l[i]], c)
    BY <2>1, BlockAlive DEF Mine
  <2> QED
    BY <2>1, <2>2 DEF Touches
<1>2. r.list[d] = m.list[d]
  BY DEF Touches
<1>3. \A i \in 2..Len(l) : i \in 1..Len(l)
  OBVIOUS
<1>4. /\ l \in Seq(Blocks)
      /\ \A i, j \in 1..Len(l) : l[i] = l[j] => i = j
      /\ m.list[d].head = IF l = <<>> THEN NULL ELSE l[1]
      /\ l # <<>> => m.list[d].tail = l[Len(l)]
      /\ \A i \in 1..Len(l) : IsBlock(m.block[l[i]]) /\ m.block[l[i]].class = d
      /\ \A i \in 1..Len(l) : m.block[l[i]].next = IF i < Len(l) THEN l[i + 1] ELSE NULL
      /\ \A i \in 2..Len(l) : m.block[l[i]].pre = l[i - 1]
  BY DEF Linked
<1>5. /\ \A i \in 1..Len(l) : IsBlock(r.block[l[i]]) /\ r.block[l[i]].class = d
      /\ \A i \in 1..Len(l) : r.block[l[i]].next = IF i < Len(l) THEN l[i + 1] ELSE NULL
  BY <1>1, <1>4
<1>6. \A i \in 2..Len(l) : r.block[l[i]].pre = l[i - 1]
  BY <1>1, <1>3, <1>4
<1> QED
  BY <1>2, <1>4, <1>5, <1>6 DEF Linked

\* What is left of a list without its k-th block
LEMMA WithoutIs ==
  ASSUME NEW S, NEW l \in Seq(S), \A i, j \in 1..Len(l) : l[i] = l[j] => i = j, NEW k \in 1..Len(l)
  PROVE  /\ Without(l, k) \in Seq(S) /\ Len(Without(l, k)) = Len(l) - 1
         /\ \A i \in 1..(Len(l) - 1) : Without(l, k)[i] = IF i < k THEN l[i] ELSE l[i + 1]
         /\ \A i, j \in 1..(Len(l) - 1) : Without(l, k)[i] = Without(l, k)[j] => i = j
         /\ In(Without(l, k)) = In(l) \ {l[k]}
<1> DEFINE d == Without(l, k)
           n == Len(l) - 1
<1>1. n \in Nat /\ Len(l) = n + 1 /\ \A i \in 1..Len(l) : l[i] \in S
  OBVIOUS
<1>2. d = [i \in 1..n |-> IF i < k THEN l[i] ELSE l[i + 1]]
  BY DEF Without
<1> HIDE DEF d, n
<1>3. \A i \in 1..n : i \in 1..Len(l) /\ i + 1 \in 1..Len(l)
  BY <1>1
<1>4. \A i \in 1..n : d[i] \in S /\ d[i] = IF i < k THEN l[i] ELSE l[i + 1]
  BY <1>1, <1>2, <1>3
<1>5. d \in Seq(S) /\ Len(d) = n
  BY <1>1, <1>2, <1>4
<1>6. ASSUME NEW i \in 1..n, NEW j \in 1..n, d[i] = d[j] PROVE i = j
  <2>1. PICK a, b : a = (IF i < k THEN i ELSE i + 1) /\ b = (IF j < k THEN j ELSE j + 1)
    OBVIOUS
  <2>2. a \in 1..Len(l) /\ b \in 1..Len(l) /\ l[a] = d[i] /\ l[b] = d[j]
    BY <1>3, <1>4, <2>1
  <2>3. a = b
    BY <1>6, <2>2
  <2> QED
    BY <1>1, <2>1, <2>3
<1>7. ASSUME NEW i \in 1..n PROVE d[i] \in In(l) \ {l[k]}
  <2>1. PICK a : a = IF i < k THEN i ELSE i + 1
    OBVIOUS
  <2>2. a \in 1..Len(l) /\ a # k /\ l[a] = d[i]
    BY <1>1, <1>3, <1>4, <2>1
  <2> QED
    BY <2>2 DEF In
<1>8. ASSUME NEW a \in 1..Len(l), a # k PROVE l[a] \in In(d)
  <2>1. PICK i : i = IF a < k THEN a ELSE a - 1
    OBVIOUS
  <2>2. i \in 1..n /\ (i < k <=> a < k) /\ (~(a < k) => i + 1 = a)
    BY <1>1, <1>8, <2>1
  <2>3. d[i] = l[a]
    BY <1>4, <2>1, <2>2
  <2> QED
    BY <1>5, <2>2, <2>3 DEF In
<1>9. In(d) = In(l) \ {l[k]}
  <2>1. \A x \in In(d) : x \in In(l) \ {l[k]}
    BY <1>5, <1>7 DEF In
  <2>2. \A x \in In(l) \ {l[k]} : x \in In(d)
    BY <1>8 DEF In
  <2> QED
    BY <2>1, <2>2
<1> QED
  BY <1>4, <1>5, <1>6, <1>9 DEF d, n

\* What a list is with a block behind its first
LEMMA BehindIs ==
  ASSUME NEW S, NEW l \in Seq(S), \A i, j \in 1..Len(l) : l[i] = l[j] => i = j, l # <<>>,
         NEW b \in S, b \notin In(l)
  PROVE  /\ Behind(l, b) \in Seq(S) /\ Len(Behind(l, b)) = Len(l) + 1
         /\ Behind(l, b)[1] = l[1] /\ Behind(l, b)[2] = b
         /\ \A i \in 3..(Len(l) + 1) : Behind(l, b)[i] = l[i - 1]
         /\ \A i, j \in 1..(Len(l) + 1) : Behind(l, b)[i] = Behind(l, b)[j] => i = j
         /\ In(Behind(l, b)) = In(l) \union {b}
<1> DEFINE d == Behind(l, b)
           n == Len(l) + 1
<1>1. Len(l) \in Nat /\ n \in Nat /\ n >= 2 /\ \A i \in 1..Len(l) : l[i] \in S /\ l[i] # b
  BY DEF In
<1>2. d = [i \in 1..n |-> IF i = 1 THEN l[1] ELSE IF i = 2 THEN b ELSE l[i - 1]]
  BY DEF Behind
<1>3. n = Len(l) + 1
  OBVIOUS
<1> HIDE DEF d, n
<1>4. \A i \in 1..n : i > 2 => i - 1 \in 1..Len(l)
  BY <1>1, <1>3
<1>5. /\ d[1] = l[1] /\ d[2] = b /\ 1 \in 1..n /\ 2 \in 1..n /\ 1 \in 1..Len(l)
      /\ \A i \in 1..n : i > 2 => d[i] = l[i - 1]
  BY <1>1, <1>2, <1>3
<1>6. d \in Seq(S) /\ Len(d) = n
  <2> \A i \in 1..n : d[i] \in S
    BY <1>1, <1>4, <1>5
  <2> QED
    BY <1>1, <1>2
<1>7. ASSUME NEW i \in 1..n, i # 2
      PROVE  \E a \in 1..Len(l) : d[i] = l[a] /\ a = IF i = 1 THEN 1 ELSE i - 1
  <2>1. CASE i = 1
    BY <1>5, <2>1
  <2>2. CASE i # 1
    <3> i > 2 /\ i - 1 \in 1..Len(l)
      BY <1>1, <1>4, <1>7, <2>2
    <3> QED
      BY <1>5, <2>2
  <2> QED
    BY <2>1, <2>2
<1>8. ASSUME NEW i \in 1..n, NEW j \in 1..n, d[i] = d[j] PROVE i = j
  <2>1. CASE i = 2 /\ j = 2
    BY <2>1
  <2>2. CASE i = 2 /\ j # 2
    BY <1>1, <1>5, <1>7, <1>8, <2>2
  <2>3. CASE i # 2 /\ j = 2
    BY <1>1, <1>5, <1>7, <1>8, <2>3
  <2>4. CASE i # 2 /\ j # 2
    <3>1. PICK a \in 1..Len(l) : d[i] = l[a] /\ a = IF i = 1 THEN 1 ELSE i - 1
      BY <1>7, <2>4
    <3>2. PICK e \in 1..Len(l) : d[j] = l[e] /\ e = IF j = 1 THEN 1 ELSE j - 1
      BY <1>7, <2>4
    <3>3. a = e
      BY <1>8, <3>1, <3>2
    <3> QED
      BY <1>1, <2>4, <3>1, <3>2, <3>3
  <2> QED
    BY <2>1, <2>2, <2>3, <2>4
<1>9. ASSUME NEW a \in 1..Len(l) PROVE l[a] \in In(d)
  <2>1. PICK i : i = IF a = 1 THEN 1 ELSE a + 1
    OBVIOUS
  <2>2. i \in 1..n /\ d[i] = l[a]
    BY <1>1, <1>3, <1>5, <2>1
  <2> QED
    BY <1>6, <2>2 DEF In
<1>10. In(d) = In(l) \union {b}
  <2>1. \A x \in In(d) : x \in In(l) \union {b}
    BY <1>5, <1>6, <1>7 DEF In
  <2>2. \A x \in In(l) \union {b} : x \in In(d)
    BY <1>5, <1>6, <1>9 DEF In
  <2> QED
    BY <2>1, <2>2
<1>11. \A i \in 3..n : d[i] = l[i - 1]
  BY <1>1, <1>5
<1> QED
  BY <1>5, <1>6, <1>8, <1>10, <1>11 DEF d, n

\* The facts the lemmas on one list start from
LEMMA LinkedFacts ==
  ASSUME NEW m, MemoryType(m), NEW c \in Classes, NEW l, Linked(m, c, l), NEW k \in 1..Len(l)
  PROVE  /\ l \in Seq(Blocks) /\ Len(l) \in Nat /\ l[k] \in Blocks /\ l[k] # NULL
         /\ IsBlock(m.block[l[k]]) /\ m.block[l[k]].class = c
         /\ m.block[l[k]].next = IF k < Len(l) THEN l[k + 1] ELSE NULL
         /\ k > 1 => m.block[l[k]].pre = l[k - 1]
         /\ m.list[c].head = l[1] /\ m.list[c].tail = l[Len(l)]
         /\ 1 \in 1..Len(l) /\ Len(l) \in 1..Len(l)
<1>1. l \in Seq(Blocks) /\ Len(l) \in Nat /\ l # <<>> /\ l[k] \in Blocks
  BY DEF Linked
<1>2. k > 1 => k \in 2..Len(l)
  BY <1>1
<1> QED
  BY <1>1, <1>2 DEF Linked

-----------------------------------------------------------------------------
\* _remove_block() on a list of any length.

\* What _remove_block() does to the links, by the place of the block.
RemovedLinks(m, r, c, l, k) ==
    /\ \A j \in 1..Len(l) : j # k =>
         r.block[l[j]].next = IF j = k - 1 THEN m.block[l[k]].next ELSE m.block[l[j]].next
    /\ \A j \in 1..Len(l) : j # k /\ (j = k + 1 => k > 1) =>
         r.block[l[j]].pre = IF j = k + 1 THEN l[k - 1] ELSE m.block[l[j]].pre
    /\ r.list[c].head = IF k = 1 THEN m.block[l[1]].next ELSE l[1]
    /\ Len(l) > 1 => r.list[c].tail = IF k = Len(l) THEN l[k - 1] ELSE l[Len(l)]

\* The first block is removed,
LEMMA RemoveFirstBlock ==
  ASSUME NEW m, MemoryType(m), NEW c \in Classes, NEW l, Linked(m, c, l), 1 \in 1..Len(l)
  PROVE  Relinks(m, RemoveBlock(m, l[1]), c) /\ RemovedLinks(m, RemoveBlock(m, l[1]), c, l, 1)
<1> DEFINE b == l[1]
           x == m.block[b]
           r == RemoveBlock(m, b)
<1>1. /\ l \in Seq(Blocks) /\ Len(l) \in Nat /\ b \in Blocks /\ IsBlock(x) /\ x.class = c
      /\ x.next = (IF 1 < Len(l) THEN l[2] ELSE NULL)
      /\ m.list[c].head = b /\ m.list[c].tail = l[Len(l)]
  BY LinkedFacts
<1>2. \A i, j \in 1..Len(l) : l[i] = l[j] => i = j
  BY DEF Linked
<1>3. \A j \in 1..Len(l) : l[j] \in Blocks /\ (j # 1 => l[j] # b)
  BY <1>1, <1>2
<1>4. r = [m EXCEPT !.list[c].head = x.next, !.block[b].pre = NULL]
  BY <1>1 DEF RemoveBlock
<1>5. /\ m = [block |-> m.block, list |-> m.list]
      /\ m.block = [d \in Blocks |-> m.block[d]]
      /\ m.list = [d \in Classes |-> [head |-> m.list[d].head, tail |-> m.list[d].tail]]
  BY DEF MemoryType
<1> HIDE DEF r, b, x
<1>6. /\ r = [block |-> r.block, list |-> r.list]
      /\ r.block = [m.block EXCEPT ![b] = [m.block[b] EXCEPT !.pre = NULL]]
      /\ r.list = [m.list EXCEPT ![c] = [m.list[c] EXCEPT !.head = x.next]]
  BY <1>4, <1>5
<1>7. /\ r.list = [d \in Classes |-> [head |-> r.list[d].head, tail |-> r.list[d].tail]]
      /\ \A d \in Classes \ {c} : r.list[d] = m.list[d]
      /\ r.list[c].head = x.next /\ r.list[c].tail = m.list[c].tail
  BY <1>5, <1>6
<1>8. /\ r.block = [d \in Blocks |-> r.block[d]]
      /\ \A d \in Blocks : d # b => r.block[d] = m.block[d]
      /\ r.block[b] = [x EXCEPT !.pre = NULL]
  BY <1>1, <1>5, <1>6 DEF x
<1>9. /\ IsBlock(r.block[b]) /\ r.block[b].class = x.class /\ r.block[b].head = x.head
      /\ r.block[b].use = x.use /\ r.block[b].offset = x.offset
  BY <1>1, <1>8, PreSet DEF Ends
<1>10. x.next \in Ends
  BY <1>1 DEF IsBlock
<1>11. MemoryType(r)
  BY <1>6, <1>7, <1>8, <1>9, <1>10 DEF MemoryType
<1>12. Relinks(m, r, c)
  BY <1>1, <1>7, <1>8, <1>9, <1>11, BlockAlive DEF Relinks, x
<1>13. RemovedLinks(m, r, c, l, 1)
  BY <1>1, <1>3, <1>7, <1>8 DEF RemovedLinks, x, b
<1> QED
  BY <1>12, <1>13 DEF r, b

\* or the last,
LEMMA RemoveLastBlock ==
  ASSUME NEW m, MemoryType(m), NEW c \in Classes, NEW l, Linked(m, c, l),
         NEW k \in 1..Len(l), k > 1, k = Len(l)
  PROVE  Relinks(m, RemoveBlock(m, l[k]), c) /\ RemovedLinks(m, RemoveBlock(m, l[k]), c, l, k)
<1> DEFINE b == l[k]
           x == m.block[b]
           a == l[k - 1]
           r == RemoveBlock(m, b)
<1>1. /\ l \in Seq(Blocks) /\ Len(l) \in Nat /\ b \in Blocks /\ IsBlock(x) /\ x.class = c
      /\ x.next = (IF k < Len(l) THEN l[k + 1] ELSE NULL) /\ x.pre = a
      /\ m.list[c].head = l[1] /\ m.list[c].tail = l[Len(l)]
      /\ 1 \in 1..Len(l) /\ Len(l) \in 1..Len(l) /\ k - 1 \in 1..Len(l)
  BY LinkedFacts
<1>2. \A i, j \in 1..Len(l) : l[i] = l[j] => i = j
  BY DEF Linked
<1>3. \A j \in 1..Len(l) : l[j] \in Blocks /\ (j # k => l[j] # b) /\ (j # k - 1 => l[j] # a)
  BY <1>1, <1>2
<1>4. a \in Blocks /\ IsBlock(m.block[a]) /\ m.block[a].class = c /\ a # NULL /\ a # b /\ l[1] # b
  BY <1>1, <1>3, LinkedFacts
<1>5. r = [m EXCEPT !.list[c].tail = a, !.block[a].next = NULL]
  BY <1>1, <1>4 DEF RemoveBlock
<1>6. /\ m = [block |-> m.block, list |-> m.list]
      /\ m.block = [d \in Blocks |-> m.block[d]]
      /\ m.list = [d \in Classes |-> [head |-> m.list[d].head, tail |-> m.list[d].tail]]
  BY DEF MemoryType
<1>7. \A j \in 1..Len(l) : IsBlock(m.block[l[j]])
  BY DEF Linked
<1> HIDE DEF r, b, x, a
<1>8. /\ r = [block |-> r.block, list |-> r.list]
      /\ r.block = [m.block EXCEPT ![a] = [m.block[a] EXCEPT !.next = NULL]]
      /\ r.list = [m.list EXCEPT ![c] = [m.list[c] EXCEPT !.tail = a]]
  BY <1>5, <1>6
<1>9. /\ r.list = [d \in Classes |-> [head |-> r.list[d].head, tail |-> r.list[d].tail]]
      /\ \A d \in Classes \ {c} : r.list[d] = m.list[d]
      /\ r.list[c].head = m.list[c].head /\ r.list[c].tail = a
  BY <1>6, <1>8
<1>10. /\ r.block = [d \in Blocks |-> r.block[d]]
       /\ \A d \in Blocks : d # a => r.block[d] = m.block[d]
       /\ r.block[a] = [m.block[a] EXCEPT !.next = NULL]
  BY <1>4, <1>6, <1>8
<1>11. /\ IsBlock(r.block[a]) /\ r.block[a].class = c /\ r.block[a].head = m.block[a].head
       /\ r.block[a].use = m.block[a].use /\ r.block[a].offset = m.block[a].offset
       /\ r.block[a].next = NULL /\ r.block[a].pre = m.block[a].pre
  BY <1>4, <1>10, NextSet DEF Ends
<1>12. MemoryType(r)
  <2>1. \A d \in Blocks : r.block[d] = Freed \/ IsBlock(r.block[d])
    BY <1>10, <1>11 DEF MemoryType
  <2>2. a \in Ends
    BY <1>4 DEF Ends
  <2>3. \A d \in Classes : r.list[d].head \in Ends /\ r.list[d].tail \in Ends
    BY <1>9, <2>2 DEF MemoryType
  <2> QED
    BY <1>8, <1>9, <1>10, <2>1, <2>3 DEF MemoryType
<1>13. Relinks(m, r, c)
  BY <1>4, <1>9, <1>10, <1>11, <1>12, BlockAlive DEF Relinks
<1>14. RemovedLinks(m, r, c, l, k)
  <2>1. ASSUME NEW j \in 1..Len(l), j # k
        PROVE  /\ r.block[l[j]].next = IF j = k - 1 THEN m.block[l[k]].next ELSE m.block[l[j]].next
               /\ r.block[l[j]].pre = m.block[l[j]].pre /\ j # k + 1
    <3>1. CASE j = k - 1
      BY <1>1, <1>11, <3>1 DEF x, b, a
    <3>2. CASE j # k - 1
      BY <1>3, <1>10, <3>2
    <3>3. j # k + 1
      BY <1>1
    <3> QED
      BY <3>1, <3>2, <3>3
  <2>2. r.list[c].head = l[1] /\ r.list[c].tail = l[k - 1]
    BY <1>1, <1>9 DEF a
  <2> QED
    BY <2>1, <2>2 DEF RemovedLinks
<1> QED
  BY <1>13, <1>14 DEF r, b

\* or one between.
LEMMA RemoveInnerBlock ==
  ASSUME NEW m, MemoryType(m), NEW c \in Classes, NEW l, Linked(m, c, l),
         NEW k \in 1..Len(l), k > 1, k < Len(l)
  PROVE  Relinks(m, RemoveBlock(m, l[k]), c) /\ RemovedLinks(m, RemoveBlock(m, l[k]), c, l, k)
<1> DEFINE b == l[k]
           x == m.block[b]
           a == l[k - 1]
           e == l[k + 1]
           r == RemoveBlock(m, b)
<1>1. /\ l \in Seq(Blocks) /\ Len(l) \in Nat /\ b \in Blocks /\ IsBlock(x) /\ x.class = c
      /\ x.next = (IF k < Len(l) THEN l[k + 1] ELSE NULL) /\ x.pre = a
      /\ m.list[c].head = l[1] /\ m.list[c].tail = l[Len(l)]
      /\ 1 \in 1..Len(l) /\ Len(l) \in 1..Len(l) /\ k - 1 \in 1..Len(l)
  BY LinkedFacts
<1>2. \A i, j \in 1..Len(l) : l[i] = l[j] => i = j
  BY DEF Linked
<1>3. \A j \in 1..Len(l) : l[j] \in Blocks /\ (j # k => l[j] # b) /\ (j # k - 1 => l[j] # a)
  BY <1>1, <1>2
<1>4. a \in Blocks /\ IsBlock(m.block[a]) /\ m.block[a].class = c /\ a # NULL /\ a # b /\ l[1] # b
  BY <1>1, <1>3, LinkedFacts
<1>5. /\ k + 1 \in 1..Len(l) /\ e \in Blocks /\ IsBlock(m.block[e]) /\ m.block[e].class = c
      /\ e # NULL /\ e # b /\ e # a /\ l[Len(l)] # b /\ x.next = e
      /\ \A j \in 1..Len(l) : j # k + 1 => l[j] # e
  <2>1. k + 1 \in 1..Len(l) /\ k + 1 # k /\ k + 1 # k - 1
    BY <1>1
  <2> QED
    BY <1>1, <1>2, <1>3, <2>1, LinkedFacts
<1>6. r = [m EXCEPT !.block = [[m.block EXCEPT ![a].next = e] EXCEPT ![e].pre = a]]
  BY <1>1, <1>4, <1>5 DEF RemoveBlock
<1>7. /\ m = [block |-> m.block, list |-> m.list]
      /\ m.block = [d \in Blocks |-> m.block[d]]
  BY DEF MemoryType
<1> HIDE DEF r, b, x, a, e
<1>8. /\ r = [block |-> r.block, list |-> r.list] /\ r.list = m.list
      /\ r.block = [[m.block EXCEPT ![a].next = e] EXCEPT ![e].pre = a]
  BY <1>6, <1>7
<1>9. /\ r.block = [d \in Blocks |-> r.block[d]]
      /\ \A d \in Blocks : d # a /\ d # e => r.block[d] = m.block[d]
      /\ r.block[a] = [m.block[a] EXCEPT !.next = e]
      /\ r.block[e] = [m.block[e] EXCEPT !.pre = a]
  BY <1>4, <1>5, <1>7, <1>8
<1>10. /\ IsBlock(r.block[a]) /\ r.block[a].class = c /\ r.block[a].head = m.block[a].head
       /\ r.block[a].use = m.block[a].use /\ r.block[a].offset = m.block[a].offset
       /\ r.block[a].next = e /\ r.block[a].pre = m.block[a].pre
  <2>1. PICK y, v : y = m.block[a] /\ v = e /\ v \in Ends
    BY <1>5 DEF Ends
  <2>2. IsBlock(y) /\ r.block[a] = [y EXCEPT !.next = v]
    BY <1>4, <1>9, <2>1
  <2> QED
    BY <1>4, <2>1, <2>2, NextSet
<1>11. /\ IsBlock(r.block[e]) /\ r.block[e].class = c /\ r.block[e].head = m.block[e].head
       /\ r.block[e].use = m.block[e].use /\ r.block[e].offset = m.block[e].offset
       /\ r.block[e].next = m.block[e].next /\ r.block[e].pre = a
  BY <1>4, <1>5, <1>9, PreSet DEF Ends
<1>12. MemoryType(r)
  BY <1>4, <1>8, <1>9, <1>10, <1>11 DEF MemoryType, Ends
<1>13. Relinks(m, r, c)
  <2>1. m.block[a] # Freed /\ m.block[e] # Freed
    BY <1>4, <1>5, BlockAlive
  <2>2. \A d \in Blocks : m.block[d] = Freed => r.block[d] = Freed
    BY <1>9, <2>1
  <2>3. ASSUME NEW d \in Blocks, IsBlock(m.block[d])
        PROVE  /\ IsBlock(r.block[d])
               /\ r.block[d].class = m.block[d].class /\ r.block[d].head = m.block[d].head
               /\ r.block[d].use = m.block[d].use /\ r.block[d].offset = m.block[d].offset
               /\ m.block[d].class # c => r.block[d] = m.block[d]
    <3>1. CASE d = a
      BY <1>4, <1>10, <3>1
    <3>2. CASE d = e
      BY <1>5, <1>11, <3>2
    <3>3. CASE d # a /\ d # e
      BY <1>9, <2>3, <3>3
    <3> QED
      BY <3>1, <3>2, <3>3
  <2> QED
    BY <1>8, <1>12, <2>2, <2>3 DEF Relinks
<1>14. RemovedLinks(m, r, c, l, k)
  <2>1. ASSUME NEW j \in 1..Len(l), j # k
        PROVE  /\ r.block[l[j]].next = IF j = k - 1 THEN m.block[l[k]].next ELSE m.block[l[j]].next
               /\ r.block[l[j]].pre = IF j = k + 1 THEN l[k - 1] ELSE m.block[l[j]].pre
    <3>1. CASE j = k - 1
      BY <1>1, <1>5, <1>10, <3>1 DEF x, b, a, e
    <3>2. CASE j = k + 1
      BY <1>1, <1>5, <1>11, <3>2 DEF x, b, a, e
    <3>3. CASE j # k - 1 /\ j # k + 1
      BY <1>3, <1>5, <1>9, <3>3
    <3> QED
      BY <3>1, <3>2, <3>3
  <2>2. r.list[c].head = l[1] /\ r.list[c].tail = l[Len(l)]
    BY <1>1, <1>8
  <2> QED
    BY <2>1, <2>2 DEF RemovedLinks
<1> QED
  BY <1>13, <1>14 DEF r, b

\* The list that is left
LEMMA RemovedIs ==
  ASSUME NEW m, MemoryType(m), NEW c \in Classes, NEW l, Linked(m, c, l), NEW k \in 1..Len(l),
         NEW r, Relinks(m, r, c), RemovedLinks(m, r, c, l, k)
  PROVE  Linked(r, c, Without(l, k))
<1> DEFINE d == Without(l, k)
           n == Len(l) - 1
<1>1. Relinks(m, r, c) /\ RemovedLinks(m, r, c, l, k)
  OBVIOUS
<1>2. /\ l \in Seq(Blocks) /\ Len(l) \in Nat /\ n \in Nat /\ Len(l) = n + 1 /\ 1 \in 1..Len(l)
      /\ \A i \in 1..Len(l) : /\ l[i] \in Blocks /\ IsBlock(m.block[l[i]]) /\ m.block[l[i]].class = c
                              /\ m.block[l[i]].next = IF i < Len(l) THEN l[i + 1] ELSE NULL
                              /\ i > 1 => m.block[l[i]].pre = l[i - 1]
  <2>1. /\ l \in Seq(Blocks) /\ Len(l) \in Nat /\ n \in Nat /\ Len(l) = n + 1 /\ 1 \in 1..Len(l)
    BY LinkedFacts
  <2>2. ASSUME NEW i \in 1..Len(l)
        PROVE  /\ l[i] \in Blocks /\ IsBlock(m.block[l[i]]) /\ m.block[l[i]].class = c
               /\ m.block[l[i]].next = IF i < Len(l) THEN l[i + 1] ELSE NULL
               /\ i > 1 => m.block[l[i]].pre = l[i - 1]
    BY LinkedFacts
  <2> QED
    BY <2>1, <2>2
<1>3. /\ d \in Seq(Blocks) /\ Len(d) = n
      /\ \A i \in 1..n : d[i] = IF i < k THEN l[i] ELSE l[i + 1]
      /\ \A i, j \in 1..n : d[i] = d[j] => i = j
  <2>1. l \in Seq(Blocks) /\ \A i, j \in 1..Len(l) : l[i] = l[j] => i = j
    BY DEF Linked
  <2> HIDE DEF d, n
  <2>2. /\ Without(l, k) \in Seq(Blocks) /\ Len(Without(l, k)) = Len(l) - 1
        /\ \A i \in 1..(Len(l) - 1) : Without(l, k)[i] = IF i < k THEN l[i] ELSE l[i + 1]
        /\ \A i, j \in 1..(Len(l) - 1) : Without(l, k)[i] = Without(l, k)[j] => i = j
    BY <2>1, WithoutIs
  <2> QED
    BY <2>2 DEF d, n
<1> HIDE DEF d, n
<1>4. ASSUME NEW i \in 1..n
      PROVE  /\ IsBlock(r.block[d[i]]) /\ r.block[d[i]].class = c
             /\ r.block[d[i]].next = IF i < n THEN d[i + 1] ELSE NULL
             /\ i > 1 => r.block[d[i]].pre = d[i - 1]
  <2>1. PICK j : j = IF i < k THEN i ELSE i + 1
    OBVIOUS
  <2>2. j \in 1..Len(l) /\ j # k /\ d[i] = l[j]
    <3>1. d[i] = IF i < k THEN l[i] ELSE l[i + 1]
      BY <1>3
    <3>2. j \in 1..Len(l) /\ j # k
      BY <1>2, <2>1
    <3> QED
      BY <2>1, <3>1, <3>2
  <2>3. IsBlock(r.block[d[i]]) /\ r.block[d[i]].class = c
    <3>1. PICK y : y = l[j]
      OBVIOUS
    <3>2. y \in Blocks /\ IsBlock(m.block[y]) /\ m.block[y].class = c
      BY <1>2, <2>2, <3>1
    <3>3. IsBlock(r.block[y]) /\ r.block[y].class = m.block[y].class
      BY <1>1, <3>2 DEF Relinks
    <3> QED
      BY <2>2, <3>1, <3>2, <3>3
  <2>4. r.block[d[i]].next = IF i < n THEN d[i + 1] ELSE NULL
    <3>1. r.block[l[j]].next = IF j = k - 1 THEN m.block[l[k]].next ELSE m.block[l[j]].next
      BY <1>1, <2>2 DEF RemovedLinks
    <3>2. CASE j = k - 1
      <4>1. i = k - 1 /\ (i < n <=> k < Len(l)) /\ ~(i + 1 < k) /\ i + 1 = k
        BY <1>2, <2>1, <3>2
      <4>2. i < n => i + 1 \in 1..n /\ d[i + 1] = l[k + 1]
        BY <1>2, <1>3, <4>1
      <4> QED
        BY <1>2, <2>2, <3>1, <3>2, <4>1, <4>2
    <3>3. CASE j # k - 1
      <4>1. (i < n <=> j < Len(l))
        BY <1>2, <2>1, <2>2, <3>3
      <4>2. i < n => i + 1 \in 1..n /\ d[i + 1] = l[j + 1]
        <5>1. i < n => i + 1 \in 1..n
          BY <1>2
        <5>2. i < k => i + 1 < k /\ j + 1 = i + 1
          BY <1>2, <2>1, <3>3
        <5>3. ~(i < k) => ~(i + 1 < k) /\ j + 1 = i + 1 + 1
          BY <1>2, <2>1
        <5> QED
          BY <1>3, <5>1, <5>2, <5>3
      <4> QED
        BY <1>2, <2>2, <3>1, <3>3, <4>1, <4>2
    <3> QED
      BY <3>2, <3>3
  <2>5. i > 1 => r.block[d[i]].pre = d[i - 1]
    <3> SUFFICES ASSUME i > 1 PROVE r.block[d[i]].pre = d[i - 1]
      OBVIOUS
    <3>1. i - 1 \in 1..n /\ (j = k + 1 => k > 1 \/ i - 1 = 0)
      BY <1>2, <2>1
    <3>2. j = k + 1 => k > 1
      BY <1>2, <2>1
    <3>3. r.block[l[j]].pre = IF j = k + 1 THEN l[k - 1] ELSE m.block[l[j]].pre
      BY <1>1, <2>2, <3>2 DEF RemovedLinks
    <3>4. CASE j = k + 1
      <4>1. i = k /\ i - 1 < k /\ i - 1 = k - 1
        BY <1>2, <2>1, <3>4
      <4>2. d[i - 1] = l[k - 1]
        BY <1>3, <3>1, <4>1
      <4> QED
        BY <2>2, <3>3, <3>4, <4>2
    <3>5. CASE j # k + 1
      <4>1. j > 1 /\ (i < k => i - 1 < k /\ j - 1 = i - 1)
            /\ (~(i < k) => ~(i - 1 < k) /\ j - 1 = i - 1 + 1)
        BY <1>2, <2>1, <3>5
      <4>2. d[i - 1] = l[j - 1]
        BY <1>3, <3>1, <4>1
      <4> QED
        BY <1>2, <2>2, <3>3, <3>5, <4>1, <4>2
    <3> QED
      BY <3>4, <3>5
  <2> QED
    BY <2>3, <2>4, <2>5
<1>5. r.list[c].head = IF d = <<>> THEN NULL ELSE d[1]
  <2>1. r.list[c].head = IF k = 1 THEN m.block[l[1]].next ELSE l[1]
    BY <1>1 DEF RemovedLinks
  <2>2. d = <<>> <=> n = 0
    BY <1>2, <1>3
  <2>3. n > 0 => 1 \in 1..n /\ (1 < k <=> k # 1)
    BY <1>2
  <2>4. n > 0 => d[1] = IF k # 1 THEN l[1] ELSE l[2]
    BY <1>3, <2>3
  <2>5. m.block[l[1]].next = IF n > 0 THEN l[2] ELSE NULL
    BY <1>2
  <2>6. n = 0 => k = 1
    BY <1>2
  <2>7. n = 0 \/ n > 0
    BY <1>2
  <2> QED
    BY <2>1, <2>2, <2>4, <2>5, <2>6, <2>7
<1>6. d # <<>> => r.list[c].tail = d[n]
  <2> SUFFICES ASSUME d # <<>> PROVE r.list[c].tail = d[n]
    OBVIOUS
  <2>1. n \in 1..n /\ Len(l) > 1 /\ (n < k <=> k = Len(l))
    BY <1>2, <1>3
  <2>2. r.list[c].tail = IF k = Len(l) THEN l[k - 1] ELSE l[Len(l)]
    BY <1>1, <2>1 DEF RemovedLinks
  <2>3. d[n] = IF n < k THEN l[n] ELSE l[n + 1]
    BY <1>3, <2>1
  <2> QED
    BY <1>2, <2>1, <2>2, <2>3
<1>7. \A i \in 2..n : i \in 1..n /\ i > 1
  BY <1>2
<1>8. Linked(r, c, d)
  BY <1>3, <1>4, <1>5, <1>6, <1>7 DEF Linked
<1> QED
  BY <1>8 DEF d

\* _remove_block() takes the block out of its list, wherever it is in it.
LEMMA RemoveBlockKeeps ==
  ASSUME NEW m, MemoryType(m), NEW c \in Classes, NEW l, Linked(m, c, l), NEW k \in 1..Len(l)
  PROVE  /\ Relinks(m, RemoveBlock(m, l[k]), c)
         /\ Linked(RemoveBlock(m, l[k]), c, Without(l, k))
<1> DEFINE r == RemoveBlock(m, l[k])
<1>1. Relinks(m, r, c) /\ RemovedLinks(m, r, c, l, k)
  <2>1. CASE k = 1
    BY <2>1, RemoveFirstBlock
  <2>2. CASE k > 1 /\ k = Len(l)
    BY <2>2, RemoveLastBlock
  <2>3. CASE k > 1 /\ k < Len(l)
    BY <2>3, RemoveInnerBlock
  <2>4. Len(l) \in Nat
    BY LinkedFacts
  <2> QED
    BY <2>1, <2>2, <2>3, <2>4
<1> HIDE DEF r
<1>2. Linked(r, c, Without(l, k))
  BY <1>1, RemovedIs
<1> QED
  BY <1>1, <1>2 DEF r

-----------------------------------------------------------------------------
\* What an operation leaves of the blocks and lists it is not about.

\* The pieces of a block do not depend on its links.
LEMMA AlikeRight ==
  ASSUME NEW x, NEW y, Alike(x, y), NEW out, PiecesRight(x, out)
  PROVE  PiecesRight(y, out)
BY DEF Alike, PiecesRight

\* The blocks S are live in y where they are in x, of the same class.
Lasting(x, y, S) ==
    \A d \in S : (y[d] = Freed <=> x[d] = Freed) /\ y[d].class = x[d].class

\* What changes links only keeps which blocks are live.
LEMMA KeptLasts ==
  ASSUME NEW m, NEW r, NEW B, Kept(m, r, B)
  PROVE  Lasting(m.block, r.block, Blocks \ B)
<1> SUFFICES ASSUME NEW d \in Blocks \ B
             PROVE  /\ r.block[d] = Freed <=> m.block[d] = Freed
                    /\ r.block[d].class = m.block[d].class
  BY DEF Lasting
<1>1. (m.block[d] = Freed /\ r.block[d] = Freed) \/ Alike(m.block[d], r.block[d])
  BY DEF Kept
<1> QED
  BY <1>1, BlockAlive DEF Alike

\* What keeps the pieces does so step after step.
LEMMA RelinksKeeps ==
  ASSUME NEW m, MemoryType(m), NEW r, NEW c, Relinks(m, r, c)
  PROVE  Kept(m, r, {})
<1> SUFFICES ASSUME NEW b \in Blocks
             PROVE  \/ m.block[b] = Freed /\ r.block[b] = Freed
                    \/ Alike(m.block[b], r.block[b])
  BY DEF Kept
<1>1. m.block[b] = Freed \/ IsBlock(m.block[b])
  BY DEF MemoryType
<1>2. m.block[b] = Freed => r.block[b] = Freed
  BY DEF Relinks
<1>3. IsBlock(m.block[b]) => Alike(m.block[b], r.block[b])
  BY DEF Relinks, Alike
<1> QED
  BY <1>1, <1>2, <1>3

LEMMA KeptAgain ==
  ASSUME NEW m, NEW r, NEW s, NEW A, NEW B, Kept(m, r, A), Kept(r, s, B)
  PROVE  Kept(m, s, A \union B)
<1> SUFFICES ASSUME NEW b \in Blocks \ (A \union B)
             PROVE  \/ m.block[b] = Freed /\ s.block[b] = Freed
                    \/ Alike(m.block[b], s.block[b])
  BY DEF Kept
<1>1. /\ (m.block[b] = Freed /\ r.block[b] = Freed) \/ Alike(m.block[b], r.block[b])
      /\ (r.block[b] = Freed /\ s.block[b] = Freed) \/ Alike(r.block[b], s.block[b])
  BY DEF Kept
<1>2. r.block[b] = Freed => ~IsBlock(r.block[b])
  BY BlockAlive
<1> QED
  BY <1>1, <1>2 DEF Alike

\* What is left of a list's blocks when one block is changed
LEMMA RoomKept ==
  ASSUME NEW m, NEW r, NEW B, Kept(m, r, B), NEW c, NEW b \in Blocks \ B
  PROVE  b \in Room(r, c) <=> b \in Room(m, c)
<1>1. (m.block[b] = Freed /\ r.block[b] = Freed) \/ Alike(m.block[b], r.block[b])
  BY DEF Kept
<1>2. CASE m.block[b] = Freed /\ r.block[b] = Freed
  BY <1>2 DEF Room
<1>3. CASE Alike(m.block[b], r.block[b])
  BY <1>3 DEF Room, Alike
<1> QED
  BY <1>1, <1>2, <1>3

\* The blocks with room of another class
LEMMA OtherRoom ==
  ASSUME NEW m, NEW r, NEW c, NEW d, c # d, Touches(m, r, c)
  PROVE  Room(r, d) = Room(m, d)
<1>1. ASSUME NEW b \in Blocks PROVE b \in Room(r, d) <=> b \in Room(m, d)
  <2>1. r.block[b] = m.block[b] \/ (Mine(m.block[b], c) /\ Mine(r.block[b], c))
    BY DEF Touches
  <2>2. ASSUME NEW x, Mine(x, c) PROVE ~(IsBlock(x) /\ x.class = d)
    BY <2>2, BlockAlive DEF Mine
  <2> QED
    BY <2>1, <2>2 DEF Room
<1>2. Room(r, d) \subseteq Blocks /\ Room(m, d) \subseteq Blocks
  BY DEF Room
<1> QED
  BY <1>1, <1>2

\* An operation on class c leaves the lists of the others right.
LEMMA ListsAfter ==
  ASSUME NEW m, NEW r, NEW c \in Classes, Touches(m, r, c), \A d \in Classes : ListRight(m, d),
         ListRight(r, c)
  PROVE  \A d \in Classes : ListRight(r, d)
<1> SUFFICES ASSUME NEW d \in Classes, d # c PROVE ListRight(r, d)
  OBVIOUS
<1>1. PICK l : Linked(m, d, l) /\ In(l) = Room(m, d)
  BY DEF ListRight
<1>2. Linked(r, d, l)
  BY <1>1, OtherLists
<1>3. Room(r, d) = Room(m, d)
  BY OtherRoom
<1> QED
  BY <1>1, <1>2, <1>3 DEF ListRight

\* An operation on block b leaves the pieces of the others right.
LEMMA PiecesAfter ==
  ASSUME NEW m, NEW r, NEW H, NEW K, PiecesSound(m, H), NEW b \in Blocks, Kept(m, r, {b}),
         K \subseteq Blocks \X Nat, \A d \in Blocks \ {b} : Out(K, d) = Out(H, d),
         IsBlock(r.block[b]) => PiecesRight(r.block[b], Out(K, b)),
         ~IsBlock(r.block[b]) => Out(K, b) = {}
  PROVE  PiecesSound(r, K)
<1>1. ASSUME NEW d \in Blocks, IsBlock(r.block[d]) PROVE PiecesRight(r.block[d], Out(K, d))
  <2>1. CASE d = b
    BY <1>1, <2>1
  <2>2. CASE d # b
    <3>1. Alike(m.block[d], r.block[d])
      BY <1>1, <2>2, BlockAlive DEF Kept
    <3>2. PiecesRight(m.block[d], Out(H, d))
      BY <3>1 DEF PiecesSound, Alike
    <3> QED
      BY <2>2, <3>1, <3>2, AlikeRight
  <2> QED
    BY <2>1, <2>2
<1>2. ASSUME NEW p \in K PROVE p \in Blocks \X Nat /\ IsBlock(r.block[p[1]])
  <2>1. PICK d \in Blocks, i \in Nat : p = <<d, i>>
    OBVIOUS
  <2>2. i \in Out(K, d)
    BY <2>1 DEF Out
  <2>3. CASE d = b
    BY <2>1, <2>2, <2>3
  <2>4. CASE d # b
    <3>1. <<d, i>> \in H
      BY <2>2, <2>4 DEF Out
    <3>2. IsBlock(m.block[d])
      <4>1. PICK q : q = <<d, i>>
        OBVIOUS
      <4>2. q \in H /\ q[1] = d
        BY <3>1, <4>1
      <4> QED
        BY <4>2 DEF PiecesSound
    <3>3. Alike(m.block[d], r.block[d])
      BY <2>4, <3>2, BlockAlive DEF Kept
    <3> QED
      BY <2>1, <3>3 DEF Alike
  <2> QED
    BY <2>3, <2>4
<1> QED
  BY <1>1, <1>2 DEF PiecesSound

\* A block's pieces change, and not its links.
LEMMA Rewritten ==
  ASSUME NEW m, MemoryType(m), NEW c \in Classes, NEW b \in Blocks, NEW y, IsBlock(y),
         IsBlock(m.block[b]), m.block[b].class = c, y.class = c,
         y.pre = m.block[b].pre, y.next = m.block[b].next,
         NEW r, r = [m EXCEPT !.block[b] = y]
  PROVE  /\ MemoryType(r) /\ Touches(m, r, c) /\ Kept(m, r, {b})
         /\ r.block[b] = y /\ r.list = m.list
         /\ \A l : Linked(m, c, l) => Linked(r, c, l)
<1>1. /\ m = [block |-> m.block, list |-> m.list]
      /\ m.block = [d \in Blocks |-> m.block[d]]
      /\ \A d \in Blocks : m.block[d] = Freed \/ IsBlock(m.block[d])
  BY DEF MemoryType
<1>2. /\ r = [block |-> r.block, list |-> r.list] /\ r.list = m.list
      /\ r.block = [m.block EXCEPT ![b] = y]
  BY <1>1
<1>3. /\ r.block = [d \in Blocks |-> r.block[d]] /\ r.block[b] = y
      /\ \A d \in Blocks : d # b => r.block[d] = m.block[d]
  BY <1>1, <1>2
<1>4. MemoryType(r)
  BY <1>1, <1>2, <1>3 DEF MemoryType
<1>5. Touches(m, r, c)
  BY <1>2, <1>3 DEF Touches, Mine
<1>6. Kept(m, r, {b})
  BY <1>1, <1>3 DEF Kept, Alike
<1>7. ASSUME NEW l, Linked(m, c, l) PROVE Linked(r, c, l)
  <2>1. ASSUME NEW i \in 1..Len(l)
        PROVE  /\ IsBlock(r.block[l[i]]) /\ r.block[l[i]].class = c
               /\ r.block[l[i]].next = m.block[l[i]].next /\ r.block[l[i]].pre = m.block[l[i]].pre
    <3>1. l[i] \in Blocks /\ IsBlock(m.block[l[i]]) /\ m.block[l[i]].class = c
      BY <1>7 DEF Linked
    <3> QED
      BY <1>3, <3>1
  <2>2. \A i \in 2..Len(l) : i \in 1..Len(l)
    OBVIOUS
  <2>3. /\ l \in Seq(Blocks)
        /\ \A i, j \in 1..Len(l) : l[i] = l[j] => i = j
        /\ m.list[c].head = IF l = <<>> THEN NULL ELSE l[1]
        /\ l # <<>> => m.list[c].tail = l[Len(l)]
        /\ \A i \in 1..Len(l) : m.block[l[i]].next = IF i < Len(l) THEN l[i + 1] ELSE NULL
        /\ \A i \in 2..Len(l) : m.block[l[i]].pre = l[i - 1]
    BY <1>7 DEF Linked
  <2>4. \A i \in 1..Len(l) : r.block[l[i]].next = IF i < Len(l) THEN l[i + 1] ELSE NULL
    BY <2>1, <2>3
  <2>5. \A i \in 2..Len(l) : r.block[l[i]].pre = l[i - 1]
    BY <2>1, <2>2, <2>3
  <2> QED
    BY <1>2, <2>1, <2>3, <2>4, <2>5 DEF Linked
<1> QED
  BY <1>2, <1>3, <1>4, <1>5, <1>6, <1>7

-----------------------------------------------------------------------------
\* tack_node().

\* tack_node() takes a block that is full out of the front of its list.
LEMMA DropFirst ==
  ASSUME NEW m, MemoryType(m), NEW c \in Classes, NEW l, Linked(m, c, l), 1 \in 1..Len(l),
         NEW r, Shaped(r),
         \A d \in Classes \ {c} : r.list[d] = m.list[d],
         r.list[c].head = m.block[l[1]].next,
         Len(l) = 1 => r.list[c].tail \in Ends /\ r.block = m.block,
         Len(l) > 1 => /\ r.list[c].tail = m.list[c].tail
                       /\ r.block[l[1]] = [m.block[l[1]] EXCEPT !.next = NULL]
                       /\ r.block[l[2]] = [m.block[l[2]] EXCEPT !.pre = NULL]
                       /\ \A d \in Blocks : d # l[1] /\ d # l[2] => r.block[d] = m.block[d]
  PROVE  Relinks(m, r, c) /\ Linked(r, c, Without(l, 1))
<1>1. /\ l \in Seq(Blocks) /\ Len(l) \in Nat /\ Len(l) \in 1..Len(l)
      /\ m.list[c].head = l[1] /\ m.list[c].tail = l[Len(l)]
      /\ l[1] \in Blocks /\ IsBlock(m.block[l[1]]) /\ m.block[l[1]].class = c
      /\ m.block[l[1]].next = (IF 1 < Len(l) THEN l[1 + 1] ELSE NULL)
  BY LinkedFacts
<1>2. \A i, j \in 1..Len(l) : l[i] = l[j] => i = j
  BY DEF Linked
<1>3. CASE Len(l) = 1
  <2>1. MemoryType(r)
    <3>1. m.block[l[1]].next \in Ends
      BY <1>1 DEF IsBlock
    <3>2. \A d \in Classes : r.list[d].head \in Ends /\ r.list[d].tail \in Ends
      BY <1>3, <3>1 DEF MemoryType
    <3> QED
      BY <1>3, <3>2 DEF MemoryType, Shaped
  <2>2. Relinks(m, r, c)
    BY <1>3, <2>1, BlockAlive DEF Relinks
  <2>3. RemovedLinks(m, r, c, l, 1)
    BY <1>1, <1>3 DEF RemovedLinks
  <2> QED
    BY <2>2, <2>3, RemovedIs
<1>4. CASE Len(l) > 1
  <2> DEFINE b == l[1]
             e == l[2]
  <2>1. /\ 2 \in 1..Len(l) /\ e \in Blocks /\ IsBlock(m.block[e]) /\ m.block[e].class = c /\ e # b
        /\ m.block[b].next = e
    <3>1. 2 \in 1..Len(l) /\ 2 # 1 /\ 1 < Len(l) /\ 1 + 1 = 2
      BY <1>1, <1>4
    <3>2. l[2] \in Blocks /\ IsBlock(m.block[l[2]]) /\ m.block[l[2]].class = c
      BY <3>1, LinkedFacts
    <3> QED
      BY <1>1, <1>2, <3>1, <3>2
  <2>2. /\ b \in Blocks /\ IsBlock(m.block[b]) /\ m.block[b].class = c
        /\ r.list[c].head = e /\ r.list[c].tail = m.list[c].tail
        /\ r.block[b] = [m.block[b] EXCEPT !.next = NULL]
        /\ r.block[e] = [m.block[e] EXCEPT !.pre = NULL]
        /\ \A d \in Blocks : d # b /\ d # e => r.block[d] = m.block[d]
    BY <1>1, <1>4, <2>1
  <2>3. \A j \in 1..Len(l) : l[j] \in Blocks /\ (j # 1 => l[j] # b) /\ (j # 2 => l[j] # e)
    BY <1>1, <1>2, <2>1
  <2> HIDE DEF b, e
  <2>4. PICK v : v = NULL /\ v \in Ends
    BY DEF Ends
  <2>5. /\ IsBlock(r.block[b]) /\ r.block[b].class = c /\ r.block[b].head = m.block[b].head
        /\ r.block[b].use = m.block[b].use /\ r.block[b].offset = m.block[b].offset
    <3>1. r.block[b] = [m.block[b] EXCEPT !.next = v]
      BY <2>2, <2>4
    <3> QED
      BY <2>2, <2>4, <3>1, NextSet
  <2>6. /\ IsBlock(r.block[e]) /\ r.block[e].class = c /\ r.block[e].head = m.block[e].head
        /\ r.block[e].use = m.block[e].use /\ r.block[e].offset = m.block[e].offset
        /\ r.block[e].next = m.block[e].next
    <3>1. r.block[e] = [m.block[e] EXCEPT !.pre = v]
      BY <2>2, <2>4
    <3> QED
      BY <2>1, <2>4, <3>1, PreSet
  <2>7. MemoryType(r)
    <3>1. \A d \in Blocks : r.block[d] = Freed \/ IsBlock(r.block[d])
      BY <2>2, <2>5, <2>6 DEF MemoryType
    <3>2. e \in Ends
      BY <2>1 DEF Ends
    <3>3. \A d \in Classes : r.list[d].head \in Ends /\ r.list[d].tail \in Ends
      BY <2>2, <3>2 DEF MemoryType
    <3> QED
      BY <3>1, <3>3 DEF MemoryType, Shaped
  <2>8. Relinks(m, r, c)
    <3>1. m.block[b] # Freed /\ m.block[e] # Freed
      BY <2>1, <2>2, BlockAlive
    <3>2. \A d \in Blocks : m.block[d] = Freed => r.block[d] = Freed
      BY <2>2, <3>1
    <3>3. ASSUME NEW d \in Blocks, IsBlock(m.block[d])
          PROVE  /\ IsBlock(r.block[d])
                 /\ r.block[d].class = m.block[d].class /\ r.block[d].head = m.block[d].head
                 /\ r.block[d].use = m.block[d].use /\ r.block[d].offset = m.block[d].offset
                 /\ m.block[d].class # c => r.block[d] = m.block[d]
      <4>1. CASE d = b
        BY <2>2, <2>5, <4>1
      <4>2. CASE d = e
        BY <2>1, <2>6, <4>2
      <4>3. CASE d # b /\ d # e
        BY <2>2, <3>3, <4>3
      <4> QED
        BY <4>1, <4>2, <4>3
    <3> QED
      BY <2>7, <3>2, <3>3 DEF Relinks
  <2>9. RemovedLinks(m, r, c, l, 1)
    <3>1. ASSUME NEW j \in 1..Len(l), j # 1
          PROVE  /\ r.block[l[j]].next = m.block[l[j]].next
                 /\ j # 2 => r.block[l[j]].pre = m.block[l[j]].pre
                 /\ j # 0
      <4>1. CASE j = 2
        BY <2>6, <4>1 DEF e
      <4>2. CASE j # 2
        BY <2>2, <2>3, <3>1, <4>2
      <4> QED
        BY <4>1, <4>2
    <3>2. r.list[c].head = m.block[l[1]].next /\ r.list[c].tail = l[Len(l)] /\ 1 # Len(l)
      BY <1>1, <1>4, <2>2
    <3> QED
      BY <1>1, <1>4, <3>1, <3>2 DEF RemovedLinks
  <2> QED
    BY <2>8, <2>9, RemovedIs
<1>5. PICK k : k = Len(l) /\ k \in Nat /\ 1 \in 1..k
  BY <1>1
<1>6. k = 1 \/ k > 1
  BY <1>5
<1> QED
  BY <1>3, <1>4, <1>5, <1>6

\* What a list loses is the block that has no piece left.
LEMMA WithoutIn ==
  ASSUME NEW m, NEW c, NEW l, Linked(m, c, l), NEW k \in 1..Len(l)
  PROVE  In(Without(l, k)) = In(l) \ {l[k]}
<1> l \in Seq(Blocks) /\ \A i, j \in 1..Len(l) : l[i] = l[j] => i = j
  BY DEF Linked
<1> QED
  BY WithoutIs

\* What a changed block means for the blocks with room of its class
LEMMA RoomIs ==
  ASSUME NEW m, NEW r, NEW c, NEW b \in Blocks, Kept(m, r, {b})
  PROVE  Room(r, c) \ {b} = Room(m, c) \ {b}
<1>1. Room(r, c) \subseteq Blocks /\ Room(m, c) \subseteq Blocks
  BY DEF Room
<1>2. ASSUME NEW d \in Blocks \ {b} PROVE d \in Room(r, c) <=> d \in Room(m, c)
  BY RoomKept
<1> QED
  BY <1>1, <1>2

\* A piece is handed out from the first block of a list.
LEMMA TackFirstKeeps ==
  ASSUME NEW m, MemoryType(m), NEW c \in Classes, ListRight(m, c), NEW b, b = m.list[c].head,
         b # NULL, NEW out, PiecesRight(m.block[b], out)
  PROVE  /\ b \in Blocks /\ b \in Room(m, c)
         /\ MemoryType(TackFirst(m, c)) /\ Touches(m, TackFirst(m, c), c)
         /\ Kept(m, TackFirst(m, c), {b}) /\ ListRight(TackFirst(m, c), c)
         /\ IsBlock(TackFirst(m, c).block[b])
         /\ PiecesRight(TackFirst(m, c).block[b], out \union {m.block[b].head})
<1> DEFINE x == Tacked(m.block[b])
           r == TackFirst(m, c)
<1>1. PICK l : Linked(m, c, l) /\ In(l) = Room(m, c)
  BY DEF ListRight
<1>2. l \in Seq(Blocks) /\ Len(l) \in Nat /\ 1 \in 1..Len(l) /\ b = l[1]
  BY <1>1 DEF Linked
<1>3. b \in Room(m, c)
  BY <1>1, <1>2 DEF In
<1>4. b \in Blocks /\ IsBlock(m.block[b]) /\ m.block[b].class = c /\ m.block[b].head # None
  BY <1>3 DEF Room
<1>5. /\ IsBlock(x) /\ PiecesRight(x, out \union {m.block[b].head})
      /\ x.class = m.block[b].class /\ x.pre = m.block[b].pre /\ x.next = m.block[b].next
  <2> PICK y : y = m.block[b]
    OBVIOUS
  <2> IsBlock(y) /\ PiecesRight(y, out) /\ y.head # None
    BY <1>4
  <2> QED
    BY TackedRight
<1> HIDE DEF x, r
<1>6. PICK n : n = [m EXCEPT !.block[b] = x]
  OBVIOUS
<1>61. /\ MemoryType(n) /\ Touches(m, n, c) /\ Kept(m, n, {b}) /\ Linked(n, c, l)
  BY <1>1, <1>4, <1>5, <1>6, Rewritten
<1>62. n.block[b] = x /\ n.list = m.list
  BY <1>4, <1>6 DEF MemoryType
<1>7. r = IF x.head # None THEN n
          ELSE IF x.next # NULL
          THEN [m EXCEPT !.list[c].head = x.next,
                         !.block = [@ EXCEPT ![b] = [x EXCEPT !.next = NULL], ![x.next].pre = NULL]]
          ELSE [m EXCEPT !.block[b] = x, !.list[c] = [head |-> NULL, tail |-> NULL]]
  BY <1>6 DEF TackFirst, r, x
<1>8. CASE x.head # None
  <2>1. r = n
    BY <1>7, <1>8
  <2>2. Room(n, c) = Room(m, c)
    <3>1. b \in Room(n, c)
      BY <1>4, <1>5, <1>62, <1>8 DEF Room
    <3>2. Room(n, c) \ {b} = Room(m, c) \ {b}
      BY <1>4, <1>61, RoomIs
    <3> QED
      BY <1>3, <3>1, <3>2
  <2>3. ListRight(n, c)
    BY <1>1, <1>61, <2>2 DEF ListRight
  <2> QED
    BY <1>3, <1>4, <1>5, <1>61, <1>62, <2>1, <2>3 DEF r
<1>9. CASE x.head = None
  <2>1. Relinks(n, r, c) /\ Linked(r, c, Without(l, 1))
    <3>1. /\ m = [block |-> m.block, list |-> m.list]
          /\ m.block = [d \in Blocks |-> m.block[d]]
          /\ m.list = [d \in Classes |-> [head |-> m.list[d].head, tail |-> m.list[d].tail]]
      BY DEF MemoryType
    <3>2. n.block = [m.block EXCEPT ![b] = x]
      BY <1>6, <3>1
    <3>6. n.block = [d \in Blocks |-> n.block[d]]
      BY <1>61 DEF MemoryType
    <3>3. x.next = (IF 1 < Len(l) THEN l[1 + 1] ELSE NULL)
      BY <1>2, <1>61, <1>62 DEF Linked
    <3>7. PICK k : k = Len(l) /\ k \in Nat /\ 1 \in 1..k
      BY <1>2
    <3>4. CASE Len(l) = 1
      <4>1. x.next = NULL
        BY <3>3, <3>4
      <4>2. r = [m EXCEPT !.block[b] = x, !.list[c] = [head |-> NULL, tail |-> NULL]]
        BY <1>7, <1>9, <4>1
      <4>3. /\ r = [block |-> r.block, list |-> r.list] /\ r.block = n.block
            /\ r.list = [m.list EXCEPT ![c] = [head |-> NULL, tail |-> NULL]]
        BY <3>1, <3>2, <4>2
      <4>4. /\ r.list = [d \in Classes |-> [head |-> r.list[d].head, tail |-> r.list[d].tail]]
            /\ \A d \in Classes \ {c} : r.list[d] = n.list[d]
            /\ r.list[c].head = NULL /\ r.list[c].tail = NULL
        BY <1>62, <3>1, <4>3
      <4>5. r.block = [d \in Blocks |-> r.block[d]]
        BY <3>6, <4>3
      <4>6. n.block[l[1]].next = NULL
        BY <1>2, <1>62, <4>1
      <4>7. NULL \in Ends /\ ~(Len(l) > 1)
        BY <3>4 DEF Ends
      <4>8. /\ r.list[c].head = n.block[l[1]].next
            /\ r.list[c].tail \in Ends
            /\ r = [block |-> r.block, list |-> r.list] /\ r.block = n.block
        BY <4>3, <4>4, <4>6, <4>7
      <4>9. Shaped(r)
        BY <4>4, <4>5, <4>8 DEF Shaped
      <4> QED
        BY <1>2, <1>61, <3>4, <4>4, <4>7, <4>8, <4>9, DropFirst
    <3>5. CASE Len(l) > 1
      <4> DEFINE e == l[2]
      <4>1. x.next = e /\ 2 \in 1..Len(l) /\ e \in Blocks /\ e # NULL /\ e # b
        <5>1. 2 \in 1..Len(l) /\ 2 # 1 /\ 1 < Len(l) /\ 1 + 1 = 2
          BY <1>2, <3>5
        <5>2. l[2] \in Blocks /\ l[2] # NULL
          BY <1>2, <5>1
        <5>3. l[2] # l[1]
          BY <1>1, <1>2, <5>1 DEF Linked
        <5> QED
          BY <1>2, <3>3, <5>1, <5>2, <5>3
      <4> HIDE DEF e
      <4>2. r = [m EXCEPT !.list[c].head = e,
                          !.block = [[m.block EXCEPT ![b] = [x EXCEPT !.next = NULL]] EXCEPT ![e].pre = NULL]]
        BY <1>7, <1>9, <3>1, <4>1
      <4>3. /\ r = [block |-> r.block, list |-> r.list]
            /\ r.block = [[m.block EXCEPT ![b] = [x EXCEPT !.next = NULL]] EXCEPT ![e].pre = NULL]
            /\ r.list = [m.list EXCEPT ![c].head = e]
        BY <3>1, <4>2
      <4>4. /\ r.list = [d \in Classes |-> [head |-> r.list[d].head, tail |-> r.list[d].tail]]
            /\ \A d \in Classes \ {c} : r.list[d] = n.list[d]
            /\ r.list[c].head = e /\ r.list[c].tail = n.list[c].tail
        BY <1>62, <3>1, <4>3
      <4>5. /\ r.block = [d \in Blocks |-> r.block[d]]
            /\ r.block[b] = [n.block[b] EXCEPT !.next = NULL]
            /\ r.block[e] = [n.block[e] EXCEPT !.pre = NULL]
            /\ \A d \in Blocks : d # b /\ d # e => r.block[d] = n.block[d]
        <5>1. PICK u : u = [x EXCEPT !.next = NULL]
          OBVIOUS
        <5>2. r.block = [[m.block EXCEPT ![b] = u] EXCEPT ![e].pre = NULL]
          BY <4>3, <5>1
        <5>3. \A d \in Blocks : d # b => n.block[d] = m.block[d]
          BY <1>4, <3>1, <3>2
        <5>4. r.block = [[m.block EXCEPT ![b] = u] EXCEPT ![e] = [m.block[e] EXCEPT !.pre = NULL]]
          BY <1>4, <3>1, <4>1, <5>2
        <5>5. PICK w : w = [m.block[e] EXCEPT !.pre = NULL]
          OBVIOUS
        <5>6. r.block = [[m.block EXCEPT ![b] = u] EXCEPT ![e] = w]
          BY <5>4, <5>5
        <5>7. /\ r.block = [d \in Blocks |-> r.block[d]] /\ r.block[b] = u /\ r.block[e] = w
              /\ \A d \in Blocks : d # b /\ d # e => r.block[d] = m.block[d]
          BY <1>4, <3>1, <4>1, <5>6
        <5> QED
          BY <1>62, <4>1, <5>1, <5>3, <5>5, <5>7
      <4>6. n.block[l[1]].next = e
        BY <1>2, <1>62, <4>1
      <4>7. Len(l) # 1
        BY <3>5, <3>7
      <4>10. Shaped(r)
        BY <4>3, <4>4, <4>5 DEF Shaped
      <4>8. /\ r.list[c].head = n.block[l[1]].next
            /\ r = [block |-> r.block, list |-> r.list]
        BY <4>3, <4>4, <4>6
      <4>9. /\ r.list[c].tail = n.list[c].tail
            /\ r.block[l[1]] = [n.block[l[1]] EXCEPT !.next = NULL]
            /\ r.block[l[2]] = [n.block[l[2]] EXCEPT !.pre = NULL]
            /\ \A d \in Blocks : d # l[1] /\ d # l[2] => r.block[d] = n.block[d]
        BY <1>2, <4>4, <4>5 DEF e
      <4>11. /\ Len(l) = 1 => r.list[c].tail \in Ends /\ r.block = n.block
             /\ 1 \in 1..Len(l) /\ r.list[c].head = n.block[l[1]].next
             /\ \A d \in Classes \ {c} : r.list[d] = n.list[d]
        BY <1>2, <4>4, <4>7, <4>8
      <4> QED
        BY <1>61, <4>9, <4>10, <4>11, DropFirst
    <3>8. k = 1 \/ k > 1
      BY <3>7
    <3> QED
      BY <3>4, <3>5, <3>7, <3>8
  <2>2. MemoryType(r) /\ Touches(n, r, c) /\ Kept(n, r, {})
    <3> QED
      BY <1>61, <2>1, RelinksTouches, RelinksKeeps DEF Relinks
  <2>3. Touches(m, r, c)
    BY <1>61, <2>2, TouchesAgain
  <2>4. Kept(m, r, {b})
    <3> {b} \union {} = {b}
      OBVIOUS
    <3> QED
      BY <1>61, <2>2, KeptAgain
  <2>5. Alike(x, r.block[b])
    <3> QED
      BY <1>4, <1>5, <1>62, <2>2, BlockAlive DEF Kept
  <2>6. Room(r, c) = Room(m, c) \ {b}
    <3>1. b \notin Room(r, c)
      BY <1>9, <2>5 DEF Room, Alike
    <3>2. Room(r, c) \ {b} = Room(m, c) \ {b}
      BY <1>4, <2>4, RoomIs
    <3> QED
      BY <3>1, <3>2
  <2>7. In(Without(l, 1)) = Room(r, c)
    BY <1>1, <1>2, <2>6, WithoutIn
  <2>8. ListRight(r, c)
    BY <2>1, <2>7 DEF ListRight
  <2>9. PiecesRight(r.block[b], out \union {m.block[b].head})
    BY <1>5, <2>5, AlikeRight
  <2> QED
    BY <1>3, <1>4, <2>2, <2>3, <2>4, <2>5, <2>8, <2>9 DEF Alike, r
<1> QED
  BY <1>8, <1>9

-----------------------------------------------------------------------------
\* A new block, and _append_block().

\* A piece is handed out from a new block, which makes the list.
LEMMA TackNewKeeps ==
  ASSUME NEW m, MemoryType(m), NEW c \in Classes, ListRight(m, c), m.list[c].head = NULL,
         NEW b \in Blocks, m.block[b] = Freed
  PROVE  /\ MemoryType(TackNew(m, c, b)) /\ Touches(m, TackNew(m, c, b), c)
         /\ Kept(m, TackNew(m, c, b), {b}) /\ ListRight(TackNew(m, c, b), c)
         /\ IsBlock(TackNew(m, c, b).block[b])
         /\ PiecesRight(TackNew(m, c, b).block[b], {1})
<1> DEFINE x == Tacked(CreateMe(c))
           r == TackNew(m, c, b)
<1>1. /\ IsBlock(x) /\ PiecesRight(x, {1}) /\ x.class = c /\ x.next = NULL /\ x.head # None
  <2>1. PICK y : y = CreateMe(c)
    OBVIOUS
  <2>2. /\ IsBlock(y) /\ PiecesRight(y, {}) /\ y.class = c /\ y.head = 1 /\ y.next = NULL
        /\ y.offset[1] = 2 /\ y.head # None
    BY <2>1, CreatedRight DEF None
  <2>3. /\ IsBlock(Tacked(y)) /\ PiecesRight(Tacked(y), {} \union {y.head})
        /\ Tacked(y).class = y.class /\ Tacked(y).next = y.next /\ Tacked(y).head = y.offset[y.head]
    BY <2>2, TackedRight
  <2>4. {} \union {y.head} = {1}
    BY <2>2
  <2> QED
    BY <2>1, <2>2, <2>3, <2>4 DEF None
<1>2. /\ m = [block |-> m.block, list |-> m.list]
      /\ m.block = [d \in Blocks |-> m.block[d]]
      /\ m.list = [d \in Classes |-> [head |-> m.list[d].head, tail |-> m.list[d].tail]]
  BY DEF MemoryType
<1>3. r = [m EXCEPT !.block[b] = x, !.list[c] = [head |-> b, tail |-> b]]
  BY DEF TackNew
<1> HIDE DEF x, r
<1>4. /\ r = [block |-> r.block, list |-> r.list]
      /\ r.block = [m.block EXCEPT ![b] = x]
      /\ r.list = [m.list EXCEPT ![c] = [head |-> b, tail |-> b]]
  BY <1>2, <1>3
<1>5. /\ r.block = [d \in Blocks |-> r.block[d]] /\ r.block[b] = x
      /\ \A d \in Blocks : d # b => r.block[d] = m.block[d]
  BY <1>2, <1>4
<1>6. /\ r.list = [d \in Classes |-> [head |-> r.list[d].head, tail |-> r.list[d].tail]]
      /\ \A d \in Classes \ {c} : r.list[d] = m.list[d]
      /\ r.list[c].head = b /\ r.list[c].tail = b
  BY <1>2, <1>4
<1>7. MemoryType(r)
  <2>1. \A d \in Blocks : r.block[d] = Freed \/ IsBlock(r.block[d])
    BY <1>1, <1>5 DEF MemoryType
  <2>2. b \in Ends
    BY DEF Ends
  <2>3. \A d \in Classes : r.list[d].head \in Ends /\ r.list[d].tail \in Ends
    BY <1>6, <2>2 DEF MemoryType
  <2> QED
    BY <1>4, <1>5, <1>6, <2>1, <2>3 DEF MemoryType
<1>8. Touches(m, r, c)
  BY <1>1, <1>5, <1>6 DEF Touches, Mine
<1>9. Kept(m, r, {b})
  BY <1>5 DEF Kept, Alike, MemoryType
<1>10. Room(m, c) = {}
  <2>1. PICK l : Linked(m, c, l) /\ In(l) = Room(m, c)
    BY DEF ListRight
  <2>2. l = <<>>
    <3> SUFFICES ASSUME l # <<>> PROVE FALSE
      OBVIOUS
    <3>1. l \in Seq(Blocks) /\ m.list[c].head = l[1]
      BY <2>1 DEF Linked
    <3>2. l[1] \in Blocks
      BY <3>1
    <3> QED
      BY <3>1, <3>2
  <2> QED
    BY <2>1, <2>2 DEF In
<1>11. Room(r, c) = {b}
  <2>1. Room(r, c) \ {b} = Room(m, c) \ {b}
    BY <1>9, RoomIs
  <2>2. b \in Room(r, c)
    BY <1>1, <1>5 DEF Room
  <2> QED
    BY <1>10, <2>1, <2>2
<1>12. Linked(r, c, <<b>>) /\ In(<<b>>) = {b}
  <2>1. PICK l : l = <<b>>
    OBVIOUS
  <2>2. /\ l \in Seq(Blocks) /\ Len(l) = 1 /\ l[1] = b /\ l # <<>>
        /\ \A i \in 1..Len(l) : i = 1
        /\ \A i \in 2..Len(l) : FALSE
    BY <2>1
  <2>3. Linked(r, c, l)
    BY <1>1, <1>5, <1>6, <2>2 DEF Linked
  <2>4. In(l) = {b}
    BY <2>2 DEF In
  <2> QED
    BY <2>1, <2>3, <2>4
<1>13. ListRight(r, c)
  BY <1>11, <1>12 DEF ListRight
<1> QED
  BY <1>1, <1>5, <1>7, <1>8, <1>9, <1>13 DEF r

\* A block that has room again is appended to the list.
LEMMA AppendBlockKeeps ==
  ASSUME NEW m, MemoryType(m), NEW c \in Classes, NEW l, Linked(m, c, l),
         NEW b \in Blocks, b \notin In(l), IsBlock(m.block[b]), m.block[b].class = c
  PROVE  /\ Relinks(m, AppendBlock(m, c, b), c)
         /\ Linked(AppendBlock(m, c, b), c, Append(l, b)) /\ In(Append(l, b)) = In(l) \union {b}
<1> DEFINE r == AppendBlock(m, c, b)
           d == Append(l, b)
           a == m.list[c].tail
<1>1. /\ m = [block |-> m.block, list |-> m.list]
      /\ m.block = [e \in Blocks |-> m.block[e]]
      /\ m.list = [e \in Classes |-> [head |-> m.list[e].head, tail |-> m.list[e].tail]]
  BY DEF MemoryType
<1>2. /\ l \in Seq(Blocks)
      /\ \A i, j \in 1..Len(l) : l[i] = l[j] => i = j
      /\ m.list[c].head = IF l = <<>> THEN NULL ELSE l[1]
      /\ l # <<>> => a = l[Len(l)]
      /\ \A i \in 1..Len(l) : IsBlock(m.block[l[i]]) /\ m.block[l[i]].class = c
      /\ \A i \in 1..Len(l) : m.block[l[i]].next = IF i < Len(l) THEN l[i + 1] ELSE NULL
      /\ \A i \in 2..Len(l) : m.block[l[i]].pre = l[i - 1]
  BY DEF Linked
<1>3. PICK n : n = Len(l) /\ n \in Nat /\ (l = <<>> <=> n = 0)
  BY <1>2
<1>4. /\ \A i \in 1..n : l[i] \in Blocks /\ l[i] # b /\ l[i] # NULL
      /\ d \in Seq(Blocks) /\ Len(d) = n + 1 /\ d # <<>> /\ d[n + 1] = b
      /\ \A i \in 1..n : d[i] = l[i]
  <2>1. \A i \in 1..n : l[i] \in Blocks /\ l[i] # b
    BY <1>2, <1>3 DEF In
  <2> QED
    BY <1>2, <1>3, <2>1, AppendProperties
<1>5. r = IF m.list[c].head # NULL
          THEN [m EXCEPT !.block = [@ EXCEPT ![a].next = b, ![b].pre = a, ![b].next = NULL],
                         !.list[c].tail = b]
          ELSE [m EXCEPT !.block[b].pre = NULL, !.block[b].next = NULL,
                         !.list[c] = [head |-> b, tail |-> b]]
  BY DEF AppendBlock
<1> HIDE DEF r, d
<1>6. PICK nil : nil = NULL /\ nil \in Ends
  BY DEF Ends
<1>7. b \in Ends
  BY DEF Ends
<1>8. In(d) = In(l) \union {b}
  <2>1. \A i \in 1..(n + 1) : i \in 1..n \/ i = n + 1
    BY <1>3
  <2>2. \A i \in 1..n : i \in 1..(n + 1)
    BY <1>3
  <2>3. n + 1 \in 1..(n + 1)
    BY <1>3
  <2>4. \A x \in In(d) : x \in In(l) \union {b}
    BY <1>3, <1>4, <2>1 DEF In
  <2>5. \A x \in In(l) : x \in In(d)
    BY <1>3, <1>4, <2>2 DEF In
  <2>6. b \in In(d)
    BY <1>4, <2>3 DEF In
  <2> QED
    BY <2>4, <2>5, <2>6
<1>9. ASSUME NEW i \in 1..Len(d), NEW j \in 1..Len(d), d[i] = d[j] PROVE i = j
  <2>1. (i \in 1..n \/ i = n + 1) /\ (j \in 1..n \/ j = n + 1)
    BY <1>3, <1>4
  <2>2. CASE i \in 1..n /\ j \in 1..n
    BY <1>2, <1>3, <1>4, <1>9, <2>2
  <2> QED
    BY <1>4, <1>9, <2>1, <2>2
<1>10. CASE n = 0
  <2>1. m.list[c].head = NULL /\ \A i \in 1..Len(d) : i = 1
    BY <1>2, <1>3, <1>4, <1>10
  <2>2. r = [m EXCEPT !.block[b].pre = NULL, !.block[b].next = NULL,
                      !.list[c] = [head |-> b, tail |-> b]]
    BY <1>5, <2>1
  <2>3. PICK y : y = [m.block[b] EXCEPT !.pre = nil]
    OBVIOUS
  <2>4. PICK z : z = [y EXCEPT !.next = nil]
    OBVIOUS
  <2>5. /\ r = [block |-> r.block, list |-> r.list]
        /\ r.block = [m.block EXCEPT ![b] = z]
        /\ r.list = [m.list EXCEPT ![c] = [head |-> b, tail |-> b]]
    BY <1>1, <1>6, <2>2, <2>3, <2>4
  <2>6. /\ r.block = [e \in Blocks |-> r.block[e]] /\ r.block[b] = z
        /\ \A e \in Blocks : e # b => r.block[e] = m.block[e]
    BY <1>1, <2>5
  <2>7. /\ r.list = [e \in Classes |-> [head |-> r.list[e].head, tail |-> r.list[e].tail]]
        /\ \A e \in Classes \ {c} : r.list[e] = m.list[e]
        /\ r.list[c].head = b /\ r.list[c].tail = b
    BY <1>1, <2>5
  <2>8. /\ IsBlock(y) /\ y.class = c /\ y.head = m.block[b].head
        /\ y.use = m.block[b].use /\ y.offset = m.block[b].offset
    BY <1>6, <2>3, PreSet
  <2>9. /\ IsBlock(z) /\ z.class = c /\ z.head = m.block[b].head
        /\ z.use = m.block[b].use /\ z.offset = m.block[b].offset /\ z.next = NULL
    BY <1>6, <2>4, <2>8, NextSet
  <2>10. MemoryType(r)
    <3>1. \A e \in Blocks : r.block[e] = Freed \/ IsBlock(r.block[e])
      BY <2>6, <2>9 DEF MemoryType
    <3>2. \A e \in Classes : r.list[e].head \in Ends /\ r.list[e].tail \in Ends
      BY <1>7, <2>7 DEF MemoryType
    <3> QED
      BY <2>5, <2>6, <2>7, <3>1, <3>2 DEF MemoryType
  <2>11. Relinks(m, r, c)
    BY <2>6, <2>7, <2>9, <2>10, BlockAlive DEF Relinks
  <2>12. Linked(r, c, d)
    <3>1. \A i \in 1..Len(d) : d[i] = b /\ ~(i < Len(d))
      BY <1>4, <1>10, <2>1
    <3>2. \A i \in 2..Len(d) : FALSE
      BY <1>4, <1>10
    <3>3. d[1] = b /\ d[Len(d)] = b
      BY <1>4, <1>10
    <3> QED
      BY <1>4, <1>9, <2>6, <2>7, <2>9, <3>1, <3>2, <3>3 DEF Linked
  <2> QED
    BY <1>8, <2>11, <2>12 DEF r, d
<1>11. CASE n > 0
  <2>1. /\ n \in 1..n /\ 1 \in 1..n /\ m.list[c].head = l[1] /\ m.list[c].head # NULL
        /\ a = l[n] /\ a \in Blocks /\ a # b /\ a # NULL
        /\ IsBlock(m.block[a]) /\ m.block[a].class = c
        /\ \A i \in 1..n : i # n => l[i] # a
    <3>1. n \in 1..n /\ 1 \in 1..n /\ l # <<>>
      BY <1>3, <1>11
    <3> QED
      BY <1>2, <1>3, <1>4, <3>1
  <2>2. r = [m EXCEPT !.block = [@ EXCEPT ![a].next = b, ![b].pre = a, ![b].next = NULL],
                      !.list[c].tail = b]
    BY <1>5, <2>1
  <2> HIDE DEF a
  <2>3. PICK x : x = [m.block[a] EXCEPT !.next = b]
    OBVIOUS
  <2>4. PICK y : y = [m.block[b] EXCEPT !.pre = a]
    OBVIOUS
  <2>5. PICK z : z = [y EXCEPT !.next = nil]
    OBVIOUS
  <2>6. /\ r = [block |-> r.block, list |-> r.list]
        /\ r.block = [[[m.block EXCEPT ![a].next = b] EXCEPT ![b].pre = a] EXCEPT ![b].next = NULL]
        /\ r.list = [m.list EXCEPT ![c].tail = b]
    BY <1>1, <2>2
  <2>7. /\ r.list = [e \in Classes |-> [head |-> r.list[e].head, tail |-> r.list[e].tail]]
        /\ \A e \in Classes \ {c} : r.list[e] = m.list[e]
        /\ r.list[c].head = m.list[c].head /\ r.list[c].tail = b
    BY <1>1, <2>6
  <2>8. /\ r.block = [e \in Blocks |-> r.block[e]] /\ r.block[b] = z /\ r.block[a] = x
        /\ \A e \in Blocks : e # b /\ e # a => r.block[e] = m.block[e]
    <3>1. r.block = [[[m.block EXCEPT ![a] = x] EXCEPT ![b].pre = a] EXCEPT ![b].next = NULL]
      BY <1>1, <2>1, <2>3, <2>6
    <3>2. r.block = [[[m.block EXCEPT ![a] = x] EXCEPT ![b] = y] EXCEPT ![b].next = NULL]
      BY <1>1, <2>1, <2>4, <3>1
    <3>3. r.block = [[[m.block EXCEPT ![a] = x] EXCEPT ![b] = y] EXCEPT ![b] = z]
      BY <1>1, <1>6, <2>1, <2>5, <3>2
    <3> QED
      BY <1>1, <2>1, <3>3
  <2>9. /\ IsBlock(x) /\ x.class = c /\ x.head = m.block[a].head /\ x.use = m.block[a].use
        /\ x.offset = m.block[a].offset /\ x.next = b /\ x.pre = m.block[a].pre
    BY <1>7, <2>1, <2>3, NextSet
  <2>10. /\ IsBlock(y) /\ y.class = c /\ y.head = m.block[b].head
         /\ y.use = m.block[b].use /\ y.offset = m.block[b].offset /\ y.pre = a
    <3> a \in Ends
      BY <2>1 DEF Ends
    <3> QED
      BY <2>4, PreSet
  <2>11. /\ IsBlock(z) /\ z.class = c /\ z.head = m.block[b].head /\ z.use = m.block[b].use
         /\ z.offset = m.block[b].offset /\ z.next = NULL /\ z.pre = a
    BY <1>6, <2>5, <2>10, NextSet
  <2>12. MemoryType(r)
    <3>1. \A e \in Blocks : r.block[e] = Freed \/ IsBlock(r.block[e])
      BY <2>8, <2>9, <2>11 DEF MemoryType
    <3>2. \A e \in Classes : r.list[e].head \in Ends /\ r.list[e].tail \in Ends
      BY <1>7, <2>7 DEF MemoryType
    <3> QED
      BY <2>6, <2>7, <2>8, <3>1, <3>2 DEF MemoryType
  <2>13. Relinks(m, r, c)
    <3>1. m.block[a] # Freed /\ m.block[b] # Freed
      BY <2>1, BlockAlive
    <3>2. \A e \in Blocks : m.block[e] = Freed => r.block[e] = Freed
      BY <2>8, <3>1
    <3>3. ASSUME NEW e \in Blocks, IsBlock(m.block[e])
          PROVE  /\ IsBlock(r.block[e])
                 /\ r.block[e].class = m.block[e].class /\ r.block[e].head = m.block[e].head
                 /\ r.block[e].use = m.block[e].use /\ r.block[e].offset = m.block[e].offset
                 /\ m.block[e].class # c => r.block[e] = m.block[e]
      <4>1. CASE e = a
        BY <2>1, <2>8, <2>9, <4>1
      <4>2. CASE e = b
        BY <2>8, <2>11, <4>2
      <4>3. CASE e # a /\ e # b
        BY <2>8, <3>3, <4>3
      <4> QED
        BY <4>1, <4>2, <4>3
    <3> QED
      BY <2>7, <2>12, <3>2, <3>3 DEF Relinks
  <2>14. ASSUME NEW i \in 1..Len(d)
         PROVE  /\ IsBlock(r.block[d[i]]) /\ r.block[d[i]].class = c
                /\ r.block[d[i]].next = IF i < Len(d) THEN d[i + 1] ELSE NULL
                /\ i > 1 => r.block[d[i]].pre = d[i - 1]
    <3>1. CASE i = n + 1
      <4>1. d[i] = b /\ ~(i < Len(d)) /\ i - 1 = n /\ d[n] = a
        BY <1>3, <1>4, <2>1, <3>1
      <4> QED
        BY <2>8, <2>11, <4>1
    <3>2. CASE i = n
      <4>1. d[i] = a /\ i < Len(d) /\ d[i + 1] = b
        BY <1>3, <1>4, <2>1, <3>2
      <4>2. i > 1 => m.block[a].pre = d[i - 1]
        <5> SUFFICES ASSUME i > 1 PROVE m.block[a].pre = d[i - 1]
          OBVIOUS
        <5>1. i \in 2..n /\ i - 1 \in 1..n
          BY <1>3, <3>2
        <5> QED
          BY <1>2, <1>3, <1>4, <2>1, <3>2, <5>1
      <4> QED
        BY <2>8, <2>9, <4>1, <4>2
    <3>3. CASE i \in 1..n /\ i # n
      <4>1. i + 1 \in 1..n /\ i < Len(d) /\ i < n /\ (i > 1 => i \in 2..n /\ i - 1 \in 1..n)
        BY <1>3, <1>4, <3>3
      <4>2. d[i] = l[i] /\ d[i] \in Blocks /\ d[i] # a /\ d[i] # b /\ d[i + 1] = l[i + 1]
        BY <1>4, <2>1, <3>3, <4>1
      <4>3. r.block[d[i]] = m.block[l[i]]
        BY <2>8, <4>2
      <4>4. IsBlock(m.block[l[i]]) /\ m.block[l[i]].class = c /\ m.block[l[i]].next = l[i + 1]
        BY <1>2, <1>3, <3>3, <4>1
      <4>5. i > 1 => m.block[l[i]].pre = l[i - 1] /\ d[i - 1] = l[i - 1]
        BY <1>2, <1>3, <1>4, <4>1
      <4> QED
        BY <4>1, <4>2, <4>3, <4>4, <4>5
    <3>4. i = n + 1 \/ i \in 1..n
      BY <1>3, <1>4
    <3> QED
      BY <3>1, <3>2, <3>3, <3>4
  <2>15. Linked(r, c, d)
    <3>1. \A i \in 2..Len(d) : i \in 1..Len(d) /\ i > 1
      BY <1>3, <1>4
    <3>2. r.list[c].head = d[1] /\ r.list[c].tail = d[Len(d)]
      BY <1>4, <2>1, <2>7
    <3> QED
      BY <1>4, <1>9, <2>14, <3>1, <3>2 DEF Linked
  <2> QED
    BY <1>8, <2>13, <2>15 DEF r, d
<1> QED
  BY <1>3, <1>10, <1>11

-----------------------------------------------------------------------------
\* return_node(), _release_block() and move_front_node().

\* Its links change, and it stays on its list.
LEMMA RelinksRoom ==
  ASSUME NEW m, MemoryType(m), NEW r, NEW c, Relinks(m, r, c), NEW d
  PROVE  Room(r, d) = Room(m, d)
<1>1. Room(r, d) \subseteq Blocks /\ Room(m, d) \subseteq Blocks
  BY DEF Room
<1>2. ASSUME NEW b \in Blocks PROVE b \in Room(r, d) <=> b \in Room(m, d)
  <2>1. Kept(m, r, {}) /\ b \in Blocks \ {}
    BY RelinksKeeps
  <2> QED
    BY <2>1, RoomKept
<1> QED
  BY <1>1, <1>2

\* A piece is returned, to a block that is full or not.
LEMMA ReturnNodeKeeps ==
  ASSUME NEW m, MemoryType(m), NEW b \in Blocks, IsBlock(m.block[b]), NEW c, c = m.block[b].class,
         ListRight(m, c), NEW out, PiecesRight(m.block[b], out), NEW i \in out
  PROVE  /\ MemoryType(ReturnNode(m, b, i)) /\ Touches(m, ReturnNode(m, b, i), c)
         /\ Kept(m, ReturnNode(m, b, i), {b}) /\ ListRight(ReturnNode(m, b, i), c)
         /\ b \in Room(ReturnNode(m, b, i), c)
         /\ PiecesRight(ReturnNode(m, b, i).block[b], out \ {i})
<1> DEFINE x == Returned(m.block[b], i)
           r == ReturnNode(m, b, i)
<1>1. c \in Classes
  BY DEF IsBlock
<1>2. PICK l : Linked(m, c, l) /\ In(l) = Room(m, c)
  BY DEF ListRight
<1>3. /\ IsBlock(x) /\ PiecesRight(x, out \ {i}) /\ x.class = c
      /\ x.pre = m.block[b].pre /\ x.next = m.block[b].next /\ x.head # None
  <2> PICK y : y = m.block[b]
    OBVIOUS
  <2> IsBlock(y) /\ PiecesRight(y, out) /\ y.class = c
    OBVIOUS
  <2> QED
    BY ReturnedRight
<1> HIDE DEF r
<1>4. PICK n : n = [m EXCEPT !.block[b] = x]
  OBVIOUS
<1>5. r = IF m.block[b].head = None THEN AppendBlock(n, c, b) ELSE n
  <2>1. m.block = [d \in Blocks |-> m.block[d]]
    BY DEF MemoryType
  <2>2. [m EXCEPT !.block[b] = Returned(@, i)] = n
    BY <1>4, <2>1
  <2> QED
    BY <2>2 DEF ReturnNode, r
<1> HIDE DEF x
<1>6. /\ MemoryType(n) /\ Touches(m, n, c) /\ Kept(m, n, {b}) /\ Linked(n, c, l)
  BY <1>1, <1>2, <1>3, <1>4, Rewritten
<1>7. n.block[b] = x
  <2>1. /\ m = [block |-> m.block, list |-> m.list]
        /\ m.block = [d \in Blocks |-> m.block[d]]
    BY DEF MemoryType
  <2>2. n.block = [m.block EXCEPT ![b] = x]
    BY <1>4, <2>1
  <2> QED
    BY <2>1, <2>2
<1>8. b \in Room(n, c) /\ Room(n, c) \ {b} = Room(m, c) \ {b}
  <2>1. b \in Room(n, c)
    BY <1>3, <1>7 DEF Room
  <2> QED
    BY <1>6, <2>1, RoomIs
<1>9. CASE m.block[b].head # None
  <2>1. r = n
    BY <1>5, <1>9
  <2>2. b \in Room(m, c)
    BY <1>9 DEF Room
  <2>3. Room(n, c) = Room(m, c)
    BY <1>8, <2>2
  <2>4. ListRight(n, c)
    BY <1>2, <1>6, <2>3 DEF ListRight
  <2> QED
    BY <1>3, <1>6, <1>7, <1>8, <2>1, <2>4 DEF r
<1>10. CASE m.block[b].head = None
  <2>1. r = AppendBlock(n, c, b)
    BY <1>5, <1>10
  <2>2. b \notin In(l)
    BY <1>2, <1>10 DEF Room
  <2>3. /\ Relinks(n, r, c) /\ Linked(r, c, Append(l, b)) /\ In(Append(l, b)) = In(l) \union {b}
    BY <1>1, <1>3, <1>6, <1>7, <2>1, <2>2, AppendBlockKeeps
  <2>4. MemoryType(r) /\ Touches(n, r, c) /\ Kept(n, r, {})
    BY <1>6, <2>3, RelinksTouches, RelinksKeeps DEF Relinks
  <2>5. Touches(m, r, c)
    BY <1>6, <2>4, TouchesAgain
  <2>6. Kept(m, r, {b})
    <3> {b} \union {} = {b}
      OBVIOUS
    <3> QED
      BY <1>6, <2>4, KeptAgain
  <2>7. Room(r, c) = Room(n, c)
    BY <1>6, <2>3, RelinksRoom
  <2>8. b \notin Room(m, c)
    BY <1>10 DEF Room
  <2>9. In(Append(l, b)) = Room(r, c)
    BY <1>2, <1>8, <2>3, <2>7, <2>8
  <2>10. ListRight(r, c)
    BY <2>3, <2>9 DEF ListRight
  <2>11. Alike(x, r.block[b])
    BY <1>3, <1>7, <2>4, BlockAlive DEF Kept
  <2>12. PiecesRight(r.block[b], out \ {i})
    BY <1>3, <2>11, AlikeRight
  <2>13. b \in Room(r, c)
    BY <1>8, <2>7
  <2> QED
    BY <2>4, <2>5, <2>6, <2>10, <2>12, <2>13 DEF r
<1> QED
  BY <1>9, <1>10

\* A block is removed from its list and released.
LEMMA ReleaseBlockKeeps ==
  ASSUME NEW m, MemoryType(m), NEW c \in Classes, ListRight(m, c), NEW b \in Room(m, c)
  PROVE  /\ MemoryType(ReleaseBlock(m, b)) /\ Touches(m, ReleaseBlock(m, b), c)
         /\ Kept(m, ReleaseBlock(m, b), {b}) /\ ListRight(ReleaseBlock(m, b), c)
         /\ ReleaseBlock(m, b).block[b] = Freed
<1> DEFINE s == RemoveBlock(m, b)
           r == ReleaseBlock(m, b)
<1>1. PICK l : Linked(m, c, l) /\ In(l) = Room(m, c)
  BY DEF ListRight
<1>2. PICK k \in 1..Len(l) : b = l[k]
  BY <1>1 DEF In
<1>3. Relinks(m, s, c) /\ Linked(s, c, Without(l, k))
  BY <1>1, <1>2, RemoveBlockKeeps
<1>4. b \in Blocks /\ IsBlock(m.block[b]) /\ m.block[b].class = c
  BY DEF Room
<1>5. r = [s EXCEPT !.block[b] = Freed]
  BY DEF ReleaseBlock
<1> HIDE DEF s, r
<1>6. MemoryType(s) /\ Touches(m, s, c) /\ Kept(m, s, {})
  BY <1>3, RelinksTouches, RelinksKeeps DEF Relinks
<1>7. /\ s = [block |-> s.block, list |-> s.list]
      /\ s.block = [d \in Blocks |-> s.block[d]]
      /\ \A d \in Blocks : s.block[d] = Freed \/ IsBlock(s.block[d])
  BY <1>6 DEF MemoryType
<1>8. /\ r = [block |-> r.block, list |-> r.list] /\ r.list = s.list
      /\ r.block = [s.block EXCEPT ![b] = Freed]
  BY <1>5, <1>7
<1>9. /\ r.block = [d \in Blocks |-> r.block[d]] /\ r.block[b] = Freed
      /\ \A d \in Blocks : d # b => r.block[d] = s.block[d]
  BY <1>4, <1>7, <1>8
<1>10. MemoryType(r)
  BY <1>6, <1>8, <1>9 DEF MemoryType
<1>11. IsBlock(s.block[b]) /\ s.block[b].class = c
  BY <1>3, <1>4 DEF Relinks
<1>12. Touches(s, r, c)
  BY <1>8, <1>9, <1>11 DEF Touches, Mine
<1>13. Touches(m, r, c)
  BY <1>6, <1>12, TouchesAgain
<1>14. Kept(s, r, {b})
  BY <1>7, <1>9 DEF Kept, Alike
<1>15. Kept(m, r, {b})
  <2> {} \union {b} = {b}
    OBVIOUS
  <2> QED
    BY <1>6, <1>14, KeptAgain
<1>16. In(Without(l, k)) = Room(m, c) \ {b}
  BY <1>1, <1>2, WithoutIn
<1>17. Room(r, c) = Room(m, c) \ {b}
  <2>1. b \notin Room(r, c)
    BY <1>9, BlockAlive DEF Room
  <2> QED
    BY <1>4, <1>15, <2>1, RoomIs
<1>18. Linked(r, c, Without(l, k))
  <2>1. PICK d : d = Without(l, k)
    OBVIOUS
  <2>2. b \notin In(d)
    BY <1>16, <2>1
  <2>3. \A i \in 1..Len(d) : d[i] \in Blocks /\ d[i] # b
    BY <1>3, <2>1, <2>2 DEF Linked, In
  <2>4. \A i \in 1..Len(d) : r.block[d[i]] = s.block[d[i]]
    BY <1>9, <2>3
  <2>5. \A i \in 2..Len(d) : i \in 1..Len(d)
    OBVIOUS
  <2>6. /\ d \in Seq(Blocks)
        /\ \A i, j \in 1..Len(d) : d[i] = d[j] => i = j
        /\ s.list[c].head = IF d = <<>> THEN NULL ELSE d[1]
        /\ d # <<>> => s.list[c].tail = d[Len(d)]
        /\ \A i \in 1..Len(d) : IsBlock(s.block[d[i]]) /\ s.block[d[i]].class = c
        /\ \A i \in 1..Len(d) : s.block[d[i]].next = IF i < Len(d) THEN d[i + 1] ELSE NULL
        /\ \A i \in 2..Len(d) : s.block[d[i]].pre = d[i - 1]
    BY <1>3, <2>1 DEF Linked
  <2>7. \A i \in 1..Len(d) : IsBlock(r.block[d[i]]) /\ r.block[d[i]].class = c
    BY <2>4, <2>6
  <2>8. \A i \in 1..Len(d) : r.block[d[i]].next = IF i < Len(d) THEN d[i + 1] ELSE NULL
    BY <2>4, <2>6
  <2>9. \A i \in 2..Len(d) : r.block[d[i]].pre = d[i - 1]
    BY <2>4, <2>5, <2>6
  <2> QED
    BY <1>8, <2>1, <2>6, <2>7, <2>8, <2>9 DEF Linked
<1>19. ListRight(r, c)
  BY <1>16, <1>17, <1>18 DEF ListRight
<1> QED
  BY <1>9, <1>10, <1>13, <1>15, <1>19 DEF r

\* A block is put behind the first one.
Inserted(m, b, first, second) ==
    [m EXCEPT !.block = [@ EXCEPT ![second].pre = b, ![b].next = second,
                                  ![first].next = b, ![b].pre = first]]

\* A block that was taken out comes back behind the first.
LEMMA InsertBehind ==
  ASSUME NEW m, MemoryType(m), NEW c \in Classes, NEW d, Linked(m, c, d), Len(d) >= 2,
         NEW b \in Blocks, b \notin In(d), IsBlock(m.block[b]), m.block[b].class = c,
         NEW first, first = d[1], NEW second, second = d[2],
         NEW r, r = Inserted(m, b, first, second)
  PROVE  Relinks(m, r, c) /\ Linked(r, c, Behind(d, b)) /\ In(Behind(d, b)) = In(d) \union {b}
<1> DEFINE e == Behind(d, b)
<1>1. /\ m = [block |-> m.block, list |-> m.list]
      /\ m.block = [a \in Blocks |-> m.block[a]]
  BY DEF MemoryType
<1>2. /\ d \in Seq(Blocks)
      /\ \A i, j \in 1..Len(d) : d[i] = d[j] => i = j
      /\ m.list[c].head = IF d = <<>> THEN NULL ELSE d[1]
      /\ d # <<>> => m.list[c].tail = d[Len(d)]
      /\ \A i \in 1..Len(d) : IsBlock(m.block[d[i]]) /\ m.block[d[i]].class = c
      /\ \A i \in 1..Len(d) : m.block[d[i]].next = IF i < Len(d) THEN d[i + 1] ELSE NULL
      /\ \A i \in 2..Len(d) : m.block[d[i]].pre = d[i - 1]
  BY DEF Linked
<1>3. PICK n : n = Len(d) /\ n \in Nat /\ n >= 2 /\ d # <<>>
  BY <1>2
<1>4. /\ e \in Seq(Blocks) /\ Len(e) = n + 1 /\ e[1] = first /\ e[2] = b
      /\ \A i \in 3..(n + 1) : e[i] = d[i - 1]
      /\ \A i, j \in 1..(n + 1) : e[i] = e[j] => i = j
      /\ In(e) = In(d) \union {b}
  <2> HIDE DEF e
  <2>1. /\ Behind(d, b) \in Seq(Blocks) /\ Len(Behind(d, b)) = Len(d) + 1
        /\ Behind(d, b)[1] = d[1] /\ Behind(d, b)[2] = b
        /\ \A i \in 3..(Len(d) + 1) : Behind(d, b)[i] = d[i - 1]
        /\ \A i, j \in 1..(Len(d) + 1) : Behind(d, b)[i] = Behind(d, b)[j] => i = j
        /\ In(Behind(d, b)) = In(d) \union {b}
    <3>1. /\ d \in Seq(Blocks) /\ d # <<>> /\ b \in Blocks /\ b \notin In(d)
          /\ \A i, j \in 1..Len(d) : d[i] = d[j] => i = j
      BY <1>2, <1>3
    <3> QED
      BY <3>1, BehindIs
  <2> QED
    BY <1>3, <2>1 DEF e
<1> HIDE DEF e
<1>21. \A i \in 3..(n + 1) : e[i] = d[i - 1]
  BY <1>4
<1>22. e[1] = first /\ e[2] = b /\ Len(e) = n + 1
  BY <1>4
<1>5. /\ 1 \in 1..n /\ 2 \in 1..n /\ first \in Blocks /\ second \in Blocks
      /\ first # second /\ b # first /\ b # second
      /\ IsBlock(m.block[first]) /\ m.block[first].class = c
      /\ IsBlock(m.block[second]) /\ m.block[second].class = c
      /\ \A i \in 3..n : d[i] \in Blocks /\ d[i] # first /\ d[i] # second /\ d[i] # b /\ i \in 1..n
  <2>1. 1 \in 1..n /\ 2 \in 1..n /\ \A i \in 3..n : i \in 1..n /\ i # 1 /\ i # 2
    BY <1>3
  <2>2. \A i \in 1..n : d[i] \in Blocks /\ d[i] # b
    BY <1>2, <1>3 DEF In
  <2> QED
    BY <1>2, <1>3, <2>1, <2>2
<1>6. first \in Ends /\ second \in Ends /\ b \in Ends
  BY <1>5 DEF Ends
<1>7. PICK w : w = [m.block[second] EXCEPT !.pre = b]
  OBVIOUS
<1>8. PICK y : y = [m.block[b] EXCEPT !.next = second]
  OBVIOUS
<1>9. PICK x : x = [m.block[first] EXCEPT !.next = b]
  OBVIOUS
<1>10. PICK z : z = [y EXCEPT !.pre = first]
  OBVIOUS
<1>11. /\ r = [block |-> r.block, list |-> r.list] /\ r.list = m.list
       /\ r.block = [[[[m.block EXCEPT ![second].pre = b] EXCEPT ![b].next = second]
                        EXCEPT ![first].next = b] EXCEPT ![b].pre = first]
  BY <1>1 DEF Inserted
<1>12. /\ r.block = [a \in Blocks |-> r.block[a]]
       /\ r.block[b] = z /\ r.block[first] = x /\ r.block[second] = w
       /\ \A a \in Blocks : a # b /\ a # first /\ a # second => r.block[a] = m.block[a]
  <2>1. r.block = [[[[m.block EXCEPT ![second] = w] EXCEPT ![b].next = second]
                      EXCEPT ![first].next = b] EXCEPT ![b].pre = first]
    BY <1>1, <1>5, <1>7, <1>11
  <2>2. r.block = [[[[m.block EXCEPT ![second] = w] EXCEPT ![b] = y]
                      EXCEPT ![first].next = b] EXCEPT ![b].pre = first]
    BY <1>1, <1>5, <1>8, <2>1
  <2>3. r.block = [[[[m.block EXCEPT ![second] = w] EXCEPT ![b] = y]
                      EXCEPT ![first] = x] EXCEPT ![b].pre = first]
    BY <1>1, <1>5, <1>9, <2>2
  <2>4. r.block = [[[[m.block EXCEPT ![second] = w] EXCEPT ![b] = y]
                      EXCEPT ![first] = x] EXCEPT ![b] = z]
    BY <1>1, <1>5, <1>10, <2>3
  <2> QED
    BY <1>1, <1>5, <2>4
<1>13. /\ IsBlock(w) /\ w.class = c /\ w.head = m.block[second].head /\ w.use = m.block[second].use
       /\ w.offset = m.block[second].offset /\ w.next = m.block[second].next /\ w.pre = b
  BY <1>5, <1>6, <1>7, PreSet
<1>14. /\ IsBlock(y) /\ y.class = c /\ y.head = m.block[b].head /\ y.use = m.block[b].use
       /\ y.offset = m.block[b].offset /\ y.next = second
  BY <1>6, <1>8, NextSet
<1>15. /\ IsBlock(x) /\ x.class = c /\ x.head = m.block[first].head /\ x.use = m.block[first].use
       /\ x.offset = m.block[first].offset /\ x.next = b
  BY <1>5, <1>6, <1>9, NextSet
<1>16. /\ IsBlock(z) /\ z.class = c /\ z.head = m.block[b].head /\ z.use = m.block[b].use
       /\ z.offset = m.block[b].offset /\ z.next = second /\ z.pre = first
  BY <1>6, <1>10, <1>14, PreSet
<1>17. MemoryType(r)
  <2>1. \A a \in Blocks : r.block[a] = Freed \/ IsBlock(r.block[a])
    BY <1>12, <1>13, <1>15, <1>16 DEF MemoryType
  <2> QED
    BY <1>11, <1>12, <2>1 DEF MemoryType
<1>18. Relinks(m, r, c)
  <2>1. m.block[first] # Freed /\ m.block[second] # Freed /\ m.block[b] # Freed
    BY <1>5, BlockAlive
  <2>2. \A a \in Blocks : m.block[a] = Freed => r.block[a] = Freed
    BY <1>12, <2>1
  <2>3. ASSUME NEW a \in Blocks, IsBlock(m.block[a])
        PROVE  /\ IsBlock(r.block[a])
               /\ r.block[a].class = m.block[a].class /\ r.block[a].head = m.block[a].head
               /\ r.block[a].use = m.block[a].use /\ r.block[a].offset = m.block[a].offset
               /\ m.block[a].class # c => r.block[a] = m.block[a]
    <3>1. CASE a = first
      BY <1>5, <1>12, <1>15, <3>1
    <3>2. CASE a = b
      BY <1>12, <1>16, <3>2
    <3>3. CASE a = second
      BY <1>5, <1>12, <1>13, <3>3
    <3>4. CASE a # first /\ a # b /\ a # second
      BY <1>12, <2>3, <3>4
    <3> QED
      BY <3>1, <3>2, <3>3, <3>4
  <2> QED
    BY <1>11, <1>17, <2>2, <2>3 DEF Relinks
<1>19. ASSUME NEW i \in 1..Len(e)
       PROVE  /\ IsBlock(r.block[e[i]]) /\ r.block[e[i]].class = c
              /\ r.block[e[i]].next = IF i < Len(e) THEN e[i + 1] ELSE NULL
              /\ i > 1 => r.block[e[i]].pre = e[i - 1]
  <2>1. e[3] = second /\ 1 < Len(e) /\ 2 < Len(e)
    <3>1. PICK i3 : i3 = 3 /\ i3 \in 3..(n + 1) /\ i3 - 1 = 2
      BY <1>3
    <3>2. e[i3] = d[i3 - 1]
      BY <1>21, <3>1
    <3> QED
      BY <1>3, <1>22, <3>1, <3>2
  <2>2. CASE i = 1
    <3>1. e[i] = first /\ i + 1 = 2 /\ i < Len(e)
      BY <1>22, <2>1, <2>2
    <3>2. e[i + 1] = b /\ ~(i > 1)
      BY <1>22, <2>2, <3>1
    <3> QED
      BY <1>12, <1>15, <3>1, <3>2
  <2>3. CASE i = 2
    <3>1. e[i] = b /\ i + 1 = 3 /\ i - 1 = 1 /\ i < Len(e)
      BY <1>22, <2>1, <2>3
    <3>2. e[i + 1] = second /\ e[i - 1] = first
      BY <1>22, <2>1, <3>1
    <3> QED
      BY <1>12, <1>16, <3>1, <3>2
  <2>4. CASE i \in 3..(n + 1)
    <3>1. PICK j : j = i - 1
      OBVIOUS
    <3>0. e[i] = d[j]
      BY <1>21, <2>4, <3>1
    <3>2. /\ j \in 2..n /\ j \in 1..n /\ e[i] = d[j] /\ (i < Len(e) <=> j < n)
          /\ (j < n => i + 1 \in 3..(n + 1) /\ i + 1 - 1 = j + 1) /\ i > 1
      <4> PICK k : k = i /\ k \in 3..(n + 1)
        BY <2>4
      <4> PICK u : u = Len(e) /\ u = n + 1
        BY <1>22
      <4>1. /\ j = k - 1 /\ j \in 2..n /\ j \in 1..n /\ (k < u <=> j < n)
            /\ (j < n => k + 1 \in 3..(n + 1) /\ k + 1 - 1 = j + 1) /\ k > 1
        BY <1>3, <3>1
      <4> QED
        BY <3>0, <4>1
    <3>3. j < n => e[i + 1] = d[j + 1]
      <4> SUFFICES ASSUME j < n PROVE e[i + 1] = d[j + 1]
        OBVIOUS
      <4>1. PICK k : k = i + 1 /\ k \in 3..(n + 1) /\ k - 1 = j + 1
        BY <3>2
      <4>2. e[k] = d[k - 1]
        BY <1>21, <4>1
      <4> QED
        BY <4>1, <4>2
    <3>4. m.block[d[j]].next = IF j < n THEN d[j + 1] ELSE NULL
      BY <1>2, <1>3, <3>2
    <3>5. CASE j = 2
      <4>1. d[j] = second /\ e[i - 1] = b
        BY <1>22, <3>1, <3>5
      <4> QED
        BY <1>12, <1>13, <3>2, <3>3, <3>4, <4>1
    <3>6. CASE j \in 3..n
      <4>1. r.block[d[j]] = m.block[d[j]]
        BY <1>5, <1>12, <3>6
      <4>2. m.block[d[j]].pre = d[j - 1]
        BY <1>2, <1>3, <3>2
      <4>3. j \in 3..(n + 1)
        BY <1>3, <3>6
      <4>4. e[j] = d[j - 1]
        BY <1>21, <4>3
      <4>5. IsBlock(m.block[d[j]]) /\ m.block[d[j]].class = c
        BY <1>2, <1>3, <3>2
      <4> QED
        BY <3>1, <3>2, <3>3, <3>4, <4>1, <4>2, <4>4, <4>5
    <3>7. j = 2 \/ j \in 3..n
      BY <1>3, <3>2
    <3> QED
      BY <3>5, <3>6, <3>7
  <2>5. i = 1 \/ i = 2 \/ i \in 3..(n + 1)
    BY <1>3, <1>21, <1>22
  <2> QED
    BY <2>2, <2>3, <2>4, <2>5
<1>20. Linked(r, c, e)
  <2>1. \A i \in 2..Len(e) : i \in 1..Len(e) /\ i > 1
    BY <1>3, <1>21, <1>22
  <2>2. e[Len(e)] = d[n] /\ e # <<>>
    <3>1. PICK k : k = n + 1 /\ k \in 3..(n + 1) /\ k - 1 = n
      BY <1>3
    <3>3. e[k] = d[k - 1]
      BY <1>21, <3>1
    <3>2. e[n + 1] = d[n]
      BY <3>1, <3>3
    <3> QED
      BY <1>3, <1>22, <3>2
  <2>3. r.list[c].head = e[1] /\ r.list[c].tail = e[Len(e)]
    BY <1>2, <1>3, <1>4, <1>11, <2>2
  <2>4. \A i, j \in 1..Len(e) : e[i] = e[j] => i = j
    BY <1>4
  <2> QED
    BY <1>4, <1>19, <2>1, <2>2, <2>3, <2>4 DEF Linked
<1> QED
  BY <1>4, <1>18, <1>20 DEF e

\* move_front_node() changes the order of a list only.
LEMMA MoveFrontKeeps ==
  ASSUME NEW m, MemoryType(m), NEW c \in Classes, ListRight(m, c), NEW b \in Room(m, c)
  PROVE  Relinks(m, MoveFront(m, b), c) /\ ListRight(MoveFront(m, b), c)
<1> DEFINE first == m.list[c].head
           second == m.block[first].next
           s == RemoveBlock(m, b)
           r == MoveFront(m, b)
<1>1. PICK l : Linked(m, c, l) /\ In(l) = Room(m, c)
  BY DEF ListRight
<1>2. PICK k \in 1..Len(l) : b = l[k]
  BY <1>1 DEF In
<1>3. b \in Blocks /\ IsBlock(m.block[b]) /\ m.block[b].class = c
  BY DEF Room
<1>4. r = IF first = b \/ second \in {b, NULL} THEN m
          ELSE Inserted(s, b, first, second)
  BY <1>3 DEF MoveFront, Inserted
<1>5. CASE first = b \/ second \in {b, NULL}
  <2>1. r = m
    BY <1>4, <1>5
  <2>2. Relinks(m, m, c)
    BY DEF Relinks
  <2> QED
    BY <2>1, <2>2
<1>6. CASE first # b /\ second # b /\ second # NULL
  <2>1. /\ l \in Seq(Blocks) /\ Len(l) \in Nat /\ first = l[1]
        /\ second = (IF 1 < Len(l) THEN l[1 + 1] ELSE NULL)
    <3>1. 1 \in 1..Len(l)
      BY <1>1, <1>2, LinkedFacts
    <3> QED
      BY <1>1, <1>2, <3>1, LinkedFacts
  <2> HIDE DEF first, second, s, r
  <2>2. PICK n : n = Len(l) /\ n \in Nat /\ k \in 1..n
    BY <1>2, <2>1
  <2>3. second = l[2] /\ n > 1 /\ k # 1 /\ k # 2
    <3>1. n > 1
      BY <1>6, <2>1, <2>2
    <3>2. second = l[2]
      BY <2>1, <2>2, <3>1
    <3> QED
      BY <1>2, <1>6, <2>1, <3>1, <3>2
  <2>4. k >= 3 /\ n >= 3
    BY <2>2, <2>3
  <2> DEFINE d == Without(l, k)
  <2>5. Relinks(m, s, c) /\ Linked(s, c, d)
    BY <1>1, <1>2, RemoveBlockKeeps DEF s
  <2>6. Len(d) >= 2 /\ first = d[1] /\ second = d[2] /\ In(d) = In(l) \ {b}
    <3>1. \A i, j \in 1..Len(l) : l[i] = l[j] => i = j
      BY <1>1 DEF Linked
    <3>2. /\ Len(Without(l, k)) = Len(l) - 1
          /\ \A i \in 1..(Len(l) - 1) : Without(l, k)[i] = IF i < k THEN l[i] ELSE l[i + 1]
          /\ In(Without(l, k)) = In(l) \ {l[k]}
      BY <1>2, <2>1, <3>1, WithoutIs
    <3>3. /\ 1 \in 1..(Len(l) - 1) /\ 2 \in 1..(Len(l) - 1) /\ 1 < k /\ 2 < k
      BY <2>2, <2>4
    <3>4. Len(d) >= 2
      BY <2>2, <2>4, <3>2
    <3>5. d[1] = l[1] /\ d[2] = l[2]
      BY <3>2, <3>3
    <3> QED
      BY <1>2, <2>1, <2>3, <3>2, <3>4, <3>5
  <2> HIDE DEF d
  <2>7. MemoryType(s) /\ IsBlock(s.block[b]) /\ s.block[b].class = c
    BY <1>3, <2>5 DEF Relinks
  <2>8. r = Inserted(s, b, first, second)
    BY <1>4, <1>6
  <2>9. Relinks(s, r, c) /\ Linked(r, c, Behind(d, b)) /\ In(Behind(d, b)) = In(d) \union {b}
    <3> b \notin In(d)
      BY <2>6
    <3> QED
      BY <1>3, <2>5, <2>6, <2>7, <2>8, InsertBehind
  <2>10. Relinks(m, r, c)
    BY <2>5, <2>9, RelinksAgain
  <2>11. Room(r, c) = Room(m, c)
    BY <2>10, RelinksRoom
  <2>12. In(Behind(d, b)) = Room(r, c)
    BY <1>1, <2>6, <2>9, <2>11
  <2> QED
    BY <2>9, <2>10, <2>12 DEF ListRight, r
<1> QED
  BY <1>5, <1>6

-----------------------------------------------------------------------------
\* What walks over the lists meet, and gc().

LEMMA BlocksFinite == IsFiniteSet(Blocks) /\ Cardinality(Blocks) \in Nat
BY FS_CardinalityType

\* What a walk over a list meets
LEMMA WalkIs ==
  ASSUME NEW m, MemoryType(m), NEW c \in Classes, NEW l, Linked(m, c, l)
  PROVE  /\ Len(l) \in Nat /\ Len(l) <= Cardinality(Blocks)
         /\ Walk(m, c) = [i \in 1..(Cardinality(Blocks) + 1) |-> IF i <= Len(l) THEN l[i] ELSE NULL]
         /\ InList(m, c) = In(l)
<1> DEFINE N == Cardinality(Blocks)
           links == [b \in Blocks |-> m.block[b].next]
<1>1. /\ l \in Seq(Blocks)
      /\ \A i, j \in 1..Len(l) : l[i] = l[j] => i = j
      /\ m.list[c].head = IF l = <<>> THEN NULL ELSE l[1]
      /\ \A i \in 1..Len(l) : m.block[l[i]].next = IF i < Len(l) THEN l[i + 1] ELSE NULL
  BY DEF Linked
<1>2. N \in Nat /\ Len(l) \in Nat /\ Len(l) <= N
  BY <1>1, BlocksFinite, ChainLength
<1>3. IsChain(Blocks, NULL, links, m.list[c].head, l)
  <2>1. \A i \in 1..Len(l) : l[i] \in Blocks
    BY <1>1
  <2>2. \A i \in 1..Len(l) : links[l[i]] = IF i < Len(l) THEN l[i + 1] ELSE NULL
    BY <1>1, <2>1
  <2> QED
    BY <1>1, <2>2 DEF IsChain
<1> HIDE DEF N, links
<1>4. Walk(m, c) = [i \in 1..(N + 1) |-> IF i <= Len(l) THEN l[i] ELSE NULL]
  <2>1. PICK n, h : n = N + 1 /\ h = m.list[c].head /\ n \in Nat /\ Len(l) <= n
    BY <1>2
  <2>2. Follow(links, NULL, h, n) = [i \in 1..n |-> IF i <= Len(l) THEN l[i] ELSE NULL]
    BY <1>3, <2>1, Followed
  <2> QED
    BY <2>1, <2>2 DEF Walk, N, links
<1>5. InList(m, c) = In(l)
  <2>1. InList(m, c) = {Walk(m, c)[n] : n \in 1..N} \ {NULL}
    BY DEF InList, N
  <2>2. \A n \in 1..N : n \in 1..(N + 1)
    BY <1>2
  <2>3. \A n \in 1..N : Walk(m, c)[n] = IF n <= Len(l) THEN l[n] ELSE NULL
    BY <1>4, <2>2
  <2>4. \A n \in 1..Len(l) : n \in 1..N /\ n <= Len(l) /\ l[n] # NULL
    BY <1>1, <1>2
  <2>5. \A x \in InList(m, c) : x \in In(l)
    <3> SUFFICES ASSUME NEW n \in 1..N, Walk(m, c)[n] # NULL PROVE Walk(m, c)[n] \in In(l)
      BY <2>1
    <3>1. n <= Len(l) /\ Walk(m, c)[n] = l[n]
      BY <2>3
    <3>2. n \in 1..Len(l)
      BY <1>2, <3>1
    <3> QED
      BY <3>1, <3>2 DEF In
  <2>6. \A x \in In(l) : x \in InList(m, c)
    <3> SUFFICES ASSUME NEW n \in 1..Len(l) PROVE l[n] \in InList(m, c)
      BY DEF In
    <3> QED
      BY <2>1, <2>3, <2>4
  <2> QED
    BY <2>5, <2>6
<1> QED
  BY <1>2, <1>4, <1>5 DEF N

\* The blocks a walk meets
LEMMA InListIs ==
  ASSUME NEW m, MemoryType(m), NEW c \in Classes, ListRight(m, c)
  PROVE  InList(m, c) = Room(m, c)
BY WalkIs DEF ListRight

\* An unused block is released.
LEMMA ReleaseSound ==
  ASSUME NEW m, NEW H, Sound(m, H), NEW c \in Classes, NEW b \in Room(m, c), m.block[b].use = 0
  PROVE  /\ Sound(ReleaseBlock(m, b), H) /\ Kept(m, ReleaseBlock(m, b), {b})
         /\ ReleaseBlock(m, b).block[b] = Freed
<1> DEFINE r == ReleaseBlock(m, b)
<1>1. MemoryType(m) /\ PiecesSound(m, H) /\ \A d \in Classes : ListRight(m, d)
  BY DEF Sound
<1>2. b \in Blocks /\ IsBlock(m.block[b])
  BY DEF Room
<1>3. MemoryType(r) /\ Touches(m, r, c) /\ Kept(m, r, {b}) /\ ListRight(r, c) /\ r.block[b] = Freed
  BY <1>1, ReleaseBlockKeeps
<1> HIDE DEF r
<1>4. Out(H, b) = {}
  <2>1. PiecesRight(m.block[b], Out(H, b))
    BY <1>1, <1>2 DEF PiecesSound
  <2>2. PICK out, x : out = Out(H, b) /\ x = m.block[b]
    OBVIOUS
  <2>3. IsFiniteSet(out) /\ Cardinality(out) = 0
    BY <1>2, <2>1, <2>2, HeadIs DEF PiecesRight
  <2>4. out = {}
    BY <2>3, FS_EmptySet
  <2> QED
    BY <2>2, <2>4
<1>5. H \subseteq Blocks \X Nat
  BY <1>1 DEF PiecesSound
<1>6. ~IsBlock(r.block[b])
  BY <1>3, BlockAlive
<1>7. PiecesSound(r, H)
  BY <1>1, <1>2, <1>3, <1>4, <1>5, <1>6, PiecesAfter
<1>8. \A d \in Classes : ListRight(r, d)
  BY <1>1, <1>3, ListsAfter
<1> QED
  BY <1>3, <1>7, <1>8 DEF Sound, r

\* There is a class, and each is below the number of sizes.
LEMMA ZeroClass == 0 \in Classes /\ Classes \subseteq 0..BlockSize
<1>1. PICK k \in 1..BlockSize : BlockSize = Size[k]
  OBVIOUS
<1>2. PICK z, o : z = 0 /\ o = 1 /\ z \in 0..BlockSize /\ o \in 0..BlockSize /\ o \in 1..BlockSize
                  /\ o <= k /\ k \in 0..BlockSize /\ o - 1 = z
  OBVIOUS
<1>3. Size[o] <= Size[k] /\ Size[z] \in Nat \ {0} /\ Size[o] = 2 * Size[z]
  BY <1>2, SizeGrows, SizeTypes, SizeDoubles
<1> QED
  BY <1>1, <1>2, <1>3 DEF Classes

\* What _gc_one() releases is an unused block of a list.
LEMMA VictimIs ==
  ASSUME NEW m, NEW H, Sound(m, H), NEW v \in Victims(m)
  PROVE  \E c \in Classes : v \in Room(m, c) /\ m.block[v].use = 0
<1> DEFINE with == {c \in Classes : Unused(m, c) # {}}
<1>1. with # {} /\ v \in Unused(m, Max(with))
  BY DEF Victims
<1> HIDE DEF with
<1>2. with \subseteq 0..BlockSize /\ with \subseteq Classes
  BY ZeroClass DEF with
<1>3. Max(with) \in Classes
  BY <1>1, <1>2, GreatestIs
<1>4. PICK c \in Classes : v \in Unused(m, c)
  BY <1>1, <1>3
<1>5. InList(m, c) = Room(m, c)
  BY InListIs DEF Sound
<1> QED
  BY <1>4, <1>5 DEF Unused

-----------------------------------------------------------------------------
\* gc().

\* Blocks may be gone in r, and nothing else is.
Thins(m, r) ==
    \A d \in Blocks : r.block[d] # Freed => m.block[d] # Freed /\ r.block[d].class = m.block[d].class

\* What releases blocks only does so step after step.
LEMMA ThinsAgain ==
  ASSUME NEW m, NEW r, NEW s, Thins(m, r), Thins(r, s)
  PROVE  Thins(m, s)
BY DEF Thins

\* What upTo[n] of GcClass() is: the first n blocks of the list are done.
ReleaseAt(m, at, v, n) ==
    IF at[n] # NULL /\ m.block[at[n]].use = 0 THEN ReleaseBlock(v, at[n]) ELSE v
Released(m, at, f, k) == f = [n \in 0..k |-> IF n = 0 THEN m ELSE ReleaseAt(m, at, f[n - 1], n)]

\* gc() of one class, block by block
LEMMA ReleasedExists ==
  ASSUME NEW m, NEW at, NEW N \in Nat
  PROVE  \E f : Released(m, at, f, N)
<1> DEFINE Good == {k \in 0..N : \E f : Released(m, at, f, k)}
<1>1. 0 \in Good
  <2> DEFINE f == [n \in 0..0 |-> m]
  <2>1. Released(m, at, f, 0)
    BY DEF Released
  <2> HIDE DEF f
  <2> QED
    BY <2>1
<1>2. ASSUME NEW k \in 0..(N - 1), k \in Good PROVE k + 1 \in Good
  <2>1. PICK f : Released(m, at, f, k)
    BY <1>2
  <2> DEFINE g == [n \in 0..(k + 1) |-> IF n <= k THEN f[n] ELSE ReleaseAt(m, at, f[k], k + 1)]
             Step(h, n) == IF n = 0 THEN m ELSE ReleaseAt(m, at, h[n - 1], n)
  <2>2. ASSUME NEW n \in 0..(k + 1) PROVE g[n] = Step(g, n)
    <3>1. CASE n = 0
      BY <2>1, <3>1 DEF Released
    <3>2. CASE n # 0 /\ n <= k
      <4>1. n \in 0..k /\ n - 1 \in 0..k /\ n - 1 <= k /\ n - 1 \in 0..(k + 1)
        BY <3>2
      <4>2. f[n] = ReleaseAt(m, at, f[n - 1], n)
        BY <2>1, <3>2, <4>1 DEF Released
      <4>3. g[n] = f[n] /\ g[n - 1] = f[n - 1]
        BY <3>2, <4>1
      <4> QED
        BY <3>2, <4>2, <4>3
    <3>3. CASE n = k + 1
      <4>1. n # 0 /\ n - 1 = k /\ ~(n <= k) /\ k <= k /\ k \in 0..(k + 1)
        BY <3>3
      <4>2. g[k] = f[k] /\ g[n] = ReleaseAt(m, at, f[k], k + 1)
        BY <4>1
      <4> QED
        BY <3>3, <4>1, <4>2
    <3> QED
      BY <3>1, <3>2, <3>3
  <2>3. Released(m, at, g, k + 1)
    BY <2>2 DEF Released
  <2> HIDE DEF g
  <2> QED
    BY <2>3
<1>3. \A k \in 0..N : k \in Good
  <2> HIDE DEF Good
  <2> QED
    BY <1>1, <1>2, UpTo
<1> QED
  BY <1>3

\* The recursive function of GcClass has a solution.
LEMMA GcClassIs ==
  ASSUME NEW m, NEW c
  PROVE  \E f : Released(m, Walk(m, c), f, Cardinality(Blocks)) /\ GcClass(m, c) = f[Cardinality(Blocks)]
<1> DEFINE N == Cardinality(Blocks)
           F == CHOOSE f : Released(m, Walk(m, c), f, N)
<1>1. GcClass(m, c) = F[N]
  BY Zenon DEF GcClass, Released, ReleaseAt
<1>2. N \in Nat
  BY BlocksFinite
<1>3. Released(m, Walk(m, c), F, N)
  <2> HIDE DEF N
  <2> QED
    BY <1>2, ReleasedExists
<1> QED
  BY <1>1, <1>3

\* gc() of one class releases unused blocks only.
LEMMA GcClassSound ==
  ASSUME NEW m, NEW H, Sound(m, H), NEW c \in Classes
  PROVE  Sound(GcClass(m, c), H) /\ Thins(m, GcClass(m, c))
<1> DEFINE N == Cardinality(Blocks)
           at == Walk(m, c)
<1>1. PICK l : Linked(m, c, l) /\ In(l) = Room(m, c)
  BY DEF Sound, ListRight
<1>2. /\ N \in Nat /\ Len(l) \in Nat /\ Len(l) <= N
      /\ at = [i \in 1..(N + 1) |-> IF i <= Len(l) THEN l[i] ELSE NULL]
      /\ l \in Seq(Blocks) /\ \A i, j \in 1..Len(l) : l[i] = l[j] => i = j
  BY <1>1, BlocksFinite, WalkIs DEF Sound, Linked
<1>3. PICK f : Released(m, at, f, N) /\ GcClass(m, c) = f[N]
  BY GcClassIs
<1> HIDE DEF N, at
<1>4. \A n \in 1..N : at[n] = IF n <= Len(l) THEN l[n] ELSE NULL
  <2> \A n \in 1..N : n \in 1..(N + 1)
    BY <1>2
  <2> QED
    BY <1>2
<1> DEFINE Good == {k \in 0..N : /\ Sound(f[k], H) /\ Thins(m, f[k])
                                 /\ \A j \in 1..Len(l) :
                                      j > k => Alike(m.block[l[j]], f[k].block[l[j]])}
<1>5. 0 \in Good
  <2>1. f[0] = m
    BY <1>2, <1>3 DEF Released
  <2>2. \A j \in 1..Len(l) : Alike(m.block[l[j]], m.block[l[j]])
    BY <1>1 DEF Linked, Alike
  <2>3. Thins(m, m)
    BY DEF Thins
  <2> QED
    BY <1>2, <2>1, <2>2, <2>3
<1>6. ASSUME NEW k \in 0..(N - 1), k \in Good PROVE k + 1 \in Good
  <2>1. PICK n : n = k + 1 /\ n \in 1..N /\ n \in 0..N /\ n # 0 /\ n - 1 = k /\ k \in 0..N
    BY <1>2
  <2>2. PICK v : v = f[k]
    OBVIOUS
  <2>3. Sound(v, H) /\ Thins(m, v) /\ \A j \in 1..Len(l) : j > k => Alike(m.block[l[j]], v.block[l[j]])
    BY <1>6, <2>2
  <2>4. f[n] = ReleaseAt(m, at, v, n)
    BY <1>3, <2>1, <2>2 DEF Released
  <2>5. \A j \in 1..Len(l) : j > n => j > k
    BY <1>2, <2>1
  <2>6. CASE ~(at[n] # NULL /\ m.block[at[n]].use = 0)
    <3>1. f[n] = v
      BY <2>4, <2>6 DEF ReleaseAt
    <3> QED
      BY <2>1, <2>3, <2>5, <3>1
  <2>7. CASE at[n] # NULL /\ m.block[at[n]].use = 0
    <3>1. n <= Len(l) /\ at[n] = l[n]
      BY <1>4, <2>1, <2>7
    <3>2. n \in 1..Len(l) /\ n > k
      BY <1>2, <2>1, <3>1
    <3>3. PICK b : b = l[n]
      OBVIOUS
    <3>4. f[n] = ReleaseBlock(v, b) /\ m.block[b].use = 0
      BY <2>4, <2>7, <3>1, <3>3 DEF ReleaseAt
    <3>5. Alike(m.block[b], v.block[b]) /\ b \in Room(m, c)
      BY <1>1, <2>3, <3>2, <3>3 DEF In
    <3>6. b \in Room(v, c) /\ v.block[b].use = 0
      BY <3>4, <3>5 DEF Alike, Room
    <3>7. Sound(f[n], H) /\ Kept(v, f[n], {b}) /\ f[n].block[b] = Freed
      BY <2>3, <3>4, <3>6, ReleaseSound
    <3>8. ASSUME NEW j \in 1..Len(l), j > n PROVE Alike(m.block[l[j]], f[n].block[l[j]])
      <4>1. l[j] \in Blocks \ {b}
        BY <1>2, <2>1, <3>2, <3>3, <3>8
      <4>2. Alike(m.block[l[j]], v.block[l[j]])
        BY <2>3, <2>5, <3>8
      <4>3. Alike(v.block[l[j]], f[n].block[l[j]])
        BY <3>7, <4>1, <4>2, BlockAlive DEF Kept, Alike
      <4> QED
        BY <4>2, <4>3 DEF Alike
    <3>9. Thins(v, f[n])
      BY <3>7, KeptLasts DEF Lasting, Thins
    <3>10. Thins(m, f[n])
      BY <2>3, <3>9, ThinsAgain
    <3> QED
      BY <2>1, <3>7, <3>8, <3>10
  <2> QED
    BY <2>6, <2>7
<1>7. \A k \in 0..N : k \in Good
  <2> HIDE DEF Good
  <2> QED
    BY <1>2, <1>5, <1>6, UpTo
<1>8. N \in 0..N
  BY <1>2
<1> QED
  BY <1>3, <1>7, <1>8

\* What upTo[n] of GcAll() is
AllReleased(m, f, k) == f = [n \in 0..k |-> IF n = 0 THEN m ELSE GcClass(f[n - 1], n - 1)]

\* The recursive function of GcAll has a solution.
LEMMA AllReleasedExists ==
  ASSUME NEW m, NEW N \in Nat
  PROVE  \E f : AllReleased(m, f, N)
<1> DEFINE Good == {k \in 0..N : \E f : AllReleased(m, f, k)}
<1>1. 0 \in Good
  <2> DEFINE f == [n \in 0..0 |-> m]
  <2>1. AllReleased(m, f, 0)
    BY DEF AllReleased
  <2> HIDE DEF f
  <2> QED
    BY <2>1
<1>2. ASSUME NEW k \in 0..(N - 1), k \in Good PROVE k + 1 \in Good
  <2>1. PICK f : AllReleased(m, f, k)
    BY <1>2
  <2> DEFINE g == [n \in 0..(k + 1) |-> IF n <= k THEN f[n] ELSE GcClass(f[k], k)]
             Step(h, n) == IF n = 0 THEN m ELSE GcClass(h[n - 1], n - 1)
  <2>2. ASSUME NEW n \in 0..(k + 1) PROVE g[n] = Step(g, n)
    <3>1. CASE n = 0
      BY <2>1, <3>1 DEF AllReleased
    <3>2. CASE n # 0 /\ n <= k
      <4>1. n \in 0..k /\ n - 1 \in 0..k /\ n - 1 <= k /\ n - 1 \in 0..(k + 1)
        BY <3>2
      <4>2. f[n] = GcClass(f[n - 1], n - 1)
        BY <2>1, <3>2, <4>1 DEF AllReleased
      <4>3. g[n] = f[n] /\ g[n - 1] = f[n - 1]
        BY <3>2, <4>1
      <4> QED
        BY <3>2, <4>2, <4>3
    <3>3. CASE n = k + 1
      <4>1. n # 0 /\ n - 1 = k /\ ~(n <= k) /\ k <= k /\ k \in 0..(k + 1)
        BY <3>3
      <4>2. g[k] = f[k] /\ g[n] = GcClass(f[k], k)
        BY <4>1
      <4> QED
        BY <3>3, <4>1, <4>2
    <3> QED
      BY <3>1, <3>2, <3>3
  <2>3. AllReleased(m, g, k + 1)
    BY <2>2 DEF AllReleased
  <2> HIDE DEF g
  <2> QED
    BY <2>3
<1>3. \A k \in 0..N : k \in Good
  <2> HIDE DEF Good
  <2> QED
    BY <1>1, <1>2, UpTo
<1> QED
  BY <1>3

\* gc() leaves the pool right.
LEMMA GcAllSound ==
  ASSUME NEW m, NEW H, Sound(m, H)
  PROVE  Sound(GcAll(m), H) /\ Thins(m, GcAll(m))
<1> DEFINE N == Max(Classes) + 1
           F == CHOOSE f : AllReleased(m, f, N)
<1>1. GcAll(m) = F[N]
  BY Zenon DEF GcAll, AllReleased
<1>2. N \in Nat /\ \A k \in 0..(N - 1) : k \in Classes
  <2>1. Max(Classes) \in Classes
    BY ZeroClass, GreatestIs
  <2>2. PICK top : top = Max(Classes) /\ top \in Classes /\ top \in Nat
    <3>1. PICK top : top = Max(Classes)
      OBVIOUS
    <3>2. top \in 0..BlockSize
      BY <2>1, <3>1, ZeroClass
    <3> QED
      BY <2>1, <3>1, <3>2
  <2>3. N - 1 = top /\ N \in Nat
    BY <2>2
  <2>4. \A k \in 0..top : k \in Classes
    BY <2>2, ClassesBelow
  <2> QED
    BY <2>3, <2>4
<1> HIDE DEF N
<1>3. AllReleased(m, F, N)
  BY <1>2, AllReleasedExists
<1> HIDE DEF F
<1> DEFINE Good == {k \in 0..N : Sound(F[k], H) /\ Thins(m, F[k])}
<1>4. 0 \in Good
  BY <1>2, <1>3 DEF AllReleased, Thins
<1>5. ASSUME NEW k \in 0..(N - 1), k \in Good PROVE k + 1 \in Good
  <2>1. PICK n : n = k + 1 /\ n \in 0..N /\ n # 0 /\ n - 1 = k
    BY <1>2
  <2>2. F[n] = GcClass(F[k], k)
    BY <1>3, <2>1 DEF AllReleased
  <2>3. PICK v : v = F[k] /\ Sound(v, H) /\ Thins(m, v)
    BY <1>5
  <2>4. Sound(F[n], H) /\ Thins(v, F[n])
    BY <1>2, <2>2, <2>3, GcClassSound
  <2>5. Thins(m, F[n])
    BY <2>3, <2>4, ThinsAgain
  <2> QED
    BY <2>1, <2>4, <2>5
<1>6. \A k \in 0..N : k \in Good
  <2> HIDE DEF Good
  <2> QED
    BY <1>2, <1>4, <1>5, UpTo
<1> QED
  BY <1>1, <1>2, <1>6

-----------------------------------------------------------------------------
\* The invariant, and the operations alloc() makes of it.

CountType ==
    /\ count = [current |-> count.current, use |-> count.use,
                blocks |-> count.blocks, free |-> count.free]
    /\ count.current \in Unknown .. Modulus - 1 /\ count.use \in Unknown .. Modulus - 1
    /\ count.blocks \in 0 .. Modulus - 1 /\ count.free \in 0 .. Modulus - 1

LargeType == large \in [Threads -> [size : Nat, stale : BOOLEAN]]

PoolInv == Sound(Memory, held) /\ CountType /\ LargeType

-----------------------------------------------------------------------------
\* The counters.

\* The counters stay within their width, or are unknown.
LEMMA WrapType == \A n \in Int : Wrap(n) \in 0 .. Modulus - 1
BY DEF Wrap

LEMMA PlusType ==
  ASSUME NEW n \in Unknown .. Modulus - 1, NEW k \in Int
  PROVE  Plus(n, k) \in Unknown .. Modulus - 1
<1>1. n \in Int /\ n + k \in Int
  BY DEF Unknown
<1>2. PICK w : w = Wrap(n + k) /\ w \in 0 .. Modulus - 1
  BY <1>1, WrapType
<1>3. w \in Unknown .. Modulus - 1
  BY <1>2 DEF Unknown
<1>4. Unknown \in Unknown .. Modulus - 1
  BY DEF Unknown
<1> QED
  BY <1>2, <1>3, <1>4 DEF Plus

\* Whatever is added to the counters, they keep their types.
LEMMA CountsKept ==
  ASSUME CountType, NEW current \in Unknown .. Modulus - 1, NEW use \in Unknown .. Modulus - 1,
         NEW blocks \in 0 .. Modulus - 1, NEW free \in 0 .. Modulus - 1,
         count' = [current |-> current, use |-> use, blocks |-> blocks, free |-> free]
  PROVE  CountType'
BY DEF CountType

\* What the threads with a large piece have read
LEMMA OvertakenType ==
  ASSUME LargeType
  PROVE  Overtaken \in [Threads -> [size : Nat, stale : BOOLEAN]]
<1> SUFFICES ASSUME NEW t \in Threads
             PROVE  (IF large[t] = Idle THEN Idle ELSE [large[t] EXCEPT !.stale = TRUE])
                      \in [size : Nat, stale : BOOLEAN]
  BY DEF Overtaken
<1>1. large[t] \in [size : Nat, stale : BOOLEAN]
  BY DEF LargeType
<1> QED
  BY <1>1 DEF Idle

-----------------------------------------------------------------------------
\* The step makes the memory s.
LEMMA Becomes ==
  ASSUME NEW m, NEW H, Sound(m, H), Become(m), held' = H
  PROVE  Sound(Memory, held)'
<1>1. m = [block |-> m.block, list |-> m.list]
  BY DEF Sound, MemoryType
<1>2. Memory' = m
  BY <1>1 DEF Become, Memory
<1>3. Sound(Memory', held')
  BY <1>2
<1> QED
  BY <1>3 DEF Memory, Sound, MemoryType, PiecesSound, ListRight, Room, Linked, Out

\* The pool starts right: no block, no list, no piece.
LEMMA PoolInitRight == PoolInit => PoolInv
<1> SUFFICES ASSUME PoolInit PROVE PoolInv
  OBVIOUS
<1> DEFINE m == Memory
<1>1. /\ m = [block |-> m.block, list |-> m.list]
      /\ m.block = block /\ m.list = list
  BY DEF Memory
<1>2. /\ block = [b \in Blocks |-> Freed] /\ held = {}
      /\ list = [c \in Classes |-> [head |-> NULL, tail |-> NULL]]
  BY DEF PoolInit
<1> HIDE DEF m
<1>3. /\ \A b \in Blocks : m.block[b] = Freed
      /\ m.block = [b \in Blocks |-> m.block[b]]
  BY <1>1, <1>2
<1>4. /\ \A c \in Classes : m.list[c].head = NULL /\ m.list[c].tail = NULL
      /\ m.list = [c \in Classes |-> [head |-> m.list[c].head, tail |-> m.list[c].tail]]
  BY <1>1, <1>2
<1>5. MemoryType(m)
  <2> NULL \in Ends
    BY DEF Ends
  <2> QED
    BY <1>1, <1>3, <1>4 DEF MemoryType
<1>6. \A b \in Blocks : ~IsBlock(m.block[b])
  BY <1>3, BlockAlive
<1>7. PiecesSound(m, held)
  BY <1>2, <1>6 DEF PiecesSound
<1>8. ASSUME NEW c \in Classes PROVE ListRight(m, c)
  <2>0. <<>> \in Seq(Blocks) /\ Len(<<>>) = 0
    OBVIOUS
  <2>1. PICK l : l = <<>> /\ l \in Seq(Blocks) /\ Len(l) = 0
    BY <2>0
  <2>2. (\A i \in 1..Len(l) : FALSE) /\ (\A i \in 2..Len(l) : FALSE)
    BY <2>1
  <2>3. Linked(m, c, l)
    BY <1>4, <2>1, <2>2 DEF Linked
  <2>4. In(l) = {} /\ Room(m, c) = {}
    BY <1>6, <2>2 DEF In, Room
  <2> QED
    BY <2>3, <2>4 DEF ListRight
<1>9. CountType
  <2>1. PICK n \in FirstCounts : count = [current |-> 0, use |-> 0, blocks |-> n, free |-> 0]
    BY DEF PoolInit
  <2>2. n \in 0 .. Modulus - 1 /\ 0 \in 0 .. Modulus - 1 /\ 0 \in Unknown .. Modulus - 1
    BY DEF Unknown
  <2> QED
    BY <2>1, <2>2 DEF CountType
<1>10. LargeType
  BY DEF PoolInit, LargeType, Idle
<1> QED
  BY <1>5, <1>7, <1>8, <1>9, <1>10 DEF PoolInv, Sound, m

\* The class a size is served from fits it.
LEMMA IndexRight ==
  ASSUME NEW size \in Sizes, Fitting(size) # {}
  PROVE  SizeIndex(size) \in Classes /\ Size[SizeIndex(size)] \in Nat
<1>1. Fitting(size) \subseteq Classes /\ Fitting(size) \subseteq Nat
  <2>1. Fitting(size) \subseteq Classes
    BY DEF Fitting
  <2>2. \A c \in Classes : c \in Nat
    <3> SUFFICES ASSUME NEW c \in Classes PROVE c \in Nat
      OBVIOUS
    <3> c \in 0..BlockSize
      BY ZeroClass
    <3> QED
      OBVIOUS
  <2> QED
    BY <2>1, <2>2
<1>2. SizeIndex(size) \in Fitting(size)
  BY <1>1, LeastIs DEF SizeIndex
<1> QED
  BY <1>1, <1>2, ZeroClass, SizeTypes

\* alloc() from a block of the list
LEMMA AllocFirstKeeps ==
  ASSUME PoolInv, NEW size \in Sizes, Fitting(size) # {}, AllocFirst(size)
  PROVE  /\ PoolInv' /\ Lasting(block, block', Blocks) /\ SizeIndex(size) \in Classes
         /\ LET b == list[SizeIndex(size)].head
            IN  /\ b \in Live /\ block[b].class = SizeIndex(size)
                /\ block[b].head \in Nat /\ <<b, block[b].head>> \notin held
<1> DEFINE c == SizeIndex(size)
           b == list[c].head
           h == block[b].head
           H == held \union {<<b, h>>}
           r == TackFirst(Memory, c)
<1>1. /\ b # NULL /\ Become(r) /\ held' = H /\ large' = Overtaken
      /\ count' = [count EXCEPT !.free = IF block[b].use = 0 THEN Wrap(@ - 1) ELSE @,
                                !.current = Plus(@, -Size[c]), !.use = Plus(@, Size[c])]
  BY DEF AllocFirst
<1>2. c \in Classes /\ Size[c] \in Nat
  BY IndexRight
<1>3. PICK m : m = Memory /\ m.block = block /\ m.list = list
  <2>1. Memory.block = block /\ Memory.list = list
    BY DEF Memory
  <2> QED
    BY <2>1
<1> HIDE DEF c
<1>4. Sound(m, held)
  BY <1>3 DEF PoolInv
<1>5. MemoryType(m) /\ PiecesSound(m, held) /\ \A d \in Classes : ListRight(m, d)
  BY <1>4 DEF Sound
<1>6. b = m.list[c].head /\ h = m.block[b].head
  BY <1>3
<1> DEFINE out == Out(held, b)
<1>7. b \in Room(m, c) /\ PiecesRight(m.block[b], out)
  <2>1. PICK l : Linked(m, c, l) /\ In(l) = Room(m, c)
    BY <1>2, <1>5 DEF ListRight
  <2>2. b \in Room(m, c)
    <3>1. l # <<>> /\ b = l[1] /\ l \in Seq(Blocks)
      BY <1>1, <1>6, <2>1 DEF Linked
    <3>2. 1 \in 1..Len(l)
      BY <3>1
    <3> QED
      BY <2>1, <3>1, <3>2 DEF In
  <2> QED
    BY <1>5, <2>2 DEF PiecesSound, Room
<1> HIDE DEF b, h
<1>8. /\ b \in Blocks /\ MemoryType(r) /\ Touches(m, r, c) /\ Kept(m, r, {b}) /\ ListRight(r, c)
      /\ IsBlock(r.block[b]) /\ PiecesRight(r.block[b], out \union {h})
  BY <1>1, <1>2, <1>3, <1>5, <1>6, <1>7, TackFirstKeeps
<1>9. h \in Nat /\ h \notin out
  <2>1. PICK x : x = m.block[b] /\ IsBlock(x) /\ PiecesRight(x, out) /\ x.head # None
    BY <1>7 DEF Room
  <2>2. Pieces(x.class) \in Nat /\ x.head \in 1..Pieces(x.class)
    BY <2>1, HeadIs
  <2>3. x.head \notin out
    <3>1. PICK n, l : /\ n = Pieces(x.class) /\ IsChain(1..n, None, x.offset, x.head, l)
                      /\ In(l) = (1..n) \ out
      BY <2>1 DEF PiecesRight
    <3>2. l # <<>> /\ x.head = l[1] /\ l \in Seq(1..n)
      BY <2>1, <3>1 DEF IsChain
    <3>3. 1 \in 1..Len(l)
      BY <3>2
    <3>4. x.head \in In(l)
      BY <3>2, <3>3 DEF In
    <3> QED
      BY <3>1, <3>4
  <2> QED
    BY <1>6, <2>1, <2>2, <2>3
<1>21. <<b, h>> \notin held
  BY <1>9 DEF out, Out
<1>22. IsBlock(m.block[b]) /\ m.block[b].class = c
  BY <1>7 DEF Room
<1>23. Lasting(block, block', Blocks) /\ b \in Live
  <2>1. Lasting(m.block, r.block, Blocks \ {b})
    BY <1>8, KeptLasts
  <2>2. r.block[b].class = c
    BY <1>8, <1>22, BlockAlive DEF Touches, Mine
  <2>3. r.block[b] # Freed /\ m.block[b] # Freed
    BY <1>8, <1>22, BlockAlive
  <2>4. Lasting(m.block, r.block, Blocks)
    BY <1>22, <2>1, <2>2, <2>3 DEF Lasting
  <2>5. block' = r.block
    BY <1>1 DEF Become
  <2> QED
    BY <1>3, <1>8, <2>3, <2>4, <2>5 DEF Live
<1> HIDE DEF r
<1>10. held \subseteq Blocks \X Nat
  BY <1>5 DEF PiecesSound
<1>11. H \subseteq Blocks \X Nat
  BY <1>8, <1>9, <1>10
<1>12. Out(H, b) = out \union {h}
  BY <1>9 DEF Out
<1>14. \A d \in Blocks \ {b} : Out(H, d) = Out(held, d)
  BY DEF Out
<1> HIDE DEF H
<1>15. PiecesSound(r, H)
  BY <1>5, <1>8, <1>11, <1>12, <1>14, PiecesAfter
<1>16. \A d \in Classes : ListRight(r, d)
  BY <1>2, <1>5, <1>8, ListsAfter
<1>17. Sound(r, H)
  BY <1>8, <1>15, <1>16 DEF Sound
<1>18. Sound(Memory, held)'
  BY <1>1, <1>17, Becomes
<1>19. CountType'
  <2>1. PICK k : k = Size[c] /\ k \in Nat /\ -k \in Int
    BY <1>2
  <2>2. PICK f : f = IF block[b].use = 0 THEN Wrap(count.free - 1) ELSE count.free
    OBVIOUS
  <2>3. f \in 0 .. Modulus - 1
    <3>1. count.free \in 0 .. Modulus - 1 /\ count.free - 1 \in Int
      BY DEF PoolInv, CountType
    <3> QED
      BY <2>2, <3>1, WrapType
  <2>4. PICK u, w : u = Plus(count.current, -k) /\ w = Plus(count.use, k)
    OBVIOUS
  <2>5. u \in Unknown .. Modulus - 1 /\ w \in Unknown .. Modulus - 1
    BY <2>1, <2>4, PlusType DEF PoolInv, CountType
  <2>6. count' = [current |-> u, use |-> w, blocks |-> count.blocks, free |-> f]
    BY <1>1, <2>1, <2>2, <2>4 DEF PoolInv, CountType
  <2> QED
    BY <2>3, <2>5, <2>6, CountsKept DEF PoolInv, CountType
<1>20. LargeType'
  BY <1>1, OvertakenType DEF PoolInv, LargeType
<1>24. PoolInv'
  BY <1>18, <1>19, <1>20 DEF PoolInv
<1> QED
  BY <1>2, <1>3, <1>9, <1>21, <1>22, <1>23, <1>24 DEF b, h, c

\* alloc() from a new block
LEMMA AllocNewKeeps ==
  ASSUME PoolInv, NEW size \in Sizes, Fitting(size) # {}, AllocNew(size)
  PROVE  /\ PoolInv' /\ SizeIndex(size) \in Classes
         /\ \E b \in Blocks \ Live :
              /\ Lasting(block, block', Blocks \ {b})
              /\ block'[b] # Freed /\ block'[b].class = SizeIndex(size)
              /\ held' = held \union {<<b, 1>>} /\ <<b, 1>> \notin held
              /\ count' = [count EXCEPT !.blocks = Wrap(@ + 1),
                                        !.current = Plus(@, BlockSize - Size[SizeIndex(size)]),
                                        !.use = Plus(@, Size[SizeIndex(size)])]
<1> DEFINE c == SizeIndex(size)
<1>1. PICK b \in Blocks \ Live :
             /\ Become(TackNew(Memory, c, b))
             /\ held' = held \union {<<b, 1>>}
             /\ count' = [count EXCEPT !.blocks = Wrap(@ + 1),
                                       !.current = Plus(@, BlockSize - Size[c]),
                                       !.use = Plus(@, Size[c])]
  BY DEF AllocNew
<1> DEFINE r == TackNew(Memory, c, b)
           H == held \union {<<b, 1>>}
<1>2. c \in Classes /\ Size[c] \in Nat /\ large' = Overtaken /\ list[c].head = NULL
  BY IndexRight DEF AllocNew
<1>3. PICK m : m = Memory /\ m.block = block /\ m.list = list
  <2>1. Memory.block = block /\ Memory.list = list
    BY DEF Memory
  <2> QED
    BY <2>1
<1> HIDE DEF c
<1>4. Sound(m, held)
  BY <1>3 DEF PoolInv
<1>5. MemoryType(m) /\ PiecesSound(m, held) /\ \A d \in Classes : ListRight(m, d)
  BY <1>4 DEF Sound
<1>6. b \in Blocks /\ m.block[b] = Freed /\ m.list[c].head = NULL
  BY <1>1, <1>2, <1>3 DEF Live
<1>7. /\ MemoryType(r) /\ Touches(m, r, c) /\ Kept(m, r, {b}) /\ ListRight(r, c)
      /\ IsBlock(r.block[b]) /\ PiecesRight(r.block[b], {1})
  BY <1>2, <1>3, <1>5, <1>6, TackNewKeeps
<1> HIDE DEF r
<1>8. held \subseteq Blocks \X Nat
  BY <1>5 DEF PiecesSound
<1>9. \A i \in Nat : <<b, i>> \notin held
  <2> SUFFICES ASSUME NEW i \in Nat, NEW p, p = <<b, i>>, p \in held PROVE FALSE
    OBVIOUS
  <2>1. IsBlock(m.block[p[1]]) /\ p[1] = b
    BY <1>5 DEF PiecesSound
  <2> QED
    BY <1>6, <2>1, BlockAlive
<1>10. H \subseteq Blocks \X Nat
  BY <1>6, <1>8
<1>11. Out(H, b) = {1}
  BY <1>9 DEF Out
<1>12. \A d \in Blocks \ {b} : Out(H, d) = Out(held, d)
  BY DEF Out
<1> HIDE DEF H
<1>13. PiecesSound(r, H)
  BY <1>5, <1>6, <1>7, <1>10, <1>11, <1>12, PiecesAfter
<1>14. \A d \in Classes : ListRight(r, d)
  BY <1>2, <1>5, <1>7, ListsAfter
<1>15. Sound(r, H)
  BY <1>7, <1>13, <1>14 DEF Sound
<1>16. Sound(Memory, held)'
  BY <1>1, <1>15, Becomes DEF r, H
<1>17. CountType'
  <2>1. PICK k : k = Size[c] /\ k \in Nat /\ BlockSize - k \in Int
    BY <1>2
  <2>2. PICK f : f = Wrap(count.blocks + 1)
    OBVIOUS
  <2>3. f \in 0 .. Modulus - 1
    <3>1. count.blocks + 1 \in Int
      BY DEF PoolInv, CountType
    <3> QED
      BY <2>2, <3>1, WrapType
  <2>4. PICK u, w : u = Plus(count.current, BlockSize - k) /\ w = Plus(count.use, k)
    OBVIOUS
  <2>5. u \in Unknown .. Modulus - 1 /\ w \in Unknown .. Modulus - 1
    BY <2>1, <2>4, PlusType DEF PoolInv, CountType
  <2>6. count' = [current |-> u, use |-> w, blocks |-> f, free |-> count.free]
    BY <1>1, <2>1, <2>2, <2>4 DEF PoolInv, CountType
  <2> QED
    BY <2>3, <2>5, <2>6, CountsKept DEF PoolInv, CountType
<1>18. LargeType'
  BY <1>2, OvertakenType DEF PoolInv, LargeType
<1>19. PoolInv'
  BY <1>16, <1>17, <1>18 DEF PoolInv
<1>20. /\ Lasting(block, block', Blocks \ {b})
       /\ block'[b] # Freed /\ block'[b].class = c
  <2>1. block' = r.block
    BY <1>1 DEF Become, r
  <2>2. Lasting(m.block, r.block, Blocks \ {b})
    BY <1>7, KeptLasts
  <2>3. r.block[b] # Freed /\ r.block[b].class = c
    BY <1>6, <1>7, BlockAlive DEF Touches, Mine
  <2> QED
    BY <1>3, <2>1, <2>2, <2>3
<1>21. <<b, 1>> \notin held
  BY <1>9
<1> QED
  BY <1>1, <1>2, <1>19, <1>20, <1>21 DEF c

-----------------------------------------------------------------------------
\* The other operations, and the theorem.

\* r and s are m after piece i of block b is returned, s after the block moved too.
TakenBack(m, H, b, i, r, s) ==
    /\ Sound(s, H \ {<<b, i>>})
    /\ Lasting(m.block, s.block, Blocks) /\ s.block[b].use = r.block[b].use

LEMMA ReturnSound ==
  ASSUME NEW m, NEW H, Sound(m, H), NEW b, NEW i, <<b, i>> \in H,
         NEW r, r = ReturnNode(m, b, i),
         NEW s, s = IF r.block[b].use = 0 THEN MoveFront(r, b) ELSE r
  PROVE  TakenBack(m, H, b, i, r, s)
<1> DEFINE K == H \ {<<b, i>>}
           out == Out(H, b)
           c == m.block[b].class
<1>1. MemoryType(m) /\ PiecesSound(m, H) /\ \A d \in Classes : ListRight(m, d)
  BY DEF Sound
<1>2. b \in Blocks /\ i \in Nat /\ IsBlock(m.block[b])
  <2>1. PICK p : p = <<b, i>> /\ p \in H
    OBVIOUS
  <2>2. p \in Blocks \X Nat /\ IsBlock(m.block[p[1]])
    BY <1>1, <2>1 DEF PiecesSound
  <2> QED
    BY <2>1, <2>2
<1>3. i \in out
  BY <1>2 DEF Out
<1>4. PiecesRight(m.block[b], out) /\ c \in Classes
  BY <1>1, <1>2 DEF PiecesSound, IsBlock
<1> HIDE DEF out, c
<1>5. /\ MemoryType(r) /\ Touches(m, r, c) /\ Kept(m, r, {b}) /\ ListRight(r, c)
      /\ b \in Room(r, c) /\ PiecesRight(r.block[b], out \ {i})
  BY <1>1, <1>2, <1>3, <1>4, ReturnNodeKeeps DEF c
<1>6. IsBlock(r.block[b])
  BY <1>5 DEF Room
<1>7. K \subseteq Blocks \X Nat
  BY <1>1 DEF PiecesSound
<1>8. Out(K, b) = out \ {i} /\ \A d \in Blocks \ {b} : Out(K, d) = Out(H, d)
  BY DEF Out, out
<1> HIDE DEF K
<1>9. PiecesSound(r, K)
  BY <1>1, <1>2, <1>5, <1>6, <1>7, <1>8, PiecesAfter
<1>10. \A d \in Classes : ListRight(r, d)
  BY <1>1, <1>4, <1>5, ListsAfter
<1>13. Lasting(m.block, r.block, Blocks)
  <2>1. Lasting(m.block, r.block, Blocks \ {b})
    BY <1>5, KeptLasts
  <2>2. r.block[b].class = c /\ m.block[b].class = c
    BY <1>5 DEF Room, c
  <2>3. r.block[b] # Freed /\ m.block[b] # Freed
    BY <1>2, <1>6, BlockAlive
  <2> QED
    BY <2>1, <2>2, <2>3 DEF Lasting
<1>11. CASE s = r
  BY <1>5, <1>9, <1>10, <1>11, <1>13 DEF Sound, K, TakenBack
<1>12. CASE s = MoveFront(r, b)
  <2>1. Relinks(r, s, c) /\ ListRight(s, c)
    BY <1>4, <1>5, <1>12, MoveFrontKeeps
  <2>2. MemoryType(s) /\ Touches(r, s, c) /\ Kept(r, s, {})
    BY <1>5, <2>1, RelinksTouches, RelinksKeeps DEF Relinks
  <2>3. \A d \in Classes : ListRight(s, d)
    BY <1>4, <1>10, <2>1, <2>2, ListsAfter
  <2>4. PiecesSound(s, K)
    <3>1. Kept(r, s, {b})
      BY <2>2 DEF Kept
    <3>2. Alike(r.block[b], s.block[b])
      BY <1>2, <1>6, <2>2, BlockAlive DEF Kept
    <3>3. IsBlock(s.block[b]) /\ PiecesRight(s.block[b], Out(K, b))
      BY <1>5, <1>8, <3>2, AlikeRight DEF Alike
    <3> QED
      BY <1>2, <1>7, <1>9, <3>1, <3>3, PiecesAfter
  <2>5. Lasting(r.block, s.block, Blocks)
    <3>1. Lasting(r.block, s.block, Blocks \ {})
      BY <2>2, KeptLasts
    <3> QED
      BY <3>1 DEF Lasting
  <2>6. Lasting(m.block, s.block, Blocks)
    BY <1>13, <2>5 DEF Lasting
  <2>7. s.block[b].use = r.block[b].use
    BY <1>2, <1>6, <2>2, BlockAlive DEF Kept, Alike
  <2> QED
    BY <2>2, <2>3, <2>4, <2>6, <2>7 DEF Sound, K, TakenBack
<1> QED
  BY <1>11, <1>12

\* free(), with the release of an unused block that may come first
LEMMA FreeKeeps ==
  ASSUME PoolInv, NEW piece \in held, Free(piece)
  PROVE  /\ PoolInv' /\ held' = held \ {piece} /\ UNCHANGED past
         /\ piece[1] \in Live /\ block[piece[1]].class \in Classes
         /\ \E victim \in IF Over /\ Victims(Memory) # {} THEN Victims(Memory) ELSE {NULL} :
              /\ Lasting(block, block', Blocks \ {victim})
              /\ victim # NULL => /\ victim \in Live /\ block[victim].use = 0
                                 /\ block'[victim] = Freed
              /\ LET size == Size[block[piece[1]].class]
                 IN  count' = [GcOneCount(count, victim) EXCEPT
                                 !.free = IF block'[piece[1]].use = 0 THEN Wrap(@ + 1) ELSE @,
                                 !.current = Plus(@, size), !.use = Plus(@, -size)]
<1> DEFINE b == piece[1]
           i == piece[2]
<1>1. PICK victim \in IF Over /\ Victims(Memory) # {} THEN Victims(Memory) ELSE {NULL} :
        LET m == IF victim = NULL THEN Memory ELSE ReleaseBlock(Memory, victim)
            r == ReturnNode(m, b, i)
            unused == r.block[b].use = 0
            size == Size[block[b].class]
        IN  /\ Become(IF unused THEN MoveFront(r, b) ELSE r)
            /\ held' = held \ {piece}
            /\ count' = [GcOneCount(count, victim) EXCEPT
                           !.free = IF unused THEN Wrap(@ + 1) ELSE @,
                           !.current = Plus(@, size), !.use = Plus(@, -size)]
            /\ large' = Overtaken
  BY DEF Free
<1>2. PICK v : v = Memory /\ Sound(v, held)
  BY DEF PoolInv
<1>3. PICK m : m = IF victim = NULL THEN Memory ELSE ReleaseBlock(Memory, victim)
  OBVIOUS
<1>4. PICK r : r = ReturnNode(m, b, i)
  OBVIOUS
<1>5. PICK s : s = IF r.block[b].use = 0 THEN MoveFront(r, b) ELSE r
  OBVIOUS
<1>6. PICK k : k = Size[block[b].class]
  OBVIOUS
<1>7. /\ Become(s) /\ held' = held \ {piece} /\ large' = Overtaken
      /\ count' = [GcOneCount(count, victim) EXCEPT
                     !.free = IF r.block[b].use = 0 THEN Wrap(@ + 1) ELSE @,
                     !.current = Plus(@, k), !.use = Plus(@, -k)]
  BY <1>1, <1>3, <1>4, <1>5, <1>6
<1>8. /\ Sound(m, held) /\ Lasting(v.block, m.block, Blocks \ {victim})
      /\ victim # NULL => /\ victim \in Blocks /\ v.block[victim] # Freed
                          /\ v.block[victim].use = 0 /\ m.block[victim] = Freed
  <2>1. CASE victim = NULL
    BY <1>2, <1>3, <2>1 DEF Lasting
  <2>2. CASE victim # NULL
    <3>1. victim \in Victims(v)
      BY <1>1, <1>2, <2>2
    <3>2. PICK c \in Classes : victim \in Room(v, c) /\ v.block[victim].use = 0
      BY <1>2, <3>1, VictimIs
    <3>3. /\ Sound(ReleaseBlock(v, victim), held) /\ Kept(v, ReleaseBlock(v, victim), {victim})
          /\ ReleaseBlock(v, victim).block[victim] = Freed
      BY <1>2, <3>2, ReleaseSound
    <3>4. m = ReleaseBlock(v, victim)
      BY <1>2, <1>3, <2>2
    <3>5. victim \in Blocks /\ v.block[victim] # Freed
      BY <3>2, BlockAlive DEF Room
    <3> QED
      BY <3>2, <3>3, <3>4, <3>5, KeptLasts
  <2> QED
    BY <2>1, <2>2
<1>9. /\ piece = <<b, i>> /\ b \in Blocks /\ k \in Nat
      /\ b \in Live /\ block[b].class \in Classes
  <2>1. piece \in Blocks \X Nat /\ IsBlock(v.block[b])
    BY <1>2 DEF Sound, PiecesSound
  <2>2. v.block = block
    BY <1>2 DEF Memory
  <2>3. PICK c : c = block[b].class /\ c \in Classes
    BY <2>1, <2>2 DEF IsBlock
  <2>4. Size[c] \in Nat
    BY <2>3, ZeroClass, SizeTypes
  <2>5. b \in Live
    BY <2>1, <2>2, BlockAlive DEF Live
  <2> QED
    BY <1>6, <2>1, <2>3, <2>4, <2>5
<1> HIDE DEF b, i
<1>10. /\ Sound(s, held \ {piece}) /\ Lasting(m.block, s.block, Blocks)
       /\ s.block[b].use = r.block[b].use
  <2>1. PICK H : H = held /\ <<b, i>> \in H /\ H \ {<<b, i>>} = held \ {piece} /\ Sound(m, H)
    BY <1>8, <1>9
  <2>2. /\ Sound(s, H \ {<<b, i>>})
        /\ Lasting(m.block, s.block, Blocks) /\ s.block[b].use = r.block[b].use
    <3>1. TakenBack(m, H, b, i, r, s)
      BY <1>4, <1>5, <2>1, ReturnSound
    <3> QED
      BY <3>1 DEF TakenBack
  <2> QED
    BY <2>1, <2>2
<1>11. Sound(Memory, held)'
  BY <1>7, <1>10, Becomes
<1>12. CountType'
  <2>1. PICK u, w, n, f : GcOneCount(count, victim) = [current |-> u, use |-> w, blocks |-> n, free |-> f]
                         /\ u \in Unknown .. Modulus - 1 /\ w \in Unknown .. Modulus - 1
                         /\ n \in 0 .. Modulus - 1 /\ f \in 0 .. Modulus - 1
    <3>1. CountType
      BY DEF PoolInv
    <3>2. CASE victim = NULL
      <4>1. GcOneCount(count, victim) = count
        BY <3>2 DEF GcOneCount
      <4> QED
        BY <3>1, <4>1 DEF CountType
    <3>3. CASE victim # NULL
      <4>1. GcOneCount(count, victim)
              = [current |-> Plus(count.current, -BlockSize), use |-> count.use,
                 blocks |-> Wrap(count.blocks - 1), free |-> Wrap(count.free - 1)]
        BY <3>1, <3>3 DEF GcOneCount, CountType
      <4>2. Plus(count.current, -BlockSize) \in Unknown .. Modulus - 1
        BY <3>1, PlusType DEF CountType
      <4>3. Wrap(count.blocks - 1) \in 0 .. Modulus - 1 /\ Wrap(count.free - 1) \in 0 .. Modulus - 1
        BY <3>1, WrapType DEF CountType
      <4> QED
        BY <3>1, <4>1, <4>2, <4>3 DEF CountType
    <3> QED
      BY <3>2, <3>3
  <2>2. PICK g : g = IF r.block[b].use = 0 THEN Wrap(f + 1) ELSE f
    OBVIOUS
  <2>3. g \in 0 .. Modulus - 1
    BY <2>1, <2>2, WrapType
  <2>4. PICK x, y : x = Plus(u, k) /\ y = Plus(w, -k)
    OBVIOUS
  <2>5. x \in Unknown .. Modulus - 1 /\ y \in Unknown .. Modulus - 1
    BY <1>9, <2>1, <2>4, PlusType
  <2>6. count' = [current |-> x, use |-> y, blocks |-> n, free |-> g]
    <3>1. PICK e : e = GcOneCount(count, victim)
      OBVIOUS
    <3>2. e.current = u /\ e.use = w /\ e.free = f
      BY <2>1, <3>1
    <3>3. count' = [e EXCEPT !.free = IF r.block[b].use = 0 THEN Wrap(e.free + 1) ELSE e.free,
                             !.current = Plus(e.current, k), !.use = Plus(e.use, -k)]
      BY <1>7, <3>1
    <3>4. count' = [e EXCEPT !.free = g, !.current = x, !.use = y]
      BY <2>2, <2>4, <3>2, <3>3
    <3>5. [e EXCEPT !.free = g] = [current |-> u, use |-> w, blocks |-> n, free |-> g]
      BY <2>1, <3>1
    <3> QED
      BY <3>4, <3>5
  <2> QED
    BY <2>1, <2>3, <2>5, <2>6, CountsKept DEF PoolInv
<1>13. LargeType'
  BY <1>7, OvertakenType DEF PoolInv, LargeType
<1>14. PoolInv'
  BY <1>11, <1>12, <1>13 DEF PoolInv
<1>15. v.block = block /\ block' = s.block
  BY <1>2, <1>7 DEF Memory, Become
<1>16. /\ Lasting(block, block', Blocks \ {victim})
       /\ victim # NULL => /\ victim \in Live /\ block[victim].use = 0
                           /\ block'[victim] = Freed
  BY <1>8, <1>10, <1>15 DEF Lasting, Live
<1>17. count' = [GcOneCount(count, victim) EXCEPT
                   !.free = IF block'[b].use = 0 THEN Wrap(@ + 1) ELSE @,
                   !.current = Plus(@, k), !.use = Plus(@, -k)]
  BY <1>7, <1>10, <1>15
<1> QED
  BY <1>6, <1>7, <1>9, <1>14, <1>16, <1>17 DEF b, Free

\* The step leaves the blocks, the lists and the pieces held as they are.
LEMMA MemoryKept ==
  ASSUME PoolInv, UNCHANGED <<block, list, held>>
  PROVE  Sound(Memory, held)'
<1>1. Memory' = Memory
  BY DEF Memory
<1>2. PICK m : m = Memory /\ m.block = block /\ m.list = list
  <2> Memory.block = block /\ Memory.list = list
    BY DEF Memory
  <2> QED
    OBVIOUS
<1>3. Sound(m, held)
  BY <1>2 DEF PoolInv
<1>4. Become(m)
  BY <1>2 DEF Become
<1> QED
  BY <1>3, <1>4, Becomes

\* A large piece begins to be counted, without the lock,
LEMMA LargeReadKeeps ==
  ASSUME PoolInv, NEW t \in Threads, NEW size \in Sizes, LargeRead(t, size)
  PROVE  PoolInv'
<1>1. /\ UNCHANGED <<block, list, held>> /\ UNCHANGED count
      /\ large' = [large EXCEPT ![t] = [size |-> size, stale |-> FALSE]]
  BY DEF LargeRead
<1>2. LargeType'
  <2>1. size \in Nat
    OBVIOUS
  <2>2. [size |-> size, stale |-> FALSE] \in [size : Nat, stale : BOOLEAN]
    BY <2>1
  <2> QED
    BY <1>1, <2>2 DEF PoolInv, LargeType
<1>3. CountType'
  BY <1>1 DEF PoolInv, CountType
<1> QED
  BY <1>1, <1>2, <1>3, MemoryKept DEF PoolInv

\* and is counted.
LEMMA LargeWriteKeeps ==
  ASSUME PoolInv, NEW t \in Threads, LargeWrite(t)
  PROVE  PoolInv'
<1> DEFINE k == large[t].size
<1>1. /\ UNCHANGED <<block, list, held>>
      /\ count' = IF large[t].stale
                  THEN [count EXCEPT !.current = Unknown, !.use = Unknown]
                  ELSE [count EXCEPT !.current = Plus(@, k), !.use = Plus(@, k)]
      /\ large' = [Overtaken EXCEPT ![t] = Idle]
  BY DEF LargeWrite
<1>2. k \in Nat
  BY DEF PoolInv, LargeType
<1> HIDE DEF k
<1>3. LargeType'
  <2>1. Idle \in [size : Nat, stale : BOOLEAN]
    BY DEF Idle
  <2>2. PICK o : o = Overtaken
    OBVIOUS
  <2>3. o \in [Threads -> [size : Nat, stale : BOOLEAN]]
    BY <2>2, OvertakenType DEF PoolInv
  <2>4. large' = [o EXCEPT ![t] = Idle]
    BY <1>1, <2>2
  <2> QED
    BY <2>1, <2>3, <2>4 DEF LargeType
<1>4. CountType'
  <2>1. CountType
    BY DEF PoolInv
  <2>2. PICK u, w : /\ u \in Unknown .. Modulus - 1 /\ w \in Unknown .. Modulus - 1
                    /\ count' = [current |-> u, use |-> w, blocks |-> count.blocks, free |-> count.free]
    <3>1. CASE large[t].stale
      <4>1. count' = [current |-> Unknown, use |-> Unknown, blocks |-> count.blocks, free |-> count.free]
        BY <1>1, <2>1, <3>1 DEF CountType
      <4>2. Unknown \in Unknown .. Modulus - 1
        BY DEF Unknown
      <4> QED
        BY <4>1, <4>2
    <3>2. CASE ~large[t].stale
      <4>1. count' = [current |-> Plus(count.current, k), use |-> Plus(count.use, k),
                      blocks |-> count.blocks, free |-> count.free]
        BY <1>1, <2>1, <3>2 DEF CountType
      <4>2. /\ Plus(count.current, k) \in Unknown .. Modulus - 1
            /\ Plus(count.use, k) \in Unknown .. Modulus - 1
        BY <1>2, <2>1, PlusType DEF CountType
      <4> QED
        BY <4>1, <4>2
    <3> QED
      BY <3>1, <3>2
  <2>3. count.blocks \in 0 .. Modulus - 1 /\ count.free \in 0 .. Modulus - 1
    BY <2>1 DEF CountType
  <2> QED
    BY <2>1, <2>2, <2>3, CountsKept
<1> QED
  BY <1>1, <1>3, <1>4, MemoryKept DEF PoolInv

\* gc() of all classes
LEMMA GcKeeps ==
  ASSUME PoolInv, Gc
  PROVE  /\ PoolInv' /\ held' = held
         /\ \A d \in Blocks : block'[d] # Freed => block[d] # Freed /\ block'[d].class = block[d].class
         /\ LET n == Cardinality({b \in Live : block'[b] = Freed})
            IN  /\ count' = [count EXCEPT !.current = Plus(@, -(n * BlockSize)), !.blocks = Wrap(@ - n)]
                /\ past' = [past EXCEPT !.gcs = @ + 1, !.gced = @ + n]
<1> DEFINE m == GcAll(Memory)
           gone == {b \in Live : m.block[b] = Freed}
           n == Cardinality(gone)
<1>1. /\ Become(m) /\ UNCHANGED held /\ large' = Overtaken
      /\ count' = [count EXCEPT !.current = Plus(@, -(n * BlockSize)), !.blocks = Wrap(@ - n)]
  BY DEF Gc
<1>7. past' = [past EXCEPT !.gcs = @ + 1, !.gced = @ + n]
  BY DEF Gc
<1>2. Sound(m, held) /\ Thins(Memory, m)
  BY GcAllSound DEF PoolInv
<1> HIDE DEF m
<1>3. n \in Nat
  <2>1. gone \subseteq Blocks
    BY DEF Live
  <2> HIDE DEF gone
  <2>2. IsFiniteSet(gone)
    BY <2>1, FS_Subset
  <2> QED
    BY <2>2, FS_CardinalityType
<1> HIDE DEF n
<1>4. Sound(Memory, held)'
  BY <1>1, <1>2, Becomes
<1>5. CountType'
  <2>1. PICK k : k = -(n * BlockSize) /\ k \in Int
    BY <1>3
  <2>2. PICK u, w : u = Plus(count.current, k) /\ w = Wrap(count.blocks - n)
    OBVIOUS
  <2>3. u \in Unknown .. Modulus - 1 /\ w \in 0 .. Modulus - 1
    BY <1>3, <2>1, <2>2, PlusType, WrapType DEF PoolInv, CountType
  <2>4. count' = [current |-> u, use |-> count.use, blocks |-> w, free |-> count.free]
    BY <1>1, <2>1, <2>2 DEF PoolInv, CountType
  <2> QED
    BY <2>3, <2>4, CountsKept DEF PoolInv, CountType
<1>6. LargeType'
  BY <1>1, OvertakenType DEF PoolInv, LargeType
<1>8. PoolInv'
  BY <1>4, <1>5, <1>6 DEF PoolInv
<1>9. block' = m.block /\ Memory.block = block
  BY <1>1 DEF Become, Memory
<1>10. \A d \in Blocks : block'[d] # Freed => block[d] # Freed /\ block'[d].class = block[d].class
  BY <1>2, <1>9 DEF Thins
<1>11. n = Cardinality({b \in Live : block'[b] = Freed})
  BY <1>9 DEF n
<1> QED
  BY <1>1, <1>7, <1>8, <1>10, <1>11

\* The invariant is inductive.
LEMMA PoolStep == PoolInv /\ [PoolNext]_poolVars => PoolInv'
<1> SUFFICES ASSUME PoolInv, [PoolNext]_poolVars PROVE PoolInv'
  OBVIOUS
<1>1. ASSUME NEW size \in Sizes, Fitting(size) # {}, AllocFirst(size) \/ AllocNew(size)
      PROVE  PoolInv'
  BY <1>1, AllocFirstKeeps, AllocNewKeeps
<1>2. ASSUME NEW size \in Sizes, NEW t \in Threads, LargeRead(t, size) PROVE PoolInv'
  BY <1>2, LargeReadKeeps
<1>3. ASSUME NEW t \in Threads, LargeWrite(t) PROVE PoolInv'
  BY <1>3, LargeWriteKeeps
<1>4. ASSUME NEW piece \in held, Free(piece) PROVE PoolInv'
  BY <1>4, FreeKeeps
<1>5. ASSUME SetMaxBlock \/ UNCHANGED poolVars PROVE PoolInv'
  <2>1. UNCHANGED <<block, list, held>> /\ UNCHANGED <<count, large>>
    BY <1>5 DEF SetMaxBlock, poolVars
  <2>2. CountType' /\ LargeType'
    BY <2>1 DEF PoolInv, CountType, LargeType
  <2> QED
    BY <2>1, <2>2, MemoryKept DEF PoolInv
<1>6. CASE Gc
  BY <1>6, GcKeeps
<1> QED
  BY <1>1, <1>2, <1>3, <1>4, <1>5, <1>6 DEF PoolNext

\* It implies the three parts of PoolSound.
LEMMA TypesFollow == PoolInv => PoolTypeOK
<1> SUFFICES ASSUME PoolInv PROVE PoolTypeOK
  OBVIOUS
<1>1. PICK m : m = Memory /\ m.block = block /\ m.list = list /\ Sound(m, held)
  <2> Memory.block = block /\ Memory.list = list
    BY DEF Memory
  <2> QED
    BY DEF PoolInv
<1>2. ASSUME NEW b \in Live
      PROVE  /\ block[b].class \in Classes
             /\ block[b].pre \in Blocks \union {NULL} /\ block[b].next \in Blocks \union {NULL}
             /\ block[b].use \in 0 .. Pieces(block[b].class)
             /\ block[b].head \in 0 .. Pieces(block[b].class)
             /\ block[b].offset \in [1 .. Pieces(block[b].class) -> 0 .. Pieces(block[b].class)]
  <2>1. b \in Blocks /\ IsBlock(block[b])
    BY <1>1 DEF Live, Sound, MemoryType
  <2>2. PICK x, out : x = block[b] /\ IsBlock(x) /\ PiecesRight(x, out)
    BY <1>1, <2>1 DEF Sound, PiecesSound
  <2>3. /\ Pieces(x.class) \in Nat /\ (x.head # None => x.head \in 1..Pieces(x.class))
        /\ Cardinality(out) \in 0..Pieces(x.class)
    BY <2>2, HeadIs
  <2>4. x.head \in 0..Pieces(x.class)
    BY <2>3 DEF None
  <2> QED
    BY <2>2, <2>3, <2>4 DEF IsBlock, PiecesRight, Ends
<1>3. \A c \in Classes : list[c].head \in Blocks \union {NULL} /\ list[c].tail \in Blocks \union {NULL}
  BY <1>1 DEF Sound, MemoryType, Ends
<1>4. \A f \in {"current", "use", "blocks", "free"} : count[f] \in Unknown .. Modulus - 1
  <2>1. \A n \in 0 .. Modulus - 1 : n \in Unknown .. Modulus - 1
    BY DEF Unknown
  <2> QED
    BY <2>1 DEF PoolInv, CountType
<1> QED
  BY <1>2, <1>3, <1>4 DEF PoolTypeOK

LEMMA PiecesFollow == PoolInv => PiecesApart
<1> SUFFICES ASSUME PoolInv PROVE PiecesApart
  OBVIOUS
<1>1. PICK m : m = Memory /\ m.block = block /\ m.list = list /\ Sound(m, held)
  <2> Memory.block = block /\ Memory.list = list
    BY DEF Memory
  <2> QED
    BY DEF PoolInv
<1>2. \A p \in held : p[1] \in Live
  <2> SUFFICES ASSUME NEW p \in held PROVE p[1] \in Live
    OBVIOUS
  <2>1. p \in Blocks \X Nat /\ IsBlock(block[p[1]])
    BY <1>1 DEF Sound, PiecesSound
  <2> QED
    BY <2>1, BlockAlive DEF Live
<1> DEFINE N(b) == Pieces(block[b].class)
           F(b) == {FreeChain(b)[k] : k \in 1 .. N(b)} \ {None}
           O(b) == {i \in 1 .. N(b) : <<b, i>> \in held}
<1>3. ASSUME NEW b \in Live
      PROVE  /\ FreeChain(b)[N(b) + 1] = None
             /\ \A j, k \in 1 .. N(b) : j # k /\ FreeChain(b)[j] = FreeChain(b)[k]
                                         => FreeChain(b)[j] = None
             /\ F(b) \intersect O(b) = {} /\ F(b) \union O(b) = 1 .. N(b)
             /\ block[b].use = Cardinality(O(b))
  <2>14. PICK n : n = Pieces(block[b].class)
    OBVIOUS
  <2>15. PICK at : at = FreeChain(b)
    OBVIOUS
  <2>16. PICK free : free = {at[k] : k \in 1 .. n} \ {None}
    OBVIOUS
  <2>17. PICK out : out = {i \in 1 .. n : <<b, i>> \in held}
    OBVIOUS
  <2>18. n = N(b) /\ free = F(b) /\ out = O(b)
    BY <2>14, <2>15, <2>16, <2>17
  <2> HIDE DEF N, F, O
  <2>1. b \in Blocks /\ IsBlock(block[b]) /\ PiecesRight(block[b], Out(held, b))
    BY <1>1 DEF Live, Sound, MemoryType, PiecesSound
  <2>2. PICK x : x = block[b]
    OBVIOUS
  <2>3. IsBlock(x) /\ PiecesRight(x, Out(held, b)) /\ n = Pieces(x.class) /\ n \in Nat
    BY <2>14, <2>15, <2>16, <2>17, <2>1, <2>2, HeadIs
  <2>4. Out(held, b) = out
    <3>1. Out(held, b) \subseteq 1..n
      BY <2>3 DEF PiecesRight
    <3> QED
      BY <2>14, <2>15, <2>16, <2>17, <2>3, <3>1 DEF Out
  <2>5. PICK c : IsChain(1..n, None, x.offset, x.head, c) /\ In(c) = (1..n) \ out
    BY <2>3, <2>4 DEF PiecesRight
  <2>6. out \subseteq 1..n /\ x.use = Cardinality(out)
    BY <2>3, <2>4 DEF PiecesRight
  <2>7. /\ c \in Seq(1..n) /\ Len(c) \in Nat
        /\ \A i, j \in 1..Len(c) : c[i] = c[j] => i = j
    BY <2>5 DEF IsChain
  <2>8. Len(c) <= n
    <3>1. n \in Int /\ 1 \in Int
      BY <2>3
    <3>2. IsFiniteSet(1..n) /\ Cardinality(1..n) = IF 1 > n THEN 0 ELSE n - 1 + 1
      BY <3>1, FS_Interval
    <3>3. PICK S : S = 1..n
      OBVIOUS
    <3>4. c \in Seq(S) /\ IsFiniteSet(S) /\ Cardinality(S) = n
      BY <2>3, <2>7, <3>2, <3>3
    <3> QED
      BY <2>7, <3>4, ChainLength
  <2>9. \A i \in 1..(n + 1) : at[i] = IF i <= Len(c) THEN c[i] ELSE None
    <3>1. PICK S, o, h, e, k : S = 1..n /\ o = x.offset /\ h = x.head /\ e = None /\ k = n + 1
      OBVIOUS
    <3>2. e \notin S /\ k \in Nat /\ Len(c) <= k /\ IsChain(S, e, o, h, c)
      BY <2>3, <2>5, <2>7, <2>8, <3>1 DEF None
    <3>3. Follow(o, e, h, k) = [i \in 1..k |-> IF i <= Len(c) THEN c[i] ELSE e]
      BY <3>2, Followed
    <3>4. at = Follow(o, e, h, k)
      BY <2>14, <2>15, <2>16, <2>17, <2>2, <3>1 DEF FreeChain
    <3> QED
      BY <3>1, <3>3, <3>4
  <2>10. at[n + 1] = None
    <3> n + 1 \in 1..(n + 1) /\ ~(n + 1 <= Len(c))
      BY <2>3, <2>7, <2>8
    <3> QED
      BY <2>9
  <2>11. \A k \in 1..n : k \in 1..(n + 1)
    BY <2>3
  <2>12. ASSUME NEW j \in 1 .. n, NEW k \in 1 .. n, j # k, at[j] = at[k] PROVE at[j] = None
    <3>1. j <= Len(c) => j \in 1..Len(c) /\ at[j] = c[j]
      BY <2>7, <2>9, <2>11
    <3>2. k <= Len(c) => k \in 1..Len(c) /\ at[k] = c[k]
      BY <2>7, <2>9, <2>11
    <3>3. ~(j <= Len(c)) => at[j] = None
      BY <2>9, <2>11
    <3>4. ~(k <= Len(c)) => at[k] = None
      BY <2>9, <2>11
    <3> QED
      BY <2>7, <2>12, <3>1, <3>2, <3>3, <3>4
  <2>13. free = In(c)
    <3>1. ASSUME NEW k \in 1..n, at[k] # None PROVE at[k] \in In(c)
      <4>1. k <= Len(c) /\ at[k] = c[k]
        BY <2>9, <2>11, <3>1
      <4>2. k \in 1..Len(c)
        BY <2>7, <4>1
      <4> QED
        BY <4>1, <4>2 DEF In
    <3>2. ASSUME NEW k \in 1..Len(c) PROVE c[k] \in free
      <4>1. k \in 1..n /\ k <= Len(c) /\ c[k] # None
        BY <2>3, <2>7, <2>8 DEF None
      <4>2. at[k] = c[k]
        BY <2>9, <2>11, <4>1
      <4> QED
        BY <2>14, <2>15, <2>16, <2>17, <4>1, <4>2
    <3>3. \A y \in free : y \in In(c)
      BY <2>14, <2>15, <2>16, <2>17, <3>1
    <3>4. \A y \in In(c) : y \in free
      BY <3>2 DEF In
    <3> QED
      BY <3>3, <3>4
  <2>19. /\ free \intersect out = {} /\ free \union out = 1 .. n
         /\ block[b].use = Cardinality(out)
    BY <2>2, <2>5, <2>6, <2>13
  <2> QED
    BY <2>10, <2>12, <2>15, <2>18, <2>19
<1> QED
  BY <1>2, <1>3 DEF PiecesApart

LEMMA ListsFollow == PoolInv => ListsSound
<1> SUFFICES ASSUME PoolInv PROVE ListsSound
  OBVIOUS
<1>1. PICK m : m = Memory /\ m.block = block /\ m.list = list /\ Sound(m, held)
  <2> Memory.block = block /\ Memory.list = list
    BY DEF Memory
  <2> QED
    BY DEF PoolInv
<1> DEFINE N == Cardinality(Blocks)
<1>2. ASSUME NEW c \in Classes, NEW at, at = Walk(Memory, c),
             NEW last, last = {n \in 1 .. N : at[n] # NULL /\ at[n + 1] = NULL}
      PROVE  /\ at[N + 1] = NULL
             /\ InList(Memory, c) = {b \in Live : block[b].class = c /\ block[b].head # None}
             /\ \A n \in last : list[c].tail = at[n]
             /\ \A n \in 2 .. N : at[n] # NULL => block[at[n]].pre = at[n - 1]
  <2>1. PICK l : Linked(m, c, l) /\ In(l) = Room(m, c)
    BY <1>1 DEF Sound, ListRight
  <2>2. /\ Len(l) \in Nat /\ Len(l) <= N
        /\ at = [i \in 1..(N + 1) |-> IF i <= Len(l) THEN l[i] ELSE NULL]
        /\ InList(m, c) = In(l)
    BY <1>1, <1>2, <2>1, WalkIs DEF Sound
  <2>3. N \in Nat
    BY BlocksFinite
  <2> HIDE DEF N
  <2>4. \A i \in 1..(N + 1) : at[i] = IF i <= Len(l) THEN l[i] ELSE NULL
    BY <2>2
  <2>5. at[N + 1] = NULL
    <3> N + 1 \in 1..(N + 1) /\ ~(N + 1 <= Len(l))
      BY <2>2, <2>3
    <3> QED
      BY <2>4
  <2>6. Room(m, c) = {b \in Live : block[b].class = c /\ block[b].head # None}
    <3>1. \A b \in Blocks : block[b] # Freed <=> IsBlock(block[b])
      BY <1>1, BlockAlive DEF Sound, MemoryType
    <3> QED
      BY <1>1, <3>1 DEF Room, Live
  <2>7. /\ l \in Seq(Blocks) /\ (l # <<>> => list[c].tail = l[Len(l)])
        /\ \A i \in 2..Len(l) : block[l[i]].pre = l[i - 1]
    BY <1>1, <2>1 DEF Linked
  <2>8. ASSUME NEW n \in last PROVE list[c].tail = at[n]
    <3>1. n \in 1..N /\ at[n] # NULL /\ at[n + 1] = NULL /\ n \in 1..(N + 1) /\ n + 1 \in 1..(N + 1)
      BY <1>2, <2>3, <2>8
    <3>2. n <= Len(l) /\ at[n] = l[n]
      BY <2>4, <3>1
    <3>3. n = Len(l)
      <4> SUFFICES ASSUME n < Len(l) PROVE FALSE
        BY <2>2, <3>1, <3>2
      <4>1. n + 1 <= Len(l) /\ n + 1 \in 1..Len(l)
        BY <2>2, <3>1
      <4>2. at[n + 1] = l[n + 1] /\ l[n + 1] \in Blocks
        BY <2>4, <2>7, <3>1, <4>1
      <4> QED
        BY <3>1, <4>2
    <3>4. l # <<>>
      BY <3>1, <3>3
    <3> QED
      BY <2>7, <3>2, <3>3, <3>4
  <2>9. ASSUME NEW n \in 2 .. N, at[n] # NULL PROVE block[at[n]].pre = at[n - 1]
    <3>1. n \in 1..(N + 1) /\ n - 1 \in 1..(N + 1)
      BY <2>3
    <3>2. n <= Len(l) /\ at[n] = l[n]
      BY <2>4, <2>9, <3>1
    <3>3. n \in 2..Len(l) /\ n - 1 <= Len(l)
      BY <2>2, <2>3, <3>2
    <3>4. at[n - 1] = l[n - 1]
      BY <2>4, <3>1, <3>3
    <3> QED
      BY <2>7, <3>2, <3>3, <3>4
  <2> QED
    BY <1>1, <2>1, <2>2, <2>5, <2>6, <2>8, <2>9
<1> DEFINE L(c) == {n \in 1 .. N : Walk(Memory, c)[n] # NULL /\ Walk(Memory, c)[n + 1] = NULL}
<1>3. ASSUME NEW c \in Classes
      PROVE  /\ Walk(Memory, c)[N + 1] = NULL
             /\ InList(Memory, c) = {b \in Live : block[b].class = c /\ block[b].head # None}
             /\ \A n \in L(c) : list[c].tail = Walk(Memory, c)[n]
             /\ \A n \in 2 .. N : Walk(Memory, c)[n] # NULL
                                    => block[Walk(Memory, c)[n]].pre = Walk(Memory, c)[n - 1]
  <2>1. PICK at : at = Walk(Memory, c)
    OBVIOUS
  <2>2. PICK last : last = {n \in 1 .. N : at[n] # NULL /\ at[n + 1] = NULL}
    OBVIOUS
  <2>3. last = L(c)
    BY <2>1, <2>2
  <2> HIDE DEF N, L
  <2> QED
    BY <1>2, <2>1, <2>2, <2>3
<1> QED
  BY <1>3 DEF ListsSound

(* Theorem: whatever sizes are asked for, however pieces are freed and     *)
(* gc() is called, no piece is handed out twice, no block with a piece in  *)
(* use is released, m_use_size counts the pieces handed out, and walking a *)
(* class's list meets exactly its blocks with room.                        *)
THEOREM PoolCorrect == PoolSpec => []PoolSound
<1>1. PoolInv => PoolSound
  BY TypesFollow, PiecesFollow, ListsFollow DEF PoolSound
<1> QED
  BY <1>1, PoolInitRight, PoolStep, PTL DEF PoolSpec

-----------------------------------------------------------------------------
\* Counting modulo the counters' width, and what is counted.

\* A number is a multiple of the width and what is left when it wraps.
LEMMA Quotient ==
  ASSUME NEW z \in Int
  PROVE  \E q \in Int : z = Modulus * q + Wrap(z)
<1> z \div Modulus \in Int /\ z = Modulus * (z \div Modulus) + (z % Modulus)
  OBVIOUS
<1> QED
  BY DEF Wrap

\* There is one such remainder.
LEMMA OneRemainder ==
  ASSUME NEW M \in Nat \ {0}, NEW u \in Int, NEW v \in Int, NEW r \in 0 .. M - 1, NEW t \in 0 .. M - 1,
         M * u + r = M * v + t
  PROVE  r = t
<1>1. ASSUME NEW a \in Int, NEW b \in Int, NEW x \in 0 .. M - 1, NEW y \in 0 .. M - 1,
             M * a + x = M * b + y, a > b
      PROVE  FALSE
  <2>1. PICK d : d = a - b - 1 /\ d \in Nat /\ a = b + d + 1
    BY <1>1
  <2>2. M * d \in Nat
    BY <2>1
  <2>3. M * a = M * b + M * d + M
    BY <2>1
  <2>4. M * b \in Int /\ M * a \in Int
    OBVIOUS
  <2> QED
    BY <1>1, <2>2, <2>3, <2>4
<1>2. u = v
  BY <1>1
<1> QED
  BY <1>2

\* Adding to a wrapped number is adding to the number.
LEMMA WrapAdds ==
  ASSUME NEW a \in Int, NEW k \in Int
  PROVE  Wrap(Wrap(a) + k) = Wrap(a + k)
<1>1. PICK w : w = Wrap(a) /\ w \in 0 .. Modulus - 1
  BY WrapType
<1>2. PICK z : z = w + k /\ z \in Int
  BY <1>1
<1>3. PICK x, y : x = Wrap(z) /\ y = Wrap(a + k)
  OBVIOUS
<1>4. x \in 0 .. Modulus - 1 /\ y \in 0 .. Modulus - 1
  BY <1>2, <1>3, WrapType
<1>5. PICK q \in Int : a = Modulus * q + w
  BY <1>1, Quotient
<1>6. PICK p \in Int : z = Modulus * p + x
  BY <1>2, <1>3, Quotient
<1>7. PICK s \in Int : a + k = Modulus * s + y
  <2>1. PICK n : n = a + k /\ n \in Int
    OBVIOUS
  <2>2. PICK s \in Int : n = Modulus * s + Wrap(n)
    BY <2>1, Quotient
  <2> QED
    BY <1>3, <2>1, <2>2
<1>8. Modulus * (q + p) + x = Modulus * s + y
  <2>1. Modulus * (q + p) = Modulus * q + Modulus * p
    OBVIOUS
  <2>2. Modulus * q \in Int /\ Modulus * p \in Int /\ Modulus * s \in Int
    OBVIOUS
  <2> QED
    BY <1>1, <1>2, <1>4, <1>5, <1>6, <1>7, <2>1, <2>2
<1>9. x = y
  BY <1>4, <1>8, OneRemainder
<1> QED
  BY <1>1, <1>2, <1>3, <1>9

\* It is the same with a size that may be unknown.
LEMMA PlusAdds ==
  ASSUME NEW a \in Int, NEW k \in Int, NEW v \in {Unknown, Wrap(a)}
  PROVE  Plus(v, k) \in {Unknown, Wrap(a + k)}
<1>1. CASE v = Unknown
  BY <1>1 DEF Plus
<1>2. CASE v = Wrap(a)
  BY <1>2, WrapAdds DEF Plus
<1> QED
  BY <1>1, <1>2

\* The counters x say: l blocks, u of them unused, s in use, where f blocks
\* were counted at first, gc() released g, and large pieces make a.
Accounts(x, f, l, u, s, g, a) ==
    /\ x.blocks = Wrap(f + l)
    /\ x.free = Wrap(u + g)
    /\ x.use \in {Unknown, Wrap(s + a)}
    /\ x.current \in {Unknown, Wrap(l * BlockSize - s + a)}

\* From the counters x to y the numbers become m, v, t, h and b.
Moves(x, y, l, u, s, g, a, m, v, t, h, b) ==
    /\ (m = l /\ y.blocks = x.blocks) \/ y.blocks = Wrap(x.blocks + (m - l))
    /\ (v + h = u + g /\ y.free = x.free) \/ y.free = Wrap(x.free + (v + h - u - g))
    /\ \/ t + b = s + a /\ y.use = x.use
       \/ y.use \in {Unknown, Plus(x.use, t + b - s - a)}
    /\ \/ m = l /\ b - t = a - s /\ y.current = x.current
       \/ y.current \in {Unknown, Plus(x.current, (m - l) * BlockSize + s - t + b - a)}

\* What a step counts is what it changes.
LEMMA AccountsChange ==
  ASSUME NEW f \in Int, NEW l \in Int, NEW u \in Int, NEW s \in Int, NEW g \in Int, NEW a \in Int,
         NEW m \in Int, NEW v \in Int, NEW t \in Int, NEW h \in Int, NEW b \in Int,
         NEW x, Accounts(x, f, l, u, s, g, a), NEW y,
         Moves(x, y, l, u, s, g, a, m, v, t, h, b)
  PROVE  Accounts(y, f, m, v, t, h, b)
<1> USE DEF Moves
<1>1. y.blocks = Wrap(f + m)
  <2>1. x.blocks = Wrap(f + l)
    BY DEF Accounts
  <2>2. PICK n, k : n = f + l /\ k = m - l /\ n \in Int /\ k \in Int /\ n + k = f + m
    OBVIOUS
  <2>3. Wrap(Wrap(n) + k) = Wrap(n + k)
    BY <2>2, WrapAdds
  <2> QED
    BY <2>1, <2>2, <2>3
<1>2. y.free = Wrap(v + h)
  <2>1. x.free = Wrap(u + g)
    BY DEF Accounts
  <2>2. PICK n, k : n = u + g /\ k = v + h - u - g /\ n \in Int /\ k \in Int /\ n + k = v + h
    OBVIOUS
  <2>3. Wrap(Wrap(n) + k) = Wrap(n + k)
    BY <2>2, WrapAdds
  <2> QED
    BY <2>1, <2>2, <2>3
<1>3. y.use \in {Unknown, Wrap(t + b)}
  <2>1. x.use \in {Unknown, Wrap(s + a)}
    BY DEF Accounts
  <2>2. PICK n, k : n = s + a /\ k = t + b - s - a /\ n \in Int /\ k \in Int /\ n + k = t + b
    OBVIOUS
  <2>3. Plus(x.use, k) \in {Unknown, Wrap(n + k)}
    BY <2>1, <2>2, PlusAdds
  <2> QED
    BY <2>1, <2>2, <2>3
<1>4. y.current \in {Unknown, Wrap(m * BlockSize - t + b)}
  <2>1. x.current \in {Unknown, Wrap(l * BlockSize - s + a)}
    BY DEF Accounts
  <2>2. PICK p, q, d : p = l * BlockSize /\ q = m * BlockSize /\ d = (m - l) * BlockSize
    OBVIOUS
  <2>3. p \in Int /\ q \in Int /\ d \in Int /\ p + d = q
    <3>1. (m - l) * BlockSize = m * BlockSize - l * BlockSize
      OBVIOUS
    <3>2. l * BlockSize \in Int /\ m * BlockSize \in Int
      OBVIOUS
    <3> QED
      BY <2>2, <3>1, <3>2
  <2>4. PICK n, k : /\ n = p - s + a /\ k = d + s - t + b - a /\ n \in Int /\ k \in Int
                    /\ n + k = q - t + b
    BY <2>3
  <2>5. x.current \in {Unknown, Wrap(n)}
    BY <2>1, <2>2, <2>4
  <2>6. Plus(x.current, k) \in {Unknown, Wrap(n + k)}
    BY <2>4, <2>5, PlusAdds
  <2>7. m = l => p = q
    BY <2>2
  <2>8. y.current \in {Unknown, Wrap(n + k)}
    <3>1. CASE m = l /\ b - t = a - s /\ y.current = x.current
      <4>1. n + k = n
        BY <2>3, <2>4, <2>7, <3>1
      <4> QED
        BY <2>5, <3>1, <4>1
    <3>2. CASE y.current \in {Unknown, Plus(x.current, (m - l) * BlockSize + s - t + b - a)}
      <4>1. (m - l) * BlockSize + s - t + b - a = k
        BY <2>2, <2>4
      <4> QED
        BY <2>6, <3>2, <4>1
    <3> QED
      BY <3>1, <3>2
  <2> QED
    BY <2>2, <2>4, <2>8
<1> QED
  BY <1>1, <1>2, <1>3, <1>4 DEF Accounts

-----------------------------------------------------------------------------
\* What is counted.

\* The blocks L none of whose pieces is held
Quiet(L, H) == {b \in L : Out(H, b) = {}}

Weight(x, H) == [p \in H |-> Size[x[p[1]].class]]

PastType ==
    /\ past = [first |-> past.first, large |-> past.large, gced |-> past.gced, gcs |-> past.gcs]
    /\ past.first \in Nat /\ past.large \in Nat /\ past.gced \in Nat /\ past.gcs \in Nat

Counted == IsFiniteSet(held) /\ PastType /\ CountersAccounted

\* m_use_size is 0 exactly of the blocks none of whose pieces is held.
LEMMA UsesCount ==
  ASSUME NEW m, NEW H, Sound(m, H)
  PROVE  /\ \A b \in Blocks : m.block[b] # Freed => (m.block[b].use = 0 <=> Out(H, b) = {})
         /\ \A p \in H : /\ p[1] \in Blocks /\ m.block[p[1]] # Freed
                         /\ p \in Blocks \X Nat /\ Size[m.block[p[1]].class] \in Nat
<1>1. MemoryType(m) /\ PiecesSound(m, H)
  BY DEF Sound
<1>2. ASSUME NEW b \in Blocks, m.block[b] # Freed PROVE m.block[b].use = 0 <=> Out(H, b) = {}
  <2>1. PICK x, out : x = m.block[b] /\ out = Out(H, b) /\ IsBlock(x) /\ PiecesRight(x, out)
    BY <1>1, <1>2 DEF MemoryType, PiecesSound
  <2>2. IsFiniteSet(out) /\ x.use = Cardinality(out)
    BY <2>1, HeadIs DEF PiecesRight
  <2>3. Cardinality(out) = 0 <=> out = {}
    BY <2>2, FS_EmptySet
  <2> QED
    BY <2>1, <2>2, <2>3
<1>3. ASSUME NEW p \in H
      PROVE  /\ p[1] \in Blocks /\ m.block[p[1]] # Freed
             /\ p \in Blocks \X Nat /\ Size[m.block[p[1]].class] \in Nat
  <2>1. p \in Blocks \X Nat /\ IsBlock(m.block[p[1]])
    BY <1>1 DEF PiecesSound
  <2>2. PICK c : c = m.block[p[1]].class /\ c \in Classes
    BY <2>1 DEF IsBlock
  <2>3. Size[c] \in Nat
    BY <2>2, ZeroClass, SizeTypes
  <2> QED
    BY <2>1, <2>2, <2>3, BlockAlive
<1> QED
  BY <1>2, <1>3

\* The invariant, of any record with the blocks
LEMMA SoundNow ==
  ASSUME PoolInv
  PROVE  \E m : m.block = block /\ Sound(m, held)
<1> Memory.block = block
  BY DEF Memory
<1> QED
  BY DEF PoolInv

\* and after a step
LEMMA SoundNext ==
  ASSUME PoolInv'
  PROVE  \E m : m.block = block' /\ Sound(m, held')
<1>1. Sound(Memory', held')
  BY DEF PoolInv, Memory, Sound, MemoryType, PiecesSound, ListRight, Room, Linked, Out
<1>2. Memory'.block = block'
  BY DEF Memory
<1> QED
  BY <1>1, <1>2

\* The unused blocks, before a step
LEMMA UnusedNow == ASSUME PoolInv PROVE UnusedBlocks = Quiet(Live, held)
<1>1. PICK m : m.block = block /\ Sound(m, held)
  BY SoundNow
<1> QED
  BY <1>1, UsesCount DEF UnusedBlocks, Quiet, Live

\* and after it
LEMMA UnusedNext == ASSUME PoolInv' PROVE UnusedBlocks' = Quiet(Live', held')
<1>1. PICK m : m.block = block' /\ Sound(m, held')
  BY SoundNext
<1> QED
  BY <1>1, UsesCount DEF UnusedBlocks, Quiet, Live

\* The blocks can be counted.
LEMMA LiveFinite ==
  /\ IsFiniteSet(Live) /\ Cardinality(Live) \in Nat
  /\ IsFiniteSet(UnusedBlocks) /\ Cardinality(UnusedBlocks) \in Nat
  /\ UnusedBlocks \subseteq Live
<1>1. Live \subseteq Blocks /\ UnusedBlocks \subseteq Blocks /\ UnusedBlocks \subseteq Live
  BY DEF Live, UnusedBlocks
<1>2. IsFiniteSet(Live) /\ IsFiniteSet(UnusedBlocks)
  BY <1>1, FS_Subset
<1> QED
  BY <1>1, <1>2, FS_CardinalityType

\* The blocks y have the classes the blocks x have, and a piece p of size k.
Joins(x, y, H, p, k) ==
    /\ \A q \in H : y[q[1]].class = x[q[1]].class /\ Size[x[q[1]].class] \in Int
    /\ k = Size[y[p[1]].class]

\* One piece more, of a class that is known
LEMMA WeightGrows ==
  ASSUME NEW H, IsFiniteSet(H), NEW p, p \notin H, NEW x, NEW y,
         NEW k \in Int, Joins(x, y, H, p, k)
  PROVE  /\ SumFunction(Weight(x, H)) \in Int
         /\ SumFunction(Weight(y, H \union {p})) = SumFunction(Weight(x, H)) + k
<1> DEFINE w == Weight(x, H)
           v == Weight(y, H \union {p})
<1>1. w \in [H -> Int]
  BY DEF Weight, Joins
<1>2. Widens(v, w, H, p, k)
  BY DEF Weight, Widens, Joins
<1> HIDE DEF w, v
<1>3. SumFunction(w) \in Int
  BY <1>1, SumType
<1>4. SumFunction(v) = SumFunction(w) + k
  BY <1>1, <1>2, SumAdds
<1> QED
  BY <1>3, <1>4 DEF w, v

\* What HeldSize sums up
LEMMA SizesNow ==
  ASSUME PoolInv, IsFiniteSet(held)
  PROVE  HeldSize = SumFunction(Weight(block, held)) /\ HeldSize \in Int
<1>1. HeldSize = SumFunction(Weight(block, held))
  BY DEF HeldSize, Weight
<1>2. Weight(block, held) \in [held -> Int]
  <2>1. PICK m : m.block = block /\ Sound(m, held)
    BY SoundNow
  <2>2. \A p \in held : Size[block[p[1]].class] \in Int
    BY <2>1, UsesCount
  <2> QED
    BY <2>2 DEF Weight
<1> QED
  BY <1>1, <1>2, SumType

-----------------------------------------------------------------------------
\* alloc() and the counters.

\* A number below the width does not wrap.
LEMMA WrapSmall == \A n \in 0 .. Modulus - 1 : Wrap(n) = n
<1> SUFFICES ASSUME NEW n \in 0 .. Modulus - 1 PROVE Wrap(n) = n
  OBVIOUS
<1>1. PICK w : w = Wrap(n) /\ w \in 0 .. Modulus - 1
  BY WrapType
<1>2. PICK q \in Int : n = Modulus * q + w
  <2>1. n \in Int
    OBVIOUS
  <2>2. PICK q \in Int : n = Modulus * q + Wrap(n)
    BY <2>1, Quotient
  <2> QED
    BY <1>1, <2>2
<1>3. Modulus * 0 + n = Modulus * q + w
  BY <1>2
<1> QED
  BY <1>1, <1>3, OneRemainder

\* The counters of the state
LEMMA AccountsNow ==
  Counted <=> /\ IsFiniteSet(held) /\ PastType
              /\ Accounts(count, past.first, Cardinality(Live), Cardinality(UnusedBlocks),
                          HeldSize, past.gced, past.large)
BY DEF Counted, CountersAccounted, Accounts

\* and of the next
LEMMA AccountsNext ==
  ASSUME IsFiniteSet(held'), PastType',
         Accounts(count', past'.first, Cardinality(Live'), Cardinality(UnusedBlocks'),
                  HeldSize', past'.gced, past'.large)
  PROVE  Counted'
BY DEF Counted, CountersAccounted, Accounts

\* The pool starts with nothing to count.
LEMMA InitCounted == PoolInit => Counted
<1> SUFFICES ASSUME PoolInit PROVE Counted
  OBVIOUS
<1>1. PICK n \in FirstCounts :
         /\ count = [current |-> 0, use |-> 0, blocks |-> n, free |-> 0]
         /\ past = [first |-> n, large |-> 0, gced |-> 0, gcs |-> 0]
  BY DEF PoolInit
<1>2. n \in 0 .. Modulus - 1 /\ n \in Nat /\ n + 0 = n /\ 0 \in 0 .. Modulus - 1
  OBVIOUS
<1>3. held = {} /\ block = [b \in Blocks |-> Freed]
  BY DEF PoolInit
<1>4. Live = {} /\ UnusedBlocks = {}
  BY <1>3 DEF Live, UnusedBlocks
<1>5. HeldSize = 0
  <2>1. PICK w : w = [p \in held |-> Size[block[p[1]].class]]
    OBVIOUS
  <2>2. DOMAIN w = {} /\ w \in [{} -> Int]
    BY <1>3, <2>1
  <2>3. SumFunction(w) = 0
    BY <2>2, SumOfNone
  <2> QED
    BY <2>1, <2>3 DEF HeldSize
<1>6. IsFiniteSet({}) /\ Cardinality({}) = 0
  BY FS_EmptySet
<1>7. Wrap(n) = n /\ Wrap(0) = 0
  BY <1>2, WrapSmall
<1>8. PastType
  BY <1>1, <1>2 DEF PastType
<1>9. Accounts(count, n, 0, 0, 0, 0, 0)
  <2>1. 0 * BlockSize - 0 + 0 = 0 /\ 0 + 0 = 0
    OBVIOUS
  <2> QED
    BY <1>1, <1>2, <1>7, <2>1 DEF Accounts
<1> QED
  BY <1>1, <1>3, <1>4, <1>5, <1>6, <1>8, <1>9, AccountsNow

\* alloc() from a block of the list counts one piece more.
LEMMA AllocFirstCounts ==
  ASSUME PoolInv, Counted, NEW size \in Sizes, Fitting(size) # {}, AllocFirst(size)
  PROVE  Counted'
<1> DEFINE c == SizeIndex(size)
           b == list[c].head
           h == block[b].head
<1>1. /\ PoolInv' /\ Lasting(block, block', Blocks) /\ c \in Classes
      /\ b \in Live /\ block[b].class = c /\ h \in Nat /\ <<b, h>> \notin held
  BY AllocFirstKeeps
<1>2. /\ held' = held \union {<<b, h>>} /\ past' = past
      /\ count' = [count EXCEPT !.free = IF block[b].use = 0 THEN Wrap(@ - 1) ELSE @,
                                !.current = Plus(@, -Size[c]), !.use = Plus(@, Size[c])]
  BY DEF AllocFirst
<1> HIDE DEF b, c, h
<1>3. PICK k : k = Size[c] /\ k \in Nat
  BY <1>1, ZeroClass, SizeTypes
<1>4. Live' = Live /\ b \in Blocks
  BY <1>1 DEF Live, Lasting
<1>5. UnusedBlocks' = UnusedBlocks \ {b} /\ (b \in UnusedBlocks <=> block[b].use = 0)
  <2>1. UnusedBlocks = Quiet(Live, held) /\ UnusedBlocks' = Quiet(Live', held')
    BY <1>1, UnusedNow, UnusedNext
  <2>2. \A d : d # b => Out(held', d) = Out(held, d)
    BY <1>2 DEF Out
  <2>3. h \in Out(held', b)
    BY <1>1, <1>2 DEF Out
  <2>4. UnusedBlocks' = UnusedBlocks \ {b}
    BY <1>4, <2>1, <2>2, <2>3 DEF Quiet
  <2> QED
    BY <1>1, <2>4 DEF UnusedBlocks
<1>6. IsFiniteSet(held') /\ HeldSize \in Int /\ HeldSize' = HeldSize + k
  <2>1. IsFiniteSet(held)
    BY DEF Counted
  <2>2. IsFiniteSet(held')
    BY <1>2, <2>1, FS_AddElement
  <2>3. PICK m : m.block = block /\ Sound(m, held)
    BY SoundNow
  <2>4. \A q \in held : block'[q[1]].class = block[q[1]].class /\ Size[block[q[1]].class] \in Int
    BY <1>1, <2>3, UsesCount DEF Lasting
  <2>5. PICK p : p = <<b, h>> /\ p[1] = b
    <3>1. PICK p : p = <<b, h>>
      OBVIOUS
    <3> QED
      BY <3>1
  <2>6. block'[p[1]].class = c
    BY <1>1, <1>4, <2>5 DEF Lasting
  <2>7. SumFunction(Weight(block', held \union {p})) = SumFunction(Weight(block, held)) + k
    <3>1. Joins(block, block', held, p, k)
      BY <1>3, <2>4, <2>5, <2>6 DEF Joins
    <3> QED
      BY <1>1, <1>3, <2>1, <2>5, <3>1, WeightGrows
  <2>8. HeldSize' = SumFunction(Weight(block', held'))
    BY DEF HeldSize, Weight
  <2> QED
    BY <1>2, <2>1, <2>2, <2>5, <2>7, <2>8, SizesNow
<1>7. PICK l, u, s, d : /\ l = Cardinality(Live) /\ u = Cardinality(UnusedBlocks) /\ s = HeldSize
                        /\ d = IF block[b].use = 0 THEN -1 ELSE 0
  OBVIOUS
<1>8. l \in Int /\ u \in Int /\ s \in Int /\ d \in Int /\ Cardinality(UnusedBlocks') = u + d
  <2>1. PICK U : U = UnusedBlocks /\ IsFiniteSet(U) /\ u = Cardinality(U) /\ u \in Nat
    BY <1>7, LiveFinite
  <2>2. Cardinality(U \ {b}) = IF b \in U THEN u - 1 ELSE u
    BY <2>1, FS_RemoveElement
  <2>3. Cardinality(UnusedBlocks') = u + d
    BY <1>5, <1>7, <2>1, <2>2
  <2> QED
    BY <1>6, <1>7, <2>1, <2>3, LiveFinite
<1>9. PastType /\ Accounts(count, past.first, l, u, s, past.gced, past.large)
  BY <1>7, AccountsNow
<1>10. PICK f, g, a : f = past.first /\ g = past.gced /\ a = past.large /\ f \in Int /\ g \in Int /\ a \in Int
  BY <1>9 DEF PastType
<1>11. PICK v, t : v = u + d /\ t = s + k /\ v \in Int /\ t \in Int
  BY <1>3, <1>8
<1>12. Accounts(count', f, l, v, t, g, a)
  <2>1. /\ count'.blocks = count.blocks
        /\ count'.free = IF block[b].use = 0 THEN Wrap(count.free - 1) ELSE count.free
        /\ count'.use = Plus(count.use, k)
        /\ count'.current = Plus(count.current, -k)
        /\ count.free \in Int
    BY <1>2, <1>3 DEF PoolInv, CountType
  <2>2. v + g - u - g = d /\ t + a - s - a = k /\ (l - l) * BlockSize + s - t + a - a = -k
    <3>1. PICK z : z = (l - l) * BlockSize
      OBVIOUS
    <3>2. l - l = 0
      BY <1>8
    <3>3. z = 0
      BY <3>1, <3>2
    <3>4. z + s - t + a - a = -k
      BY <1>3, <1>8, <1>10, <1>11, <3>3
    <3>5. v + g - u - g = d /\ t + a - s - a = k
      BY <1>3, <1>8, <1>10, <1>11
    <3> QED
      BY <3>1, <3>4, <3>5
  <2>3. (v + g = u + g /\ count'.free = count.free) \/ count'.free = Wrap(count.free + (v + g - u - g))
    <3>1. CASE block[b].use = 0
      <4>1. count.free + d = count.free - 1
        BY <1>7, <2>1, <3>1
      <4> QED
        BY <2>1, <2>2, <3>1, <4>1
    <3>2. CASE block[b].use # 0
      BY <1>7, <1>8, <1>10, <1>11, <2>1, <3>2
    <3> QED
      BY <3>1, <3>2
  <2>4. /\ count'.use = Plus(count.use, t + a - s - a)
        /\ count'.current = Plus(count.current, (l - l) * BlockSize + s - t + a - a)
    BY <2>1, <2>2
  <2>5. PICK x, y : x = count /\ y = count' /\ Accounts(x, f, l, u, s, g, a)
    BY <1>9, <1>10
  <2>6. Moves(x, y, l, u, s, g, a, l, v, t, g, a)
    BY <2>4, <2>1, <2>3, <2>5 DEF Moves
  <2>7. Accounts(y, f, l, v, t, g, a)
    BY <1>8, <1>10, <1>11, <2>5, <2>6, AccountsChange
  <2> QED
    BY <2>5, <2>7
<1>13. PastType'
  BY <1>2, <1>9 DEF PastType
<1>14. Accounts(count', past'.first, Cardinality(Live'), Cardinality(UnusedBlocks'), HeldSize', past'.gced, past'.large)
  BY <1>2, <1>4, <1>6, <1>7, <1>8, <1>10, <1>11, <1>12
<1> QED
  BY <1>6, <1>13, <1>14, AccountsNext

\* alloc() from a new block counts the block too.
LEMMA AllocNewCounts ==
  ASSUME PoolInv, Counted, NEW size \in Sizes, Fitting(size) # {}, AllocNew(size)
  PROVE  Counted'
<1> DEFINE c == SizeIndex(size)
<1>1. PoolInv' /\ c \in Classes
  BY AllocNewKeeps
<1>2. PICK b \in Blocks \ Live :
              /\ Lasting(block, block', Blocks \ {b})
              /\ block'[b] # Freed /\ block'[b].class = c
              /\ held' = held \union {<<b, 1>>} /\ <<b, 1>> \notin held
              /\ count' = [count EXCEPT !.blocks = Wrap(@ + 1),
                                        !.current = Plus(@, BlockSize - Size[c]),
                                        !.use = Plus(@, Size[c])]
  BY AllocNewKeeps
<1> HIDE DEF c
<1>3. PICK k : k = Size[c] /\ k \in Nat
  BY <1>1, ZeroClass, SizeTypes
<1>4. Live' = Live \union {b} /\ past' = past
  BY <1>2 DEF Live, Lasting, AllocNew
<1>5. UnusedBlocks' = UnusedBlocks
  <2>1. UnusedBlocks = Quiet(Live, held) /\ UnusedBlocks' = Quiet(Live', held')
    BY <1>1, UnusedNow, UnusedNext
  <2>2. \A d : d # b => Out(held', d) = Out(held, d)
    BY <1>2 DEF Out
  <2>3. 1 \in Out(held', b)
    BY <1>2 DEF Out
  <2> QED
    BY <1>2, <1>4, <2>1, <2>2, <2>3 DEF Quiet
<1>6. IsFiniteSet(held') /\ HeldSize \in Int /\ HeldSize' = HeldSize + k
  <2>1. IsFiniteSet(held)
    BY DEF Counted
  <2>2. IsFiniteSet(held')
    BY <1>2, <2>1, FS_AddElement
  <2>3. PICK m : m.block = block /\ Sound(m, held)
    BY SoundNow
  <2>4. \A q \in held : block'[q[1]].class = block[q[1]].class /\ Size[block[q[1]].class] \in Int
    <3>1. \A q \in held : /\ q[1] \in Blocks /\ block[q[1]] # Freed
                          /\ Size[block[q[1]].class] \in Nat
      BY <2>3, UsesCount
    <3> QED
      BY <1>2, <3>1 DEF Lasting, Live
  <2>5. PICK p : p = <<b, 1>> /\ p[1] = b
    <3>1. PICK p : p = <<b, 1>>
      OBVIOUS
    <3> QED
      BY <3>1
  <2>6. SumFunction(Weight(block', held \union {p})) = SumFunction(Weight(block, held)) + k
    <3>1. Joins(block, block', held, p, k)
      BY <1>2, <1>3, <2>4, <2>5 DEF Joins
    <3> QED
      BY <1>2, <1>3, <2>1, <2>5, <3>1, WeightGrows
  <2>7. HeldSize' = SumFunction(Weight(block', held'))
    BY DEF HeldSize, Weight
  <2> QED
    BY <1>2, <2>1, <2>2, <2>5, <2>6, <2>7, SizesNow
<1>7. PICK l, u, s : l = Cardinality(Live) /\ u = Cardinality(UnusedBlocks) /\ s = HeldSize
  OBVIOUS
<1>8. /\ l \in Int /\ u \in Int /\ s \in Int
      /\ Cardinality(Live') = l + 1 /\ Cardinality(UnusedBlocks') = u
  <2>1. PICK L : L = Live /\ IsFiniteSet(L) /\ l = Cardinality(L) /\ l \in Nat /\ b \notin L
    BY <1>2, <1>7, LiveFinite
  <2>2. Cardinality(L \union {b}) = l + 1
    BY <2>1, FS_AddElement
  <2> QED
    BY <1>4, <1>5, <1>6, <1>7, <2>1, <2>2, LiveFinite
<1>9. PastType /\ Accounts(count, past.first, l, u, s, past.gced, past.large)
  BY <1>7, AccountsNow
<1>10. PICK f, g, a : f = past.first /\ g = past.gced /\ a = past.large /\ f \in Int /\ g \in Int /\ a \in Int
  BY <1>9 DEF PastType
<1>11. PICK m, t : m = l + 1 /\ t = s + k /\ m \in Int /\ t \in Int
  BY <1>3, <1>8
<1>12. Accounts(count', f, m, u, t, g, a)
  <2>1. /\ count'.blocks = Wrap(count.blocks + 1) /\ count'.free = count.free
        /\ count'.use = Plus(count.use, k)
        /\ count'.current = Plus(count.current, BlockSize - k)
    BY <1>2, <1>3 DEF PoolInv, CountType
  <2>2. m - l = 1 /\ t + a - s - a = k /\ (m - l) * BlockSize + s - t + a - a = BlockSize - k
    <3>1. m - l = 1
      BY <1>8, <1>11
    <3>2. PICK z : z = (m - l) * BlockSize /\ z = BlockSize
      BY <3>1
    <3>3. z + s - t + a - a = BlockSize - k
      BY <1>3, <1>8, <1>10, <1>11, <3>2
    <3> QED
      BY <1>3, <1>8, <1>10, <1>11, <3>1, <3>2, <3>3
  <2>3. /\ count'.blocks = Wrap(count.blocks + (m - l))
        /\ count'.use = Plus(count.use, t + a - s - a)
        /\ count'.current = Plus(count.current, (m - l) * BlockSize + s - t + a - a)
    BY <2>1, <2>2
  <2>5. PICK x, y : x = count /\ y = count' /\ Accounts(x, f, l, u, s, g, a)
    BY <1>9, <1>10
  <2>6. Moves(x, y, l, u, s, g, a, m, u, t, g, a)
    BY <2>1, <2>3, <2>5 DEF Moves
  <2>7. Accounts(y, f, m, u, t, g, a)
    BY <1>8, <1>10, <1>11, <2>5, <2>6, AccountsChange
  <2> QED
    BY <2>5, <2>7
<1>13. PastType'
  BY <1>4, <1>9 DEF PastType
<1>14. Accounts(count', past'.first, Cardinality(Live'), Cardinality(UnusedBlocks'), HeldSize', past'.gced, past'.large)
  BY <1>4, <1>6, <1>7, <1>8, <1>10, <1>11, <1>12
<1> QED
  BY <1>6, <1>13, <1>14, AccountsNext

-----------------------------------------------------------------------------
\* free() and the counters.

\* free() releases the victim's block, if there is one, and takes a piece back.
LEMMA FreeChanges ==
  ASSUME PoolInv, NEW piece \in held, NEW victim, NEW b, b = piece[1], b \in Live,
         PoolInv', held' = held \ {piece}, Lasting(block, block', Blocks \ {victim}),
         victim # NULL => victim \in Live /\ block[victim].use = 0 /\ block'[victim] = Freed
  PROVE  /\ b # victim /\ b \notin UnusedBlocks
         /\ Live' = Live \ {victim}
         /\ UnusedBlocks' = (UnusedBlocks \ {victim})
                              \union (IF block'[b].use = 0 THEN {b} ELSE {})
         /\ victim # NULL => victim \in Live /\ victim \in UnusedBlocks
<1>1. PICK m : m.block = block /\ Sound(m, held)
  BY SoundNow
<1>2. PICK r : r.block = block' /\ Sound(r, held')
  BY SoundNext
<1>3. piece \in Blocks \X Nat /\ b \in Blocks
  BY <1>1, UsesCount
<1>4. PICK i : i \in Nat /\ piece = <<b, i>>
  BY <1>3
<1>5. i \in Out(held, b)
  BY <1>4 DEF Out
<1>6. block[b].use # 0
  BY <1>1, <1>3, <1>5, UsesCount DEF Live
<1>7. b # victim /\ b \notin UnusedBlocks
  BY <1>3, <1>6 DEF UnusedBlocks, Live
<1>8. Live' = Live \ {victim}
  BY DEF Lasting, Live
<1>9. \A d : d # b => Out(held', d) = Out(held, d)
  BY <1>4 DEF Out
<1>10. UnusedBlocks = Quiet(Live, held) /\ UnusedBlocks' = Quiet(Live', held')
  BY UnusedNow, UnusedNext
<1>11. b \in Live' /\ (b \in UnusedBlocks' <=> block'[b].use = 0)
  BY <1>7, <1>8 DEF UnusedBlocks
<1>12. \A d : d # b => (d \in UnusedBlocks' <=> d \in UnusedBlocks /\ d # victim)
  BY <1>8, <1>9, <1>10 DEF Quiet
<1>13. UnusedBlocks' = (UnusedBlocks \ {victim}) \union (IF block'[b].use = 0 THEN {b} ELSE {})
  BY <1>7, <1>11, <1>12
<1>14. victim # NULL => victim \in UnusedBlocks
  BY DEF UnusedBlocks
<1> QED
  BY <1>7, <1>8, <1>13, <1>14

\* free() counts one piece less, and perhaps one block.
LEMMA FreeCounts ==
  ASSUME PoolInv, Counted, NEW piece \in held, Free(piece)
  PROVE  Counted'
<1>1. /\ PoolInv' /\ held' = held \ {piece} /\ past' = past
      /\ piece[1] \in Live /\ block[piece[1]].class \in Classes
  BY FreeKeeps
<1>2. PICK b : b = piece[1] /\ b \in Live /\ block[b].class \in Classes
  BY <1>1
<1>3. PICK k : k = Size[block[b].class] /\ k \in Nat
  BY <1>2, ZeroClass, SizeTypes
<1>4. PICK victim :
        /\ Lasting(block, block', Blocks \ {victim})
        /\ victim # NULL => victim \in Live /\ block[victim].use = 0 /\ block'[victim] = Freed
        /\ count' = [GcOneCount(count, victim) EXCEPT
                       !.free = IF block'[b].use = 0 THEN Wrap(@ + 1) ELSE @,
                       !.current = Plus(@, k), !.use = Plus(@, -k)]
  BY <1>2, <1>3, FreeKeeps
<1>5. /\ b # victim /\ b \notin UnusedBlocks
      /\ Live' = Live \ {victim}
      /\ UnusedBlocks' = (UnusedBlocks \ {victim}) \union (IF block'[b].use = 0 THEN {b} ELSE {})
      /\ victim # NULL => victim \in Live /\ victim \in UnusedBlocks
  BY <1>1, <1>2, <1>4, FreeChanges
<1>6. IsFiniteSet(held') /\ HeldSize \in Int /\ HeldSize' = HeldSize - k
  <2>1. IsFiniteSet(held)
    BY DEF Counted
  <2>2. IsFiniteSet(held')
    BY <1>1, <2>1, FS_RemoveElement
  <2>3. PICK r : r.block = block' /\ Sound(r, held')
    BY <1>1, SoundNext
  <2>4. \A q \in held' : block[q[1]].class = block'[q[1]].class /\ Size[block'[q[1]].class] \in Int
    <3>1. \A q \in held' : /\ q[1] \in Blocks /\ block'[q[1]] # Freed
                           /\ Size[block'[q[1]].class] \in Nat
      BY <2>3, UsesCount
    <3>2. \A q \in held' : q[1] \in Blocks \ {victim}
      <4>1. NULL \notin Blocks
        OBVIOUS
      <4> QED
        BY <1>4, <3>1, <4>1
    <3> QED
      BY <1>4, <3>1, <3>2 DEF Lasting
  <2>5. PICK x, y, H : x = block' /\ y = block /\ H = held'
    OBVIOUS
  <2>6. /\ piece \notin H /\ H \union {piece} = held /\ IsFiniteSet(H) /\ k = Size[y[piece[1]].class]
        /\ \A q \in H : y[q[1]].class = x[q[1]].class /\ Size[x[q[1]].class] \in Int
    BY <1>1, <1>2, <1>3, <2>2, <2>4, <2>5
  <2>7. SumFunction(Weight(x, H)) \in Int /\ SumFunction(Weight(y, H \union {piece})) = SumFunction(Weight(x, H)) + k
    <3>1. Joins(x, y, H, piece, k)
      BY <2>6 DEF Joins
    <3>2. piece \notin H /\ IsFiniteSet(H) /\ k \in Int
      BY <1>3, <2>6
    <3> QED
      BY <3>1, <3>2, WeightGrows
  <2>8. HeldSize' = SumFunction(Weight(block', held'))
    BY DEF HeldSize, Weight
  <2>9. HeldSize = SumFunction(Weight(block, held)) /\ HeldSize \in Int
    BY <2>1, SizesNow
  <2>10. HeldSize' = SumFunction(Weight(x, H)) /\ HeldSize = SumFunction(Weight(y, H \union {piece}))
    BY <2>5, <2>6, <2>8, <2>9
  <2> QED
    BY <1>3, <2>2, <2>7, <2>9, <2>10
<1>7. PICK l, u, s, d, e, v :
        /\ l = Cardinality(Live) /\ u = Cardinality(UnusedBlocks) /\ s = HeldSize
        /\ d = IF victim = NULL THEN 0 ELSE -1
        /\ e = IF block'[b].use = 0 THEN 1 ELSE 0
        /\ v = GcOneCount(count, victim)
  OBVIOUS
<1>8. /\ l \in Int /\ u \in Int /\ s \in Int /\ d \in Int /\ e \in Int
      /\ Cardinality(Live') = l + d /\ Cardinality(UnusedBlocks') = u + d + e
  <2>1. l \in Int /\ u \in Int /\ s \in Int /\ d \in Int /\ e \in Int
    BY <1>6, <1>7, LiveFinite
  <2>2. PICK U : U = UnusedBlocks \ {victim}
    OBVIOUS
  <2>3. IsFiniteSet(U) /\ Cardinality(U) = u + d /\ Cardinality(Live') = l + d /\ b \notin U
    <3>1. NULL \notin Live /\ NULL \notin UnusedBlocks
      BY DEF Live, UnusedBlocks
    <3>2. CASE victim = NULL
      BY <1>5, <1>7, <2>1, <2>2, <3>1, <3>2, LiveFinite
    <3>3. CASE victim # NULL
      BY <1>5, <1>7, <2>1, <2>2, <3>3, LiveFinite, FS_RemoveElement
    <3> QED
      BY <3>2, <3>3
  <2>4. Cardinality(UnusedBlocks') = u + d + e
    <3>1. CASE block'[b].use = 0
      <4>1. UnusedBlocks' = U \union {b} /\ e = 1
        BY <1>5, <1>7, <2>2, <3>1
      <4> QED
        BY <2>1, <2>3, <4>1, FS_AddElement
    <3>2. CASE block'[b].use # 0
      <4>1. UnusedBlocks' = U /\ e = 0
        BY <1>5, <1>7, <2>2, <3>2
      <4> QED
        BY <2>1, <2>3, <4>1
    <3> QED
      BY <3>1, <3>2
  <2> QED
    BY <2>1, <2>3, <2>4
<1>9. PastType /\ Accounts(count, past.first, l, u, s, past.gced, past.large)
  BY <1>7, AccountsNow
<1>10. PICK f, g, a : f = past.first /\ g = past.gced /\ a = past.large /\ f \in Int /\ g \in Int /\ a \in Int
  BY <1>9 DEF PastType
<1>11. CountType /\ count.free \in Int /\ count.blocks \in Int
  BY DEF PoolInv, CountType
<1>12. PICK m, w, z, t : m = l + d /\ w = u + d /\ z = w + e /\ t = s - k
                         /\ m \in Int /\ w \in Int /\ z \in Int /\ t \in Int
  BY <1>3, <1>8
<1>13. PICK x, y : x = count /\ y = count' /\ Accounts(x, f, l, u, s, g, a)
  BY <1>9, <1>10
<1>14. Accounts(v, f, m, w, s, g, a)
  <2>1. CASE victim = NULL
    <3>1. v = x /\ d = 0
      BY <1>7, <1>13, <2>1 DEF GcOneCount
    <3>2. m = l /\ w = u
      BY <1>8, <1>12, <3>1
    <3> QED
      BY <1>13, <3>1, <3>2
  <2>2. CASE victim # NULL
    <3>1. d = -1 /\ v = [count EXCEPT !.current = Plus(@, -BlockSize), !.blocks = Wrap(@ - 1),
                                      !.free = Wrap(@ - 1)]
      BY <1>7, <2>2 DEF GcOneCount
    <3>2. /\ v.current = Plus(x.current, -BlockSize) /\ v.use = x.use
          /\ v.blocks = Wrap(x.blocks - 1) /\ v.free = Wrap(x.free - 1)
          /\ x.blocks \in Int /\ x.free \in Int
      BY <1>11, <1>13, <3>1 DEF CountType
    <3>3. /\ x.blocks + (m - l) = x.blocks - 1 /\ x.free + (w + g - u - g) = x.free - 1
          /\ (m - l) * BlockSize + s - s + a - a = -BlockSize
      <4>1. m - l = -1 /\ w + g - u - g = -1
        BY <1>8, <1>10, <1>12, <3>1
      <4>2. PICK n : n = (m - l) * BlockSize /\ n = -BlockSize
        BY <4>1
      <4>3. n + s - s + a - a = -BlockSize
        BY <1>8, <1>10, <4>2
      <4>4. x.blocks + (m - l) = x.blocks - 1 /\ x.free + (w + g - u - g) = x.free - 1
        BY <3>2, <4>1
      <4> QED
        BY <4>2, <4>3, <4>4
    <3>4. Moves(x, v, l, u, s, g, a, m, w, s, g, a)
      BY <3>2, <3>3 DEF Moves
    <3> QED
      BY <1>8, <1>10, <1>12, <1>13, <3>4, AccountsChange
  <2> QED
    BY <2>1, <2>2
<1>15. /\ v.free \in Int
       /\ v = [current |-> v.current, use |-> v.use, blocks |-> v.blocks, free |-> v.free]
  <2>1. CASE victim = NULL
    BY <1>7, <1>11, <2>1 DEF GcOneCount, CountType
  <2>2. CASE victim # NULL
    <3>1. v = [current |-> Plus(count.current, -BlockSize), use |-> count.use,
               blocks |-> Wrap(count.blocks - 1), free |-> Wrap(count.free - 1)]
      BY <1>7, <1>11, <2>2 DEF GcOneCount, CountType
    <3>2. Wrap(count.free - 1) \in Int
      BY <1>11, WrapType
    <3> QED
      BY <3>1, <3>2
  <2> QED
    BY <2>1, <2>2
<1>16. Accounts(y, f, m, z, t, g, a)
  <2>1. y = [v EXCEPT !.free = IF block'[b].use = 0 THEN Wrap(v.free + 1) ELSE v.free,
                      !.current = Plus(v.current, k), !.use = Plus(v.use, -k)]
    BY <1>4, <1>7, <1>13
  <2>2. /\ y.blocks = v.blocks
        /\ y.free = IF block'[b].use = 0 THEN Wrap(v.free + 1) ELSE v.free
        /\ y.use = Plus(v.use, -k) /\ y.current = Plus(v.current, k)
    BY <1>15, <2>1
  <2>3. (z + g = w + g /\ y.free = v.free) \/ y.free = Wrap(v.free + (z + g - w - g))
    <3>1. z + g - w - g = e
      BY <1>8, <1>10, <1>12
    <3>2. e = 0 => z + g = w + g
      BY <1>8, <1>10, <1>12
    <3> QED
      BY <1>7, <2>2, <3>1, <3>2
  <2>4. t + a - s - a = -k /\ (m - m) * BlockSize + s - t + a - a = k
    <3>1. PICK n : n = (m - m) * BlockSize
      OBVIOUS
    <3>2. m - m = 0
      BY <1>12
    <3>3. n = 0
      BY <3>1, <3>2
    <3>4. t + a - s - a = -k /\ n + s - t + a - a = k
      BY <1>3, <1>8, <1>10, <1>12, <3>3
    <3> QED
      BY <3>1, <3>4
  <2>5. Moves(v, y, m, w, s, g, a, m, z, t, g, a)
    BY <2>2, <2>3, <2>4 DEF Moves
  <2> QED
    BY <1>8, <1>10, <1>12, <1>14, <2>5, AccountsChange
<1>18. Accounts(count', past'.first, Cardinality(Live'), Cardinality(UnusedBlocks'), HeldSize', past'.gced, past'.large)
  BY <1>1, <1>6, <1>7, <1>8, <1>10, <1>12, <1>13, <1>16
<1>17. PastType'
  BY <1>1, <1>9 DEF PastType
<1> QED
  BY <1>6, <1>17, <1>18, AccountsNext

-----------------------------------------------------------------------------
\* Large pieces, gc(), and the theorem on the counters.

\* A step that leaves the blocks and the pieces held as they are
LEMMA SameMemory ==
  ASSUME UNCHANGED <<block, held>>
  PROVE  Live' = Live /\ UnusedBlocks' = UnusedBlocks /\ HeldSize' = HeldSize
BY DEF Live, UnusedBlocks, HeldSize

\* A step that counts nothing
LEMMA SameCounted ==
  ASSUME Counted, UNCHANGED <<block, held, count, past>>
  PROVE  Counted'
BY SameMemory DEF Counted, CountersAccounted, PastType

\* A large piece is counted, or the sizes are unknown from now on.
LEMMA LargeWriteCounts ==
  ASSUME PoolInv, Counted, NEW t \in Threads, LargeWrite(t)
  PROVE  Counted'
<1>1. PICK k : k = large[t].size /\ k \in Nat
  BY DEF PoolInv, LargeType
<1>2. /\ UNCHANGED <<block, held>>
      /\ count' = IF large[t].stale
                  THEN [count EXCEPT !.current = Unknown, !.use = Unknown]
                  ELSE [count EXCEPT !.current = Plus(@, k), !.use = Plus(@, k)]
      /\ past' = [past EXCEPT !.large = @ + k]
  BY <1>1 DEF LargeWrite
<1>3. PICK l, u, s : l = Cardinality(Live) /\ u = Cardinality(UnusedBlocks) /\ s = HeldSize
  OBVIOUS
<1>4. IsFiniteSet(held) /\ PastType /\ Accounts(count, past.first, l, u, s, past.gced, past.large)
  BY <1>3, AccountsNow
<1>5. l \in Int /\ u \in Int /\ s \in Int
  BY <1>3, <1>4, LiveFinite, SizesNow
<1>6. PICK f, g, a : f = past.first /\ g = past.gced /\ a = past.large /\ f \in Nat /\ g \in Nat /\ a \in Nat
  BY <1>4 DEF PastType
<1>7. /\ count'.blocks = count.blocks /\ count'.free = count.free
      /\ count'.use \in {Unknown, Plus(count.use, k)}
      /\ count'.current \in {Unknown, Plus(count.current, k)}
  BY <1>2 DEF PoolInv, CountType
<1>8. PICK x, y, b : /\ x = count /\ y = count' /\ Accounts(x, f, l, u, s, g, a)
                    /\ b = a + k /\ b \in Int
  BY <1>1, <1>4, <1>6
<1>14. Accounts(y, f, l, u, s, g, b)
  <2>1. s + b - s - a = k /\ (l - l) * BlockSize + s - s + b - a = k
    <3>1. PICK n : n = (l - l) * BlockSize
      OBVIOUS
    <3>2. l - l = 0
      BY <1>5
    <3>3. n = 0
      BY <3>1, <3>2
    <3>4. s + b - s - a = k /\ n + s - s + b - a = k
      BY <1>1, <1>5, <1>6, <1>8, <3>3
    <3> QED
      BY <3>1, <3>4
  <2>2. Moves(x, y, l, u, s, g, a, l, u, s, g, b)
    BY <1>7, <1>8, <2>1 DEF Moves
  <2>3. f \in Int /\ g \in Int /\ a \in Int
    BY <1>6
  <2> QED
    BY <1>5, <1>8, <2>2, <2>3, AccountsChange
<1>9. past' = [first |-> f, large |-> a + k, gced |-> g, gcs |-> past.gcs]
  BY <1>2, <1>4, <1>6 DEF PastType
<1>10. PastType' /\ past'.first = f /\ past'.large = a + k /\ past'.gced = g
  BY <1>1, <1>4, <1>6, <1>9 DEF PastType
<1>11. Accounts(count', past'.first, Cardinality(Live'), Cardinality(UnusedBlocks'), HeldSize', past'.gced, past'.large)
  <2>1. l = Cardinality(Live') /\ u = Cardinality(UnusedBlocks') /\ s = HeldSize'
    BY <1>2, <1>3, SameMemory
  <2> QED
    BY <1>8, <1>10, <1>14, <2>1
<1>12. IsFiniteSet(held')
  BY <1>2, <1>4
<1> QED
  BY <1>10, <1>11, <1>12, AccountsNext

\* gc() releases unused blocks only.
LEMMA GcChanges ==
  ASSUME PoolInv, Gc
  PROVE  LET gone == {d \in Live : block'[d] = Freed}
         IN  /\ Live' = Live \ gone /\ UnusedBlocks' = UnusedBlocks \ gone
             /\ gone \subseteq UnusedBlocks /\ gone \subseteq Live
<1> DEFINE gone == {d \in Live : block'[d] = Freed}
<1>1. PICK m : m.block = block /\ Sound(m, held)
  BY SoundNow
<1>2. /\ PoolInv' /\ held' = held
      /\ \A d \in Blocks : block'[d] # Freed => block[d] # Freed /\ block'[d].class = block[d].class
  BY GcKeeps
<1>3. PICK r : r.block = block' /\ Sound(r, held')
  BY <1>2, SoundNext
<1>4. Live' = Live \ gone
  BY <1>2 DEF Live
<1>5. UnusedBlocks = Quiet(Live, held) /\ UnusedBlocks' = Quiet(Live', held')
  BY <1>2, UnusedNow, UnusedNext
<1>6. UnusedBlocks' = UnusedBlocks \ gone
  BY <1>2, <1>4, <1>5 DEF Quiet
<1>7. ASSUME NEW d \in gone PROVE Out(held, d) = {}
  <2>1. ASSUME NEW i \in Out(held, d) PROVE FALSE
    <3>1. PICK p : p = <<d, i>> /\ p \in held' /\ p[1] = d
      BY <1>2 DEF Out
    <3>2. block'[d] # Freed
      BY <1>3, <3>1, UsesCount
    <3> QED
      BY <3>2
  <2> QED
    BY <2>1
<1>8. gone \subseteq UnusedBlocks /\ gone \subseteq Live
  BY <1>5, <1>7 DEF Quiet
<1> QED
  BY <1>4, <1>6, <1>8

\* gc() counts the blocks it releases.
LEMMA GcCounts ==
  ASSUME PoolInv, Counted, Gc
  PROVE  Counted'
<1> DEFINE gone == {d \in Live : block'[d] = Freed}
<1>1. /\ Live' = Live \ gone /\ UnusedBlocks' = UnusedBlocks \ gone
      /\ gone \subseteq UnusedBlocks /\ gone \subseteq Live
  BY GcChanges
<1>2. PICK n : n = Cardinality(gone)
  OBVIOUS
<1>3. /\ PoolInv' /\ held' = held
      /\ \A d \in Blocks : block'[d] # Freed => block[d] # Freed /\ block'[d].class = block[d].class
      /\ count' = [count EXCEPT !.current = Plus(@, -(n * BlockSize)), !.blocks = Wrap(@ - n)]
      /\ past' = [past EXCEPT !.gcs = @ + 1, !.gced = @ + n]
  BY <1>2, GcKeeps
<1> HIDE DEF gone
<1>4. PICK l, u, s : l = Cardinality(Live) /\ u = Cardinality(UnusedBlocks) /\ s = HeldSize
  OBVIOUS
<1>5. IsFiniteSet(held) /\ PastType /\ Accounts(count, past.first, l, u, s, past.gced, past.large)
  BY <1>4, AccountsNow
<1>6. /\ n \in Nat /\ l \in Int /\ u \in Int /\ s \in Int
      /\ Cardinality(Live') = l + (-n) /\ Cardinality(UnusedBlocks') = u + (-n)
  <2>1. IsFiniteSet(Live) /\ IsFiniteSet(UnusedBlocks) /\ l \in Nat /\ u \in Nat /\ s \in Int
    BY <1>4, <1>5, LiveFinite, SizesNow
  <2>2. IsFiniteSet(gone)
    BY <1>1, <2>1, FS_Subset
  <2>3. n \in Nat
    BY <1>2, <2>2, FS_CardinalityType
  <2>4. PICK L, U : L = Live /\ U = UnusedBlocks
    OBVIOUS
  <2>5. Cardinality(L \ gone) = Cardinality(L) - Cardinality(L \intersect gone)
    BY <2>1, <2>2, <2>4, FS_Difference
  <2>6. Cardinality(U \ gone) = Cardinality(U) - Cardinality(U \intersect gone)
    BY <2>1, <2>2, <2>4, FS_Difference
  <2>7. L \intersect gone = gone /\ U \intersect gone = gone
    BY <1>1, <2>4
  <2>8. Cardinality(Live') = l - n
    BY <1>1, <1>2, <1>4, <2>4, <2>5, <2>7
  <2>9. Cardinality(UnusedBlocks') = u - n
    BY <1>1, <1>2, <1>4, <2>4, <2>6, <2>7
  <2> QED
    BY <2>1, <2>3, <2>8, <2>9
<1>7. HeldSize' = s
  <2>1. PICK r : r.block = block' /\ Sound(r, held')
    BY <1>3, SoundNext
  <2>2. \A p \in held : p[1] \in Blocks /\ block'[p[1]] # Freed
    BY <1>3, <2>1, UsesCount
  <2>3. \A p \in held : block'[p[1]].class = block[p[1]].class
    BY <1>3, <2>2
  <2>4. Weight(block', held') = Weight(block, held)
    BY <1>3, <2>3 DEF Weight
  <2>5. HeldSize = SumFunction(Weight(block, held)) /\ HeldSize' = SumFunction(Weight(block', held'))
    BY DEF HeldSize, Weight
  <2> QED
    BY <1>4, <2>4, <2>5
<1>8. PICK f, g, a : f = past.first /\ g = past.gced /\ a = past.large /\ f \in Nat /\ g \in Nat /\ a \in Nat
  BY <1>5 DEF PastType
<1>9. /\ count'.blocks = Wrap(count.blocks - n) /\ count'.free = count.free
      /\ count'.use = count.use /\ count'.current = Plus(count.current, -(n * BlockSize))
      /\ count.blocks \in Int
  BY <1>3 DEF PoolInv, CountType
<1>10. PICK x, y, m, v, h : /\ x = count /\ y = count' /\ Accounts(x, f, l, u, s, g, a)
                          /\ m = l - n /\ v = u - n /\ h = g + n /\ m \in Int /\ v \in Int /\ h \in Int
  BY <1>5, <1>6, <1>8
<1>15. Accounts(y, f, m, v, s, h, a)
  <2>1. PICK z : z = n * BlockSize /\ z \in Int
    BY <1>6
  <2>2. m - l = -n /\ v + h = u + g
    BY <1>6, <1>8, <1>10
  <2>3. PICK w : w = (m - l) * BlockSize /\ w = -z
    BY <1>6, <2>1, <2>2
  <2>4. w + s - s + a - a = -z
    BY <1>6, <1>8, <2>1, <2>3
  <2>5. x.blocks + (m - l) = x.blocks - n
    BY <1>6, <1>9, <1>10, <2>2
  <2>6. Moves(x, y, l, u, s, g, a, m, v, s, h, a)
    BY <1>9, <1>10, <2>1, <2>2, <2>3, <2>4, <2>5 DEF Moves
  <2>7. f \in Int /\ g \in Int /\ a \in Int
    BY <1>8
  <2> QED
    BY <1>6, <1>10, <2>6, <2>7, AccountsChange
<1>11. past' = [first |-> f, large |-> a, gced |-> g + n, gcs |-> past.gcs + 1]
  BY <1>3, <1>5, <1>8 DEF PastType
<1>12. PastType' /\ past'.first = f /\ past'.large = a /\ past'.gced = g + n
  BY <1>5, <1>6, <1>8, <1>11 DEF PastType
<1>13. Accounts(count', past'.first, Cardinality(Live'), Cardinality(UnusedBlocks'), HeldSize', past'.gced, past'.large)
  <2>1. m = Cardinality(Live') /\ v = Cardinality(UnusedBlocks')
    BY <1>6, <1>10
  <2> QED
    BY <1>7, <1>10, <1>12, <1>15, <2>1
<1>14. IsFiniteSet(held')
  BY <1>3, <1>5
<1> QED
  BY <1>12, <1>13, <1>14, AccountsNext

\* The counters stay right.
LEMMA CountedStep == PoolInv /\ Counted /\ [PoolNext]_poolVars => Counted'
<1> SUFFICES ASSUME PoolInv, Counted, [PoolNext]_poolVars PROVE Counted'
  OBVIOUS
<1>1. ASSUME NEW size \in Sizes, Fitting(size) # {}, AllocFirst(size) \/ AllocNew(size)
      PROVE  Counted'
  BY <1>1, AllocFirstCounts, AllocNewCounts
<1>2. ASSUME NEW size \in Sizes, NEW t \in Threads, LargeRead(t, size) PROVE Counted'
  BY <1>2, SameCounted DEF LargeRead
<1>3. ASSUME NEW t \in Threads, LargeWrite(t) PROVE Counted'
  BY <1>3, LargeWriteCounts
<1>4. ASSUME NEW piece \in held, Free(piece) PROVE Counted'
  BY <1>4, FreeCounts
<1>5. ASSUME SetMaxBlock \/ UNCHANGED poolVars PROVE Counted'
  BY <1>5, SameCounted DEF SetMaxBlock, poolVars
<1>6. CASE Gc
  BY <1>6, GcCounts
<1> QED
  BY <1>1, <1>2, <1>3, <1>4, <1>5, <1>6 DEF PoolNext

(* Theorem: m_block_count, m_free_size, m_use_size and m_current_size say  *)
(* what the pool holds modulo their width, however many blocks, classes    *)
(* and pieces there are, but for the exceptions CountersAccounted names.   *)
THEOREM CountersCorrect == PoolSpec => []CountersAccounted
<1>1. PoolInit => PoolInv /\ Counted
  BY PoolInitRight, InitCounted
<1>2. PoolInv /\ Counted /\ [PoolNext]_poolVars => PoolInv' /\ Counted'
  BY PoolStep, CountedStep
<1>3. Counted => CountersAccounted
  BY DEF Counted
<1> QED
  BY <1>1, <1>2, <1>3, PTL DEF PoolSpec

-----------------------------------------------------------------------------
\* What free() reclaims.

\* gc() releases no more than all the blocks at each call.
GcBounded == past.gcs \in 0 .. MaxGc /\ past.gced <= past.gcs * Cardinality(Blocks)

\* A step that is not of gc()
LEMMA GcBoundedKept ==
  ASSUME GcBounded, UNCHANGED <<past.gcs, past.gced>>
  PROVE  GcBounded'
BY DEF GcBounded

\* Each call of gc() releases so many blocks at most.
LEMMA GcBoundedStep ==
  ASSUME PoolInv, Counted, GcBounded, [PoolNext]_poolVars
  PROVE  GcBounded'
<1>1. ASSUME UNCHANGED past PROVE GcBounded'
  BY <1>1, GcBoundedKept
<1>2. ASSUME NEW size \in Sizes, AllocFirst(size) \/ AllocNew(size) PROVE GcBounded'
  BY <1>1, <1>2 DEF AllocFirst, AllocNew
<1>3. ASSUME NEW size \in Sizes, NEW t \in Threads, LargeRead(t, size) PROVE GcBounded'
  BY <1>1, <1>3 DEF LargeRead
<1>4. ASSUME NEW t \in Threads, LargeWrite(t) PROVE GcBounded'
  <2>1. past' = [past EXCEPT !.large = @ + large[t].size] /\ PastType
    BY <1>4 DEF LargeWrite, Counted
  <2>2. past'.gcs = past.gcs /\ past'.gced = past.gced
    BY <2>1 DEF PastType
  <2> QED
    BY <2>2, GcBoundedKept
<1>5. ASSUME NEW piece \in held, Free(piece) PROVE GcBounded'
  BY <1>1, <1>5 DEF Free
<1>6. ASSUME SetMaxBlock \/ UNCHANGED poolVars PROVE GcBounded'
  BY <1>1, <1>6 DEF SetMaxBlock, poolVars
<1>7. ASSUME Gc PROVE GcBounded'
  <2>1. PICK gone : gone = {d \in Live : block'[d] = Freed}
    OBVIOUS
  <2>2. PICK n : n = Cardinality(gone)
    OBVIOUS
  <2>3. past' = [past EXCEPT !.gcs = @ + 1, !.gced = @ + n]
    BY <1>7, <2>1, <2>2, GcKeeps
  <2>4. past.gcs < MaxGc /\ PastType
    BY <1>7 DEF Gc, Counted
  <2>5. past' = [first |-> past.first, large |-> past.large, gced |-> past.gced + n, gcs |-> past.gcs + 1]
    BY <2>3, <2>4 DEF PastType
  <2>6. PICK N : N = Cardinality(Blocks) /\ N \in Nat
    BY BlocksFinite
  <2>7. gone \subseteq Blocks
    BY <2>1 DEF Live
  <2>8. n \in Nat /\ n <= N
    BY <2>2, <2>6, <2>7, FS_Subset, FS_CardinalityType
  <2>9. past.gcs \in Nat /\ past.gced \in Nat /\ past.gced <= past.gcs * N
    BY <2>4, <2>6 DEF PastType, GcBounded
  <2>10. (past.gcs + 1) * N = past.gcs * N + N /\ past.gcs * N \in Nat
    BY <2>6, <2>9
  <2>11. past.gced + n <= (past.gcs + 1) * N
    BY <2>6, <2>8, <2>9, <2>10
  <2>12. past.gcs + 1 \in 0 .. MaxGc
    BY <2>4, <2>9
  <2> QED
    BY <2>5, <2>6, <2>11, <2>12 DEF GcBounded
<1> QED
  BY <1>2, <1>3, <1>4, <1>5, <1>6, <1>7 DEF PoolNext

\* _gc_one() finds an unused block where there is one.
LEMMA VictimFound ==
  ASSUME PoolInv, NEW d \in UnusedBlocks
  PROVE  Victims(Memory) # {}
<1>1. PICK m : m = Memory /\ m.block = block /\ Sound(m, held)
  <2> Memory.block = block
    BY DEF Memory
  <2> QED
    BY DEF PoolInv
<1>2. d \in Blocks /\ block[d] # Freed /\ block[d].use = 0
  BY DEF UnusedBlocks, Live
<1>3. MemoryType(m) /\ PiecesSound(m, held) /\ \A c \in Classes : ListRight(m, c)
  BY <1>1 DEF Sound
<1>4. PICK x, out : x = block[d] /\ out = Out(held, d) /\ IsBlock(x) /\ PiecesRight(x, out)
  BY <1>1, <1>2, <1>3 DEF MemoryType, PiecesSound
<1>5. out = {}
  BY <1>1, <1>2, <1>4, UsesCount
<1>6. x.head # None
  <2>1. /\ Pieces(x.class) \in Nat /\ Pieces(x.class) >= 2
        /\ x.head = None => out = 1..Pieces(x.class)
    BY <1>4, HeadIs
  <2>2. 1 \in 1..Pieces(x.class)
    BY <2>1
  <2> QED
    BY <1>5, <2>1, <2>2
<1>7. PICK c \in Classes : d \in Room(m, c)
  BY <1>1, <1>2, <1>4, <1>6 DEF Room, IsBlock
<1>8. \A k \in Classes : InList(m, k) = Room(m, k)
  BY <1>1, InListIs DEF Sound
<1>9. d \in Unused(m, c)
  BY <1>1, <1>2, <1>7, <1>8 DEF Unused
<1> DEFINE with == {k \in Classes : Unused(m, k) # {}}
<1>10. c \in with /\ with \subseteq 0..BlockSize
  BY <1>9, ZeroClass
<1>11. Victims(m) = IF with = {} THEN {} ELSE Unused(m, Max(with))
  BY DEF Victims
<1>12. \A k \in with : Unused(m, k) # {}
  OBVIOUS
<1> HIDE DEF with
<1>13. Max(with) \in with
  BY <1>10, GreatestIs
<1> QED
  BY <1>1, <1>10, <1>11, <1>12, <1>13

\* Below the counters' width, m_free_size is not 0 while a block is unused.
LEMMA FreeShown ==
  ASSUME PoolInv, Counted, GcBounded, Cardinality(Blocks) * (MaxGc + 1) < Modulus,
         UnusedBlocks # {}
  PROVE  count.free > 0
<1>1. PICK u, g, N : u = Cardinality(UnusedBlocks) /\ g = past.gced /\ N = Cardinality(Blocks)
  OBVIOUS
<1>2. count.free = Wrap(u + g) /\ g \in Nat
  BY <1>1 DEF Counted, CountersAccounted, PastType
<1>3. u \in Nat \ {0} /\ N \in Nat /\ u <= N
  <2>1. IsFiniteSet(UnusedBlocks) /\ UnusedBlocks \subseteq Blocks
    BY LiveFinite DEF UnusedBlocks, Live
  <2>2. u \in Nat /\ u # 0
    BY <1>1, <2>1, FS_CardinalityType, FS_EmptySet
  <2> QED
    BY <1>1, <2>1, <2>2, BlocksFinite, FS_Subset
<1>4. g <= MaxGc * N
  <2>1. past.gcs \in 0 .. MaxGc /\ g <= past.gcs * N
    BY <1>1 DEF GcBounded
  <2>2. PICK c, d : c = past.gcs /\ d = MaxGc - c /\ c \in Nat /\ d \in Nat /\ MaxGc = c + d
    BY <2>1
  <2>3. (c + d) * N = c * N + d * N /\ d * N \in Nat /\ c * N \in Nat
    BY <1>3, <2>2
  <2> QED
    BY <1>2, <2>1, <2>2, <2>3
<1>5. N * (MaxGc + 1) = MaxGc * N + N /\ MaxGc * N \in Nat
  BY <1>3
<1>6. N * (MaxGc + 1) < Modulus
  BY <1>1
<1>7. u + g \in 0 .. Modulus - 1 /\ u + g > 0
  BY <1>2, <1>3, <1>4, <1>5, <1>6
<1> QED
  BY <1>2, <1>7, WrapSmall

\* One call of free()
LEMMA FreeStepReclaims ==
  ASSUME PoolInv, Counted, GcBounded, Cardinality(Blocks) * (MaxGc + 1) < Modulus,
         NEW piece \in held, Free(piece), count.blocks > limit
  PROVE  Cardinality(UnusedBlocks') <= Max({1, Cardinality(UnusedBlocks)})
<1>1. PICK u, U, Z : U = UnusedBlocks /\ Z = UnusedBlocks' /\ u = Cardinality(U)
  OBVIOUS
<1>2. /\ PoolInv' /\ held' = held \ {piece} /\ piece[1] \in Live
  BY FreeKeeps
<1>3. PICK victim \in IF Over /\ Victims(Memory) # {} THEN Victims(Memory) ELSE {NULL} :
        /\ Lasting(block, block', Blocks \ {victim})
        /\ victim # NULL => victim \in Live /\ block[victim].use = 0 /\ block'[victim] = Freed
  BY FreeKeeps
<1>4. PICK b : /\ Z = (U \ {victim}) \union (IF block'[b].use = 0 THEN {b} ELSE {})
               /\ victim # NULL => victim \in U
  BY <1>1, <1>2, <1>3, FreeChanges
<1>5. IsFiniteSet(U) /\ u \in Nat
  BY <1>1, LiveFinite
<1>6. PICK V : V = U \ {victim} /\ IsFiniteSet(V)
  BY <1>5, FS_RemoveElement
<1>7. Cardinality(V) \in Nat /\ Cardinality(Z) \in Nat /\ Cardinality(Z) <= Cardinality(V) + 1
  <2>1. Cardinality(V) \in Nat
    BY <1>6, FS_CardinalityType
  <2>2. Z = V \/ Z = V \union {b}
    BY <1>4, <1>6
  <2>3. PICK y : y = V \union {b}
    OBVIOUS
  <2>4. IsFiniteSet(y) /\ Cardinality(y) = IF b \in V THEN Cardinality(V) ELSE Cardinality(V) + 1
    BY <1>6, <2>3, FS_AddElement
  <2>5. Cardinality(y) \in Nat /\ Cardinality(y) <= Cardinality(V) + 1
    BY <2>1, <2>4
  <2>6. Z = V \/ Z = y
    BY <2>2, <2>3
  <2> QED
    BY <2>1, <2>5, <2>6
<1>8. Cardinality(Z) <= 1 \/ Cardinality(Z) <= u
  <2>1. CASE U = {}
    <3>1. V = {}
      BY <1>6, <2>1
    <3>2. Cardinality(V) = 0
      BY <3>1, FS_EmptySet
    <3> QED
      BY <1>7, <3>2
  <2>2. CASE U # {}
    <3>1. count.free > 0
      BY <1>1, <2>2, FreeShown
    <3>2. Over /\ Victims(Memory) # {}
      BY <1>1, <2>2, <3>1, VictimFound DEF Over
    <3>3. victim \in Victims(Memory)
      BY <1>3, <3>2
    <3>4. victim # NULL
      <4>1. Sound(Memory, held)
        BY DEF PoolInv
      <4>2. victim \in Blocks
        BY <3>3, <4>1, VictimIs DEF Room
      <4> QED
        BY <4>2
    <3>5. Cardinality(V) = u - 1
      BY <1>1, <1>4, <1>5, <1>6, <3>4, FS_RemoveElement
    <3> QED
      BY <1>5, <1>7, <3>5
  <2> QED
    BY <2>1, <2>2
<1>9. 1 <= Max({1, u}) /\ u <= Max({1, u}) /\ Max({1, u}) \in Nat
  <2>1. {1, u} \subseteq 0..(u + 1) /\ u + 1 \in Nat
    BY <1>5
  <2>2. PICK T, n : T = {1, u} /\ n = u + 1 /\ T \subseteq 0..n /\ n \in Nat /\ T # {}
    BY <2>1
  <2>3. Max(T) \in T /\ \A k \in T : k <= Max(T)
    BY <2>2, GreatestIs
  <2> QED
    BY <1>5, <2>2, <2>3
<1> QED
  BY <1>1, <1>5, <1>7, <1>8, <1>9

(* Theorem: while the blocks gc() released and m_free_size still counts    *)
(* are below the counter's width, a call of free() that finds more blocks  *)
(* than the limit lets no unused blocks pile up.  Beyond the width the     *)
(* counter can come round to 0 with unused blocks in the lists, and free() *)
(* then looks for none.                                                    *)
THEOREM ReclaimCorrect ==
  Cardinality(Blocks) * (MaxGc + 1) < Modulus => (PoolSpec => FreeReclaims)
<1> SUFFICES ASSUME Cardinality(Blocks) * (MaxGc + 1) < Modulus PROVE PoolSpec => FreeReclaims
  OBVIOUS
<1> DEFINE Inv == PoolInv /\ Counted /\ GcBounded
           Goal == (\E p \in held : held' = held \ {p}) /\ count.blocks > limit
                      => Cardinality(UnusedBlocks') <= Max({1, Cardinality(UnusedBlocks)})
<1>1. PoolInit => Inv
  <2> SUFFICES ASSUME PoolInit PROVE GcBounded
    BY PoolInitRight, InitCounted
  <2>1. past.gced = 0 /\ past.gcs = 0
    BY DEF PoolInit
  <2>2. Cardinality(Blocks) \in Nat
    BY BlocksFinite
  <2> QED
    BY <2>1, <2>2 DEF GcBounded
<1>2. Inv /\ [PoolNext]_poolVars => Inv'
  BY PoolStep, CountedStep, GcBoundedStep
<1>3. Inv /\ [PoolNext]_poolVars => [Goal]_poolVars
  <2> SUFFICES ASSUME Inv, PoolNext PROVE Goal
    OBVIOUS
  <2>1. ASSUME NEW size \in Sizes, Fitting(size) # {}, AllocFirst(size) \/ AllocNew(size)
        PROVE  ~ \E p \in held : held' = held \ {p}
    <3>1. \E q : held' = held \union {q} /\ q \notin held
      BY <2>1, AllocFirstKeeps, AllocNewKeeps DEF AllocFirst
    <3> QED
      BY <3>1
  <2>2. ASSUME held' = held PROVE ~ \E p \in held : held' = held \ {p}
    BY <2>2
  <2>3. ASSUME NEW piece \in held, Free(piece), count.blocks > limit
        PROVE  Cardinality(UnusedBlocks') <= Max({1, Cardinality(UnusedBlocks)})
    BY <2>3, FreeStepReclaims
  <2> QED
    BY <2>1, <2>2, <2>3 DEF PoolNext, LargeRead, LargeWrite, SetMaxBlock, Gc
<1>4. FreeReclaims <=> [][Goal]_poolVars
  BY PTL DEF FreeReclaims
<1> HIDE DEF Goal
<1> QED
  BY <1>1, <1>2, <1>3, <1>4, PTL DEF PoolSpec
=============================================================================
