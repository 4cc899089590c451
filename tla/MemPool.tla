------------------------------ MODULE MemPool ------------------------------
(***************************************************************************)
(* The memory pool (clib/cmem_pool.cpp) that the manager's messages live   *)
(* in.  Pieces of BlockSize \div Size[c] to a block are handed out from    *)
(* the first block of the size class that has room; full blocks are on no  *)
(* list.  The lists and the chains of free pieces live in the blocks       *)
(* themselves, as in the code: `pre', `next', `head' and the offsets in    *)
(* the pieces.                                                             *)
(*                                                                         *)
(* Everything done under m_lock is one step.  Large pieces come from       *)
(* malloc and change the counters without the lock, in two steps.          *)
(***************************************************************************)
EXTENDS Links, Integers, FiniteSets, FiniteSetsExt, Functions

CONSTANTS
    Blocks,        \* the blocks malloc can return; when all are live it fails
    NULL,
    StartSize,     \* m_start_size, in units of 32 bytes
    BlockSize,     \* m_block_size, in the same units
    Sizes,         \* the sizes asked for, the piece's header included
    Limits,        \* the values m_max_block_size gets from set_max_block()
    FirstCounts,   \* the values m_block_count may have: no constructor sets it
    Threads,       \* the threads that allocate large pieces
    MaxLarge,      \* bound: no large piece begins once their total is this
    MaxHeld,       \* bound: [class -> the pieces the callers hold at once]
    MaxGc,         \* bound: how often gc() is called
    Modulus        \* the counters are unsigned: they are kept modulo this

(* The size of class c's pieces: init() doubles it until it equals the     *)
(* block's, and only a block size of StartSize * 2^k ends the loop.        *)
Size[c \in 0 .. BlockSize] == IF c = 0 THEN StartSize ELSE 2 * Size[c - 1]

ASSUME SizesAssumption ==
    /\ StartSize \in Nat \ {0} /\ BlockSize \in Nat /\ Sizes \subseteq Nat
    /\ \E k \in 1 .. BlockSize : BlockSize = Size[k]

ASSUME BoundsAssumption ==
    /\ NULL \notin Blocks /\ IsFiniteSet(Blocks)
    /\ MaxLarge \in Nat /\ MaxGc \in Nat /\ Modulus \in Nat \ {0}
    /\ FirstCounts \subseteq 0 .. Modulus - 1

VARIABLES
    block,    \* the blocks, by address; Freed when not allocated
    list,     \* [class -> m_head and m_tail of the class's cblock_pool]
    count,    \* m_current_size, m_use_size, m_block_count, m_free_size
    limit,    \* m_max_block_size
    large,    \* [thread -> the large piece it adds to the counters it has read]
    held,     \* the pieces the callers hold, as <<block, piece>>
    past      \* history: the first block count, the large pieces' total,
              \* the calls of gc() and the blocks they released

poolVars == <<block, list, count, limit, large, held, past>>

None == 0     \* m_offset -1, head_tack_node NULL: the pieces count from 1

Unknown == -1 \* a size the missing lock has lost

Wrap(n) == n % Modulus
Plus(size, n) == IF size = Unknown THEN Unknown ELSE Wrap(size + n)

Classes == {c \in 0 .. BlockSize : Size[c] < BlockSize}

Pieces(c) == BlockSize \div Size[c]

(* The smallest class the size fits in; there is none for a large piece.   *)
Fitting(size) == {c \in Classes : size <= Size[c]}
SizeIndex(size) == Min(Fitting(size))

Freed == [class |-> None, pre |-> NULL, next |-> NULL, head |-> None,
          use |-> None, offset |-> <<>>]

Live == {b \in Blocks : block[b] # Freed}

-----------------------------------------------------------------------------
(* One block.                                                              *)

(* create_me(): every piece is followed by the next one, the last by none. *)
CreateMe(c) ==
    [class |-> c, pre |-> NULL, next |-> NULL, head |-> 1, use |-> 0,
     offset |-> [i \in 1 .. Pieces(c) |-> IF i < Pieces(c) THEN i + 1 ELSE None]]

(* Mutant: the piece keeps the offset of the one behind it.                *)
TackedLinked(x) == [x EXCEPT !.head = x.offset[x.head], !.use = @ + 1]

Tacked(x) ==
    [x EXCEPT !.head = x.offset[x.head], !.offset[x.head] = None, !.use = @ + 1]

(* A piece that returns to a full block keeps the offset it was tacked     *)
(* with.                                                                   *)
Returned(x, i) ==
    [x EXCEPT !.offset[i] = IF x.head # None THEN x.head ELSE @,
              !.head = i, !.use = @ - 1]

-----------------------------------------------------------------------------
(* The list of one class: m is the pool's [block, list].                   *)

Memory == [block |-> block, list |-> list]

(* tack_node() with a block in the list: a block that is full now leaves   *)
(* the list.                                                               *)
TackFirst(m, c) ==
    LET b == m.list[c].head
        x == Tacked(m.block[b])
    IN  IF x.head # None
        THEN [m EXCEPT !.block[b] = x]
        ELSE IF x.next # NULL
        THEN [m EXCEPT !.list[c].head = x.next,
                       !.block = [@ EXCEPT ![b] = [x EXCEPT !.next = NULL],
                                           ![x.next].pre = NULL]]
        ELSE [m EXCEPT !.block[b] = x, !.list[c] = [head |-> NULL, tail |-> NULL]]

TackNew(m, c, b) ==
    [m EXCEPT !.block[b] = Tacked(CreateMe(c)), !.list[c] = [head |-> b, tail |-> b]]

AppendBlock(m, c, b) ==
    IF m.list[c].head # NULL
    THEN LET last == m.list[c].tail
         IN  [m EXCEPT !.block = [@ EXCEPT ![last].next = b,
                                           ![b].pre = last, ![b].next = NULL],
                       !.list[c].tail = b]
    ELSE [m EXCEPT !.block[b].pre = NULL, !.block[b].next = NULL,
                   !.list[c] = [head |-> b, tail |-> b]]

(* return_node(): a block that was full is put at the end of the list.     *)
ReturnNode(m, b, i) ==
    LET r == [m EXCEPT !.block[b] = Returned(@, i)]
    IN  IF m.block[b].head = None THEN AppendBlock(r, m.block[b].class, b) ELSE r

(* _remove_block(): removing the first block leaves m_tail, and the `pre'  *)
(* of the block that is first then, as they are.                           *)
RemoveBlock(m, b) ==
    LET x == m.block[b]
        l == m.list[x.class]
        before == IF x.pre = NULL THEN m.block
                                  ELSE [m.block EXCEPT ![x.pre].next = x.next]
    IN  IF l.head = b
        THEN [m EXCEPT !.list[x.class].head = x.next, !.block[b].pre = NULL]
        ELSE IF l.tail = b
        THEN [m EXCEPT !.list[x.class].tail = x.pre, !.block[x.pre].next = NULL]
        ELSE [m EXCEPT !.block = IF x.next = NULL THEN before
                                 ELSE [before EXCEPT ![x.next].pre = x.pre]]

(* move_front_node(): behind the first block, not in front of it.          *)
MoveFront(m, b) ==
    LET c == m.block[b].class
        first == m.list[c].head
        second == m.block[first].next
    IN  IF first = b \/ second \in {b, NULL} THEN m
        ELSE [RemoveBlock(m, b) EXCEPT
                !.block = [@ EXCEPT ![second].pre = b, ![b].next = second,
                                    ![first].next = b, ![b].pre = first]]

ReleaseBlock(m, b) ==
    LET r == RemoveBlock(m, b) IN [r EXCEPT !.block[b] = Freed]

(* The class's list from m_head on, NULL behind its end.                   *)
Walk(m, c) ==
    Follow([b \in Blocks |-> m.block[b].next], NULL, m.list[c].head, Cardinality(Blocks) + 1)

InList(m, c) == {Walk(m, c)[n] : n \in 1 .. Cardinality(Blocks)} \ {NULL}

Unused(m, c) == {b \in InList(m, c) : m.block[b].use = 0}

(* Mutant: the search ends at the largest class that has a list.           *)
VictimsOfLargest(m) ==
    LET with == {c \in Classes : InList(m, c) # {}}
    IN  IF with = {} THEN {} ELSE Unused(m, Max(with))

(* _gc_one() takes a block of the largest class that has an unused one.    *)
(* Which of them depends on m_free_quety, how often a piece was taken from *)
(* it; the model takes any.                                                *)
Victims(m) ==
    LET with == {c \in Classes : Unused(m, c) # {}}
    IN  IF with = {} THEN {} ELSE Unused(m, Max(with))

(* gc() of one class releases the unused blocks in the list's order.       *)
GcClass(m, c) ==
    LET at == Walk(m, c)
        upTo[n \in 0 .. Cardinality(Blocks)] ==
          IF n = 0 THEN m
          ELSE IF at[n] # NULL /\ m.block[at[n]].use = 0
               THEN ReleaseBlock(upTo[n - 1], at[n])
               ELSE upTo[n - 1]
    IN  upTo[Cardinality(Blocks)]

GcAll(m) ==
    LET upTo[n \in 0 .. Max(Classes) + 1] ==
          IF n = 0 THEN m ELSE GcClass(upTo[n - 1], n - 1)
    IN  upTo[Max(Classes) + 1]

-----------------------------------------------------------------------------
(* The pool's operations.                                                  *)

Idle == [size |-> 0, stale |-> FALSE]

(* The counters change: what a thread in the middle of a large piece has   *)
(* read of them is out of date.                                            *)
Overtaken == [t \in Threads |-> IF large[t] = Idle THEN Idle
                                ELSE [large[t] EXCEPT !.stale = TRUE]]

PoolInit ==
    /\ block = [b \in Blocks |-> Freed]
    /\ list = [c \in Classes |-> [head |-> NULL, tail |-> NULL]]
    /\ limit = 10
    /\ large = [t \in Threads |-> Idle]
    /\ held = {}
    /\ \E n \in FirstCounts :
         /\ count = [current |-> 0, use |-> 0, blocks |-> n, free |-> 0]
         /\ past = [first |-> n, large |-> 0, gced |-> 0, gcs |-> 0]

Become(m) == block' = m.block /\ list' = m.list

(* alloc() of a size that fits a class, from a block in the class's list.  *)
AllocFirst(size) ==
    LET c == SizeIndex(size)
        b == list[c].head
    IN  /\ b # NULL
        /\ Become(TackFirst(Memory, c))
        /\ held' = held \union {<<b, block[b].head>>}
        /\ count' = [count EXCEPT !.free = IF block[b].use = 0 THEN Wrap(@ - 1) ELSE @,
                                  !.current = Plus(@, -Size[c]),
                                  !.use = Plus(@, Size[c])]
        /\ large' = Overtaken
        /\ UNCHANGED <<limit, past>>

(* alloc() that makes a block; where malloc fails nothing changes.         *)
AllocNew(size) ==
    LET c == SizeIndex(size)
    IN  /\ list[c].head = NULL
        /\ \E b \in Blocks \ Live :
             /\ Become(TackNew(Memory, c, b))
             /\ held' = held \union {<<b, 1>>}
             /\ count' = [count EXCEPT !.blocks = Wrap(@ + 1),
                                       !.current = Plus(@, BlockSize - Size[c]),
                                       !.use = Plus(@, Size[c])]
        /\ large' = Overtaken
        /\ UNCHANGED <<limit, past>>

(* alloc() of a large piece: the sizes are read, and written later,        *)
(* without the lock.  A change that comes between is lost, or the piece's  *)
(* own is.                                                                 *)
LargeRead(t, size) ==
    /\ large[t] = Idle /\ past.large < MaxLarge
    /\ large' = [large EXCEPT ![t] = [size |-> size, stale |-> FALSE]]
    /\ UNCHANGED <<block, list, count, limit, held, past>>

LargeWrite(t) ==
    LET added == [count EXCEPT !.current = Plus(@, large[t].size),
                               !.use = Plus(@, large[t].size)]
    IN  /\ large[t] # Idle
        /\ count' = IF large[t].stale
                    THEN [count EXCEPT !.current = Unknown, !.use = Unknown]
                    ELSE added
        /\ past' = [past EXCEPT !.large = @ + large[t].size]
        /\ large' = [Overtaken EXCEPT ![t] = Idle]
        /\ UNCHANGED <<block, list, limit, held>>

(* Mutant: the block released stays counted as free.                       *)
GcOneCountKeepsFree(counts, victim) ==
    IF victim = NULL THEN counts
    ELSE [counts EXCEPT !.current = Plus(@, -BlockSize), !.blocks = Wrap(@ - 1)]

(* _gc_one(), before free() returns the piece: victim NULL when it finds   *)
(* no unused block or is not called.                                       *)
Over == count.blocks > limit /\ count.free > 0

GcOneCount(counts, victim) ==
    IF victim = NULL THEN counts
    ELSE [counts EXCEPT !.current = Plus(@, -BlockSize), !.blocks = Wrap(@ - 1),
                        !.free = Wrap(@ - 1)]

(* free() of a piece of a block; large pieces go to ::free() and change    *)
(* nothing here.                                                           *)
Free(piece) ==
    \E victim \in IF Over /\ Victims(Memory) # {} THEN Victims(Memory) ELSE {NULL} :
      LET b == piece[1]
          m == IF victim = NULL THEN Memory ELSE ReleaseBlock(Memory, victim)
          r == ReturnNode(m, b, piece[2])
          unused == r.block[b].use = 0
          size == Size[block[b].class]
      IN  /\ Become(IF unused THEN MoveFront(r, b) ELSE r)
          /\ held' = held \ {piece}
          /\ count' = [GcOneCount(count, victim) EXCEPT
                         !.free = IF unused THEN Wrap(@ + 1) ELSE @,
                         !.current = Plus(@, size), !.use = Plus(@, -size)]
          /\ large' = Overtaken
          /\ UNCHANGED <<limit, past>>

SetMaxBlock ==
    /\ limit' \in Limits \ {limit}
    /\ UNCHANGED <<block, list, count, large, held, past>>

(* gc() releases every unused block and leaves m_free_size as it is.       *)
Gc ==
    LET m == GcAll(Memory)
        n == Cardinality({b \in Live : m.block[b] = Freed})
    IN  /\ past.gcs < MaxGc
        /\ Become(m)
        /\ count' = [count EXCEPT !.current = Plus(@, -(n * BlockSize)),
                                  !.blocks = Wrap(@ - n)]
        /\ past' = [past EXCEPT !.gcs = @ + 1, !.gced = @ + n]
        /\ large' = Overtaken
        /\ UNCHANGED <<limit, held>>

AtBound(c) == Cardinality({p \in held : block[p[1]].class = c}) >= MaxHeld[c]

PoolNext ==
    \/ \E size \in Sizes :
         \/ Fitting(size) # {} /\ ~AtBound(SizeIndex(size))
            /\ (AllocFirst(size) \/ AllocNew(size))
         \/ Fitting(size) = {} /\ \E t \in Threads : LargeRead(t, size)
    \/ \E t \in Threads : LargeWrite(t)
    \/ \E piece \in held : Free(piece)
    \/ SetMaxBlock
    \/ Gc

PoolSpec == PoolInit /\ [][PoolNext]_poolVars

-----------------------------------------------------------------------------
(* Type correctness: m_use_size, which malloc() leaves undefined until     *)
(* create_me() clears it, stays within the block's pieces.                 *)
PoolTypeOK ==
    /\ \A b \in Live :
         /\ block[b].class \in Classes
         /\ block[b].pre \in Blocks \union {NULL} /\ block[b].next \in Blocks \union {NULL}
         /\ block[b].use \in 0 .. Pieces(block[b].class)
         /\ block[b].head \in 0 .. Pieces(block[b].class)
         /\ block[b].offset \in [1 .. Pieces(block[b].class) ->
                                   0 .. Pieces(block[b].class)]
    /\ \A c \in Classes :
         list[c].head \in Blocks \union {NULL} /\ list[c].tail \in Blocks \union {NULL}
    /\ \A f \in {"current", "use", "blocks", "free"} : count[f] \in Unknown .. Modulus - 1

(* The chain of b's free pieces from head_tack_node on.                    *)
FreeChain(b) ==
    Follow(block[b].offset, None, block[b].head, Pieces(block[b].class) + 1)

(* Each piece of each block is either handed out, to one caller, or on its *)
(* block's free chain, once; no block is released while a caller holds a   *)
(* piece of it; and m_use_size counts the pieces handed out.  A stale      *)
(* offset, a block released by free()'s own _gc_one(), or a piece returned *)
(* to a full block would break it.                                         *)
PiecesApart ==
    /\ \A p \in held : p[1] \in Live
    /\ \A b \in Live :
         LET n == Pieces(block[b].class)
             at == FreeChain(b)
             free == {at[k] : k \in 1 .. n} \ {None}
             out == {i \in 1 .. n : <<b, i>> \in held}
         IN  /\ at[n + 1] = None
             /\ \A j, k \in 1 .. n : j # k /\ at[j] = at[k] => at[j] = None
             /\ free \intersect out = {} /\ free \union out = 1 .. n
             /\ block[b].use = Cardinality(out)

(* Walking a class's list from m_head meets exactly the class's blocks     *)
(* with room, each once, and the last of them is m_tail; every block but   *)
(* the first knows the one before it.  Between operations m_tail and the   *)
(* first block's `pre' may point to released memory: this is why the code  *)
(* never follows them then.                                                *)
ListsSound ==
    \A c \in Classes :
      LET at == Walk(Memory, c)
          last == {n \in 1 .. Cardinality(Blocks) : at[n] # NULL /\ at[n + 1] = NULL}
      IN  /\ at[Cardinality(Blocks) + 1] = NULL
          /\ InList(Memory, c) = {b \in Live : block[b].class = c /\ block[b].head # None}
          /\ \A n \in last : list[c].tail = at[n]
          /\ \A n \in 2 .. Cardinality(Blocks) :
               at[n] # NULL => block[at[n]].pre = at[n - 1]

(* What alloc(), free() and gc() rely on, in whatever order they come.     *)
PoolSound == PoolTypeOK /\ PiecesApart /\ ListsSound

HeldSize == SumFunction([p \in held |-> Size[block[p[1]].class]])

UnusedBlocks == {b \in Live : block[b].use = 0}

(* The counters say what the pool holds, modulo their width, with the      *)
(* exceptions the code makes: m_block_count starts from an undefined       *)
(* value, m_free_size still counts the blocks gc() released, large pieces  *)
(* that were freed stay counted, and an update lost to the missing lock    *)
(* leaves the two sizes unknown for good.                                  *)
CountersAccounted ==
    /\ count.blocks = Wrap(past.first + Cardinality(Live))
    /\ count.free = Wrap(Cardinality(UnusedBlocks) + past.gced)
    /\ count.use \in {Unknown, Wrap(HeldSize + past.large)}
    /\ count.current \in
         {Unknown, Wrap(Cardinality(Live) * BlockSize - HeldSize + past.large)}

(* free() never lets unused blocks pile up beyond the limit: a call that   *)
(* finds more blocks than the limit leaves at most one unused block, or no *)
(* more than it found.  That m_free_size is wrong after gc() must not hide *)
(* an unused block from it.                                                *)
FreeReclaims ==
    [][(\E p \in held : held' = held \ {p}) /\ count.blocks > limit
         => Cardinality(UnusedBlocks') <= Max({1, Cardinality(UnusedBlocks)})]_poolVars
============================================================================
