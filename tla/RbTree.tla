------------------------------- MODULE RbTree -------------------------------
(***************************************************************************)
(* The red-black tree of libepoll (libepoll/cwepoll.c, tree_add, tree_del, *)
(* tree_find), where a port finds its sockets and epoll_ctl() and          *)
(* epoll_wait() find the ports.  A node is named by its key; loops are     *)
(* functions of the number of rounds.  0 is the NULL pointer, and the node *)
(* at 0 is there to show a write through it.                               *)
(***************************************************************************)
EXTENDS Integers, FiniteSets

CONSTANT Keys   \* the keys a caller may add; 0 is not one of them

ASSUME KeysAssumption == Keys \subseteq Nat \ {0} /\ IsFiniteSet(Keys)

VARIABLES
    tree,        \* [root, node: key -> key's left, right, parent, red]
    registered   \* history: the keys added and not deleted

treeVars == <<tree, registered>>

Nil == [left |-> 0, right |-> 0, parent |-> 0, red |-> FALSE]

Rounds == 0 .. 2 * Cardinality(Keys) + 2
LastRound == 2 * Cardinality(Keys) + 2

Other(side) == IF side = "left" THEN "right" ELSE "left"
SideOf(t, n) == IF t.node[t.node[n].parent].left = n THEN "left" ELSE "right"

Red(t, n) == n # 0 /\ t.node[n].red

Paint(t, n, red) == [t EXCEPT !.node[n].red = red]

(* c, which may be NULL, becomes p's child.                                *)
Attach(t, p, side, c) ==
    LET r == [t EXCEPT !.node[p][side] = c]
    IN  IF c = 0 THEN r ELSE [r EXCEPT !.node[c].parent = p]

(* q, which may be NULL, takes p's place under p's parent, or as the root. *)
Replace(t, p, q) ==
    LET parent == t.node[p].parent
        r == IF parent = 0 THEN [t EXCEPT !.root = q]
                           ELSE [t EXCEPT !.node[parent][SideOf(t, p)] = q]
    IN  IF q = 0 THEN r ELSE [r EXCEPT !.node[q].parent = parent]

(* TREE__ROTATE(cis, trans): p goes down on the side cis.                  *)
Rotate(t, p, cis) ==
    LET trans == Other(cis)
        q == t.node[p][trans]
    IN  Attach(Attach(Replace(t, p, q), p, trans, t.node[q][cis]), q, cis, p)

(* tree_find().                                                            *)
Find(t, key) ==
    LET at[n \in Rounds] ==
          IF n = 0 THEN t.root
          ELSE LET here == at[n - 1]
               IN  IF here \in {0, key} THEN here
                   ELSE IF key < here THEN t.node[here].left ELSE t.node[here].right
    IN  at[LastRound]

-----------------------------------------------------------------------------
(* tree_add().                                                             *)

(* The node the new one goes under: the last one tree_add() descends to.   *)
Above(t, key) ==
    LET at[n \in Rounds] ==
          IF n = 0 THEN t.root
          ELSE LET here == at[n - 1]
                   down == IF here = 0 THEN 0
                           ELSE IF key < here THEN t.node[here].left
                                              ELSE t.node[here].right
               IN  IF down = 0 THEN here ELSE down
    IN  at[LastRound]

Hang(t, key) ==
    LET parent == Above(t, key)
        r == [t EXCEPT !.node[key] = [Nil EXCEPT !.red = TRUE]]
    IN  IF parent = 0 THEN [r EXCEPT !.root = key]
        ELSE Attach(r, parent, IF key < parent THEN "left" ELSE "right", key)

(* A node on the inner side of its parent changes places with it.          *)
Outward(s, cis) ==
    LET parent == s.t.node[s.node].parent
    IN  IF s.node = s.t.node[parent][Other(cis)]
        THEN [t |-> Rotate(s.t, parent, cis), node |-> parent]
        ELSE s

(* The parent comes up in the grandparent's place.                         *)
Lifted(s, cis) ==
    LET parent == s.t.node[s.node].parent
        grandparent == s.t.node[parent].parent
        painted == Paint(Paint(s.t, parent, FALSE), grandparent, TRUE)
    IN  [t |-> Rotate(painted, grandparent, Other(cis)), node |-> s.node]

Uncle(s) ==
    LET parent == s.t.node[s.node].parent
    IN  s.t.node[s.t.node[parent].parent][Other(SideOf(s.t, parent))]

Reddened(s) ==
    LET parent == s.t.node[s.node].parent
        grandparent == s.t.node[parent].parent
        painted == Paint(Paint(s.t, parent, FALSE), Uncle(s), FALSE)
    IN  [t |-> Paint(painted, grandparent, TRUE), node |-> grandparent]

(* Mutant: an inner node is not turned outwards first.                     *)
InsertRoundOuter(s) ==
    LET cis == SideOf(s.t, s.t.node[s.node].parent)
    IN  IF Red(s.t, Uncle(s)) THEN Reddened(s) ELSE Lifted(s, cis)

(* TREE__REBALANCE_AFTER_INSERT, one round: s is the tree and the node.    *)
InsertRound(s) ==
    LET cis == SideOf(s.t, s.t.node[s.node].parent)
    IN  IF Red(s.t, Uncle(s)) THEN Reddened(s) ELSE Lifted(Outward(s, cis), cis)

Inserted(t, key) ==
    LET at[n \in Rounds] ==
          IF n = 0 THEN [t |-> Hang(t, key), node |-> key]
          ELSE LET s == at[n - 1]
                   parent == s.t.node[s.node].parent
               IN  IF parent # 0 /\ s.t.node[parent].red THEN InsertRound(s) ELSE s
        done == at[LastRound].t
    IN  Paint(done, done.root, FALSE)

-----------------------------------------------------------------------------
(* tree_del().                                                             *)

Leftmost(t, from) ==
    LET at[n \in Rounds] ==
          IF n = 0 THEN from
          ELSE LET here == at[n - 1]
               IN  IF t.node[here].left = 0 THEN here ELSE t.node[here].left
    IN  at[LastRound]

(* The node leaves the tree: the result holds the child that moved up, its *)
(* parent, and the colour the path to it has lost.                         *)
Unlinked(t, n) ==
    LET x == t.node[n]
        both == x.left # 0 /\ x.right # 0
        next == IF x.left = 0 THEN x.right
                ELSE IF x.right = 0 THEN x.left ELSE Leftmost(t, x.right)
        child == IF both THEN t.node[next].right ELSE next
        deep == both /\ next # x.right
        parent == IF ~both THEN x.parent
                  ELSE IF deep THEN t.node[next].parent ELSE next
        r1 == Replace(t, n, next)
        r2 == IF both THEN Attach(Paint(r1, next, x.red), next, "left", x.left) ELSE r1
        r3 == IF deep
              THEN Attach(Attach(r2, parent, "left", child), next, "right", x.right)
              ELSE r2
    IN  [t |-> [r3 EXCEPT !.node[n] = Nil], node |-> child, parent |-> parent,
         red |-> IF both THEN t.node[next].red ELSE x.red]

(* TREE__REBALANCE_AFTER_REMOVE: a red sibling is turned up first,         *)
SiblingBlack(t, parent, cis) ==
    LET sibling == t.node[parent][Other(cis)]
    IN  IF t.node[sibling].red
        THEN Rotate(Paint(Paint(t, sibling, FALSE), parent, TRUE), parent, cis)
        ELSE t

(* the sibling's red child is brought to the far side,                     *)
FarRed(t, parent, cis) ==
    LET trans == Other(cis)
        sibling == t.node[parent][trans]
        near == t.node[sibling][cis]
    IN  IF Red(t, t.node[sibling][trans]) THEN t
        ELSE Rotate(Paint(Paint(t, near, FALSE), sibling, TRUE), sibling, trans)

(* and the sibling takes the parent's place.                               *)
Refilled(t, parent, cis) ==
    LET trans == Other(cis)
        sibling == t.node[parent][trans]
        painted == Paint(Paint(t, sibling, t.node[parent].red), parent, FALSE)
    IN  Rotate(Paint(painted, t.node[sibling][trans], FALSE), parent, cis)

(* One round: stop is the code's break.                                    *)
RemoveRound(s) ==
    LET parent == s.parent
        cis == IF s.node = s.t.node[parent].left THEN "left" ELSE "right"
        t == SiblingBlack(s.t, parent, cis)
        sibling == t.node[parent][Other(cis)]
        final == Refilled(FarRed(t, parent, cis), parent, cis)
    IN  IF Red(t, t.node[sibling].left) \/ Red(t, t.node[sibling].right)
        THEN [t |-> final, node |-> final.root, parent |-> parent, stop |-> TRUE]
        ELSE [t |-> Paint(t, sibling, TRUE), node |-> parent,
              parent |-> t.node[parent].parent, stop |-> t.node[parent].red]

Removed(t, n) ==
    LET u == Unlinked(t, n)
        at[k \in Rounds] ==
          IF k = 0
          THEN [t |-> u.t, node |-> u.node, parent |-> u.parent,
                stop |-> Red(u.t, u.node)]
          ELSE LET s == at[k - 1]
               IN  IF s.stop \/ s.node = s.t.root THEN s ELSE RemoveRound(s)
        end == at[LastRound]
    IN  IF u.red THEN u.t
        ELSE IF end.node = 0 THEN end.t
        ELSE Paint(end.t, end.node, FALSE)

-----------------------------------------------------------------------------
TreeInit ==
    /\ tree = [root |-> 0, node |-> [k \in Keys \union {0} |-> Nil]]
    /\ registered = {}

(* A key that is there already is refused (-1): nothing changes.           *)
TreeAdd(key) ==
    /\ Find(tree, key) = 0
    /\ tree' = Inserted(tree, key)
    /\ registered' = registered \union {key}

TreeDel(key) ==
    /\ key \in registered
    /\ tree' = Removed(tree, key)
    /\ registered' = registered \ {key}

TreeNext == \E key \in Keys : TreeAdd(key) \/ TreeDel(key)

TreeSpec == TreeInit /\ [][TreeNext]_treeVars

-----------------------------------------------------------------------------
(* tree_find() finds exactly the keys that were added and not deleted: a   *)
(* socket is never lost to a rotation, and never found after its removal.  *)
FindsRegistered ==
    \A key \in Keys : Find(tree, key) = IF key \in registered THEN key ELSE 0

(* Parents and children agree, no node has two parents, nodes outside the  *)
(* tree have no links, and nothing was written through a NULL pointer; the *)
(* links up are what tree_del() follows.                                   *)
LinksAgree ==
    /\ tree.node[0] = Nil
    /\ \A k \in Keys \ registered : tree.node[k] = Nil
    /\ tree.root = 0 <=> registered = {}
    /\ \A k \in registered :
         LET x == tree.node[k]
         IN  /\ x.parent = 0 <=> tree.root = k
             /\ x.parent # 0 => k \in {tree.node[x.parent].left, tree.node[x.parent].right}
             /\ \A c \in {x.left, x.right} \ {0} : tree.node[c].parent = k

(* The black nodes from k up to the root.                                  *)
Blacks(k) ==
    LET at[n \in Rounds] ==
          IF n = 0 THEN [here |-> k, sum |-> 0]
          ELSE LET s == at[n - 1]
               IN  IF s.here = 0 THEN s
                   ELSE [here |-> tree.node[s.here].parent,
                         sum |-> s.sum + IF tree.node[s.here].red THEN 0 ELSE 1]
    IN  at[LastRound].sum

(* No red node has a red child and every path down to a missing child      *)
(* passes the same number of black nodes, so that no path is more than     *)
(* twice as long as another: the balance that insertion and removal are    *)
(* rotating for, over any sequence of both.                                *)
Balanced ==
    LET ends == {k \in registered : 0 \in {tree.node[k].left, tree.node[k].right}}
    IN  /\ ~tree.node[tree.root].red
        /\ \A k \in registered :
             tree.node[k].red => ~tree.node[tree.node[k].parent].red
        /\ \A j, k \in ends : Blacks(j) = Blacks(k)

(* The tree that libepoll keeps its ports and sockets in is sound after    *)
(* any sequence of tree_add() and tree_del().                              *)
TreeSound == FindsRegistered /\ LinksAgree /\ Balanced
=============================================================================
