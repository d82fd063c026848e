-------------------------------- MODULE Tree --------------------------------
(* The AVL tree of the library (lib/common/cdi/tyndur-tree.c), which indexes *)
(* the block cache.  A node is its key; the links left, right and parent and *)
(* the balance of each node are those of struct tree_item, and 0 is NULL.    *)
EXTENDS Integers, Sequences, SequencesExt, FiniteSetsExt

CONSTANT Keys      \* a finite set of positive integers

VARIABLES
  tree,      \* [root, left, right, parent, balance]
  inserted   \* keys whose objects are in the tree

vars == <<tree, inserted>>

Nil == 0

(* tree_do_init; the links of a node that was never inserted are not read.   *)
Empty == [root |-> Nil,
          left    |-> [k \in Keys |-> Nil], right   |-> [k \in Keys |-> Nil],
          parent  |-> [k \in Keys |-> Nil], balance |-> [k \in Keys |-> 0]]

Init == tree = Empty /\ inserted = {}

------------------------------------------------------------------------------
(* do_search: the node with the key, or the last one on the way to it.       *)
do_search(t, key) ==
  LET walk[k \in Keys] ==
        LET child == IF key < k THEN t.left[k] ELSE t.right[k]
        IN  IF key = k \/ child = Nil THEN k ELSE walk[child]
  IN  IF t.root = Nil THEN Nil ELSE walk[t.root]

(* Faulty: the way to the root is not left where a side takes up the change. *)
adjust_balanceAll(t, item, value) ==
  LET up[k \in Keys \cup {Nil}, b \in [Keys -> -2 .. 2]] ==
        LET p == IF k = Nil THEN Nil ELSE t.parent[k]
        IN  IF p = Nil THEN b
            ELSE IF t.left[p] = k THEN up[p, [b EXCEPT ![p] = @ - value]]
            ELSE up[p, [b EXCEPT ![p] = @ + value]]
  IN  [t EXCEPT !.balance = up[item, t.balance]]

(* adjust_balance: the balance of every node above an item whose height      *)
(* changes, up to the first one that leans to the other side before or after *)
(* its own change.                                                           *)
adjust_balance(t, item, value) ==
  LET side(p, k) == IF t.left[p] = k THEN -1 ELSE 1
      up[k \in Keys, b \in [Keys -> -2 .. 2]] ==
        LET p   == t.parent[k]
            s   == side(p, k)
            new == b[p] + s * value
            b2  == [b EXCEPT ![p] = new]
        IN  IF p = Nil THEN b
            ELSE IF s * b[p] < 0 \/ s * new < 0 THEN b2
            ELSE up[p, b2]
  IN  [t EXCEPT !.balance = up[item, t.balance]]

(* link_from_parent: what points to item points to new.                      *)
SetLink(t, item, new) ==
  LET p == t.parent[item]
  IN  IF p = Nil THEN [t EXCEPT !.root = new]
      ELSE IF t.left[p] = item THEN [t EXCEPT !.left[p] = new]
      ELSE [t EXCEPT !.right[p] = new]

SetParent(t, item, p) == IF item = Nil THEN t ELSE [t EXCEPT !.parent[item] = p]

rotate_left(t, item) ==
  LET tmp == t.right[item]
      t1  == SetLink(t, item, tmp)
      t2  == [t1 EXCEPT !.parent[tmp] = t.parent[item], !.parent[item] = tmp]
      t3  == SetParent(t2, t.left[tmp], item)
  IN  [t3 EXCEPT !.right[item] = t.left[tmp], !.left[tmp] = item]

rotate_right(t, item) ==
  LET tmp == t.left[item]
      t1  == SetLink(t, item, tmp)
      t2  == [t1 EXCEPT !.parent[tmp] = t.parent[item], !.parent[item] = tmp]
      t3  == SetParent(t2, t.right[tmp], item)
  IN  [t3 EXCEPT !.left[item] = t.right[tmp], !.right[tmp] = item]

SetBalance(t, a, x, b, y) == [t EXCEPT !.balance[a] = x, !.balance[b] = y]

(* The subtree of an item that leans to the right by two. *)
RightHeavy(t, item) ==
  LET tmp == t.right[item]
      top == t.left[tmp]
      lean == IF top = Nil THEN 0 ELSE t.balance[top]
  IN  CASE t.balance[tmp] > 0 ->
             adjust_balance(SetBalance(rotate_left(t, item), item, 0, tmp, 0), tmp, -1)
        [] t.balance[tmp] = 0 -> SetBalance(rotate_left(t, item), item, 1, tmp, -1)
        [] OTHER ->
             adjust_balance([SetBalance(rotate_left(rotate_right(t, tmp), item),
                                        item, IF lean = 1 THEN -1 ELSE 0,
                                        tmp, IF lean = -1 THEN 1 ELSE 0)
                               EXCEPT !.balance[top] = 0], top, -1)

(* The subtree of an item that leans to the left by two. *)
LeftHeavy(t, item) ==
  LET tmp == t.left[item]
      top == t.right[tmp]
      lean == IF top = Nil THEN 0 ELSE t.balance[top]
  IN  CASE t.balance[tmp] < 0 ->
             adjust_balance(SetBalance(rotate_right(t, item), item, 0, tmp, 0), tmp, -1)
        [] t.balance[tmp] = 0 -> SetBalance(rotate_right(t, item), item, -1, tmp, 1)
        [] OTHER ->
             adjust_balance([SetBalance(rotate_right(rotate_left(t, tmp), item),
                                        item, IF lean = -1 THEN 1 ELSE 0,
                                        tmp, IF lean = 1 THEN -1 ELSE 0)
                               EXCEPT !.balance[top] = 0], top, -1)

(* rebalance: from an item to the root. *)
rebalance(tr, start) ==
  LET step(s) ==
        LET t == s.t
            i == s.item
            r == CASE t.balance[i] >= 2  -> RightHeavy(t, i)
                   [] t.balance[i] <= -2 -> LeftHeavy(t, i)
                   [] OTHER -> t
        IN  [t |-> r, item |-> r.parent[i]]
      go[n \in 0 .. 2 * Cardinality(Keys)] ==
        IF n = 0 THEN [t |-> tr, item |-> start]
        ELSE LET s == go[n - 1] IN IF s.item = Nil THEN s ELSE step(s)
  IN  go[2 * Cardinality(Keys)].t

------------------------------------------------------------------------------
(* tree_insert: nothing when the key is in the tree. *)
tree_insert(key) ==
  LET parent == do_search(tree, key)
      fresh  == [tree EXCEPT !.left[key] = Nil, !.right[key] = Nil,
                             !.balance[key] = 0, !.parent[key] = parent]
      linked == IF key < parent THEN [fresh EXCEPT !.left[parent] = key]
                ELSE [fresh EXCEPT !.right[parent] = key]
  IN  /\ parent # key
      /\ tree' = IF parent = Nil THEN [fresh EXCEPT !.root = key]
                 ELSE rebalance(adjust_balance(linked, key, 1), key)
      /\ inserted' = inserted \cup {key}

(* What tree_remove does with a node that has at most one child. *)
RemoveSimple(t, item) ==
  LET child == IF t.left[item] # Nil THEN t.left[item] ELSE t.right[item]
      t1    == SetLink(adjust_balance(t, item, -1), item, child)
  IN  rebalance(SetParent(t1, child, t.parent[item]), t.parent[item])

(* The rightmost node of the left subtree. *)
Subst(t, item) ==
  LET down[k \in Keys] == IF t.right[k] = Nil THEN k ELSE down[t.right[k]]
  IN  down[t.left[item]]

(* What tree_remove does with a node that has two children: its predecessor  *)
(* takes its place, and leaves a left child to its own parent.               *)
RemoveInner(t, item) ==
  LET subst == Subst(t, item)
      left  == t.left[subst]
      old   == t.parent[subst]
      l     == IF t.left[item] = subst THEN Nil ELSE t.left[item]
      t1    == [t EXCEPT !.parent[subst] = t.parent[item],
                         !.right[subst]  = t.right[item],
                         !.left[subst]   = l,
                         !.balance[subst] = t.balance[item]]
      t2    == SetParent(SetParent(t1, l, subst), t.right[item], subst)
      t3    == IF old = item THEN t2 ELSE [t2 EXCEPT !.right[old] = left]
      t4    == SetLink(t3, item, subst)
      near  == [t4 EXCEPT !.balance[subst] = @ + 1, !.left[subst] = left]
      far   == [SetParent(t4, left, old) EXCEPT !.balance[old] = @ - 1]
  IN  IF old = item
      THEN rebalance(IF near.balance[subst] <= 0 THEN adjust_balance(near, subst, -1)
                     ELSE near, subst)
      ELSE rebalance(IF far.balance[old] >= 0 THEN adjust_balance(far, old, -1)
                     ELSE far, old)

(* tree_remove *)
tree_remove(key) ==
  /\ key \in inserted
  /\ LET t == IF tree.left[key] = Nil \/ tree.right[key] = Nil
              THEN RemoveSimple(tree, key) ELSE RemoveInner(tree, key)
     IN  tree' = [t EXCEPT !.left[key] = Nil, !.right[key] = Nil,
                           !.parent[key] = Nil, !.balance[key] = 0]
  /\ inserted' = inserted \ {key}

Next == \E k \in Keys : tree_insert(k) \/ tree_remove(k)

Spec == Init /\ [][Next]_vars

------------------------------------------------------------------------------
(* tree_prev and tree_next of a node: the end of the subtree on the side     *)
(* from, or the first ancestor that is reached from the other side; of NULL, *)
(* the end of the tree.                                                      *)
Neighbour(t, near, far, node) ==
  LET end[k \in Keys] == IF far[k] = Nil THEN k ELSE end[far[k]]
      up[k \in Keys] ==
        LET p == t.parent[k]
        IN  IF p = Nil \/ near[p] # k THEN p ELSE up[p]
  IN  CASE node = Nil -> IF t.root = Nil THEN Nil ELSE end[t.root]
        [] node # Nil /\ near[node] = Nil -> up[node]
        [] OTHER -> end[near[node]]

tree_prev(t, node) == Neighbour(t, t.left, t.right, node)
tree_next(t, node) == Neighbour(t, t.right, t.left, node)

(* The height of the subtree below a node. *)
HeightOf(t) ==
  LET h[k \in Keys \cup {Nil}, n \in 0 .. Cardinality(Keys)] ==
        IF k = Nil \/ n = 0 THEN 0
        ELSE 1 + Max({h[t.left[k], n - 1], h[t.right[k], n - 1]})
  IN  [k \in Keys \cup {Nil} |-> h[k, Cardinality(Keys)]]

(* After any sequence of insertions and removals a search finds exactly the  *)
(* objects that are in the tree, their neighbours are the next smaller and   *)
(* greater keys, every node knows its parent, and no subtree is more than    *)
(* one higher than its sibling, by as much as the stored balance says        *)
(* (lib/common/cdi/tyndur-tree.c).                                           *)
Correct ==
  LET h == HeightOf(tree)
  IN  /\ \A k \in Keys : (do_search(tree, k) = k) <=> (k \in inserted)
      /\ \A k \in inserted :
           /\ tree.balance[k] = h[tree.right[k]] - h[tree.left[k]]
           /\ tree.balance[k] \in -1 .. 1
           /\ \A c \in {tree.left[k], tree.right[k]} \ {Nil} : tree.parent[c] = k
      /\ \A k \in inserted \cup {Nil} :
           /\ tree_prev(tree, k) =
                Max({Nil} \cup {j \in inserted : k = Nil \/ j < k})
           /\ LET above == {j \in inserted : j > k}
              IN  tree_next(tree, k) = IF above = {} THEN Nil ELSE Min(above)
==============================================================================
