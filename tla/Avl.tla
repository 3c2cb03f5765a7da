-------------------------------- MODULE Avl --------------------------------
(***************************************************************************)
(* avl.cpp: the operations on the nodes of an AVL tree that also counts    *)
(* the nodes of every subtree.                                             *)
(*                                                                         *)
(* A tree t is a record of functions, one per field of AVLNode, so that    *)
(* t.left[n] is n->left.  The loops (avl_fix, avl_offset) are driven by    *)
(* the actions of ZSet, one turn per step; here are the bodies.            *)
(*                                                                         *)
(* A definition named D_Fault is D with a fault; no specification uses it. *)
(***************************************************************************)
EXTENDS Integers

CONSTANTS
  Name,   \* the tree nodes, named after the member they belong to
  NULL    \* the null pointer

ASSUME AvlAssumption == NULL \notin Name

Tree == [left : [Name -> Name \cup {NULL}], right : [Name -> Name \cup {NULL}],
         parent : [Name -> Name \cup {NULL}],
         height : [Name -> Nat], cnt : [Name -> Nat]]

\* The fields of nodes that do not exist have the values of a fresh node.
NoTree == [left |-> [n \in Name |-> NULL], right |-> [n \in Name |-> NULL],
           parent |-> [n \in Name |-> NULL],
           height |-> [n \in Name |-> 1], cnt |-> [n \in Name |-> 1]]

avl_init(t, n) ==
  [t EXCEPT !.left[n] = NULL, !.right[n] = NULL, !.parent[n] = NULL,
            !.height[n] = 1, !.cnt[n] = 1]

avl_height(t, n) == IF n = NULL THEN 0 ELSE t.height[n]
avl_cnt(t, n)    == IF n = NULL THEN 0 ELSE t.cnt[n]

Higher(a, b) == IF a < b THEN b ELSE a

\* Fault: the count is not maintained.
avl_update_NoCount(t, n) ==
  [t EXCEPT !.height[n] = 1 + Higher(avl_height(t, t.left[n]), avl_height(t, t.right[n]))]

avl_update(t, n) ==
  [t EXCEPT !.height[n] = 1 + Higher(avl_height(t, t.left[n]), avl_height(t, t.right[n])),
            !.cnt[n] = 1 + avl_cnt(t, t.left[n]) + avl_cnt(t, t.right[n])]

\* Fault: the inner subtree keeps its old parent pointer.
Reparent_NoInner(t, n, top, inner) ==
  [t.parent EXCEPT ![top] = t.parent[n], ![n] = top]

\* The parent fields when `top' takes the place of n, which becomes its child
\* and takes over `inner'.
Reparent(t, n, top, inner) ==
  [m \in Name |-> CASE m = top   -> t.parent[n]
                    [] m = n     -> top
                    [] m = inner -> n
                    [] OTHER     -> t.parent[m]]

\* After a rotation of n its new parent is the root of the subtree; the
\* caller links that root to its own parent.
rot_left(t, n) ==
  LET top   == t.right[n]
      inner == t.left[top]
      u == [t EXCEPT !.right[n] = inner, !.left[top] = n,
                     !.parent = Reparent(t, n, top, inner)]
  IN avl_update(avl_update(u, n), top)

rot_right(t, n) ==
  LET top   == t.left[n]
      inner == t.right[top]
      u == [t EXCEPT !.left[n] = inner, !.right[top] = n,
                     !.parent = Reparent(t, n, top, inner)]
  IN avl_update(avl_update(u, n), top)

\* Fault: a child that leans inwards is not rotated first.
avl_fix_left_Single(t, n) == rot_right(t, n)

\* The left subtree of n is taller by two.
avl_fix_left(t, n) ==
  LET l == t.left[n]
      inwards == avl_height(t, t.left[l]) < avl_height(t, t.right[l])
      u == IF inwards THEN [rot_left(t, l) EXCEPT !.left[n] = t.right[l]] ELSE t
  IN rot_right(u, n)

avl_fix_right(t, n) ==
  LET r == t.right[n]
      inwards == avl_height(t, t.right[r]) < avl_height(t, t.left[r])
      u == IF inwards THEN [rot_right(t, r) EXCEPT !.right[n] = t.left[r]] ELSE t
  IN rot_left(u, n)

\* `from' of the code: the field of p that holds n now holds m.
Relink(t, p, n, m) ==
  IF p = NULL THEN t
  ELSE IF t.left[p] = n THEN [t EXCEPT !.left[p] = m] ELSE [t EXCEPT !.right[p] = m]

\* One turn of avl_fix: the tree, and the root of the subtree n was in.
FixNode(t, n) ==
  LET u == avl_update(t, n)
      l == avl_height(u, u.left[n])
      r == avl_height(u, u.right[n])
      v == IF l = r + 2 THEN avl_fix_left(u, n)
           ELSE IF l + 2 = r THEN avl_fix_right(u, n) ELSE u
      top == IF l = r + 2 \/ l + 2 = r THEN v.parent[n] ELSE n
  IN [tree |-> Relink(v, t.parent[n], n, top), top |-> top]

\* Fault: the subtree of the only child is lost.
Unlink_DropsChild(t, n) == [tree |-> Relink(t, t.parent[n], n, NULL), child |-> NULL]

\* avl_del_easy up to its call of avl_fix: n has at most one child.
Unlink(t, n) ==
  LET child == IF t.left[n] # NULL THEN t.left[n] ELSE t.right[n]
      u == IF child = NULL THEN t ELSE [t EXCEPT !.parent[child] = t.parent[n]]
  IN [tree |-> Relink(u, t.parent[n], n, child), child |-> child]

\* The leftmost node of the right subtree of n.
Successor(t, n) ==
  LET leftmost[m \in Name] == IF t.left[m] = NULL THEN m ELSE leftmost[t.left[m]]
  IN leftmost[t.right[n]]

\* avl_del after the successor v of n is detached: v takes the place of n.
Replace(t, n, v) ==
  LET u == [t EXCEPT !.left[v] = t.left[n], !.right[v] = t.right[n],
                     !.parent[v] = t.parent[n],
                     !.height[v] = t.height[n], !.cnt[v] = t.cnt[n]]
      w == [u EXCEPT !.parent = [m \in Name |->
             IF m \in {t.left[n], t.right[n]} THEN v ELSE u.parent[m]]]
  IN Relink(w, t.parent[n], n, v)
=============================================================================
