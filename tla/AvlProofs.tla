----------------------------- MODULE AvlProofs -----------------------------
(***************************************************************************)
(* Machine-checked proofs about Avl: what the operations of avl.cpp do to  *)
(* any search tree.                                                        *)
(*                                                                         *)
(* A tree is known by the sets of nodes of its subtrees: the function B,   *)
(* which gives the nodes below each node, stands for the recursion that    *)
(* the provers do not have.  The shape is stated about the functions that  *)
(* hold the children, so that a fact about one side is a fact about the    *)
(* other with the two functions exchanged and the order reversed.          *)
(***************************************************************************)
EXTENDS Avl, FiniteSetTheorems, NaturalsInduction, WellFoundedInduction, TLAPS

\* A strict total order of the nodes, as a set of pairs.
IsOrder(ord) ==
  /\ \A a \in Name : <<a, a>> \notin ord
  /\ \A a, b, c \in Name : <<a, b>> \in ord /\ <<b, c>> \in ord => <<a, c>> \in ord
  /\ \A a, b \in Name : a = b \/ <<a, b>> \in ord \/ <<b, a>> \in ord

Reversed(ord) == {e \in Name \X Name : <<e[2], e[1]>> \in ord}

\* The pointers of the nodes M stay among M.
Pointers(lc, rc, par, root, M) ==
  /\ M \subseteq Name /\ IsFiniteSet(M) /\ root \in M \cup {NULL}
  /\ \A n \in M : /\ lc[n] \in M \cup {NULL}
                  /\ rc[n] \in M \cup {NULL}
                  /\ par[n] \in M \cup {NULL}

\* Parents and children point at each other; only the root has no parent.
Linked(lc, rc, par, root, M) ==
  \A n \in M : /\ lc[n] # NULL => par[lc[n]] = n
               /\ rc[n] # NULL => par[rc[n]] = n
               /\ par[n] = NULL <=> n = root
               /\ par[n] # NULL => lc[par[n]] = n \/ rc[par[n]] = n

\* B[n] is the set of the nodes of the subtree of n; the root has them all.
Subtrees(lc, rc, root, M, B) ==
  /\ B \in [M \cup {NULL} -> SUBSET M] /\ B[NULL] = {} /\ B[root] = M
  /\ \A n \in M : B[n] = {n} \cup B[lc[n]] \cup B[rc[n]]

\* Every node is behind its left subtree and in front of its right one.
Sorted(lc, rc, M, B, ord) ==
  \A n \in M : /\ \A m \in B[lc[n]] : <<m, n>> \in ord
               /\ \A m \in B[rc[n]] : <<n, m>> \in ord

Shape(lc, rc, par, root, M, B, ord) ==
  /\ Pointers(lc, rc, par, root, M)
  /\ Linked(lc, rc, par, root, M)
  /\ Subtrees(lc, rc, root, M, B)
  /\ Sorted(lc, rc, M, B, ord)

\* The search trees of the nodes M.
IsTree(t, root, M, ord) ==
  \E B : Shape(t.left, t.right, t.parent, root, M, B, ord)

-----------------------------------------------------------------------------
(* Trees *)

LEMMA LeastNumber ==
  ASSUME NEW T, T \subseteq Nat, T # {}
  PROVE  \E x \in T : \A y \in T : x <= y
  <1>1. PICK x \in T : \A y \in T : ~(<<y, x>> \in OpToRel(<, Nat))
    BY WFMin, NatLessThanWellFounded, Zenon
  <1>2. \A y \in T : ~(y < x)
    BY <1>1 DEF OpToRel
  <1>3. QED
    BY <1>2

\* A tree seen in a mirror is a tree of the reversed order.
LEMMA MirrorShape ==
  ASSUME NEW lc, NEW rc, NEW par, NEW root, NEW M, NEW B, NEW ord,
         Shape(lc, rc, par, root, M, B, ord)
  PROVE  Shape(rc, lc, par, root, M, B, Reversed(ord))
  <1>1. Pointers(rc, lc, par, root, M) /\ Linked(rc, lc, par, root, M)
    BY DEF Shape, Pointers, Linked
  <1>2. Subtrees(rc, lc, root, M, B)
    BY DEF Shape, Subtrees
  <1>3. Sorted(rc, lc, M, B, Reversed(ord))
    <2> SUFFICES ASSUME NEW n \in M
                 PROVE  /\ \A m \in B[rc[n]] : <<m, n>> \in Reversed(ord)
                        /\ \A m \in B[lc[n]] : <<n, m>> \in Reversed(ord)
      BY DEF Sorted
    <2>1. B[lc[n]] \subseteq Name /\ B[rc[n]] \subseteq Name /\ n \in Name
      BY DEF Shape, Subtrees, Pointers
    <2>2. /\ \A m \in B[rc[n]] : <<n, m>> \in ord
          /\ \A m \in B[lc[n]] : <<m, n>> \in ord
      BY DEF Shape, Sorted
    <2>3. QED
      BY <2>1, <2>2 DEF Reversed
  <1>4. QED
    BY <1>1, <1>2, <1>3 DEF Shape

LEMMA MirrorOrder ==
  ASSUME NEW ord, IsOrder(ord)
  PROVE  IsOrder(Reversed(ord))
  <1>1. \A a, b \in Name : <<a, b>> \in Reversed(ord) <=> <<b, a>> \in ord
    BY DEF Reversed
  <1>2. QED
    BY <1>1 DEF IsOrder

\* A tree of the reversed order, seen in a mirror.
LEMMA UnmirrorShape ==
  ASSUME NEW lc, NEW rc, NEW par, NEW root, NEW M, NEW B, NEW ord,
         Shape(lc, rc, par, root, M, B, Reversed(ord))
  PROVE  Shape(rc, lc, par, root, M, B, ord)
  <1>1. Shape(rc, lc, par, root, M, B, Reversed(Reversed(ord)))
    BY MirrorShape
  <1>2. \A x, y : <<x, y>> \in Reversed(Reversed(ord)) => <<x, y>> \in ord
    BY DEF Reversed
  <1>3. Sorted(rc, lc, M, B, ord)
    BY <1>1, <1>2 DEF Shape, Sorted
  <1>4. QED
    BY <1>1, <1>3 DEF Shape

\* The subtrees of a node and the node itself have no node in common.
LEMMA NodeFacts ==
  ASSUME NEW lc, NEW rc, NEW par, NEW root, NEW M, NEW B, NEW ord, IsOrder(ord),
         Shape(lc, rc, par, root, M, B, ord), NEW n \in M
  PROVE  /\ n \in Name /\ n # NULL /\ n \in B[n]
         /\ B[n] \subseteq M
         /\ B[lc[n]] \subseteq B[n] /\ B[rc[n]] \subseteq B[n]
         /\ n \notin B[lc[n]] /\ n \notin B[rc[n]]
         /\ B[lc[n]] \cap B[rc[n]] = {}
         /\ lc[n] # NULL => lc[n] \in M /\ lc[n] \in B[lc[n]] /\ lc[n] # n
         /\ rc[n] # NULL => rc[n] \in M /\ rc[n] \in B[rc[n]] /\ rc[n] # n
         /\ lc[n] # NULL => lc[n] # rc[n]
  <1>1. M \subseteq Name /\ lc[n] \in M \cup {NULL} /\ rc[n] \in M \cup {NULL}
    BY DEF Shape, Pointers
  <1>2. n \in Name /\ n # NULL
    BY <1>1, AvlAssumption
  <1>3. /\ \A m \in M : B[m] = {m} \cup B[lc[m]] \cup B[rc[m]] /\ B[m] \subseteq M
        /\ B[lc[n]] \subseteq M /\ B[rc[n]] \subseteq M
    BY <1>1 DEF Shape, Subtrees
  <1>4. /\ \A m \in B[lc[n]] : <<m, n>> \in ord
        /\ \A m \in B[rc[n]] : <<n, m>> \in ord
    BY DEF Shape, Sorted
  <1>5. n \notin B[lc[n]] /\ n \notin B[rc[n]]
    BY <1>2, <1>4 DEF IsOrder
  <1>6. B[lc[n]] \cap B[rc[n]] = {}
    <2> SUFFICES ASSUME NEW m \in B[lc[n]], m \in B[rc[n]] PROVE FALSE
      OBVIOUS
    <2>1. m \in Name
      BY <1>1, <1>3
    <2>2. <<m, n>> \in ord /\ <<n, m>> \in ord
      BY <1>4
    <2>3. <<m, m>> \in ord
      BY <1>2, <2>1, <2>2 DEF IsOrder
    <2>4. QED
      BY <2>1, <2>3 DEF IsOrder
  <1>7. \A m \in M : m \in B[m]
    BY <1>3
  <1>8. QED
    BY <1>1, <1>2, <1>3, <1>5, <1>6, <1>7

\* Induction over a tree: a set of nodes has one without a child in the set.
LEMMA TreeMin ==
  ASSUME NEW lc, NEW rc, NEW par, NEW root, NEW M, NEW B, NEW ord, IsOrder(ord),
         Shape(lc, rc, par, root, M, B, ord),
         NEW T, T \subseteq M, T # {}
  PROVE  \E m \in T : lc[m] \notin T /\ rc[m] \notin T
  <1> DEFINE size(m) == Cardinality(B[m])
             S == {size(m) : m \in T}
  <1>1. \A m \in M : B[m] \subseteq M /\ IsFiniteSet(B[m]) /\ size(m) \in Nat
    <2> SUFFICES ASSUME NEW m \in M
                 PROVE  B[m] \subseteq M /\ IsFiniteSet(B[m]) /\ size(m) \in Nat
      OBVIOUS
    <2>1. B[m] \subseteq M /\ IsFiniteSet(M)
      BY DEF Shape, Pointers, Subtrees
    <2>2. IsFiniteSet(B[m])
      BY <2>1, FS_Subset
    <2>3. QED
      BY <2>1, <2>2, FS_CardinalityType
  <1>2. S \subseteq Nat /\ S # {}
    BY <1>1
  <1>3. PICK k \in S : \A y \in S : k <= y
    BY <1>2, LeastNumber
  <1>4. PICK m \in T : k = size(m)
    OBVIOUS
  <1>5. ASSUME NEW c \in M, B[c] \subseteq B[m], m \notin B[c]
        PROVE  size(c) < size(m)
    <2>1. B[c] # B[m]
      BY <1>5, NodeFacts
    <2>2. size(c) <= size(m) /\ (size(c) = size(m) => B[c] = B[m])
      BY <1>1, <1>5, FS_Subset
    <2>3. size(c) \in Nat /\ size(m) \in Nat
      BY <1>1
    <2> HIDE DEF size
    <2>4. QED
      BY <2>1, <2>2, <2>3
  <1>6. \A c \in T : ~(B[c] \subseteq B[m] /\ m \notin B[c])
    <2> SUFFICES ASSUME NEW c \in T, B[c] \subseteq B[m], m \notin B[c] PROVE FALSE
      OBVIOUS
    <2>1. size(c) < size(m)
      BY <1>5
    <2>2. size(m) <= size(c)
      BY <1>3, <1>4
    <2>3. size(c) \in Nat /\ size(m) \in Nat
      BY <1>1
    <2> HIDE DEF size
    <2>4. QED
      BY <2>1, <2>2, <2>3
  <1>7. /\ B[lc[m]] \subseteq B[m] /\ m \notin B[lc[m]]
        /\ B[rc[m]] \subseteq B[m] /\ m \notin B[rc[m]]
    BY NodeFacts
  <1>8. QED
    BY <1>6, <1>7

-----------------------------------------------------------------------------
(* Rotations *)

\* `top', the right child of n, takes the place of n and of its subtree `inner'.
Rotates(lc, rc, par, root, M, lc1, rc1, par1, root1, n) ==
  /\ \A m \in M : lc1[m] = IF m = rc[n] THEN n ELSE IF lc[m] = n THEN rc[n] ELSE lc[m]
  /\ \A m \in M : rc1[m] = IF m = n THEN lc[rc[n]] ELSE IF rc[m] = n THEN rc[n] ELSE rc[m]
  /\ \A m \in M : par1[m] = IF m = rc[n] THEN par[n] ELSE IF m = n THEN rc[n]
                            ELSE IF m = lc[rc[n]] THEN n ELSE par[m]
  /\ root1 = IF n = root THEN rc[n] ELSE root

\* The nodes of a rotation are different nodes.
LEMMA RotationNodes ==
  ASSUME NEW lc, NEW rc, NEW par, NEW root, NEW M, NEW B, NEW ord, IsOrder(ord),
         Shape(lc, rc, par, root, M, B, ord), NEW n \in M, rc[n] # NULL
  PROVE  /\ rc[n] \in M /\ rc[n] # n /\ par[rc[n]] = n /\ rc[n] # lc[n] /\ lc[n] # n
         /\ par[n] # n /\ par[n] # rc[n] /\ par[n] \in M \cup {NULL}
         /\ lc[rc[n]] \in M \cup {NULL} /\ lc[rc[n]] # n /\ lc[rc[n]] # rc[n]
         /\ lc[rc[n]] # NULL => par[lc[rc[n]]] = rc[n] /\ lc[rc[n]] # rc[rc[n]]
         /\ rc[rc[n]] # n /\ rc[rc[n]] # rc[n]
         /\ \A m \in M : lc[m] = n => m = par[n]
         /\ \A m \in M : rc[m] = n => m = par[n]
         /\ \A m \in M : lc[m] # rc[n]
         /\ \A m \in M : rc[m] = rc[n] => m = n
         /\ \A m \in M : lc[m] = n => rc[m] # n
  <1>1. /\ n # NULL /\ n \notin B[rc[n]]
        /\ lc[n] # NULL => lc[n] # n /\ lc[n] # rc[n]
        /\ rc[n] \in M /\ rc[n] # n
    BY NodeFacts
  <1>2. /\ rc[n] # NULL /\ B[lc[rc[n]]] \subseteq B[rc[n]] /\ B[rc[rc[n]]] \subseteq B[rc[n]]
        /\ lc[rc[n]] # NULL => lc[rc[n]] \in B[lc[rc[n]]] /\ lc[rc[n]] # rc[n]
        /\ rc[rc[n]] # NULL => rc[rc[n]] \in B[rc[rc[n]]] /\ rc[rc[n]] # rc[n]
    BY <1>1, NodeFacts
  <1>3. lc[rc[n]] # n /\ rc[rc[n]] # n /\ lc[rc[n]] # rc[n] /\ rc[rc[n]] # rc[n]
    BY <1>1, <1>2
  <1>4. /\ \A m \in M : lc[m] # NULL => par[lc[m]] = m
        /\ \A m \in M : rc[m] # NULL => par[rc[m]] = m
        /\ par[n] # NULL => lc[par[n]] = n \/ rc[par[n]] = n
        /\ par[n] \in M \cup {NULL} /\ lc[rc[n]] \in M \cup {NULL}
    BY <1>1 DEF Shape, Linked, Pointers
  <1>5. par[n] # n /\ par[n] # rc[n]
    BY <1>1, <1>3, <1>4
  <1>6. \A m \in M : lc[m] # NULL => lc[m] # rc[m]
    BY NodeFacts
  <1>7. \A m \in M : lc[m] # rc[n]
    BY <1>1, <1>4, <1>6
  <1>8. QED
    BY <1>1, <1>3, <1>4, <1>5, <1>6, <1>7

\* A rotation keeps a search tree a search tree of the same nodes.
LEMMA RotateShape ==
  ASSUME NEW lc, NEW rc, NEW par, NEW root, NEW M, NEW B, NEW ord, IsOrder(ord),
         Shape(lc, rc, par, root, M, B, ord), NEW n \in M, rc[n] # NULL,
         NEW lc1, NEW rc1, NEW par1, NEW root1,
         Rotates(lc, rc, par, root, M, lc1, rc1, par1, root1, n)
  PROVE  \E B1 : Shape(lc1, rc1, par1, root1, M, B1, ord)
  <1> DEFINE top == rc[n]
             inner == lc[top]
             p == par[n]
             Bn == {n} \cup B[lc[n]] \cup B[inner]
             B1 == [m \in M \cup {NULL} |-> IF m = n THEN Bn ELSE IF m = top THEN B[n] ELSE B[m]]
  <1>1. /\ top \in M /\ top # n /\ par[top] = n /\ top # lc[n] /\ lc[n] # n
        /\ p # n /\ p # top /\ p \in M \cup {NULL}
        /\ inner \in M \cup {NULL} /\ inner # n /\ inner # top
        /\ inner # NULL => par[inner] = top /\ inner # rc[top]
        /\ rc[top] # n /\ rc[top] # top
        /\ \A m \in M : lc[m] = n => m = p
        /\ \A m \in M : rc[m] = n => m = p
        /\ \A m \in M : lc[m] # top
        /\ \A m \in M : rc[m] = top => m = n
        /\ \A m \in M : lc[m] = n => rc[m] # n
    BY RotationNodes
  <1>2. /\ \A m \in M : lc1[m] = IF m = top THEN n ELSE IF lc[m] = n THEN top ELSE lc[m]
        /\ \A m \in M : rc1[m] = IF m = n THEN inner ELSE IF rc[m] = n THEN top ELSE rc[m]
        /\ \A m \in M : par1[m] = IF m = top THEN p ELSE IF m = n THEN top
                                  ELSE IF m = inner THEN n ELSE par[m]
        /\ root1 = IF n = root THEN top ELSE root
    BY DEF Rotates
  <1>3. /\ M \subseteq Name /\ IsFiniteSet(M) /\ root \in M \cup {NULL}
        /\ \A m \in M : /\ lc[m] \in M \cup {NULL}
                        /\ rc[m] \in M \cup {NULL}
                        /\ par[m] \in M \cup {NULL}
        /\ NULL \notin M
    BY AvlAssumption DEF Shape, Pointers
  <1>4. \A m \in M : /\ lc[m] # NULL => par[lc[m]] = m
                     /\ rc[m] # NULL => par[rc[m]] = m
                     /\ par[m] = NULL <=> m = root
                     /\ par[m] # NULL => lc[par[m]] = m \/ rc[par[m]] = m
    BY DEF Shape, Linked
  <1>5. /\ B \in [M \cup {NULL} -> SUBSET M] /\ B[NULL] = {} /\ B[root] = M
        /\ \A m \in M : B[m] = {m} \cup B[lc[m]] \cup B[rc[m]]
    BY DEF Shape, Subtrees
  <1>6. \A m \in M : /\ \A x \in B[lc[m]] : <<x, m>> \in ord
                     /\ \A x \in B[rc[m]] : <<m, x>> \in ord
    BY DEF Shape, Sorted
  <1> HIDE DEF top, inner, p
  <1>7. Pointers(lc1, rc1, par1, root1, M)
    BY <1>1, <1>2, <1>3 DEF Pointers
  <1>8. Linked(lc1, rc1, par1, root1, M)
    <2> SUFFICES ASSUME NEW m \in M
                 PROVE  /\ lc1[m] # NULL => par1[lc1[m]] = m
                        /\ rc1[m] # NULL => par1[rc1[m]] = m
                        /\ par1[m] = NULL <=> m = root1
                        /\ par1[m] # NULL => lc1[par1[m]] = m \/ rc1[par1[m]] = m
      BY DEF Linked
    <2>1. lc1[m] # NULL => par1[lc1[m]] = m
      BY <1>1, <1>2, <1>3, <1>4
    <2>2. rc1[m] # NULL => par1[rc1[m]] = m
      BY <1>1, <1>2, <1>3, <1>4 DEF top, inner
    <2>3. par1[m] = NULL <=> m = root1
      BY <1>1, <1>2, <1>3, <1>4 DEF p
    <2>4. par1[m] # NULL => lc1[par1[m]] = m \/ rc1[par1[m]] = m
      BY <1>1, <1>2, <1>3, <1>4 DEF p, inner, top
    <2>5. QED
      BY <2>1, <2>2, <2>3, <2>4
  <1>9. /\ B1 \in [M \cup {NULL} -> SUBSET M] /\ B1[NULL] = {}
        /\ B1[n] = Bn /\ B1[top] = B[n]
        /\ \A m \in M \cup {NULL} : m # n /\ m # top => B1[m] = B[m]
    BY <1>1, <1>3, <1>5
  <1>10. B[n] = {n} \cup B[lc[n]] \cup B[top] /\ B[top] = {top} \cup B[inner] \cup B[rc[top]]
    BY <1>1, <1>5 DEF inner, top
  <1> HIDE DEF B1
  <1>11. \A m \in M : m # n /\ m # top => B1[lc1[m]] = B[lc[m]] /\ B1[rc1[m]] = B[rc[m]]
    <2> SUFFICES ASSUME NEW m \in M, m # n, m # top
                 PROVE  B1[lc1[m]] = B[lc[m]] /\ B1[rc1[m]] = B[rc[m]]
      OBVIOUS
    <2>1. lc[m] # top /\ rc[m] # top /\ lc[m] \in M \cup {NULL} /\ rc[m] \in M \cup {NULL}
      BY <1>1, <1>3
    <2>2. B1[lc1[m]] = B[lc[m]]
      BY <1>2, <1>9, <2>1
    <2>3. B1[rc1[m]] = B[rc[m]]
      BY <1>2, <1>9, <2>1
    <2>4. QED
      BY <2>2, <2>3
  <1>12. B1[lc1[n]] = B[lc[n]] /\ B1[rc1[n]] = B[inner]
    BY <1>1, <1>2, <1>3, <1>9
  <1>13. B1[lc1[top]] = Bn /\ B1[rc1[top]] = B[rc[top]]
    BY <1>1, <1>2, <1>3, <1>9
  <1>14. Subtrees(lc1, rc1, root1, M, B1)
    <2>1. B1[root1] = M
      BY <1>1, <1>2, <1>3, <1>4, <1>5, <1>9
    <2>2. \A m \in M : B1[m] = {m} \cup B1[lc1[m]] \cup B1[rc1[m]]
      <3> SUFFICES ASSUME NEW m \in M PROVE B1[m] = {m} \cup B1[lc1[m]] \cup B1[rc1[m]]
        OBVIOUS
      <3>1. CASE m = n
        BY <3>1, <1>9, <1>12
      <3>2. CASE m = top
        BY <3>2, <1>9, <1>10, <1>13
      <3>3. CASE m # n /\ m # top
        BY <3>3, <1>5, <1>9, <1>11
      <3>4. QED
        BY <3>1, <3>2, <3>3
    <2>3. QED
      BY <1>9, <2>1, <2>2 DEF Subtrees
  <1>15. Sorted(lc1, rc1, M, B1, ord)
    <2> SUFFICES ASSUME NEW m \in M
                 PROVE  /\ \A x \in B1[lc1[m]] : <<x, m>> \in ord
                        /\ \A x \in B1[rc1[m]] : <<m, x>> \in ord
      BY DEF Sorted
    <2>1. CASE m = n
      <3>1. B[inner] \subseteq B[rc[n]] /\ B[lc1[n]] = B[lc[n]]
        BY <1>1, <1>2, <1>10 DEF top
      <3>2. QED
        BY <2>1, <3>1, <1>6, <1>12
    <2>2. CASE m = top
      <3>1. \A x \in B[rc[top]] : <<top, x>> \in ord
        BY <1>1, <1>6
      <3>2. <<n, top>> \in ord
        BY <1>6, <1>10 DEF top
      <3>3. ASSUME NEW x \in B[lc[n]] PROVE <<x, top>> \in ord
        <4>1. <<x, n>> \in ord /\ x \in Name /\ n \in Name /\ top \in Name
          BY <1>1, <1>3, <1>5, <1>6
        <4>2. QED
          BY <4>1, <3>2 DEF IsOrder
      <3>4. \A x \in B[inner] : <<x, top>> \in ord
        BY <1>1, <1>6 DEF inner
      <3>5. QED
        BY <2>2, <3>1, <3>2, <3>3, <3>4, <1>13
    <2>3. CASE m # n /\ m # top
      BY <2>3, <1>6, <1>11
    <2>4. QED
      BY <2>1, <2>2, <2>3
  <1>16. QED
    BY <1>7, <1>8, <1>14, <1>15 DEF Shape

-----------------------------------------------------------------------------
(* The fields *)

Mirror(t) == [left |-> t.right, right |-> t.left, parent |-> t.parent,
              height |-> t.height, cnt |-> t.cnt]

LEMMA MirrorFields ==
  ASSUME NEW t \in Tree
  PROVE  /\ Mirror(t) \in Tree
         /\ Mirror(t).left = t.right /\ Mirror(t).right = t.left
         /\ Mirror(t).parent = t.parent
         /\ Mirror(t).height = t.height /\ Mirror(t).cnt = t.cnt
         /\ \A x : avl_height(Mirror(t), x) = avl_height(t, x)
         /\ \A x : avl_cnt(Mirror(t), x) = avl_cnt(t, x)
         /\ Mirror(Mirror(t)) = t
  <1>1. /\ Mirror(t) \in Tree
        /\ Mirror(t).left = t.right /\ Mirror(t).right = t.left
        /\ Mirror(t).parent = t.parent
        /\ Mirror(t).height = t.height /\ Mirror(t).cnt = t.cnt
    BY DEF Mirror, Tree
  <1>2. \A x : avl_height(Mirror(t), x) = avl_height(t, x) /\ avl_cnt(Mirror(t), x) = avl_cnt(t, x)
    BY <1>1 DEF avl_height, avl_cnt
  <1>3. Mirror(Mirror(t)) = t
    BY DEF Mirror, Tree
  <1>4. QED
    BY <1>1, <1>2, <1>3

LEMMA HeightType ==
  ASSUME NEW t \in Tree, NEW x \in Name \cup {NULL}
  PROVE  avl_height(t, x) \in Nat /\ avl_cnt(t, x) \in Nat
  BY DEF avl_height, avl_cnt, Tree

LEMMA HigherFacts ==
  ASSUME NEW a \in Nat, NEW b \in Nat
  PROVE  /\ Higher(a, b) \in Nat /\ Higher(a, b) = Higher(b, a)
         /\ a <= Higher(a, b) /\ b <= Higher(a, b)
         /\ Higher(a, b) = a \/ Higher(a, b) = b
  BY DEF Higher

\* What avl_update makes of t.
Updated(t, u, n) ==
  /\ u \in Tree
  /\ u.left = t.left /\ u.right = t.right /\ u.parent = t.parent
  /\ u.height[n] = 1 + Higher(avl_height(t, t.left[n]), avl_height(t, t.right[n]))
  /\ u.cnt[n] = 1 + avl_cnt(t, t.left[n]) + avl_cnt(t, t.right[n])
  /\ \A m \in Name : m # n => u.height[m] = t.height[m] /\ u.cnt[m] = t.cnt[m]

LEMMA UpdateFields ==
  ASSUME NEW t \in Tree, NEW n \in Name
  PROVE  Updated(t, avl_update(t, n), n)
  <1>1. /\ t.left[n] \in Name \cup {NULL} /\ t.right[n] \in Name \cup {NULL}
        /\ t.height \in [Name -> Nat] /\ t.cnt \in [Name -> Nat]
    BY DEF Tree
  <1>2. /\ avl_height(t, t.left[n]) \in Nat /\ avl_height(t, t.right[n]) \in Nat
        /\ avl_cnt(t, t.left[n]) \in Nat /\ avl_cnt(t, t.right[n]) \in Nat
    BY <1>1, HeightType
  <1>3. Higher(avl_height(t, t.left[n]), avl_height(t, t.right[n])) \in Nat
    BY <1>2, HigherFacts
  <1>4. /\ 1 + Higher(avl_height(t, t.left[n]), avl_height(t, t.right[n])) \in Nat
        /\ 1 + avl_cnt(t, t.left[n]) + avl_cnt(t, t.right[n]) \in Nat
    BY <1>2, <1>3
  <1>5. QED
    BY <1>4 DEF Updated, avl_update, Tree

\* What Relink makes of t.
Relinked(t, u, p, n, m) ==
  /\ u \in Tree
  /\ u.parent = t.parent /\ u.height = t.height /\ u.cnt = t.cnt
  /\ \A x \in Name : /\ u.left[x] = IF x = p /\ t.left[p] = n THEN m ELSE t.left[x]
                     /\ u.right[x] = IF x = p /\ t.left[p] # n THEN m ELSE t.right[x]

LEMMA RelinkFields ==
  ASSUME NEW t \in Tree, NEW p \in Name \cup {NULL}, NEW n, NEW m \in Name \cup {NULL}
  PROVE  Relinked(t, Relink(t, p, n, m), p, n, m)
  <1>1. CASE p = NULL
    BY <1>1, AvlAssumption DEF Relink, Relinked
  <1>2. CASE p \in Name /\ t.left[p] = n
    <2>1. Relink(t, p, n, m) = [t EXCEPT !.left[p] = m]
      BY <1>2, AvlAssumption DEF Relink
    <2>2. Relinked(t, [t EXCEPT !.left[p] = m], p, n, m)
      BY <1>2 DEF Tree, Relinked
    <2>3. QED
      BY <2>1, <2>2
  <1>3. CASE p \in Name /\ t.left[p] # n
    <2>1. Relink(t, p, n, m) = [t EXCEPT !.right[p] = m]
      BY <1>3, AvlAssumption DEF Relink
    <2>2. Relinked(t, [t EXCEPT !.right[p] = m], p, n, m)
      BY <1>3 DEF Tree, Relinked
    <2>3. QED
      BY <2>1, <2>2
  <1>4. QED
    BY <1>1, <1>2, <1>3

\* What a rotation of n to the left makes of t: the pointers, and the heights
\* and counts of the two nodes whose subtrees change.
RotationOf(t, w, root, root1, M, n) ==
  /\ w \in Tree
  /\ Rotates(t.left, t.right, t.parent, root, M, w.left, w.right, w.parent, root1, n)
  /\ \A m \in Name : m # n /\ m # t.right[n] =>
       w.height[m] = t.height[m] /\ w.cnt[m] = t.cnt[m]
  /\ w.height[n] = 1 + Higher(avl_height(t, t.left[n]), avl_height(t, t.left[t.right[n]]))
  /\ w.cnt[n] = 1 + avl_cnt(t, t.left[n]) + avl_cnt(t, t.left[t.right[n]])
  /\ w.height[t.right[n]] = 1 + Higher(w.height[n], avl_height(t, t.right[t.right[n]]))
  /\ w.cnt[t.right[n]] = 1 + w.cnt[n] + avl_cnt(t, t.right[t.right[n]])
  /\ \A m \in Name \ M : w.left[m] = t.left[m] /\ w.right[m] = t.right[m]

LEMMA ReparentFields ==
  ASSUME NEW t \in Tree, NEW n \in Name, NEW top \in Name, NEW inner \in Name \cup {NULL},
         top # n, inner # n, inner # top
  PROVE  /\ Reparent(t, n, top, inner) \in [Name -> Name \cup {NULL}]
         /\ \A m \in Name : Reparent(t, n, top, inner)[m] =
              IF m = top THEN t.parent[n] ELSE IF m = n THEN top
              ELSE IF m = inner THEN n ELSE t.parent[m]
  <1>1. t.parent \in [Name -> Name \cup {NULL}]
    BY DEF Tree
  <1>2. QED
    BY <1>1 DEF Reparent

\* What rot_left makes of t, before the caller links the new root.
Turned(t, y, n, top, inner) ==
  /\ y \in Tree
  /\ \A m \in Name : /\ y.left[m] = IF m = top THEN n ELSE t.left[m]
                     /\ y.right[m] = IF m = n THEN inner ELSE t.right[m]
                     /\ y.parent[m] = IF m = top THEN t.parent[n] ELSE IF m = n THEN top
                                      ELSE IF m = inner THEN n ELSE t.parent[m]
                     /\ m # n /\ m # top => y.height[m] = t.height[m] /\ y.cnt[m] = t.cnt[m]
  /\ y.height[n] = 1 + Higher(avl_height(t, t.left[n]), avl_height(t, inner))
  /\ y.cnt[n] = 1 + avl_cnt(t, t.left[n]) + avl_cnt(t, inner)
  /\ y.height[top] = 1 + Higher(y.height[n], avl_height(t, t.right[top]))
  /\ y.cnt[top] = 1 + y.cnt[n] + avl_cnt(t, t.right[top])

LEMMA RotLeftFields ==
  ASSUME NEW t \in Tree, NEW n \in Name, NEW top \in Name, NEW inner \in Name \cup {NULL},
         top = t.right[n], inner = t.left[top],
         top # n, inner # n, inner # top, t.left[n] # n, t.left[n] # top,
         t.right[top] # n, t.right[top] # top
  PROVE  Turned(t, rot_left(t, n), n, top, inner)
  <1> DEFINE u0 == [t EXCEPT !.right[n] = inner, !.left[top] = n,
                             !.parent = Reparent(t, n, top, inner)]
  <1>1. rot_left(t, n) = avl_update(avl_update(u0, n), top)
    BY DEF rot_left
  <1>2. /\ u0 \in Tree
        /\ u0.left = [t.left EXCEPT ![top] = n] /\ u0.right = [t.right EXCEPT ![n] = inner]
        /\ u0.parent = Reparent(t, n, top, inner)
        /\ u0.height = t.height /\ u0.cnt = t.cnt
    <2>1. Reparent(t, n, top, inner) \in [Name -> Name \cup {NULL}]
      BY ReparentFields
    <2>2. QED
      BY <2>1 DEF Tree
  <1>3. /\ t.left \in [Name -> Name \cup {NULL}] /\ t.right \in [Name -> Name \cup {NULL}]
        /\ top # NULL /\ n # NULL
    BY AvlAssumption DEF Tree
  <1> HIDE DEF u0
  <1> DEFINE x == avl_update(u0, n)
  <1>4. /\ x \in Tree
        /\ x.left = u0.left /\ x.right = u0.right /\ x.parent = u0.parent
        /\ x.height[n] = 1 + Higher(avl_height(u0, u0.left[n]), avl_height(u0, u0.right[n]))
        /\ x.cnt[n] = 1 + avl_cnt(u0, u0.left[n]) + avl_cnt(u0, u0.right[n])
        /\ \A m \in Name : m # n => x.height[m] = u0.height[m] /\ x.cnt[m] = u0.cnt[m]
    BY <1>2, UpdateFields DEF Updated
  <1> DEFINE y == avl_update(x, top)
  <1>5. rot_left(t, n) = y
    BY <1>1
  <1> HIDE DEF x
  <1>6. /\ y \in Tree
        /\ y.left = x.left /\ y.right = x.right /\ y.parent = x.parent
        /\ y.height[top] = 1 + Higher(avl_height(x, x.left[top]), avl_height(x, x.right[top]))
        /\ y.cnt[top] = 1 + avl_cnt(x, x.left[top]) + avl_cnt(x, x.right[top])
        /\ \A m \in Name : m # top => y.height[m] = x.height[m] /\ y.cnt[m] = x.cnt[m]
    BY <1>4, UpdateFields DEF Updated
  <1> HIDE DEF y
  <1>7. \A m \in Name : /\ y.left[m] = IF m = top THEN n ELSE t.left[m]
                        /\ y.right[m] = IF m = n THEN inner ELSE t.right[m]
                        /\ y.parent[m] = IF m = top THEN t.parent[n] ELSE IF m = n THEN top
                                         ELSE IF m = inner THEN n ELSE t.parent[m]
    <2>1. \A m \in Name : Reparent(t, n, top, inner)[m] =
            IF m = top THEN t.parent[n] ELSE IF m = n THEN top
            ELSE IF m = inner THEN n ELSE t.parent[m]
      BY ReparentFields
    <2>2. /\ y.left = [t.left EXCEPT ![top] = n] /\ y.right = [t.right EXCEPT ![n] = inner]
          /\ y.parent = Reparent(t, n, top, inner)
      BY <1>2, <1>4, <1>6
    <2>3. \A m \in Name : /\ y.left[m] = IF m = top THEN n ELSE t.left[m]
                          /\ y.right[m] = IF m = n THEN inner ELSE t.right[m]
      BY <1>3, <2>2
    <2>4. \A m \in Name : y.parent[m] =
            IF m = top THEN t.parent[n] ELSE IF m = n THEN top
            ELSE IF m = inner THEN n ELSE t.parent[m]
      BY <2>1, <2>2, Zenon
    <2>5. QED
      BY <2>3, <2>4, Zenon
  <1>8. \A m \in Name : m # n /\ m # top => y.height[m] = t.height[m] /\ y.cnt[m] = t.cnt[m]
    BY <1>2, <1>4, <1>6
  <1>9. /\ avl_height(u0, u0.left[n]) = avl_height(t, t.left[n])
        /\ avl_cnt(u0, u0.left[n]) = avl_cnt(t, t.left[n])
        /\ avl_height(u0, u0.right[n]) = avl_height(t, inner)
        /\ avl_cnt(u0, u0.right[n]) = avl_cnt(t, inner)
    BY <1>2, <1>3 DEF avl_height, avl_cnt
  <1>10. /\ y.height[n] = 1 + Higher(avl_height(t, t.left[n]), avl_height(t, inner))
         /\ y.cnt[n] = 1 + avl_cnt(t, t.left[n]) + avl_cnt(t, inner)
    BY <1>4, <1>6, <1>9
  <1>11. x.left[top] = n /\ x.right[top] = t.right[top]
    BY <1>2, <1>3, <1>4
  <1>12. avl_height(x, n) = y.height[n] /\ avl_cnt(x, n) = y.cnt[n]
    BY <1>3, <1>6 DEF avl_height, avl_cnt
  <1>13. /\ avl_height(x, t.right[top]) = avl_height(t, t.right[top])
         /\ avl_cnt(x, t.right[top]) = avl_cnt(t, t.right[top])
    BY <1>2, <1>3, <1>4 DEF avl_height, avl_cnt
  <1>14. QED
    BY <1>5, <1>6, <1>7, <1>8, <1>10, <1>11, <1>12, <1>13 DEF Turned

LEMMA TreeEq ==
  ASSUME NEW a \in Tree, NEW b \in Tree,
         a.left = b.left, a.right = b.right, a.parent = b.parent,
         \A m \in Name : a.height[m] = b.height[m] /\ a.cnt[m] = b.cnt[m]
  PROVE  a = b
  <1>1. a.height \in [Name -> Nat] /\ b.height \in [Name -> Nat]
        /\ a.cnt \in [Name -> Nat] /\ b.cnt \in [Name -> Nat]
    BY DEF Tree
  <1>2. a.height = b.height /\ a.cnt = b.cnt
    BY <1>1
  <1>3. QED
    BY <1>2 DEF Tree

LEMMA MirrorUpdate ==
  ASSUME NEW t \in Tree, NEW n \in Name
  PROVE  avl_update(Mirror(t), n) = Mirror(avl_update(t, n))
  <1> DEFINE s == Mirror(t)
             a == avl_update(s, n)
             u == avl_update(t, n)
             b == Mirror(u)
  <1>1. /\ s \in Tree /\ s.left = t.right /\ s.right = t.left /\ s.parent = t.parent
        /\ s.height = t.height /\ s.cnt = t.cnt
        /\ \A x : avl_height(s, x) = avl_height(t, x)
        /\ \A x : avl_cnt(s, x) = avl_cnt(t, x)
    BY MirrorFields
  <1> HIDE DEF s
  <1>2. Updated(s, a, n)
    BY <1>1, UpdateFields
  <1>3. Updated(t, u, n)
    BY UpdateFields
  <1> HIDE DEF a, u
  <1>4. /\ b \in Tree /\ b.left = u.right /\ b.right = u.left /\ b.parent = u.parent
        /\ b.height = u.height /\ b.cnt = u.cnt
    BY <1>3, MirrorFields DEF Updated
  <1> HIDE DEF b
  <1>5. /\ avl_height(t, t.left[n]) \in Nat /\ avl_height(t, t.right[n]) \in Nat
        /\ avl_cnt(t, t.left[n]) \in Nat /\ avl_cnt(t, t.right[n]) \in Nat
    <2>1. t.left[n] \in Name \cup {NULL} /\ t.right[n] \in Name \cup {NULL}
      BY DEF Tree
    <2>2. QED
      BY <2>1, HeightType
  <1>6. Higher(avl_height(t, t.left[n]), avl_height(t, t.right[n]))
          = Higher(avl_height(t, t.right[n]), avl_height(t, t.left[n]))
    BY <1>5, HigherFacts
  <1>7. a.height[n] = b.height[n] /\ a.cnt[n] = b.cnt[n]
    BY <1>1, <1>2, <1>3, <1>4, <1>5, <1>6 DEF Updated
  <1>8. \A m \in Name : a.height[m] = b.height[m] /\ a.cnt[m] = b.cnt[m]
    <2>1. \A m \in Name : m # n => a.height[m] = s.height[m] /\ a.cnt[m] = s.cnt[m]
      BY <1>2 DEF Updated
    <2>2. \A m \in Name : m # n => u.height[m] = t.height[m] /\ u.cnt[m] = t.cnt[m]
      BY <1>3 DEF Updated
    <2> TAKE m \in Name
    <2>3. CASE m = n
      BY <1>7, <2>3
    <2>4. CASE m # n
      <3>1. b.height[m] = t.height[m] /\ b.cnt[m] = t.cnt[m]
        BY <1>4, <2>2, <2>4
      <3>2. a.height[m] = t.height[m] /\ a.cnt[m] = t.cnt[m]
        BY <1>1, <2>1, <2>4
      <3>3. QED
        BY <3>1, <3>2
    <2>5. QED
      BY <2>3, <2>4
  <1>9. a \in Tree /\ a.left = b.left /\ a.right = b.right /\ a.parent = b.parent
    BY <1>1, <1>2, <1>3, <1>4 DEF Updated
  <1>10. a = b
    BY <1>4, <1>8, <1>9, TreeEq
  <1>11. QED
    BY <1>10 DEF a, b, s, u

\* A rotation to the right is one to the left, seen in a mirror.
LEMMA MirrorRotation ==
  ASSUME NEW t \in Tree, NEW n \in Name, NEW top \in Name, NEW inner \in Name \cup {NULL},
         top = t.left[n], inner = t.right[top], top # n, inner # n, inner # top
  PROVE  rot_right(t, n) \in Tree /\ Mirror(rot_right(t, n)) = rot_left(Mirror(t), n)
  <1> DEFINE s == Mirror(t)
             R == Reparent(t, n, top, inner)
             u0 == [s EXCEPT !.right[n] = inner, !.left[top] = n,
                             !.parent = Reparent(s, n, top, inner)]
             u1 == [t EXCEPT !.left[n] = inner, !.right[top] = n, !.parent = R]
  <1>1. /\ s \in Tree /\ s.left = t.right /\ s.right = t.left /\ s.parent = t.parent
        /\ s.height = t.height /\ s.cnt = t.cnt
    BY MirrorFields
  <1>2. rot_right(t, n) = avl_update(avl_update(u1, n), top)
    BY DEF rot_right
  <1> HIDE DEF s
  <1>3. rot_left(s, n) = avl_update(avl_update(u0, n), top)
    BY <1>1 DEF rot_left
  <1>4. R \in [Name -> Name \cup {NULL}]
    BY ReparentFields
  <1>5. Reparent(s, n, top, inner) = R
    BY <1>1 DEF Reparent
  <1> HIDE DEF R
  <1>6. /\ u0 \in Tree
        /\ u0.left = [s.left EXCEPT ![top] = n] /\ u0.right = [s.right EXCEPT ![n] = inner]
        /\ u0.parent = R /\ u0.height = s.height /\ u0.cnt = s.cnt
    BY <1>1, <1>4, <1>5 DEF Tree
  <1>7. /\ u1 \in Tree
        /\ u1.right = [t.right EXCEPT ![top] = n] /\ u1.left = [t.left EXCEPT ![n] = inner]
        /\ u1.parent = R /\ u1.height = t.height /\ u1.cnt = t.cnt
    BY <1>4 DEF Tree
  <1> HIDE DEF u0, u1
  <1>8. /\ Mirror(u1) \in Tree /\ Mirror(u1).left = u1.right /\ Mirror(u1).right = u1.left
        /\ Mirror(u1).parent = u1.parent
        /\ Mirror(u1).height = u1.height /\ Mirror(u1).cnt = u1.cnt
    BY <1>7, MirrorFields
  <1>9. Mirror(u1) = u0
    <2>1. /\ Mirror(u1).left = u0.left /\ Mirror(u1).right = u0.right
          /\ Mirror(u1).parent = u0.parent
          /\ \A m \in Name : /\ Mirror(u1).height[m] = u0.height[m]
                             /\ Mirror(u1).cnt[m] = u0.cnt[m]
      BY <1>1, <1>6, <1>7, <1>8
    <2>2. QED
      BY <1>6, <1>8, <2>1, TreeEq
  <1>10. avl_update(u1, n) \in Tree
    BY <1>7, UpdateFields DEF Updated
  <1>11. /\ avl_update(u0, n) = Mirror(avl_update(u1, n))
         /\ avl_update(Mirror(avl_update(u1, n)), top)
              = Mirror(avl_update(avl_update(u1, n), top))
    BY <1>7, <1>9, <1>10, MirrorUpdate
  <1>12. rot_right(t, n) \in Tree
    BY <1>2, <1>10, UpdateFields DEF Updated
  <1>13. QED
    BY <1>2, <1>3, <1>11, <1>12 DEF s

\* The child field of p that holds n holds m in w.
Hung(y, w, p, n, m) ==
  /\ w \in Tree
  /\ w.parent = y.parent /\ w.height = y.height /\ w.cnt = y.cnt
  /\ \A x \in Name : /\ w.left[x] = IF x = p /\ y.left[x] = n THEN m ELSE y.left[x]
                     /\ w.right[x] = IF x = p /\ y.right[x] = n THEN m ELSE y.right[x]

LEMMA RelinkHangs ==
  ASSUME NEW y \in Tree, NEW p \in Name \cup {NULL}, NEW n, NEW m \in Name \cup {NULL},
         p # NULL => (y.left[p] = n <=> y.right[p] # n)
  PROVE  Hung(y, Relink(y, p, n, m), p, n, m)
  <1>1. Relinked(y, Relink(y, p, n, m), p, n, m)
    BY RelinkFields
  <1>2. QED
    BY <1>1, AvlAssumption DEF Relinked, Hung

LEMMA MirrorHung ==
  ASSUME NEW y \in Tree, NEW w, NEW p, NEW n, NEW m, Hung(y, w, p, n, m)
  PROVE  Hung(Mirror(y), Mirror(w), p, n, m)
  <1>1. w \in Tree
    BY DEF Hung
  <1>2. /\ Mirror(y).left = y.right /\ Mirror(y).right = y.left /\ Mirror(y).parent = y.parent
        /\ Mirror(y).height = y.height /\ Mirror(y).cnt = y.cnt
    BY MirrorFields
  <1>3. /\ Mirror(w) \in Tree
        /\ Mirror(w).left = w.right /\ Mirror(w).right = w.left /\ Mirror(w).parent = w.parent
        /\ Mirror(w).height = w.height /\ Mirror(w).cnt = w.cnt
    BY <1>1, MirrorFields
  <1>4. QED
    BY <1>2, <1>3 DEF Hung

\* rot_left and the link to the new root of the subtree are a rotation.
LEMMA TurnedIsRotation ==
  ASSUME NEW t \in Tree, NEW root, NEW M, NEW B, NEW ord, IsOrder(ord),
         Shape(t.left, t.right, t.parent, root, M, B, ord),
         NEW n \in M, t.right[n] # NULL,
         NEW y, Turned(t, y, n, t.right[n], t.left[t.right[n]]),
         NEW w, Hung(y, w, t.parent[n], n, t.right[n])
  PROVE  RotationOf(t, w, root, IF n = root THEN t.right[n] ELSE root, M, n)
  <1> DEFINE top == t.right[n]
             inner == t.left[top]
             p == t.parent[n]
  <1>1. /\ top \in M /\ top # n /\ t.parent[top] = n /\ top # t.left[n] /\ t.left[n] # n
        /\ p # n /\ p # top /\ p \in M \cup {NULL}
        /\ inner \in M \cup {NULL} /\ inner # n /\ inner # top
        /\ \A m \in M : t.left[m] = n => m = p
        /\ \A m \in M : t.right[m] = n => m = p
    BY RotationNodes
  <1>2. M \subseteq Name /\ NULL \notin M /\ NULL \notin Name
    BY AvlAssumption DEF Shape, Pointers
  <1>3. Turned(t, y, n, top, inner) /\ Hung(y, w, p, n, top)
    OBVIOUS
  <1>4. /\ w \in Tree
        /\ \A m \in Name : m # n /\ m # top => w.height[m] = t.height[m] /\ w.cnt[m] = t.cnt[m]
        /\ w.height[n] = 1 + Higher(avl_height(t, t.left[n]), avl_height(t, inner))
        /\ w.cnt[n] = 1 + avl_cnt(t, t.left[n]) + avl_cnt(t, inner)
        /\ w.height[top] = 1 + Higher(w.height[n], avl_height(t, t.right[top]))
        /\ w.cnt[top] = 1 + w.cnt[n] + avl_cnt(t, t.right[top])
    BY <1>3 DEF Turned, Hung
  <1> HIDE DEF top, inner, p
  <1>5. \A m \in Name : /\ y.left[m] = IF m = top THEN n ELSE t.left[m]
                        /\ y.right[m] = IF m = n THEN inner ELSE t.right[m]
                        /\ w.left[m] = IF m = p /\ y.left[m] = n THEN top ELSE y.left[m]
                        /\ w.right[m] = IF m = p /\ y.right[m] = n THEN top ELSE y.right[m]
    BY <1>3 DEF Turned, Hung
  <1>6. \A m \in Name : w.parent[m] = IF m = top THEN p ELSE IF m = n THEN top
                                      ELSE IF m = inner THEN n ELSE t.parent[m]
    <2>1. w.parent = y.parent
      BY <1>3 DEF Hung
    <2>2. \A m \in Name : y.parent[m] = IF m = top THEN p ELSE IF m = n THEN top
                                        ELSE IF m = inner THEN n ELSE t.parent[m]
      BY <1>3 DEF Turned, p
    <2>3. QED
      BY <2>1, <2>2
  <1>7. \A m \in Name \ M : w.left[m] = t.left[m] /\ w.right[m] = t.right[m]
    <2> TAKE m \in Name \ M
    <2>1. m # n /\ m # top /\ m # p
      BY <1>1, <1>2
    <2>2. QED
      BY <1>5, <2>1
  <1>8. \A m \in M : /\ w.left[m] = IF m = top THEN n ELSE IF t.left[m] = n THEN top ELSE t.left[m]
                     /\ w.right[m] = IF m = n THEN inner ELSE IF t.right[m] = n THEN top ELSE t.right[m]
    <2> TAKE m \in M
    <2>1. /\ y.left[m] = IF m = top THEN n ELSE t.left[m]
          /\ y.right[m] = IF m = n THEN inner ELSE t.right[m]
          /\ w.left[m] = IF m = p /\ y.left[m] = n THEN top ELSE y.left[m]
          /\ w.right[m] = IF m = p /\ y.right[m] = n THEN top ELSE y.right[m]
      BY <1>2, <1>5
    <2>2. /\ t.left[m] = n => m = p
          /\ t.right[m] = n => m = p
      BY <1>1
    <2>3. QED
      BY <1>1, <2>1, <2>2
  <1>9. Rotates(t.left, t.right, t.parent, root, M, w.left, w.right, w.parent,
                IF n = root THEN top ELSE root, n)
    BY <1>2, <1>6, <1>8 DEF Rotates, top, inner, p
  <1>10. QED
    BY <1>4, <1>7, <1>9 DEF RotationOf, top, inner

-----------------------------------------------------------------------------
(* Heights and counts *)

\* The subtrees of m differ in height by at most one.
Even(t, m) == avl_height(t, t.left[m]) - avl_height(t, t.right[m]) \in -1..1

\* What avl_update would store in m is what m has.
Measured(t, m) ==
  /\ t.height[m] = 1 + Higher(avl_height(t, t.left[m]), avl_height(t, t.right[m]))
  /\ t.cnt[m] = 1 + avl_cnt(t, t.left[m]) + avl_cnt(t, t.right[m])

Exact(t, m) == Even(t, m) /\ Measured(t, m)

\* A node that keeps its children, and whose children keep their fields.
LEMMA ExactFrame ==
  ASSUME NEW t, NEW w, NEW m, Exact(t, m),
         w.height[m] = t.height[m], w.cnt[m] = t.cnt[m],
         w.left[m] = t.left[m], w.right[m] = t.right[m],
         avl_height(w, t.left[m]) = avl_height(t, t.left[m]),
         avl_cnt(w, t.left[m]) = avl_cnt(t, t.left[m]),
         avl_height(w, t.right[m]) = avl_height(t, t.right[m]),
         avl_cnt(w, t.right[m]) = avl_cnt(t, t.right[m])
  PROVE  Exact(w, m)
  BY DEF Exact, Even, Measured

\* Which fields of which nodes a rotation changes.
RotationFrame(t, w, M, n, top, inner) ==
  /\ w.left[n] = t.left[n] /\ w.right[n] = inner
  /\ w.left[top] = n /\ w.right[top] = t.right[top]
  /\ w.parent[n] = top /\ w.parent[top] = t.parent[n]
  /\ avl_height(w, n) = w.height[n] /\ avl_cnt(w, n) = w.cnt[n]
  /\ avl_height(w, top) = w.height[top] /\ avl_cnt(w, top) = w.cnt[top]
  /\ \A c \in M \cup {NULL} : c # n /\ c # top =>
       avl_height(w, c) = avl_height(t, c) /\ avl_cnt(w, c) = avl_cnt(t, c)
  /\ \A m \in M : m # n /\ m # top =>
       /\ t.left[m] # top /\ t.right[m] # top
       /\ w.left[m] = IF t.left[m] = n THEN top ELSE t.left[m]
       /\ w.right[m] = IF t.right[m] = n THEN top ELSE t.right[m]
       /\ w.height[m] = t.height[m] /\ w.cnt[m] = t.cnt[m]

LEMMA RotationFields ==
  ASSUME NEW t \in Tree, NEW root, NEW M, NEW B, NEW ord, IsOrder(ord),
         Shape(t.left, t.right, t.parent, root, M, B, ord),
         NEW n \in M, t.right[n] # NULL,
         NEW w, NEW root1, RotationOf(t, w, root, root1, M, n)
  PROVE  RotationFrame(t, w, M, n, t.right[n], t.left[t.right[n]])
  <1> DEFINE top == t.right[n]
             inner == t.left[top]
  <1>1. /\ top \in M /\ top # n /\ t.parent[top] = n /\ top # t.left[n] /\ t.left[n] # n
        /\ t.parent[n] # n /\ t.parent[n] # top /\ t.parent[n] \in M \cup {NULL}
        /\ inner \in M \cup {NULL} /\ inner # n /\ inner # top
        /\ t.right[top] # n /\ t.right[top] # top
        /\ \A m \in M : t.left[m] # top
        /\ \A m \in M : t.right[m] = top => m = n
    BY RotationNodes
  <1>2. M \subseteq Name /\ NULL \notin M
    BY AvlAssumption DEF Shape, Pointers
  <1>3. /\ \A m \in M : w.left[m] = IF m = top THEN n ELSE IF t.left[m] = n THEN top ELSE t.left[m]
        /\ \A m \in M : w.right[m] = IF m = n THEN inner ELSE IF t.right[m] = n THEN top ELSE t.right[m]
        /\ \A m \in M : w.parent[m] = IF m = top THEN t.parent[n] ELSE IF m = n THEN top
                                      ELSE IF m = inner THEN n ELSE t.parent[m]
    BY DEF RotationOf, Rotates
  <1>4. \A m \in Name : m # n /\ m # top => w.height[m] = t.height[m] /\ w.cnt[m] = t.cnt[m]
    BY DEF RotationOf
  <1> HIDE DEF top, inner
  <1>5. \A c \in M \cup {NULL} : c # n /\ c # top =>
          avl_height(w, c) = avl_height(t, c) /\ avl_cnt(w, c) = avl_cnt(t, c)
    BY <1>1, <1>2, <1>4 DEF avl_height, avl_cnt
  <1>6. /\ avl_height(w, n) = w.height[n] /\ avl_cnt(w, n) = w.cnt[n]
        /\ avl_height(w, top) = w.height[top] /\ avl_cnt(w, top) = w.cnt[top]
    BY <1>1, <1>2 DEF avl_height, avl_cnt
  <1>7. /\ w.left[n] = t.left[n] /\ w.right[n] = inner
        /\ w.left[top] = n /\ w.right[top] = t.right[top]
        /\ w.parent[n] = top /\ w.parent[top] = t.parent[n]
    BY <1>1, <1>3
  <1>8. \A m \in M : m # n /\ m # top =>
          /\ t.left[m] # top /\ t.right[m] # top
          /\ w.left[m] = IF t.left[m] = n THEN top ELSE t.left[m]
          /\ w.right[m] = IF t.right[m] = n THEN top ELSE t.right[m]
          /\ w.height[m] = t.height[m] /\ w.cnt[m] = t.cnt[m]
    BY <1>1, <1>2, <1>3, <1>4
  <1>9. QED
    BY <1>5, <1>6, <1>7, <1>8 DEF RotationFrame, top, inner

\* The two nodes of a rotation are measured; the others, except for the
\* parent, stay exact.
LEMMA RotationExact ==
  ASSUME NEW t \in Tree, NEW root, NEW M, NEW B, NEW ord, IsOrder(ord),
         Shape(t.left, t.right, t.parent, root, M, B, ord),
         NEW n \in M, t.right[n] # NULL,
         NEW w, NEW root1, RotationOf(t, w, root, root1, M, n)
  PROVE  /\ Measured(w, n) /\ Measured(w, t.right[n])
         /\ \A m \in M : m # n /\ m # t.right[n] /\ m # t.parent[n] /\ Exact(t, m) => Exact(w, m)
  <1> DEFINE top == t.right[n]
             inner == t.left[top]
  <1>1. /\ top \in M /\ top # n /\ top # t.left[n] /\ t.left[n] # n
        /\ inner \in M \cup {NULL} /\ inner # n /\ inner # top
        /\ t.right[top] # n /\ t.right[top] # top
        /\ \A m \in M : t.left[m] = n => m = t.parent[n]
        /\ \A m \in M : t.right[m] = n => m = t.parent[n]
    BY RotationNodes
  <1>2. \A m \in M : t.left[m] \in M \cup {NULL} /\ t.right[m] \in M \cup {NULL}
    BY DEF Shape, Pointers
  <1>3. /\ w.left[n] = t.left[n] /\ w.right[n] = inner
        /\ w.left[top] = n /\ w.right[top] = t.right[top]
        /\ avl_height(w, n) = w.height[n] /\ avl_cnt(w, n) = w.cnt[n]
        /\ \A c \in M \cup {NULL} : c # n /\ c # top =>
             avl_height(w, c) = avl_height(t, c) /\ avl_cnt(w, c) = avl_cnt(t, c)
        /\ \A m \in M : m # n /\ m # top =>
             /\ t.left[m] # top /\ t.right[m] # top
             /\ w.left[m] = IF t.left[m] = n THEN top ELSE t.left[m]
             /\ w.right[m] = IF t.right[m] = n THEN top ELSE t.right[m]
             /\ w.height[m] = t.height[m] /\ w.cnt[m] = t.cnt[m]
    <2>1. RotationFrame(t, w, M, n, top, inner)
      BY RotationFields
    <2> HIDE DEF top, inner
    <2>2. QED
      BY <2>1 DEF RotationFrame
  <1>4. /\ w.height[n] = 1 + Higher(avl_height(t, t.left[n]), avl_height(t, inner))
        /\ w.cnt[n] = 1 + avl_cnt(t, t.left[n]) + avl_cnt(t, inner)
        /\ w.height[top] = 1 + Higher(w.height[n], avl_height(t, t.right[top]))
        /\ w.cnt[top] = 1 + w.cnt[n] + avl_cnt(t, t.right[top])
    BY DEF RotationOf
  <1> HIDE DEF top, inner
  <1>5. Measured(w, n)
    <2>1. /\ avl_height(w, t.left[n]) = avl_height(t, t.left[n])
          /\ avl_cnt(w, t.left[n]) = avl_cnt(t, t.left[n])
          /\ avl_height(w, inner) = avl_height(t, inner)
          /\ avl_cnt(w, inner) = avl_cnt(t, inner)
      BY <1>1, <1>2, <1>3
    <2>2. QED
      BY <1>3, <1>4, <2>1 DEF Measured
  <1>6. Measured(w, top)
    <2>1. /\ avl_height(w, t.right[top]) = avl_height(t, t.right[top])
          /\ avl_cnt(w, t.right[top]) = avl_cnt(t, t.right[top])
      BY <1>1, <1>2, <1>3
    <2>2. QED
      BY <1>3, <1>4, <2>1 DEF Measured
  <1>7. ASSUME NEW m \in M, m # n, m # top, m # t.parent[n], Exact(t, m)
        PROVE  Exact(w, m)
    <2>1. /\ t.left[m] # n /\ t.right[m] # n /\ t.left[m] # top /\ t.right[m] # top
          /\ t.left[m] \in M \cup {NULL} /\ t.right[m] \in M \cup {NULL}
      BY <1>1, <1>2, <1>3, <1>7
    <2>2. /\ w.left[m] = t.left[m] /\ w.right[m] = t.right[m]
          /\ w.height[m] = t.height[m] /\ w.cnt[m] = t.cnt[m]
      BY <1>3, <1>7, <2>1
    <2>3. /\ avl_height(w, t.left[m]) = avl_height(t, t.left[m])
          /\ avl_cnt(w, t.left[m]) = avl_cnt(t, t.left[m])
          /\ avl_height(w, t.right[m]) = avl_height(t, t.right[m])
          /\ avl_cnt(w, t.right[m]) = avl_cnt(t, t.right[m])
      BY <1>3, <2>1
    <2>4. QED
      BY <1>7, <2>2, <2>3, ExactFrame
  <1>8. QED
    BY <1>5, <1>6, <1>7 DEF top

\* The subtree of n, below p, is in order in w: its root is `top', and of the
\* fields of p only the one that held n has changed.
Refitted(t, w, root, M, ord, n, p, top) ==
  /\ w \in Tree /\ top \in M
  /\ IsTree(w, IF n = root THEN top ELSE root, M, ord)
  /\ \A m \in M : m # p => Exact(w, m)
  /\ p # NULL =>
       /\ w.height[p] = t.height[p]
       /\ IF t.left[p] = n THEN w.left[p] = top
          ELSE avl_height(w, w.left[p]) = avl_height(t, t.left[p])
       /\ IF t.right[p] = n THEN w.right[p] = top
          ELSE avl_height(w, w.right[p]) = avl_height(t, t.right[p])
  /\ \A m \in Name \ M : w.left[m] = t.left[m] /\ w.right[m] = t.right[m]

LEMMA SingleHeights ==
  ASSUME NEW l \in Nat, NEW a \in Nat, NEW b \in Nat, a <= b, a - b \in -1..1,
         l + 2 = 1 + Higher(a, b), NEW k, k = 1 + Higher(l, a)
  PROVE  /\ k \in Nat /\ l - a \in -1..1 /\ k - b \in -1..1
         /\ 1 + Higher(k, b) \in (l + 2)..(l + 3)
  BY DEF Higher

LEMMA SingleRotation ==
  ASSUME NEW t \in Tree, NEW root, NEW M, NEW B, NEW ord, IsOrder(ord),
         Shape(t.left, t.right, t.parent, root, M, B, ord), NEW n \in M,
         \A m \in M : m # n /\ m # t.parent[n] => Exact(t, m),
         avl_height(t, t.left[n]) + 2 = avl_height(t, t.right[n]),
         avl_height(t, t.left[t.right[n]]) <= avl_height(t, t.right[t.right[n]]),
         NEW w, RotationOf(t, w, root, IF n = root THEN t.right[n] ELSE root, M, n)
  PROVE  /\ Refitted(t, w, root, M, ord, n, t.parent[n], t.right[n])
         /\ w.height[t.right[n]] \in
              avl_height(t, t.right[n])..(avl_height(t, t.right[n]) + 1)
  <1> DEFINE top == t.right[n]
             inner == t.left[top]
             p == t.parent[n]
             l == avl_height(t, t.left[n])
             a == avl_height(t, inner)
             b == avl_height(t, t.right[top])
             root1 == IF n = root THEN top ELSE root
  <1>1. /\ M \subseteq Name /\ NULL \notin Name
        /\ \A m \in M : t.left[m] \in M \cup {NULL} /\ t.right[m] \in M \cup {NULL}
    BY AvlAssumption DEF Shape, Pointers
  <1>2. l \in Nat
    BY <1>1, HeightType
  <1>3. top # NULL
    <2>1. avl_height(t, NULL) = 0
      BY DEF avl_height
    <2>2. l + 2 # 0
      BY <1>2
    <2>3. QED
      BY <2>1, <2>2
  <1>4. /\ top \in M /\ top # n /\ p # n /\ p # top /\ p \in M \cup {NULL}
        /\ t.left[n] # n /\ t.left[n] # top /\ inner # n /\ inner # top
        /\ t.right[top] # n /\ t.right[top] # top
    BY <1>3, RotationNodes
  <1>5. a \in Nat /\ b \in Nat /\ avl_height(t, top) = t.height[top]
    <2>1. inner \in Name \cup {NULL} /\ t.right[top] \in Name \cup {NULL} /\ top # NULL
      BY <1>1, <1>3, <1>4
    <2>2. QED
      BY <2>1, HeightType DEF avl_height
  <1>6. a - b \in -1..1 /\ t.height[top] = 1 + Higher(a, b)
    <2>1. Exact(t, top)
      BY <1>4
    <2>2. QED
      BY <2>1 DEF Exact, Even, Measured
  <1>7. l + 2 = avl_height(t, top) /\ a <= b
    OBVIOUS
  <1>8. RotationOf(t, w, root, root1, M, n)
    OBVIOUS
  <1>9. /\ Measured(w, n) /\ Measured(w, top)
        /\ \A m \in M : m # n /\ m # top /\ m # p /\ Exact(t, m) => Exact(w, m)
    BY <1>3, <1>8, RotationExact
  <1>10. RotationFrame(t, w, M, n, top, inner)
    BY <1>3, <1>8, RotationFields
  <1>11. /\ w \in Tree
         /\ w.height[n] = 1 + Higher(l, a)
         /\ w.height[top] = 1 + Higher(w.height[n], b)
         /\ \A m \in Name \ M : w.left[m] = t.left[m] /\ w.right[m] = t.right[m]
    BY <1>8 DEF RotationOf
  <1>12. IsTree(w, root1, M, ord)
    <2>1. Rotates(t.left, t.right, t.parent, root, M, w.left, w.right, w.parent, root1, n)
      BY <1>8 DEF RotationOf
    <2>2. QED
      BY <1>3, <2>1, RotateShape DEF IsTree
  <1> HIDE DEF top, inner, p, l, a, b, root1
  <1>13. /\ w.height[n] \in Nat /\ l - a \in -1..1 /\ w.height[n] - b \in -1..1
         /\ w.height[top] \in (l + 2)..(l + 3)
    BY <1>2, <1>5, <1>6, <1>7, <1>11, SingleHeights
  <1>14. w.height[top] \in avl_height(t, top)..(avl_height(t, top) + 1)
    BY <1>2, <1>7, <1>13
  <1>15. Exact(w, n)
    <2>1. avl_height(w, w.left[n]) = l /\ avl_height(w, w.right[n]) = a
      BY <1>1, <1>4, <1>10 DEF RotationFrame, l, a, inner
    <2>2. QED
      BY <1>9, <1>13, <2>1 DEF Exact, Even
  <1>16. Exact(w, top)
    <2>1. avl_height(w, w.left[top]) = w.height[n] /\ avl_height(w, w.right[top]) = b
      BY <1>1, <1>4, <1>10 DEF RotationFrame, b
    <2>2. QED
      BY <1>9, <1>13, <2>1 DEF Exact, Even
  <1>17. \A m \in M : m # p => Exact(w, m)
    BY <1>9, <1>15, <1>16 DEF p
  <1>18. p # NULL =>
           /\ w.height[p] = t.height[p]
           /\ IF t.left[p] = n THEN w.left[p] = top
              ELSE avl_height(w, w.left[p]) = avl_height(t, t.left[p])
           /\ IF t.right[p] = n THEN w.right[p] = top
              ELSE avl_height(w, w.right[p]) = avl_height(t, t.right[p])
    <2> HAVE p # NULL
    <2>1. p \in M /\ p # n /\ p # top
      BY <1>4
    <2>2. /\ t.left[p] # top /\ t.right[p] # top
          /\ w.left[p] = IF t.left[p] = n THEN top ELSE t.left[p]
          /\ w.right[p] = IF t.right[p] = n THEN top ELSE t.right[p]
          /\ w.height[p] = t.height[p]
      BY <1>10, <2>1 DEF RotationFrame
    <2>3. \A c \in M \cup {NULL} : c # n /\ c # top => avl_height(w, c) = avl_height(t, c)
      BY <1>10 DEF RotationFrame
    <2>4. QED
      BY <1>1, <2>1, <2>2, <2>3
  <1>19. Refitted(t, w, root, M, ord, n, p, top)
    BY <1>4, <1>11, <1>12, <1>17, <1>18 DEF Refitted, root1
  <1>20. QED
    BY <1>14, <1>19 DEF top, p

LEMMA MirrorExact ==
  ASSUME NEW t \in Tree, NEW m \in Name
  PROVE  /\ Even(Mirror(t), m) <=> Even(t, m)
         /\ Measured(Mirror(t), m) <=> Measured(t, m)
         /\ Exact(Mirror(t), m) <=> Exact(t, m)
  <1>1. /\ Mirror(t).left = t.right /\ Mirror(t).right = t.left
        /\ Mirror(t).height = t.height /\ Mirror(t).cnt = t.cnt
        /\ \A x : avl_height(Mirror(t), x) = avl_height(t, x)
        /\ \A x : avl_cnt(Mirror(t), x) = avl_cnt(t, x)
    BY MirrorFields
  <1>2. t.left[m] \in Name \cup {NULL} /\ t.right[m] \in Name \cup {NULL}
    BY DEF Tree
  <1>3. /\ avl_height(t, t.left[m]) \in Nat /\ avl_height(t, t.right[m]) \in Nat
        /\ avl_cnt(t, t.left[m]) \in Nat /\ avl_cnt(t, t.right[m]) \in Nat
    BY <1>2, HeightType
  <1>4. Higher(avl_height(t, t.left[m]), avl_height(t, t.right[m]))
          = Higher(avl_height(t, t.right[m]), avl_height(t, t.left[m]))
    BY <1>3, HigherFacts
  <1>5. Even(Mirror(t), m) <=> Even(t, m)
    BY <1>1, <1>3 DEF Even
  <1>6. Measured(Mirror(t), m) <=> Measured(t, m)
    BY <1>1, <1>3, <1>4 DEF Measured
  <1>7. QED
    BY <1>5, <1>6 DEF Exact

\* The first half of a double rotation: r, the right child of n, turns right.
InnerFrame(t, u, M, n, r, s) ==
  /\ n # r /\ n # s /\ r # s /\ t.parent[n] # s /\ t.parent[n] # r
  /\ t.parent[r] = n /\ t.parent[s] = r
  /\ t.left[n] # r /\ t.left[n] # s /\ t.left[s] # r /\ t.left[s] # s
  /\ u.right[n] = s /\ u.left[n] = t.left[n] /\ u.parent[n] = t.parent[n]
  /\ u.left[s] = t.left[s] /\ u.right[s] = r
  /\ u.left[r] = t.right[s] /\ u.right[r] = t.right[r]
  /\ u.height[r] = 1 + Higher(avl_height(t, t.right[r]), avl_height(t, t.right[s]))
  /\ avl_height(u, r) = u.height[r]
  /\ \A c \in M \cup {NULL} : c # r /\ c # s => avl_height(u, c) = avl_height(t, c)
  /\ \A m \in M : m # r /\ m # s =>
       /\ t.left[m] # s /\ t.right[m] # s
       /\ u.left[m] = IF t.left[m] = r THEN s ELSE t.left[m]
       /\ u.right[m] = IF t.right[m] = r THEN s ELSE t.right[m]
       /\ u.height[m] = t.height[m]
  /\ Measured(u, r)
  /\ \A m \in M : m # r /\ m # s /\ m # n /\ Exact(t, m) => Exact(u, m)
  /\ \A m \in Name \ M : u.left[m] = t.left[m] /\ u.right[m] = t.right[m]

LEMMA InnerRotation ==
  ASSUME NEW t \in Tree, NEW root, NEW M, NEW B, NEW ord, IsOrder(ord),
         Shape(t.left, t.right, t.parent, root, M, B, ord),
         NEW n \in M, t.right[n] \in M, t.left[t.right[n]] \in M,
         NEW u \in Tree, RotationOf(Mirror(t), Mirror(u), root, root, M, t.right[n])
  PROVE  /\ InnerFrame(t, u, M, n, t.right[n], t.left[t.right[n]])
         /\ \E B1 : Shape(u.left, u.right, u.parent, root, M, B1, ord)
  <1> DEFINE T == Mirror(t)
             U == Mirror(u)
             p == t.parent[n]
             r == t.right[n]
             s == t.left[r]
  <1>0. r \in M /\ s \in M /\ r = t.right[n] /\ s = t.left[r]
    OBVIOUS
  <1>1. /\ T \in Tree /\ T.left = t.right /\ T.right = t.left /\ T.parent = t.parent
        /\ T.height = t.height /\ T.cnt = t.cnt
        /\ \A x : avl_height(T, x) = avl_height(t, x)
    BY MirrorFields
  <1>2. /\ U \in Tree /\ U.left = u.right /\ U.right = u.left /\ U.parent = u.parent
        /\ U.height = u.height /\ U.cnt = u.cnt
        /\ \A x : avl_height(U, x) = avl_height(u, x)
    BY MirrorFields
  <1>3. /\ \A m \in M : Measured(U, m) <=> Measured(u, m)
        /\ \A m \in M : Exact(U, m) <=> Exact(u, m)
        /\ \A m \in M : Exact(T, m) <=> Exact(t, m)
    <2>1. M \subseteq Name
      BY DEF Shape, Pointers
    <2>2. QED
      BY <2>1, MirrorExact
  <1>4. RotationOf(T, U, root, root, M, r)
    OBVIOUS
  <1> HIDE DEF T, U, r, s
  <1>5. IsOrder(Reversed(ord)) /\ Shape(T.left, T.right, T.parent, root, M, B, Reversed(ord))
    BY <1>1, MirrorOrder, MirrorShape
  <1>6. T.right[r] = s /\ T.left[s] = t.right[s] /\ T.right[r] # NULL
    BY <1>0, <1>1, AvlAssumption DEF Shape, Pointers
  <1>7. RotationFrame(T, U, M, r, s, t.right[s])
    <2>1. RotationFrame(T, U, M, r, T.right[r], T.left[T.right[r]])
      BY <1>0, <1>1, <1>4, <1>5, <1>6, RotationFields
    <2>2. QED
      BY <2>1, <1>6
  <1>8. /\ Measured(U, r)
        /\ \A m \in M : m # r /\ m # s /\ m # T.parent[r] /\ Exact(T, m) => Exact(U, m)
    BY <1>0, <1>1, <1>4, <1>5, <1>6, RotationExact
  <1>9. \E B1 : Shape(u.left, u.right, u.parent, root, M, B1, ord)
    <2>1. Rotates(T.left, T.right, T.parent, root, M, U.left, U.right, U.parent, root, r)
      BY <1>4 DEF RotationOf
    <2>2. PICK B1 : Shape(U.left, U.right, U.parent, root, M, B1, Reversed(ord))
      BY <1>0, <1>5, <1>6, <2>1, RotateShape
    <2>3. Shape(u.left, u.right, u.parent, root, M, B1, ord)
      BY <1>2, <2>2, UnmirrorShape
    <2>4. QED
      BY <2>3
  <1>10. /\ n # r /\ t.parent[r] = n /\ r # t.left[n] /\ t.left[n] # n
         /\ p # n /\ p # r /\ p \in M \cup {NULL}
         /\ s # n /\ s # r /\ t.parent[s] = r
         /\ \A m \in M : t.left[m] # r
         /\ \A m \in M : t.right[m] = r => m = n
    <2>1. r # NULL /\ s # NULL
      BY <1>0, AvlAssumption DEF Shape, Pointers
    <2>2. QED
      BY <1>0, <2>1, RotationNodes
  <1>11. t.left[s] # n /\ t.right[s] # n /\ t.left[s] # r /\ t.left[s] # s
    <2>1. n \notin B[r]
      BY <1>0, NodeFacts
    <2>2. B[s] \subseteq B[r] /\ r \notin B[s]
      BY <1>0, NodeFacts
    <2>3. /\ B[t.left[s]] \subseteq B[s] /\ B[t.right[s]] \subseteq B[s] /\ s \notin B[t.left[s]]
          /\ t.left[s] # NULL => t.left[s] \in B[t.left[s]]
          /\ t.right[s] # NULL => t.right[s] \in B[t.right[s]]
      BY <1>0, NodeFacts
    <2>4. n # NULL /\ r # NULL /\ s # NULL
      BY <1>0, AvlAssumption DEF Shape, Pointers
    <2>5. QED
      BY <2>1, <2>2, <2>3, <2>4
  <1>12. p # s
    <2>1. p # NULL => t.left[p] = n \/ t.right[p] = n
      BY DEF Shape, Linked
    <2>2. s # NULL
      BY <1>0, AvlAssumption DEF Shape, Pointers
    <2>3. QED
      BY <1>11, <2>1, <2>2
  <1>13. /\ u.right[r] = t.right[r] /\ u.left[r] = t.right[s]
         /\ u.right[s] = r /\ u.left[s] = t.left[s]
         /\ avl_height(u, r) = u.height[r]
         /\ \A c \in M \cup {NULL} : c # r /\ c # s => avl_height(u, c) = avl_height(t, c)
         /\ \A m \in M : m # r /\ m # s =>
              /\ t.left[m] # s /\ t.right[m] # s
              /\ u.left[m] = IF t.left[m] = r THEN s ELSE t.left[m]
              /\ u.right[m] = IF t.right[m] = r THEN s ELSE t.right[m]
              /\ u.height[m] = t.height[m]
    BY <1>1, <1>2, <1>7 DEF RotationFrame
  <1>14. u.height[r] = 1 + Higher(avl_height(t, t.right[r]), avl_height(t, t.right[s]))
    BY <1>0, <1>1, <1>2, <1>4, <1>6 DEF RotationOf
  <1>15. \A m \in Name \ M : u.left[m] = t.left[m] /\ u.right[m] = t.right[m]
    BY <1>1, <1>2, <1>4 DEF RotationOf
  <1>16. u.parent[n] = t.parent[n]
    <2>1. Rotates(T.left, T.right, T.parent, root, M, U.left, U.right, U.parent, root, r)
      BY <1>4 DEF RotationOf
    <2>2. U.parent[n] = IF n = s THEN T.parent[r] ELSE IF n = r THEN s
                        ELSE IF n = t.right[s] THEN r ELSE T.parent[n]
      BY <1>6, <2>1 DEF Rotates
    <2>3. QED
      BY <1>1, <1>2, <1>10, <1>11, <2>2
  <1>17. u.right[n] = s /\ u.left[n] = t.left[n] /\ t.left[n] # s
    BY <1>0, <1>10, <1>13
  <1>18. InnerFrame(t, u, M, n, r, s)
    BY <1>0, <1>1, <1>3, <1>8, <1>10, <1>11, <1>12, <1>13, <1>14, <1>15, <1>16, <1>17 DEF InnerFrame
  <1>19. QED
    BY <1>9, <1>18 DEF r, s

LEMMA DoubleRotation ==
  ASSUME NEW t \in Tree, NEW root, NEW M, NEW B, NEW ord, IsOrder(ord),
         Shape(t.left, t.right, t.parent, root, M, B, ord), NEW n \in M,
         \A m \in M : m # n /\ m # t.parent[n] => Exact(t, m),
         avl_height(t, t.left[n]) + 2 = avl_height(t, t.right[n]),
         avl_height(t, t.right[t.right[n]]) < avl_height(t, t.left[t.right[n]]),
         NEW u \in Tree, RotationOf(Mirror(t), Mirror(u), root, root, M, t.right[n]),
         NEW w, RotationOf(u, w, root, IF n = root THEN t.left[t.right[n]] ELSE root, M, n)
  PROVE  /\ Refitted(t, w, root, M, ord, n, t.parent[n], t.left[t.right[n]])
         /\ w.height[t.left[t.right[n]]] \in
              avl_height(t, t.right[n])..(avl_height(t, t.right[n]) + 1)
  <1> DEFINE r == t.right[n]
             s == t.left[r]
             p == t.parent[n]
             l == avl_height(t, t.left[n])
             b == avl_height(t, t.right[r])
             x == avl_height(t, t.left[s])
             y == avl_height(t, t.right[s])
             root1 == IF n = root THEN s ELSE root
  <1>1. /\ M \subseteq Name /\ NULL \notin Name /\ p \in M \cup {NULL}
        /\ \A m \in M : t.left[m] \in M \cup {NULL} /\ t.right[m] \in M \cup {NULL}
    BY AvlAssumption DEF Shape, Pointers
  <1>2. avl_height(t, NULL) = 0
    BY DEF avl_height
  <1>3. l \in Nat /\ l + 2 = avl_height(t, r) /\ b < avl_height(t, s)
    BY <1>1, HeightType
  <1>4. r \in M
    BY <1>1, <1>2, <1>3
  <1>5. b \in Nat /\ avl_height(t, s) \in Nat
    BY <1>1, <1>4, HeightType
  <1>6. s \in M
    BY <1>1, <1>2, <1>3, <1>4, <1>5
  <1>7. x \in Nat /\ y \in Nat
    BY <1>1, <1>6, HeightType
  <1>8. /\ RotationOf(Mirror(t), Mirror(u), root, root, M, r)
        /\ RotationOf(u, w, root, root1, M, n)
        /\ \A m \in M : m # n /\ m # p => Exact(t, m)
    OBVIOUS
  <1>9. r = t.right[n] /\ s = t.left[r]
    OBVIOUS
  <1>a. /\ InnerFrame(t, u, M, n, r, s)
        /\ \E B1 : Shape(u.left, u.right, u.parent, root, M, B1, ord)
    BY <1>4, <1>6, <1>8, InnerRotation
  <1> HIDE DEF r, s, l, b, x, y, root1
  <1>10. /\ n # r /\ n # s /\ r # s /\ p # s /\ p # r
         /\ t.parent[r] = n /\ t.parent[s] = r
         /\ t.left[n] # r /\ t.left[n] # s /\ t.left[s] # r /\ t.left[s] # s
    BY <1>a DEF InnerFrame
  <1>11. PICK B1 : Shape(u.left, u.right, u.parent, root, M, B1, ord)
    BY <1>a
  <1>12. /\ u.right[n] = s /\ u.left[n] = t.left[n] /\ u.parent[n] = p
         /\ u.left[s] = t.left[s] /\ u.right[s] = r
         /\ u.left[r] = t.right[s] /\ u.right[r] = t.right[r]
         /\ u.height[r] = 1 + Higher(b, y) /\ avl_height(u, r) = u.height[r]
         /\ \A c \in M \cup {NULL} : c # r /\ c # s => avl_height(u, c) = avl_height(t, c)
         /\ Measured(u, r)
         /\ \A m \in M : m # r /\ m # s /\ m # n /\ Exact(t, m) => Exact(u, m)
         /\ \A m \in Name \ M : u.left[m] = t.left[m] /\ u.right[m] = t.right[m]
    BY <1>a DEF InnerFrame, b, y
  <1>13. RotationFrame(u, w, M, n, s, t.left[s])
    <2>1. RotationFrame(u, w, M, n, u.right[n], u.left[u.right[n]])
      BY <1>1, <1>6, <1>8, <1>11, <1>12, RotationFields
    <2>2. QED
      BY <2>1, <1>12
  <1>14. /\ Measured(w, n) /\ Measured(w, s)
         /\ \A m \in M : m # n /\ m # s /\ m # p /\ Exact(u, m) => Exact(w, m)
    <2>1. /\ Measured(w, n) /\ Measured(w, u.right[n])
          /\ \A m \in M : m # n /\ m # u.right[n] /\ m # u.parent[n] /\ Exact(u, m) => Exact(w, m)
      <3>1. u.right[n] # NULL
        BY <1>1, <1>6, <1>12
      <3>2. QED
        BY <1>8, <1>11, <3>1, RotationExact
    <2>2. QED
      BY <2>1, <1>12
  <1>15. IsTree(w, root1, M, ord)
    <2>1. Rotates(u.left, u.right, u.parent, root, M, w.left, w.right, w.parent, root1, n)
      BY <1>8 DEF RotationOf
    <2>2. u.right[n] # NULL
      BY <1>1, <1>6, <1>12
    <2>3. QED
      BY <1>11, <2>1, <2>2, RotateShape DEF IsTree
  <1>16. /\ avl_height(u, t.left[n]) = l /\ avl_height(u, t.left[s]) = x
         /\ avl_height(u, t.right[s]) = y /\ avl_height(u, t.right[r]) = b
    <2>1. t.right[s] # r /\ t.right[s] # s /\ t.right[r] # r /\ t.right[r] # s
      <3>1. \A m \in M : t.right[m] # NULL => t.parent[t.right[m]] = m
        BY DEF Shape, Linked
      <3>2. t.right[s] # s
        BY <1>1, <1>6, NodeFacts
      <3>3. t.right[r] # r
        BY <1>1, <1>4, NodeFacts
      <3>4. t.left[r] # NULL => t.left[r] # t.right[r]
        BY <1>4, NodeFacts
      <3>5. QED
        BY <1>1, <1>4, <1>6, <1>9, <1>10, <3>1, <3>2, <3>3, <3>4
    <2>2. QED
      BY <1>1, <1>4, <1>6, <1>10, <1>12, <2>1 DEF l, x, y, b
  <1>17. /\ w \in Tree
         /\ w.height[n] = 1 + Higher(l, x)
         /\ w.height[s] = 1 + Higher(w.height[n], u.height[r])
         /\ \A m \in Name \ M : w.left[m] = u.left[m] /\ w.right[m] = u.right[m]
    BY <1>8, <1>12, <1>16 DEF RotationOf
  <1>18. /\ avl_height(t, s) = 1 + Higher(x, y) /\ x - y \in -1..1
         /\ avl_height(t, s) - b \in -1..1 /\ l + 2 = 1 + Higher(avl_height(t, s), b)
    <2>1. Exact(t, s) /\ Exact(t, r)
      BY <1>4, <1>6, <1>8, <1>10
    <2>2. avl_height(t, s) = t.height[s] /\ avl_height(t, r) = t.height[r]
      BY <1>1, <1>4, <1>6 DEF avl_height
    <2>3. QED
      BY <1>3, <1>9, <2>1, <2>2 DEF Exact, Even, Measured, x, y, b
  <1>19. /\ w.height[n] = l + 1 /\ u.height[r] = l + 1
         /\ l - x \in -1..1 /\ y - b \in -1..1 /\ w.height[n] - u.height[r] \in -1..1
         /\ w.height[s] = l + 2
    <2> DEFINE k == w.height[n]
               j == u.height[r]
               q == avl_height(t, s)
    <2>1. /\ k = 1 + Higher(l, x) /\ j = 1 + Higher(b, y) /\ w.height[s] = 1 + Higher(k, j)
          /\ q = 1 + Higher(x, y) /\ q \in Nat /\ b < q
          /\ q - b \in -1..1 /\ l + 2 = 1 + Higher(q, b) /\ x - y \in -1..1
      BY <1>3, <1>5, <1>12, <1>17, <1>18
    <2>2. l \in Nat /\ b \in Nat /\ x \in Nat /\ y \in Nat
      BY <1>3, <1>5, <1>7
    <2> HIDE DEF k, j, q
    <2>3. /\ k = l + 1 /\ j = l + 1
          /\ l - x \in -1..1 /\ y - b \in -1..1 /\ k - j \in -1..1
          /\ 1 + Higher(k, j) = l + 2
      BY <2>1, <2>2 DEF Higher
    <2>4. QED
      BY <2>1, <2>3 DEF k, j
  <1>20. w.height[s] \in avl_height(t, r)..(avl_height(t, r) + 1)
    BY <1>3, <1>19
  <1>21. Exact(w, r)
    <2>1. Exact(u, r)
      BY <1>12, <1>16, <1>19 DEF Exact, Even
    <2>2. QED
      BY <1>4, <1>10, <1>14, <2>1
  <1>22. Exact(w, n)
    <2>1. w.left[n] = t.left[n] /\ w.right[n] = t.left[s]
      BY <1>12, <1>13 DEF RotationFrame
    <2>2. \A c \in M \cup {NULL} : c # n /\ c # s => avl_height(w, c) = avl_height(u, c)
      BY <1>13 DEF RotationFrame
    <2>3. t.left[n] # n /\ t.left[s] # n
      <3>1. t.left[n] # n
        BY <1>1, NodeFacts
      <3>2. t.left[s] # NULL => t.parent[t.left[s]] = s
        BY <1>6 DEF Shape, Linked
      <3>3. QED
        BY <1>1, <1>10, <3>1, <3>2
    <2>4. avl_height(w, w.left[n]) = l /\ avl_height(w, w.right[n]) = x
      BY <1>1, <1>6, <1>10, <1>16, <2>1, <2>2, <2>3
    <2>5. QED
      BY <1>14, <1>19, <2>4 DEF Exact, Even
  <1>23. Exact(w, s)
    <2>1. w.left[s] = n /\ w.right[s] = r /\ avl_height(w, n) = w.height[n]
      BY <1>12, <1>13 DEF RotationFrame
    <2>2. \A c \in M \cup {NULL} : c # n /\ c # s => avl_height(w, c) = avl_height(u, c)
      BY <1>13 DEF RotationFrame
    <2>3. avl_height(w, r) = u.height[r]
      BY <1>4, <1>10, <1>12, <2>2
    <2>4. QED
      BY <1>14, <1>19, <2>1, <2>3 DEF Exact, Even
  <1>24. \A m \in M : m # p => Exact(w, m)
    BY <1>8, <1>10, <1>12, <1>14, <1>21, <1>22, <1>23
  <1>25. p # NULL =>
           /\ w.height[p] = t.height[p]
           /\ IF t.left[p] = n THEN w.left[p] = s
              ELSE avl_height(w, w.left[p]) = avl_height(t, t.left[p])
           /\ IF t.right[p] = n THEN w.right[p] = s
              ELSE avl_height(w, w.right[p]) = avl_height(t, t.right[p])
    <2> HAVE p # NULL
    <2>1. p \in M /\ p # n /\ p # s /\ p # r
      <3>1. p # n
        BY <1>4, <1>9, AvlAssumption, RotationNodes DEF Shape, Pointers
      <3>2. QED
        BY <1>1, <1>10, <3>1
    <2>2. /\ t.left[p] # r /\ t.right[p] # r /\ t.left[p] # s /\ t.right[p] # s
      <3>1. /\ t.left[p] # NULL => t.parent[t.left[p]] = p
            /\ t.right[p] # NULL => t.parent[t.right[p]] = p
        BY <2>1 DEF Shape, Linked
      <3>2. QED
        BY <1>1, <1>4, <1>6, <1>10, <2>1, <3>1
    <2>3. u.left[p] = t.left[p] /\ u.right[p] = t.right[p] /\ u.height[p] = t.height[p]
      BY <1>a, <2>1, <2>2 DEF InnerFrame
    <2>4. /\ w.left[p] = IF t.left[p] = n THEN s ELSE t.left[p]
          /\ w.right[p] = IF t.right[p] = n THEN s ELSE t.right[p]
          /\ w.height[p] = u.height[p]
      BY <1>13, <2>1, <2>3 DEF RotationFrame
    <2>5. \A c \in M \cup {NULL} : c # n /\ c # s => avl_height(w, c) = avl_height(u, c)
      BY <1>13 DEF RotationFrame
    <2>6. QED
      BY <1>1, <1>12, <2>1, <2>2, <2>3, <2>4, <2>5
  <1>26. \A m \in Name \ M : w.left[m] = t.left[m] /\ w.right[m] = t.right[m]
    BY <1>12, <1>17
  <1>27. Refitted(t, w, root, M, ord, n, p, s)
    BY <1>6, <1>15, <1>17, <1>24, <1>25, <1>26 DEF Refitted, root1
  <1>28. QED
    BY <1>20, <1>27 DEF r, s

\* y is t after rot_left of n; the field of p that holds n is still to be set.
TurnFacts(t, y, root, M, n, p) ==
  /\ y \in Tree /\ y.parent[n] = t.right[n]
  /\ \A m \in M : m # n /\ m # t.right[n] => y.left[m] = t.left[m] /\ y.right[m] = t.right[m]
  /\ p # NULL => (y.left[p] = n <=> y.right[p] # n)
  /\ \A w : Hung(y, w, p, n, t.right[n]) =>
       RotationOf(t, w, root, IF n = root THEN t.right[n] ELSE root, M, n)

LEMMA TurnLeft ==
  ASSUME NEW t \in Tree, NEW root, NEW M, NEW B, NEW ord, IsOrder(ord),
         Shape(t.left, t.right, t.parent, root, M, B, ord),
         NEW n \in M, t.right[n] # NULL
  PROVE  TurnFacts(t, rot_left(t, n), root, M, n, t.parent[n])
  <1> DEFINE top == t.right[n]
             inner == t.left[top]
             p == t.parent[n]
             y == rot_left(t, n)
  <1>1. /\ top \in M /\ top # n /\ top # t.left[n] /\ t.left[n] # n
        /\ p # n /\ p # top /\ p \in M \cup {NULL}
        /\ inner \in M \cup {NULL} /\ inner # n /\ inner # top
        /\ t.right[top] # n /\ t.right[top] # top
        /\ \A m \in M : t.left[m] = n => t.right[m] # n
    BY RotationNodes
  <1>2. M \subseteq Name /\ NULL \notin Name
    BY AvlAssumption DEF Shape, Pointers
  <1>3. Turned(t, y, n, top, inner)
    BY <1>1, <1>2, RotLeftFields
  <1>4. \A w : Hung(y, w, p, n, top) => RotationOf(t, w, root, IF n = root THEN top ELSE root, M, n)
    BY <1>3, TurnedIsRotation
  <1>5. p # NULL => t.left[p] = n \/ t.right[p] = n
    BY DEF Shape, Linked
  <1> HIDE DEF y, top, inner, p
  <1>6. y \in Tree /\ y.parent[n] = top
    BY <1>1, <1>2, <1>3 DEF Turned
  <1>7. \A m \in M : m # n /\ m # top => y.left[m] = t.left[m] /\ y.right[m] = t.right[m]
    BY <1>2, <1>3 DEF Turned
  <1>8. p # NULL => (y.left[p] = n <=> y.right[p] # n)
    BY <1>1, <1>5, <1>7
  <1>9. QED
    BY <1>4, <1>6, <1>7, <1>8 DEF TurnFacts, top, y, p

LEMMA TurnRight ==
  ASSUME NEW t \in Tree, NEW root, NEW M, NEW B, NEW ord, IsOrder(ord),
         Shape(t.left, t.right, t.parent, root, M, B, ord),
         NEW n \in M, t.left[n] # NULL
  PROVE  /\ rot_right(t, n) \in Tree
         /\ Mirror(rot_right(t, n)) = rot_left(Mirror(t), n)
         /\ TurnFacts(Mirror(t), Mirror(rot_right(t, n)), root, M, n, t.parent[n])
  <1> DEFINE T == Mirror(t)
  <1>1. /\ T \in Tree /\ T.left = t.right /\ T.right = t.left /\ T.parent = t.parent
    BY MirrorFields
  <1>2. IsOrder(Reversed(ord)) /\ Shape(T.left, T.right, T.parent, root, M, B, Reversed(ord))
    BY <1>1, MirrorOrder, MirrorShape
  <1> HIDE DEF T
  <1>3. TurnFacts(T, rot_left(T, n), root, M, n, T.parent[n])
    BY <1>1, <1>2, TurnLeft
  <1>4. /\ T.right[n] \in M /\ T.right[n] # n
        /\ T.left[T.right[n]] \in M \cup {NULL} /\ T.left[T.right[n]] # n
        /\ T.left[T.right[n]] # T.right[n]
    BY <1>1, <1>2, RotationNodes
  <1>5. /\ t.left[n] \in M /\ t.left[n] # n /\ t.right[t.left[n]] \in M \cup {NULL}
        /\ t.right[t.left[n]] # n /\ t.right[t.left[n]] # t.left[n]
    BY <1>1, <1>4
  <1>6. M \subseteq Name
    BY DEF Shape, Pointers
  <1>7. rot_right(t, n) \in Tree /\ Mirror(rot_right(t, n)) = rot_left(T, n)
    BY <1>5, <1>6, MirrorRotation DEF T
  <1>8. QED
    BY <1>1, <1>3, <1>7 DEF T

\* The result of avl_fix_left or avl_fix_right, linked to p.
Fixes(t, v, root, M, ord, n, h) ==
  /\ v \in Tree /\ v.parent[n] \in M
  /\ t.parent[n] # NULL => (v.left[t.parent[n]] = n <=> v.right[t.parent[n]] # n)
  /\ Refitted(t, Relink(v, t.parent[n], n, v.parent[n]), root, M, ord, n, t.parent[n], v.parent[n])
  /\ Relink(v, t.parent[n], n, v.parent[n]).height[v.parent[n]] \in h..(h + 1)

LEMMA FixRight ==
  ASSUME NEW t \in Tree, NEW root, NEW M, NEW B, NEW ord, IsOrder(ord),
         Shape(t.left, t.right, t.parent, root, M, B, ord), NEW n \in M,
         \A m \in M : m # n /\ m # t.parent[n] => Exact(t, m),
         avl_height(t, t.left[n]) + 2 = avl_height(t, t.right[n])
  PROVE  Fixes(t, avl_fix_right(t, n), root, M, ord, n, avl_height(t, t.right[n]))
  <1> DEFINE r == t.right[n]
             s == t.left[r]
             p == t.parent[n]
             l == avl_height(t, t.left[n])
             v == avl_fix_right(t, n)
  <1>1. /\ M \subseteq Name /\ NULL \notin Name /\ p \in M \cup {NULL}
        /\ \A m \in M : t.left[m] \in M \cup {NULL} /\ t.right[m] \in M \cup {NULL}
    BY AvlAssumption DEF Shape, Pointers
  <1>2. avl_height(t, NULL) = 0
    BY DEF avl_height
  <1>3. l \in Nat /\ l + 2 = avl_height(t, r)
    BY <1>1, HeightType
  <1>4. r \in M /\ r # NULL
    BY <1>1, <1>2, <1>3
  <1>5. avl_height(t, s) \in Nat /\ avl_height(t, t.right[r]) \in Nat
    BY <1>1, <1>4, HeightType
  <1>6. CASE ~(avl_height(t, t.right[r]) < avl_height(t, s))
    <2>1. v = rot_left(t, n)
      BY <1>6 DEF avl_fix_right
    <2>2. TurnFacts(t, rot_left(t, n), root, M, n, p)
      BY <1>4, TurnLeft
    <2> DEFINE w == Relink(v, p, n, r)
    <2>3. v \in Tree /\ v.parent[n] = r /\ (p # NULL => (v.left[p] = n <=> v.right[p] # n))
      BY <2>1, <2>2 DEF TurnFacts
    <2> HIDE DEF v
    <2>4. Hung(v, w, p, n, r)
      BY <1>1, <1>4, <2>3, RelinkHangs
    <2>5. RotationOf(t, w, root, IF n = root THEN r ELSE root, M, n)
      BY <2>1, <2>2, <2>4 DEF TurnFacts
    <2> HIDE DEF w
    <2>6. avl_height(t, s) <= avl_height(t, t.right[r])
      BY <1>5, <1>6
    <2>7. /\ Refitted(t, w, root, M, ord, n, p, r)
          /\ w.height[r] \in avl_height(t, r)..(avl_height(t, r) + 1)
      BY <2>5, <2>6, SingleRotation
    <2>8. QED
      BY <1>4, <2>3, <2>7 DEF Fixes, w, v
  <1>7. CASE avl_height(t, t.right[r]) < avl_height(t, s)
    <2> DEFINE y == rot_right(t, r)
               u == [y EXCEPT !.right[n] = s]
    <2>1. v = rot_left(u, n)
      BY <1>7 DEF avl_fix_right
    <2>2. s \in M /\ s # NULL
      BY <1>1, <1>2, <1>4, <1>5, <1>7
    <2>3. y \in Tree /\ TurnFacts(Mirror(t), Mirror(y), root, M, r, t.parent[r])
      BY <1>4, <2>2, TurnRight
    <2> HIDE DEF y
    <2>4. /\ u \in Tree /\ u.left = y.left /\ u.right = [y.right EXCEPT ![n] = s]
          /\ u.parent = y.parent /\ u.height = y.height /\ u.cnt = y.cnt
      BY <1>1, <2>2, <2>3 DEF Tree
    <2> HIDE DEF u
    <2>5. /\ r # n /\ t.parent[r] = n /\ r # t.left[n] /\ s # n
      BY <1>4, RotationNodes
    <2>6. y.left[n] = t.left[n] /\ y.right[n] = r
      <3>1. /\ Mirror(t).left = t.right /\ Mirror(t).right = t.left
            /\ Mirror(y).left = y.right /\ Mirror(y).right = y.left
        BY <2>3, MirrorFields
      <3>2. n # Mirror(t).right[r]
        BY <2>5, <3>1
      <3>3. Mirror(y).left[n] = Mirror(t).left[n] /\ Mirror(y).right[n] = Mirror(t).right[n]
        BY <2>3, <2>5, <3>2 DEF TurnFacts
      <3>4. QED
        BY <3>1, <3>3
    <2>7. Hung(y, u, n, r, s)
      <3>1. y.right \in [Name -> Name \cup {NULL}]
        BY <2>3 DEF Tree
      <3>2. \A x \in Name : /\ u.left[x] = y.left[x]
                            /\ u.right[x] = IF x = n THEN s ELSE y.right[x]
        BY <2>4, <3>1
      <3>3. QED
        BY <2>4, <2>5, <2>6, <3>2 DEF Hung
    <2>8. RotationOf(Mirror(t), Mirror(u), root, root, M, r)
      <3>1. Hung(Mirror(y), Mirror(u), n, r, s)
        BY <2>3, <2>7, MirrorHung
      <3>2. Mirror(t).right[r] = s
        BY MirrorFields
      <3>3. r # root
        BY <1>1, <1>4, <2>5 DEF Shape, Linked
      <3>4. RotationOf(Mirror(t), Mirror(u), root, IF r = root THEN s ELSE root, M, r)
        BY <2>3, <2>5, <3>1, <3>2 DEF TurnFacts
      <3>5. QED
        BY <3>3, <3>4
    <2>9. /\ InnerFrame(t, u, M, n, r, s)
          /\ \E B1 : Shape(u.left, u.right, u.parent, root, M, B1, ord)
      BY <1>4, <2>2, <2>4, <2>8, InnerRotation
    <2>10. u.right[n] = s /\ u.parent[n] = p
      BY <2>9 DEF InnerFrame
    <2>11. TurnFacts(u, rot_left(u, n), root, M, n, p)
      BY <2>2, <2>4, <2>9, <2>10, TurnLeft
    <2> DEFINE w == Relink(v, p, n, s)
    <2>12. v \in Tree /\ v.parent[n] = s /\ (p # NULL => (v.left[p] = n <=> v.right[p] # n))
      BY <2>1, <2>10, <2>11 DEF TurnFacts
    <2> HIDE DEF v
    <2>13. Hung(v, w, p, n, s)
      BY <1>1, <2>2, <2>12, RelinkHangs
    <2>14. RotationOf(u, w, root, IF n = root THEN s ELSE root, M, n)
      BY <2>1, <2>10, <2>11, <2>13 DEF TurnFacts
    <2> HIDE DEF w
    <2>15. /\ Refitted(t, w, root, M, ord, n, p, s)
           /\ w.height[s] \in avl_height(t, r)..(avl_height(t, r) + 1)
      BY <1>7, <2>4, <2>8, <2>14, DoubleRotation
    <2>16. QED
      BY <2>2, <2>12, <2>15 DEF Fixes, w, v
  <1>8. QED
    BY <1>6, <1>7

LEMMA MirrorRefitted ==
  ASSUME NEW t \in Tree, NEW w \in Tree, NEW root, NEW M, M \subseteq Name, NEW ord,
         NEW n, NEW p, NEW top,
         Refitted(Mirror(t), Mirror(w), root, M, Reversed(ord), n, p, top)
  PROVE  Refitted(t, w, root, M, ord, n, p, top)
  <1> DEFINE T == Mirror(t)
             W == Mirror(w)
             root1 == IF n = root THEN top ELSE root
  <1>1. /\ T.left = t.right /\ T.right = t.left /\ T.height = t.height
        /\ \A x : avl_height(T, x) = avl_height(t, x)
    BY MirrorFields
  <1>2. /\ W.left = w.right /\ W.right = w.left /\ W.parent = w.parent /\ W.height = w.height
        /\ \A x : avl_height(W, x) = avl_height(w, x)
    BY MirrorFields
  <1>3. \A m \in M : Exact(W, m) <=> Exact(w, m)
    BY MirrorExact
  <1>4. Refitted(T, W, root, M, Reversed(ord), n, p, top)
    OBVIOUS
  <1> HIDE DEF T, W
  <1>5. IsTree(w, root1, M, ord)
    <2>1. PICK B : Shape(W.left, W.right, W.parent, root1, M, B, Reversed(ord))
      BY <1>4 DEF Refitted, IsTree
    <2> HIDE DEF root1
    <2>2. Shape(w.left, w.right, w.parent, root1, M, B, ord)
      BY <1>2, <2>1, UnmirrorShape
    <2>3. QED
      BY <2>2 DEF IsTree
  <1>6. \A m \in M : m # p => Exact(w, m)
    BY <1>3, <1>4 DEF Refitted
  <1>7. top \in M
    BY <1>4 DEF Refitted
  <1>8. \A m \in Name \ M : w.left[m] = t.left[m] /\ w.right[m] = t.right[m]
    BY <1>1, <1>2, <1>4 DEF Refitted
  <1>9. p # NULL =>
          /\ w.height[p] = t.height[p]
          /\ IF t.left[p] = n THEN w.left[p] = top
             ELSE avl_height(w, w.left[p]) = avl_height(t, t.left[p])
          /\ IF t.right[p] = n THEN w.right[p] = top
             ELSE avl_height(w, w.right[p]) = avl_height(t, t.right[p])
    BY <1>1, <1>2, <1>4 DEF Refitted
  <1>10. QED
    BY <1>5, <1>6, <1>7, <1>8, <1>9 DEF Refitted

LEMMA MirrorRelink ==
  ASSUME NEW v \in Tree, NEW p \in Name \cup {NULL}, NEW n, NEW m \in Name \cup {NULL},
         p # NULL => (v.left[p] = n <=> v.right[p] # n)
  PROVE  /\ Relink(v, p, n, m) \in Tree
         /\ Mirror(Relink(v, p, n, m)) = Relink(Mirror(v), p, n, m)
  <1> DEFINE V == Mirror(v)
             w == Relink(v, p, n, m)
             W == Mirror(w)
             X == Relink(V, p, n, m)
  <1>1. /\ V \in Tree /\ V.left = v.right /\ V.right = v.left /\ V.parent = v.parent
        /\ V.height = v.height /\ V.cnt = v.cnt
    BY MirrorFields
  <1> HIDE DEF V
  <1>2. Hung(v, w, p, n, m)
    BY RelinkHangs
  <1>3. Hung(V, X, p, n, m)
    BY <1>1, RelinkHangs
  <1>4. w \in Tree
    BY <1>2 DEF Hung
  <1>5. Hung(V, W, p, n, m)
    BY <1>2, MirrorHung DEF V
  <1> HIDE DEF w, W, X
  <1>6. X \in Tree /\ W \in Tree
    BY <1>3, <1>5 DEF Hung
  <1>7. /\ X.left \in [Name -> Name \cup {NULL}] /\ W.left \in [Name -> Name \cup {NULL}]
        /\ X.right \in [Name -> Name \cup {NULL}] /\ W.right \in [Name -> Name \cup {NULL}]
    BY <1>6 DEF Tree
  <1>8. \A x \in Name : X.left[x] = W.left[x] /\ X.right[x] = W.right[x]
    BY <1>3, <1>5 DEF Hung
  <1>9. X.left = W.left /\ X.right = W.right
    BY <1>7, <1>8
  <1>10. /\ X.parent = W.parent
         /\ \A x \in Name : X.height[x] = W.height[x] /\ X.cnt[x] = W.cnt[x]
    BY <1>3, <1>5 DEF Hung
  <1>11. W = X
    BY <1>6, <1>9, <1>10, TreeEq
  <1>12. QED
    BY <1>4, <1>11 DEF w, W, X, V

\* avl_fix_left is avl_fix_right, seen in a mirror.
LEMMA MirrorFix ==
  ASSUME NEW t \in Tree, NEW root, NEW M, NEW B, NEW ord, IsOrder(ord),
         Shape(t.left, t.right, t.parent, root, M, B, ord), NEW n \in M,
         t.left[n] \in M,
         avl_height(t, t.left[t.left[n]]) < avl_height(t, t.right[t.left[n]])
           => t.right[t.left[n]] \in M
  PROVE  /\ avl_fix_left(t, n) \in Tree
         /\ Mirror(avl_fix_left(t, n)) = avl_fix_right(Mirror(t), n)
  <1> DEFINE l == t.left[n]
             s == t.right[l]
             T == Mirror(t)
  <1>1. M \subseteq Name /\ NULL \notin Name
    BY AvlAssumption DEF Shape, Pointers
  <1>2. /\ T \in Tree /\ T.left = t.right /\ T.right = t.left /\ T.parent = t.parent
        /\ \A x : avl_height(T, x) = avl_height(t, x)
        /\ Mirror(T) = t
    BY MirrorFields
  <1>3. IsOrder(Reversed(ord)) /\ Shape(T.left, T.right, T.parent, root, M, B, Reversed(ord))
    BY <1>2, MirrorOrder, MirrorShape
  <1>4. CASE ~(avl_height(t, t.left[l]) < avl_height(t, s))
    <2>1. avl_fix_left(t, n) = rot_right(t, n)
      BY <1>4 DEF avl_fix_left
    <2>2. avl_fix_right(T, n) = rot_left(T, n)
      <3> HIDE DEF T
      <3>1. ~(avl_height(T, T.right[T.right[n]]) < avl_height(T, T.left[T.right[n]]))
        BY <1>2, <1>4
      <3>2. QED
        BY <3>1 DEF avl_fix_right
    <2>3. rot_right(t, n) \in Tree /\ Mirror(rot_right(t, n)) = rot_left(T, n)
      BY <1>1, TurnRight
    <2>4. QED
      BY <2>1, <2>2, <2>3
  <1>5. CASE avl_height(t, t.left[l]) < avl_height(t, s)
    <2> DEFINE y == rot_left(t, l)
               u == [y EXCEPT !.left[n] = s]
               Y == rot_right(T, l)
               U == [Y EXCEPT !.right[n] = s]
    <2>1. avl_fix_left(t, n) = rot_right(u, n)
      BY <1>5 DEF avl_fix_left
    <2>2. avl_fix_right(T, n) = rot_left(U, n)
      <3> HIDE DEF T
      <3>1. /\ avl_height(T, T.right[T.right[n]]) < avl_height(T, T.left[T.right[n]])
            /\ T.right[n] = l /\ T.left[l] = s
        BY <1>2, <1>5
      <3>2. QED
        BY <3>1 DEF avl_fix_right
    <2>3. s \in M /\ l \in M
      BY <1>5
    <2> HIDE DEF T
    <2>4. Y \in Tree /\ Mirror(Y) = rot_left(Mirror(T), l)
      <3>1. T.left[l] # NULL
        BY <1>1, <1>2, <2>3
      <3>2. QED
        BY <1>2, <1>3, <2>3, <3>1, TurnRight
    <2>5. Mirror(Y) = y
      BY <1>2, <2>4
    <2>6. /\ Mirror(Y).left = Y.right /\ Mirror(Y).right = Y.left /\ Mirror(Y).parent = Y.parent
          /\ Mirror(Y).height = Y.height /\ Mirror(Y).cnt = Y.cnt /\ Mirror(Y) \in Tree
      BY <2>4, MirrorFields
    <2> HIDE DEF y, Y
    <2>7. /\ u \in Tree /\ u.right = y.right /\ u.left = [y.left EXCEPT ![n] = s]
          /\ u.parent = y.parent /\ u.height = y.height /\ u.cnt = y.cnt
      BY <1>1, <2>3, <2>5, <2>6 DEF Tree
    <2>8. /\ U \in Tree /\ U.left = Y.left /\ U.right = [Y.right EXCEPT ![n] = s]
          /\ U.parent = Y.parent /\ U.height = Y.height /\ U.cnt = Y.cnt
      BY <1>1, <2>3, <2>4 DEF Tree
    <2> HIDE DEF u, U
    <2>9. Mirror(u) = U
      <3>1. /\ Mirror(u).left = u.right /\ Mirror(u).right = u.left
            /\ Mirror(u).parent = u.parent
            /\ Mirror(u).height = u.height /\ Mirror(u).cnt = u.cnt /\ Mirror(u) \in Tree
        BY <2>7, MirrorFields
      <3>2. /\ Mirror(u).left = U.left /\ Mirror(u).right = U.right
            /\ Mirror(u).parent = U.parent
            /\ \A m \in Name : Mirror(u).height[m] = U.height[m] /\ Mirror(u).cnt[m] = U.cnt[m]
        BY <2>5, <2>6, <2>7, <2>8, <3>1
      <3>3. QED
        BY <2>8, <3>1, <3>2, TreeEq
    <2>10. s # n /\ s # l /\ l # n /\ t.right[s] \in M \cup {NULL} /\ t.right[s] # n /\ t.right[s] # s
      <3>1. n \notin B[l] /\ l # n
        BY <1>1, <2>3, NodeFacts
      <3>2. B[s] \subseteq B[l] /\ s # l
        BY <1>1, <2>3, NodeFacts
      <3>3. /\ B[t.right[s]] \subseteq B[s] /\ s \in B[s]
            /\ t.right[s] # NULL => t.right[s] \in B[t.right[s]] /\ t.right[s] # s
        BY <2>3, NodeFacts
      <3>4. t.right[s] \in M \cup {NULL} /\ n # NULL /\ s # NULL
        BY <1>1, <2>3 DEF Shape, Pointers
      <3>5. QED
        BY <3>1, <3>2, <3>3, <3>4
    <2>11. u.left[n] = s /\ u.right[s] = t.right[s]
      <3>1. TurnFacts(t, y, root, M, l, t.parent[l])
        BY <1>1, <2>3, TurnLeft DEF y
      <3>2. Turned(t, y, l, s, t.left[s])
        <4>1. /\ s \in M /\ s # l /\ s # t.left[l] /\ t.left[l] # l
              /\ t.left[s] \in M \cup {NULL} /\ t.left[s] # l /\ t.left[s] # s
              /\ t.right[s] # l /\ t.right[s] # s
          BY <1>1, <2>3, RotationNodes
        <4>2. QED
          BY <1>1, <2>3, <4>1, RotLeftFields DEF y
      <3>3. y.right[s] = t.right[s]
        BY <1>1, <2>3, <2>10, <3>2 DEF Turned
      <3>4. y.left \in [Name -> Name \cup {NULL}]
        BY <2>5, <2>6 DEF Tree
      <3>5. QED
        BY <1>1, <2>7, <3>3, <3>4
    <2>12. rot_right(u, n) \in Tree /\ Mirror(rot_right(u, n)) = rot_left(Mirror(u), n)
      BY <1>1, <2>3, <2>7, <2>10, <2>11, MirrorRotation
    <2>13. QED
      BY <2>1, <2>2, <2>9, <2>12 DEF T
  <1>6. QED
    BY <1>4, <1>5

LEMMA FixLeft ==
  ASSUME NEW t \in Tree, NEW root, NEW M, NEW B, NEW ord, IsOrder(ord),
         Shape(t.left, t.right, t.parent, root, M, B, ord), NEW n \in M,
         \A m \in M : m # n /\ m # t.parent[n] => Exact(t, m),
         avl_height(t, t.left[n]) = avl_height(t, t.right[n]) + 2
  PROVE  Fixes(t, avl_fix_left(t, n), root, M, ord, n, avl_height(t, t.left[n]))
  <1> DEFINE l == t.left[n]
             p == t.parent[n]
             T == Mirror(t)
             v == avl_fix_left(t, n)
             V == avl_fix_right(T, n)
  <1>1. /\ M \subseteq Name /\ NULL \notin Name /\ p \in M \cup {NULL}
        /\ \A m \in M : t.left[m] \in M \cup {NULL} /\ t.right[m] \in M \cup {NULL}
    BY AvlAssumption DEF Shape, Pointers
  <1>2. avl_height(t, NULL) = 0
    BY DEF avl_height
  <1>3. avl_height(t, t.right[n]) \in Nat
    BY <1>1, HeightType
  <1>4. l \in M
    BY <1>1, <1>2, <1>3
  <1>5. avl_height(t, t.left[l]) < avl_height(t, t.right[l]) => t.right[l] \in M
    <2>1. avl_height(t, t.left[l]) \in Nat
      BY <1>1, <1>4, HeightType
    <2>2. QED
      BY <1>1, <1>2, <1>4, <2>1
  <1>6. v \in Tree /\ Mirror(v) = V
    BY <1>4, <1>5, MirrorFix
  <1>7. /\ T \in Tree /\ T.left = t.right /\ T.right = t.left /\ T.parent = t.parent
        /\ \A x : avl_height(T, x) = avl_height(t, x)
    BY MirrorFields
  <1>8. IsOrder(Reversed(ord)) /\ Shape(T.left, T.right, T.parent, root, M, B, Reversed(ord))
    BY <1>7, MirrorOrder, MirrorShape
  <1>9. \A m \in M : m # n /\ m # T.parent[n] => Exact(T, m)
    BY <1>1, <1>7, MirrorExact
  <1> HIDE DEF T, v, V
  <1>10. avl_height(T, T.left[n]) + 2 = avl_height(T, T.right[n])
    BY <1>7
  <1>11. Fixes(T, V, root, M, Reversed(ord), n, avl_height(t, l))
    <2>1. Fixes(T, V, root, M, Reversed(ord), n, avl_height(T, T.right[n]))
      BY <1>7, <1>8, <1>9, <1>10, FixRight DEF V
    <2>2. QED
      BY <1>7, <2>1
  <1>12. /\ V.left = v.right /\ V.right = v.left /\ V.parent = v.parent
    BY <1>6, MirrorFields
  <1>13. /\ v.parent[n] \in M /\ (p # NULL => (v.left[p] = n <=> v.right[p] # n))
         /\ Refitted(T, Relink(V, p, n, v.parent[n]), root, M, Reversed(ord), n, p, v.parent[n])
         /\ Relink(V, p, n, v.parent[n]).height[v.parent[n]]
              \in avl_height(t, l)..(avl_height(t, l) + 1)
    BY <1>7, <1>11, <1>12 DEF Fixes
  <1> DEFINE w == Relink(v, p, n, v.parent[n])
  <1>14. w \in Tree /\ Mirror(w) = Relink(V, p, n, v.parent[n])
    BY <1>1, <1>6, <1>13, MirrorRelink
  <1>15. Mirror(w).height = w.height
    BY <1>14, MirrorFields
  <1> HIDE DEF w
  <1>16. Refitted(t, w, root, M, ord, n, p, v.parent[n])
    <2>1. Refitted(Mirror(t), Mirror(w), root, M, Reversed(ord), n, p, v.parent[n])
      BY <1>13, <1>14 DEF T
    <2>2. QED
      BY <1>1, <1>14, <2>1, MirrorRefitted
  <1>17. w.height[v.parent[n]] \in avl_height(t, l)..(avl_height(t, l) + 1)
    BY <1>13, <1>14, <1>15
  <1>18. QED
    BY <1>6, <1>13, <1>16, <1>17 DEF Fixes, w, v

-----------------------------------------------------------------------------
(* The turns of avl_fix *)

\* n had height h when its parent was last updated; since then one of its
\* subtrees has grown or shrunk by at most one.
Near(t, n, h) ==
  LET l == avl_height(t, t.left[n])
      r == avl_height(t, t.right[n])
  IN /\ l - r \in -2..2
     /\ l - r \in -1..1 => h \in Higher(l, r)..(Higher(l, r) + 2)
     /\ l - r \notin -1..1 => h \in Higher(l, r)..(Higher(l, r) + 1)

\* p is balanced and has the right height if its child n has height h.
HeightAs(t, c, n, h) == IF c = n THEN h ELSE avl_height(t, c)

Waiting(t, p, n, h) ==
  LET l == HeightAs(t, t.left[p], n, h)
      r == HeightAs(t, t.right[p], n, h)
  IN l - r \in -1..1 /\ t.height[p] = 1 + Higher(l, r)

\* The tree when avl_fix is at n: only n and its parent are not exact.
Fixing(t, M, n) ==
  \E h \in Nat : /\ Near(t, n, h)
                 /\ t.parent[n] # NULL => Waiting(t, t.parent[n], n, h)
                 /\ \A m \in M : m # n /\ m # t.parent[n] => Exact(t, m)

LEMMA ClimbHeights ==
  ASSUME NEW a \in Nat, NEW b \in Nat, NEW c \in Nat, a - b \in -1..1, c - a \in -1..1,
         NEW h, h = 1 + Higher(a, b)
  PROVE  /\ c - b \in -2..2 /\ b - c \in -2..2 /\ h \in Nat
         /\ c - b \in -1..1 => h \in Higher(c, b)..(Higher(c, b) + 2)
         /\ c - b \notin -1..1 => h \in Higher(c, b)..(Higher(c, b) + 1)
  BY DEF Higher

\* When the subtree of n is in order, its parent is next.
LEMMA Climb ==
  ASSUME NEW t \in Tree, NEW w \in Tree, NEW root, NEW M, NEW ord, IsOrder(ord), NEW n,
         NEW p \in M, NEW top,
         Refitted(t, w, root, M, ord, n, p, top),
         {t.left[p], t.right[p]} \subseteq M \cup {NULL}, M \subseteq Name,
         t.left[p] = n <=> t.right[p] # n,
         NEW h \in Nat, Waiting(t, p, n, h), w.height[top] - h \in -1..1
  PROVE  Fixing(w, M, p)
  <1> DEFINE a == avl_height(t, t.left[p])
             b == avl_height(t, t.right[p])
             c == w.height[top]
             k == w.height[p]
             pp == w.parent[p]
  <1>1. /\ top \in M /\ k = t.height[p] /\ \A m \in M : m # p => Exact(w, m)
        /\ IF t.left[p] = n THEN w.left[p] = top ELSE avl_height(w, w.left[p]) = a
        /\ IF t.right[p] = n THEN w.right[p] = top ELSE avl_height(w, w.right[p]) = b
    BY AvlAssumption DEF Refitted
  <1>2. NULL \notin Name /\ avl_height(w, top) = c /\ c \in Nat /\ avl_height(w, p) = k
    BY <1>1, AvlAssumption DEF avl_height, Tree
  <1>3. a \in Nat /\ b \in Nat
    <2>1. t.left[p] \in Name \cup {NULL} /\ t.right[p] \in Name \cup {NULL}
      OBVIOUS
    <2>2. QED
      BY <2>1, HeightType
  <1>4. PICK root1, B : Shape(w.left, w.right, w.parent, root1, M, B, ord)
    BY DEF Refitted, IsTree
  <1>5. c - h \in -1..1
    OBVIOUS
  <1>6. Near(w, p, k) /\ k \in Nat
    <2>1. CASE t.left[p] = n
      <3>1. avl_height(w, w.left[p]) = c /\ avl_height(w, w.right[p]) = b
        BY <1>1, <1>2, <2>1
      <3>2. h - b \in -1..1 /\ t.height[p] = 1 + Higher(h, b)
        BY <2>1 DEF Waiting, HeightAs
      <3> HIDE DEF a, b, c, k
      <3>3. /\ c - b \in -2..2 /\ k \in Nat
            /\ c - b \in -1..1 => k \in Higher(c, b)..(Higher(c, b) + 2)
            /\ c - b \notin -1..1 => k \in Higher(c, b)..(Higher(c, b) + 1)
        BY <1>1, <1>2, <1>3, <1>5, <3>2, ClimbHeights
      <3>4. QED
        BY <3>1, <3>3 DEF Near
    <2>2. CASE t.left[p] # n
      <3>1. avl_height(w, w.left[p]) = a /\ avl_height(w, w.right[p]) = c
        BY <1>1, <1>2, <2>2
      <3>2. a - h \in -1..1 /\ t.height[p] = 1 + Higher(a, h)
        BY <2>2 DEF Waiting, HeightAs
      <3> HIDE DEF a, b, c, k
      <3>3. h - a \in -1..1 /\ t.height[p] = 1 + Higher(h, a) /\ Higher(c, a) = Higher(a, c)
        BY <1>2, <1>3, <3>2, HigherFacts
      <3>4. /\ a - c \in -2..2 /\ k \in Nat
            /\ c - a \in -1..1 => k \in Higher(c, a)..(Higher(c, a) + 2)
            /\ c - a \notin -1..1 => k \in Higher(c, a)..(Higher(c, a) + 1)
        BY <1>1, <1>2, <1>3, <1>5, <3>3, ClimbHeights
      <3>5. a - c \in -1..1 <=> c - a \in -1..1
        BY <1>2, <1>3
      <3>6. QED
        BY <3>1, <3>3, <3>4, <3>5 DEF Near
    <2>3. QED
      BY <2>1, <2>2
  <1>7. pp # NULL => Waiting(w, pp, p, k)
    <2> HAVE pp # NULL
    <2>1. pp \in M /\ (w.left[pp] = p \/ w.right[pp] = p)
      BY <1>4 DEF Shape, Pointers, Linked
    <2>2. pp # p
      <3>1. p # NULL /\ (w.left[p] # NULL => w.left[p] # p) /\ (w.right[p] # NULL => w.right[p] # p)
        BY <1>4, NodeFacts
      <3>2. QED
        BY <2>1, <3>1
    <2>3. Exact(w, pp)
      BY <1>1, <2>1, <2>2
    <2>4. \A x : HeightAs(w, x, p, k) = avl_height(w, x)
      BY <1>2 DEF HeightAs
    <2>5. QED
      BY <2>3, <2>4 DEF Waiting, Exact, Even, Measured
  <1>8. \A m \in M : m # p => Exact(w, m)
    BY <1>1
  <1>9. QED
    BY <1>6, <1>7, <1>8 DEF Fixing

LEMMA RelinkSame ==
  ASSUME NEW v \in Tree, NEW p \in Name \cup {NULL}, NEW n \in Name,
         p # NULL => (v.left[p] = n <=> v.right[p] # n)
  PROVE  Relink(v, p, n, n) = v
  <1> DEFINE w == Relink(v, p, n, n)
  <1>1. Hung(v, w, p, n, n)
    BY RelinkHangs
  <1> HIDE DEF w
  <1>2. w \in Tree
    BY <1>1 DEF Hung
  <1>3. /\ v.left \in [Name -> Name \cup {NULL}] /\ w.left \in [Name -> Name \cup {NULL}]
        /\ v.right \in [Name -> Name \cup {NULL}] /\ w.right \in [Name -> Name \cup {NULL}]
    BY <1>2 DEF Tree
  <1>4. \A x \in Name : w.left[x] = v.left[x] /\ w.right[x] = v.right[x]
    BY <1>1 DEF Hung
  <1>5. w.left = v.left /\ w.right = v.right
    BY <1>3, <1>4
  <1>6. w.parent = v.parent /\ w.height = v.height /\ w.cnt = v.cnt
    BY <1>1 DEF Hung
  <1>7. w = v
    BY <1>2, <1>5, <1>6, TreeEq
  <1>8. QED
    BY <1>7 DEF w

\* The child field of a parent that holds n is one of the two.
LEMMA OneSide ==
  ASSUME NEW lc, NEW rc, NEW par, NEW root, NEW M, NEW B, NEW ord, IsOrder(ord),
         Shape(lc, rc, par, root, M, B, ord), NEW n \in M, par[n] # NULL
  PROVE  /\ par[n] \in M /\ par[n] # n
         /\ lc[par[n]] = n <=> rc[par[n]] # n
         /\ \A m \in M : m # par[n] => lc[m] # n /\ rc[m] # n
  <1>1. /\ par[n] \in M /\ (lc[par[n]] = n \/ rc[par[n]] = n) /\ n # NULL
        /\ \A m \in M : lc[m] # NULL => par[lc[m]] = m
        /\ \A m \in M : rc[m] # NULL => par[rc[m]] = m
    BY AvlAssumption DEF Shape, Pointers, Linked
  <1>2. lc[n] # n /\ rc[n] # n
    BY <1>1, NodeFacts
  <1>3. lc[par[n]] # NULL => lc[par[n]] # rc[par[n]]
    BY <1>1, NodeFacts
  <1>4. QED
    BY <1>1, <1>2, <1>3

\* What a turn of avl_fix does.
TurnDone(t, f, root, M, ord, n, p) ==
  /\ f.tree \in Tree /\ f.top \in M
  /\ IsTree(f.tree, IF p = NULL THEN f.top ELSE root, M, ord)
  /\ p = NULL => \A m \in M : Exact(f.tree, m)
  /\ p # NULL => p \in M /\ Fixing(f.tree, M, p)
  /\ \A m \in Name \ M : f.tree.left[m] = t.left[m] /\ f.tree.right[m] = t.right[m]

LEMMA FixNodeFacts ==
  ASSUME NEW t \in Tree, NEW root, NEW M, NEW ord, IsOrder(ord),
         IsTree(t, root, M, ord), NEW n \in M, Fixing(t, M, n)
  PROVE  TurnDone(t, FixNode(t, n), root, M, ord, n, t.parent[n])
  <1>1. PICK B : Shape(t.left, t.right, t.parent, root, M, B, ord)
    BY DEF IsTree
  <1>2. PICK h \in Nat : /\ Near(t, n, h)
                         /\ t.parent[n] # NULL => Waiting(t, t.parent[n], n, h)
                         /\ \A m \in M : m # n /\ m # t.parent[n] => Exact(t, m)
    BY DEF Fixing
  <1> DEFINE p == t.parent[n]
             u == avl_update(t, n)
             l == avl_height(t, t.left[n])
             r == avl_height(t, t.right[n])
             v == IF l = r + 2 THEN avl_fix_left(u, n)
                  ELSE IF l + 2 = r THEN avl_fix_right(u, n) ELSE u
             top == IF l = r + 2 \/ l + 2 = r THEN v.parent[n] ELSE n
             w == Relink(v, p, n, top)
  <1>3. /\ M \subseteq Name /\ NULL \notin Name /\ p \in M \cup {NULL} /\ n # NULL
        /\ \A m \in M : t.left[m] \in M \cup {NULL} /\ t.right[m] \in M \cup {NULL}
    BY <1>1, AvlAssumption DEF Shape, Pointers
  <1>4. l \in Nat /\ r \in Nat
    BY <1>3, HeightType
  <1>5. Updated(t, u, n)
    BY <1>3, UpdateFields
  <1>6. /\ u \in Tree /\ u.left = t.left /\ u.right = t.right /\ u.parent = t.parent
        /\ u.height[n] = 1 + Higher(l, r)
        /\ \A m \in Name : m # n => u.height[m] = t.height[m] /\ u.cnt[m] = t.cnt[m]
    BY <1>5 DEF Updated
  <1>7. \A c \in M \cup {NULL} : c # n =>
          avl_height(u, c) = avl_height(t, c) /\ avl_cnt(u, c) = avl_cnt(t, c)
    <2> HIDE DEF u
    <2>1. QED
      BY <1>3, <1>6 DEF avl_height, avl_cnt
  <1>8. t.left[n] # n /\ t.right[n] # n
    BY <1>1, <1>3, NodeFacts
  <1>9. /\ avl_height(u, u.left[n]) = l /\ avl_height(u, u.right[n]) = r
        /\ avl_cnt(u, u.left[n]) = avl_cnt(t, t.left[n])
        /\ avl_cnt(u, u.right[n]) = avl_cnt(t, t.right[n])
    <2> HIDE DEF u
    <2>1. QED
      BY <1>3, <1>6, <1>7, <1>8
  <1>10. FixNode(t, n) = [tree |-> w, top |-> top]
    BY <1>9 DEF FixNode
  <1>11. Shape(u.left, u.right, u.parent, root, M, B, ord)
    BY <1>1, <1>6
  <1>12. /\ \A m \in M : m # p => t.left[m] # n /\ t.right[m] # n
         /\ p # NULL => p \in M /\ p # n /\ (t.left[p] = n <=> t.right[p] # n)
    <2>1. CASE p = NULL
      <3>1. /\ \A m \in M : t.left[m] # NULL => t.parent[t.left[m]] = m
            /\ \A m \in M : t.right[m] # NULL => t.parent[t.right[m]] = m
        BY <1>1 DEF Shape, Linked
      <3>2. QED
        BY <1>3, <2>1, <3>1
    <2>2. CASE p # NULL
      BY <1>1, <2>2, OneSide
    <2>3. QED
      BY <2>1, <2>2
  <1>13. \A m \in M : m # n /\ m # u.parent[n] => Exact(u, m)
    <2> SUFFICES ASSUME NEW m \in M, m # n, m # p PROVE Exact(u, m)
      BY <1>6
    <2> HIDE DEF u
    <2>1. Exact(t, m)
      BY <1>2
    <2>2. /\ u.height[m] = t.height[m] /\ u.cnt[m] = t.cnt[m]
          /\ u.left[m] = t.left[m] /\ u.right[m] = t.right[m]
      BY <1>3, <1>6
    <2>3. t.left[m] # n /\ t.right[m] # n
      BY <1>12
    <2>4. /\ avl_height(u, t.left[m]) = avl_height(t, t.left[m])
          /\ avl_cnt(u, t.left[m]) = avl_cnt(t, t.left[m])
          /\ avl_height(u, t.right[m]) = avl_height(t, t.right[m])
          /\ avl_cnt(u, t.right[m]) = avl_cnt(t, t.right[m])
      BY <1>3, <1>7, <2>3
    <2>5. QED
      BY <2>1, <2>2, <2>4, ExactFrame
  <1>14. /\ l - r \in -2..2
         /\ l - r \in -1..1 => h \in Higher(l, r)..(Higher(l, r) + 2)
         /\ l - r \notin -1..1 => h \in Higher(l, r)..(Higher(l, r) + 1)
    BY <1>2 DEF Near
  <1> HIDE DEF u, l, r
  <1>15. /\ Refitted(u, w, root, M, ord, n, p, top)
         /\ w.height[top] - h \in -1..1
    <2>1. CASE l = r + 2
      <3>1. v = avl_fix_left(u, n) /\ top = v.parent[n]
        BY <2>1
      <3>2. avl_height(u, u.left[n]) = avl_height(u, u.right[n]) + 2
        BY <1>9, <2>1
      <3>3. Fixes(u, avl_fix_left(u, n), root, M, ord, n, l)
        BY <1>6, <1>9, <1>11, <1>13, <3>2, FixLeft
      <3>4. Refitted(u, w, root, M, ord, n, p, top) /\ w.height[top] \in l..(l + 1)
        <4> HIDE DEF v, top
        <4>1. QED
          BY <1>6, <3>1, <3>3 DEF Fixes
      <3>5. h \in l..(l + 1)
        BY <1>4, <1>14, <2>1 DEF Higher
      <3> HIDE DEF w, top
      <3>6. QED
        BY <1>4, <3>4, <3>5
    <2>2. CASE l + 2 = r
      <3>0. ~(l = r + 2)
        BY <1>4, <2>2
      <3>1. v = avl_fix_right(u, n) /\ top = v.parent[n]
        BY <2>2, <3>0
      <3>2. avl_height(u, u.left[n]) + 2 = avl_height(u, u.right[n])
        BY <1>9, <2>2
      <3>3. Fixes(u, avl_fix_right(u, n), root, M, ord, n, r)
        BY <1>6, <1>9, <1>11, <1>13, <3>2, FixRight
      <3>4. Refitted(u, w, root, M, ord, n, p, top) /\ w.height[top] \in r..(r + 1)
        <4> HIDE DEF v, top
        <4>1. QED
          BY <1>6, <3>1, <3>3 DEF Fixes
      <3>5. h \in r..(r + 1)
        BY <1>4, <1>14, <2>2 DEF Higher
      <3> HIDE DEF w, top
      <3>6. QED
        BY <1>4, <3>4, <3>5
    <2>3. CASE ~(l = r + 2) /\ ~(l + 2 = r)
      <3>1. v = u /\ top = n
        BY <2>3
      <3>2. w = u
        <4>1. p # NULL => (u.left[p] = n <=> u.right[p] # n)
          BY <1>6, <1>12
        <4>2. Relink(u, p, n, n) = u
          BY <1>3, <1>6, <4>1, RelinkSame
        <4>3. QED
          BY <3>1, <4>2
      <3>3. l - r \in -1..1 /\ h \in Higher(l, r)..(Higher(l, r) + 2)
        BY <1>4, <1>14, <2>3
      <3>4. u.height[n] - h \in -1..1
        <4>1. Higher(l, r) \in Nat
          BY <1>4, HigherFacts
        <4>2. h \in Nat
          BY <1>2
        <4>3. QED
          BY <1>6, <3>3, <4>1, <4>2
      <3>5. Exact(u, n)
        <4>1. Even(u, n)
          BY <1>9, <3>3 DEF Even
        <4>2. Measured(u, n)
          BY <1>5, <1>6, <1>9 DEF Measured, Updated, l, r
        <4>3. QED
          BY <4>1, <4>2 DEF Exact
      <3>6. \A m \in M : m # p => Exact(u, m)
        BY <1>6, <1>13, <3>5
      <3>7. Refitted(u, u, root, M, ord, n, p, n)
        <4>1. IsTree(u, IF n = root THEN n ELSE root, M, ord)
          BY <1>11 DEF IsTree
        <4>2. QED
          BY <1>6, <3>6, <4>1 DEF Refitted
      <3>8. QED
        BY <3>1, <3>2, <3>4, <3>7
    <2>4. QED
      BY <2>1, <2>2, <2>3
  <1> HIDE DEF v, top, w
  <1>16. /\ w \in Tree /\ top \in M /\ IsTree(w, IF n = root THEN top ELSE root, M, ord)
         /\ \A m \in M : m # p => Exact(w, m)
         /\ \A m \in Name \ M : w.left[m] = t.left[m] /\ w.right[m] = t.right[m]
    BY <1>6, <1>15 DEF Refitted
  <1>17. IsTree(w, IF p = NULL THEN top ELSE root, M, ord)
    <2>1. p = NULL <=> n = root
      BY <1>1 DEF Shape, Linked
    <2>2. QED
      BY <1>16, <2>1
  <1>18. p = NULL => \A m \in M : Exact(w, m)
    BY <1>3, <1>16
  <1>19. p # NULL => p \in M /\ Fixing(w, M, p)
    <2> HAVE p # NULL
    <2>1. p \in M /\ p # n /\ (u.left[p] = n <=> u.right[p] # n)
      BY <1>6, <1>12
    <2>2. {u.left[p], u.right[p]} \subseteq M \cup {NULL}
      BY <1>3, <1>6, <2>1
    <2>3. Waiting(u, p, n, h)
      <3>1. Waiting(t, p, n, h)
        BY <1>2
      <3>2. /\ u.height[p] = t.height[p] /\ u.left[p] = t.left[p] /\ u.right[p] = t.right[p]
        BY <1>3, <1>6, <2>1
      <3>3. \A c \in M \cup {NULL} : HeightAs(u, c, n, h) = HeightAs(t, c, n, h)
        BY <1>7 DEF HeightAs
      <3>4. QED
        BY <1>3, <2>1, <3>1, <3>2, <3>3 DEF Waiting
    <2> HIDE DEF p
    <2>4. Fixing(w, M, p)
      BY <1>2, <1>3, <1>6, <1>15, <1>16, <2>1, <2>2, <2>3, Climb
    <2>5. QED
      BY <2>1, <2>4
  <1>20. QED
    BY <1>10, <1>16, <1>17, <1>18, <1>19 DEF TurnDone

-----------------------------------------------------------------------------
(* Paths *)

\* The subtree of a node of a subtree is part of it.
LEMMA Nesting ==
  ASSUME NEW lc, NEW rc, NEW par, NEW root, NEW M, NEW B, NEW ord, IsOrder(ord),
         Shape(lc, rc, par, root, M, B, ord), NEW c \in M, NEW m \in B[c]
  PROVE  m \in M /\ B[m] \subseteq B[c]
  <1> DEFINE T == {n \in M : \E x \in B[n] : ~(B[x] \subseteq B[n])}
  <1>1. T = {}
    <2> SUFFICES ASSUME T # {} PROVE FALSE
      OBVIOUS
    <2>1. PICK n \in T : lc[n] \notin T /\ rc[n] \notin T
      BY TreeMin
    <2>2. /\ B[n] = {n} \cup B[lc[n]] \cup B[rc[n]] /\ B[NULL] = {}
          /\ lc[n] \in M \cup {NULL} /\ rc[n] \in M \cup {NULL}
      BY DEF Shape, Subtrees, Pointers
    <2>3. /\ \A x \in B[lc[n]] : B[x] \subseteq B[lc[n]]
          /\ \A x \in B[rc[n]] : B[x] \subseteq B[rc[n]]
      BY <2>1, <2>2
    <2>4. QED
      BY <2>2, <2>3
  <1>2. m \in M
    BY NodeFacts
  <1>3. QED
    BY <1>1, <1>2

\* A node of a subtree other than its root has its parent there.
LEMMA ParentInside ==
  ASSUME NEW lc, NEW rc, NEW par, NEW root, NEW M, NEW B, NEW ord, IsOrder(ord),
         Shape(lc, rc, par, root, M, B, ord), NEW c \in M, NEW m \in B[c], m # c
  PROVE  par[m] \in B[c]
  <1> DEFINE T == {n \in M : \E x \in B[n] : x # n /\ par[x] \notin B[n]}
  <1>1. T = {}
    <2> SUFFICES ASSUME T # {} PROVE FALSE
      OBVIOUS
    <2>1. PICK n \in T : lc[n] \notin T /\ rc[n] \notin T
      BY TreeMin
    <2>2. /\ B[n] = {n} \cup B[lc[n]] \cup B[rc[n]] /\ B[NULL] = {}
          /\ lc[n] \in M \cup {NULL} /\ rc[n] \in M \cup {NULL}
          /\ lc[n] # NULL => par[lc[n]] = n
          /\ rc[n] # NULL => par[rc[n]] = n
      BY DEF Shape, Subtrees, Pointers, Linked
    <2>3. /\ \A x \in B[lc[n]] : x # lc[n] => par[x] \in B[lc[n]]
          /\ \A x \in B[rc[n]] : x # rc[n] => par[x] \in B[rc[n]]
      BY <2>1, <2>2
    <2>4. \A x \in B[n] : x # n => par[x] \in B[n]
      BY <2>2, <2>3
    <2>5. QED
      BY <2>1, <2>4
  <1>2. QED
    BY <1>1

\* Induction from the root: a set of nodes has one whose parent is not in it.
LEMMA TreeMax ==
  ASSUME NEW lc, NEW rc, NEW par, NEW root, NEW M, NEW B, NEW ord, IsOrder(ord),
         Shape(lc, rc, par, root, M, B, ord),
         NEW T, T \subseteq M, T # {}
  PROVE  \E m \in T : par[m] \notin T
  <1> DEFINE rest(m) == Cardinality(M) - Cardinality(B[m])
             S == {rest(m) : m \in T}
  <1>1. \A m \in M : /\ B[m] \subseteq M /\ IsFiniteSet(B[m]) /\ Cardinality(B[m]) \in Nat
                     /\ Cardinality(M) \in Nat /\ Cardinality(B[m]) <= Cardinality(M)
    <2> SUFFICES ASSUME NEW m \in M
                 PROVE  /\ B[m] \subseteq M /\ IsFiniteSet(B[m]) /\ Cardinality(B[m]) \in Nat
                        /\ Cardinality(M) \in Nat /\ Cardinality(B[m]) <= Cardinality(M)
      OBVIOUS
    <2>1. B[m] \subseteq M /\ IsFiniteSet(M)
      BY DEF Shape, Pointers, Subtrees
    <2>2. IsFiniteSet(B[m]) /\ Cardinality(B[m]) <= Cardinality(M)
      BY <2>1, FS_Subset
    <2>3. QED
      BY <2>1, <2>2, FS_CardinalityType
  <1>2. S \subseteq Nat /\ S # {}
    BY <1>1
  <1>3. PICK k \in S : \A y \in S : k <= y
    BY <1>2, LeastNumber
  <1>4. PICK m \in T : k = rest(m)
    OBVIOUS
  <1> SUFFICES ASSUME par[m] \in T PROVE FALSE
    OBVIOUS
  <1> DEFINE q == par[m]
  <1>5. q \in M /\ (lc[q] = m \/ rc[q] = m)
    BY AvlAssumption DEF Shape, Pointers, Linked
  <1>6. B[m] \subseteq B[q] /\ q \in B[q] /\ q \notin B[m]
    BY <1>5, NodeFacts
  <1>7. Cardinality(B[m]) < Cardinality(B[q])
    <2>1. /\ Cardinality(B[m]) <= Cardinality(B[q])
          /\ Cardinality(B[m]) = Cardinality(B[q]) => B[m] = B[q]
      BY <1>1, <1>5, <1>6, FS_Subset
    <2>2. QED
      BY <1>1, <1>5, <1>6, <2>1
  <1>8. rest(m) <= rest(q)
    BY <1>3, <1>4
  <1>9. QED
    BY <1>1, <1>5, <1>7, <1>8

\* The nodes between two nodes of a subtree are in the subtree.
LEMMA Convex ==
  ASSUME NEW lc, NEW rc, NEW par, NEW root, NEW M, NEW B, NEW ord, IsOrder(ord),
         Shape(lc, rc, par, root, M, B, ord), NEW c \in M,
         NEW a \in B[c], NEW b \in B[c], NEW m \in M, <<a, m>> \in ord, <<m, b>> \in ord
  PROVE  m \in B[c]
  <1> DEFINE Between(n) == \A x, y \in B[n] : \A z \in M :
                             <<x, z>> \in ord /\ <<z, y>> \in ord => z \in B[n]
             T == {n \in M : ~Between(n)}
  <1>1. T = {}
    <2> SUFFICES ASSUME T # {} PROVE FALSE
      OBVIOUS
    <2>1. PICK n \in T : par[n] \notin T
      <3> HIDE DEF Between
      <3>1. QED
        BY TreeMax
    <2>2. PICK x \in B[n], y \in B[n], z \in M : <<x, z>> \in ord /\ <<z, y>> \in ord /\ z \notin B[n]
      OBVIOUS
    <2> DEFINE p == par[n]
    <2>3. n # root
      BY <2>2 DEF Shape, Subtrees
    <2>4. p \in M /\ (lc[p] = n \/ rc[p] = n)
      BY <2>3 DEF Shape, Pointers, Linked
    <2>5. Between(p)
      BY <2>1, <2>4
    <2>6. B[n] \subseteq B[p] /\ B[p] = {p} \cup B[lc[p]] \cup B[rc[p]]
      BY <2>4 DEF Shape, Subtrees
    <2>7. z \in B[p]
      BY <2>2, <2>5, <2>6
    <2>8. x \in Name /\ y \in Name /\ z \in Name /\ p \in Name
      BY <2>4, NodeFacts DEF Shape, Pointers
    <2>9. CASE lc[p] = n
      <3>1. <<y, p>> \in ord
        BY <2>4, <2>9 DEF Shape, Sorted
      <3>2. <<z, p>> \in ord
        BY <2>2, <2>8, <3>1 DEF IsOrder
      <3>3. z # p /\ z \notin B[rc[p]]
        <4>1. z \in B[rc[p]] => <<p, z>> \in ord
          BY <2>4 DEF Shape, Sorted
        <4>2. QED
          BY <2>8, <3>2, <4>1 DEF IsOrder
      <3>4. QED
        BY <2>2, <2>6, <2>7, <2>9, <3>3
    <2>10. CASE rc[p] = n
      <3>1. <<p, x>> \in ord
        BY <2>4, <2>10 DEF Shape, Sorted
      <3>2. <<p, z>> \in ord
        BY <2>2, <2>8, <3>1 DEF IsOrder
      <3>3. z # p /\ z \notin B[lc[p]]
        <4>1. z \in B[lc[p]] => <<z, p>> \in ord
          BY <2>4 DEF Shape, Sorted
        <4>2. QED
          BY <2>8, <3>2, <4>1 DEF IsOrder
      <3>4. QED
        BY <2>2, <2>6, <2>7, <2>10, <3>3
    <2>11. QED
      BY <2>4, <2>9, <2>10
  <1>2. Between(c)
    BY <1>1
  <1>3. QED
    BY <1>2

-----------------------------------------------------------------------------
(* The successor *)

\* x is the first node of the subtree of c.
IsLeast(B, ord, c, x) == x \in B[c] /\ \A y \in B[c] : y = x \/ <<x, y>> \in ord

LEMMA LeastFacts ==
  ASSUME NEW lc, NEW rc, NEW par, NEW root, NEW M, NEW B, NEW ord, IsOrder(ord),
         Shape(lc, rc, par, root, M, B, ord), NEW c \in M
  PROVE  /\ lc[c] = NULL => IsLeast(B, ord, c, c)
         /\ lc[c] # NULL => \A x : IsLeast(B, ord, lc[c], x) => IsLeast(B, ord, c, x)
         /\ \A x : IsLeast(B, ord, c, x) => x \in M /\ lc[x] = NULL
         /\ \A x, y : IsLeast(B, ord, c, x) /\ IsLeast(B, ord, c, y) => x = y
  <1>1. /\ B[c] = {c} \cup B[lc[c]] \cup B[rc[c]] /\ B[NULL] = {} /\ B[c] \subseteq M
        /\ M \subseteq Name
        /\ \A m \in B[lc[c]] : <<m, c>> \in ord
        /\ \A m \in B[rc[c]] : <<c, m>> \in ord
    BY DEF Shape, Subtrees, Sorted, Pointers
  <1>2. lc[c] = NULL => IsLeast(B, ord, c, c)
    BY <1>1 DEF IsLeast
  <1>3. ASSUME NEW x, lc[c] # NULL, IsLeast(B, ord, lc[c], x)
        PROVE  IsLeast(B, ord, c, x)
    <2>1. x \in B[lc[c]] /\ \A y \in B[lc[c]] : y = x \/ <<x, y>> \in ord
      BY <1>3 DEF IsLeast
    <2>2. <<x, c>> \in ord /\ x \in Name /\ c \in Name
      BY <1>1, <2>1
    <2>3. \A y \in B[rc[c]] : <<x, y>> \in ord
      BY <1>1, <2>2 DEF IsOrder
    <2>4. QED
      BY <1>1, <2>1, <2>2, <2>3 DEF IsLeast
  <1>4. ASSUME NEW x, IsLeast(B, ord, c, x)
        PROVE  x \in M /\ lc[x] = NULL
    <2>1. x \in M /\ x \in B[c]
      BY <1>1, <1>4 DEF IsLeast
    <2>2. SUFFICES ASSUME lc[x] # NULL PROVE FALSE
      BY <2>1
    <2>3. lc[x] \in B[lc[x]] /\ B[lc[x]] \subseteq B[x] /\ lc[x] # x
      BY <2>1, <2>2, NodeFacts
    <2>4. B[x] \subseteq B[c]
      BY <2>1, Nesting
    <2>5. <<x, lc[x]>> \in ord
      BY <1>4, <2>3, <2>4 DEF IsLeast
    <2>6. <<lc[x], x>> \in ord
      BY <2>1, <2>3 DEF Shape, Sorted
    <2>7. x \in Name /\ lc[x] \in Name
      BY <1>1, <2>1, <2>3, <2>4
    <2>8. <<x, x>> \in ord
      BY <2>5, <2>6, <2>7 DEF IsOrder
    <2>9. QED
      BY <2>7, <2>8 DEF IsOrder
  <1>5. ASSUME NEW x, NEW y, IsLeast(B, ord, c, x), IsLeast(B, ord, c, y), x # y
        PROVE  FALSE
    <2>1. <<x, y>> \in ord /\ <<y, x>> \in ord /\ x \in Name /\ y \in Name
      BY <1>1, <1>5 DEF IsLeast
    <2>2. <<x, x>> \in ord
      BY <2>1 DEF IsOrder
    <2>3. QED
      BY <2>1, <2>2 DEF IsOrder
  <1>6. QED
    BY <1>2, <1>3, <1>4, <1>5

LEMMA LeastExists ==
  ASSUME NEW lc, NEW rc, NEW par, NEW root, NEW M, NEW B, NEW ord, IsOrder(ord),
         Shape(lc, rc, par, root, M, B, ord), NEW c \in M
  PROVE  \E x : IsLeast(B, ord, c, x)
  <1> DEFINE T == {n \in M : ~ \E x : IsLeast(B, ord, n, x)}
  <1>1. T = {}
    <2> SUFFICES ASSUME T # {} PROVE FALSE
      OBVIOUS
    <2>1. PICK n \in T : lc[n] \notin T /\ rc[n] \notin T
      BY TreeMin
    <2>2. lc[n] # NULL => lc[n] \in M
      BY NodeFacts
    <2>3. QED
      BY <2>1, <2>2, LeastFacts
  <1>2. QED
    BY <1>1

\* The loop of avl_del ends at the first node of the right subtree.
LEMMA SuccessorFacts ==
  ASSUME NEW t \in Tree, NEW root, NEW M, NEW B, NEW ord, IsOrder(ord),
         Shape(t.left, t.right, t.parent, root, M, B, ord),
         \A m \in Name \ M : t.left[m] = NULL,
         NEW n \in M, t.right[n] # NULL
  PROVE  IsLeast(B, ord, t.right[n], Successor(t, n))
  <1> DEFINE Eq(g) == [m \in Name |-> IF t.left[m] = NULL THEN m ELSE g[t.left[m]]]
             Least(m) == CHOOSE x : IsLeast(B, ord, m, x)
             f == [m \in Name |-> IF m \in M THEN Least(m) ELSE m]
  <1>1. M \subseteq Name /\ t.right[n] \in M
        /\ \A m \in M : t.left[m] \in M \cup {NULL}
    BY DEF Shape, Pointers
  <1>2. \A m \in M : IsLeast(B, ord, m, Least(m))
    BY LeastExists
  <1> HIDE DEF Least
  <1>3. f = Eq(f)
    <2>1. ASSUME NEW m \in Name
          PROVE  f[m] = Eq(f)[m]
      <3>1. CASE m \notin M
        BY <2>1, <3>1
      <3>2. CASE m \in M /\ t.left[m] = NULL
        <4>1. IsLeast(B, ord, m, m)
          BY <3>2, LeastFacts
        <4>2. Least(m) = m
          BY <1>2, <3>2, <4>1, LeastFacts
        <4>3. QED
          BY <3>2, <4>2
      <3>3. CASE m \in M /\ t.left[m] # NULL
        <4>1. t.left[m] \in M
          BY <1>1, <3>3
        <4>2. IsLeast(B, ord, m, Least(t.left[m]))
          BY <1>2, <3>3, <4>1, LeastFacts
        <4>3. Least(m) = Least(t.left[m])
          BY <1>2, <3>3, <4>2, LeastFacts
        <4>4. QED
          BY <1>1, <3>3, <4>1, <4>3
      <3>4. QED
        BY <3>1, <3>2, <3>3
    <2>2. QED
      BY <2>1
  <1> HIDE DEF f
  <1>4. PICK g : g = Eq(g) /\ Successor(t, n) = g[t.right[n]]
    <2> HIDE DEF Eq
    <2>1. \E g : g = Eq(g)
      BY <1>3
    <2>2. QED
      BY <2>1 DEF Successor, Eq
  <1>5. \A m \in M : g[m] = IF t.left[m] = NULL THEN m ELSE g[t.left[m]]
    BY <1>1, <1>4
  <1> DEFINE T == {m \in M : ~IsLeast(B, ord, m, g[m])}
  <1>6. T = {}
    <2> SUFFICES ASSUME T # {} PROVE FALSE
      OBVIOUS
    <2>1. PICK m \in T : t.left[m] \notin T /\ t.right[m] \notin T
      BY TreeMin
    <2>2. t.left[m] # NULL => t.left[m] \in M
      BY <1>1
    <2>3. QED
      BY <1>5, <2>1, <2>2, LeastFacts
  <1>7. IsLeast(B, ord, t.right[n], g[t.right[n]])
    BY <1>1, <1>6
  <1> HIDE DEF Eq
  <1>8. Successor(t, n) = g[t.right[n]]
    BY <1>4
  <1>9. QED
    BY <1>7, <1>8

\* Nothing else is between a node and the first node of its right subtree.
LEMMA SuccessorIsNext ==
  ASSUME NEW lc, NEW rc, NEW par, NEW root, NEW M, NEW B, NEW ord, IsOrder(ord),
         Shape(lc, rc, par, root, M, B, ord), NEW n \in M, rc[n] # NULL,
         NEW v, IsLeast(B, ord, rc[n], v)
  PROVE  /\ v \in M /\ v # n /\ lc[v] = NULL
         /\ \A m \in M : m # n /\ m # v => (<<m, n>> \in ord <=> <<m, v>> \in ord)
  <1>1. rc[n] \in M /\ n \in B[n] /\ B[rc[n]] \subseteq B[n] /\ n \notin B[rc[n]]
    BY NodeFacts
  <1>2. v \in B[rc[n]] /\ v \in M /\ lc[v] = NULL
    BY <1>1, LeastFacts DEF IsLeast
  <1>3. <<n, v>> \in ord /\ M \subseteq Name
    BY <1>2 DEF Shape, Sorted, Pointers
  <1>4. ASSUME NEW m \in M, m # n, m # v, <<m, v>> \in ord, <<m, n>> \notin ord
        PROVE  FALSE
    <2>1. <<n, m>> \in ord
      BY <1>3, <1>4 DEF IsOrder
    <2>2. m \in B[n]
      BY <1>1, <1>2, <1>4, <2>1, Convex
    <2>3. m \notin B[lc[n]]
      <3>1. m \in B[lc[n]] => <<m, n>> \in ord
        BY DEF Shape, Sorted
      <3>2. QED
        BY <1>4, <3>1
    <2>4. m \in B[rc[n]]
      BY <1>4, <2>2, <2>3 DEF Shape, Subtrees
    <2>5. <<v, m>> \in ord
      BY <1>4, <2>4 DEF IsLeast
    <2>6. m \in Name /\ v \in Name
      BY <1>2, <1>3
    <2>7. <<m, m>> \in ord
      BY <1>4, <2>5, <2>6 DEF IsOrder
    <2>8. QED
      BY <2>6, <2>7 DEF IsOrder
  <1>5. ASSUME NEW m \in M, <<m, n>> \in ord
        PROVE  <<m, v>> \in ord
    <2>1. m \in Name /\ n \in Name /\ v \in Name
      BY <1>2, <1>3
    <2>2. QED
      BY <1>3, <1>5, <2>1 DEF IsOrder
  <1>6. QED
    BY <1>1, <1>2, <1>4, <1>5

-----------------------------------------------------------------------------
(* A new leaf *)

\* The search for the place of x has come to `node'.
OnPath(lc, rc, M, B, ord, node, x) ==
  /\ node \in M
  /\ \A m \in M : /\ node \in B[lc[m]] => <<x, m>> \in ord
                  /\ node \in B[rc[m]] => <<m, x>> \in ord

LEMMA PathStarts ==
  ASSUME NEW lc, NEW rc, NEW par, NEW root, NEW M, NEW B, NEW ord, IsOrder(ord),
         Shape(lc, rc, par, root, M, B, ord), root # NULL, NEW x
  PROVE  OnPath(lc, rc, M, B, ord, root, x)
  <1>1. root \in M /\ B[root] = M
    BY DEF Shape, Pointers, Subtrees
  <1>2. ASSUME NEW m \in M
        PROVE  root \notin B[lc[m]] /\ root \notin B[rc[m]]
    <2>1. /\ m \notin B[lc[m]] /\ m \notin B[rc[m]]
          /\ lc[m] # NULL => lc[m] \in M
          /\ rc[m] # NULL => rc[m] \in M
      BY NodeFacts
    <2>2. B[NULL] = {}
      BY DEF Shape, Subtrees
    <2>3. lc[m] # NULL /\ root \in B[lc[m]] => B[root] \subseteq B[lc[m]]
      BY <2>1, Nesting
    <2>4. rc[m] # NULL /\ root \in B[rc[m]] => B[root] \subseteq B[rc[m]]
      BY <2>1, Nesting
    <2>5. QED
      BY <1>1, <2>1, <2>2, <2>3, <2>4
  <1>3. QED
    BY <1>1, <1>2 DEF OnPath

LEMMA PathLeft ==
  ASSUME NEW lc, NEW rc, NEW par, NEW root, NEW M, NEW B, NEW ord, IsOrder(ord),
         Shape(lc, rc, par, root, M, B, ord), NEW node, NEW x,
         OnPath(lc, rc, M, B, ord, node, x), lc[node] # NULL, <<x, node>> \in ord
  PROVE  OnPath(lc, rc, M, B, ord, lc[node], x)
  <1> DEFINE c == lc[node]
  <1>1. node \in M /\ \A m \in M : /\ node \in B[lc[m]] => <<x, m>> \in ord
                                   /\ node \in B[rc[m]] => <<m, x>> \in ord
    BY DEF OnPath
  <1>2. c \in M /\ c \in B[c] /\ B[c] \cap B[rc[node]] = {} /\ par[c] = node
    BY <1>1, NodeFacts DEF Shape, Linked
  <1>3. \A m \in M : /\ lc[m] # NULL => par[lc[m]] = m /\ lc[m] \in M
                     /\ rc[m] # NULL => par[rc[m]] = m /\ rc[m] \in M
    BY DEF Shape, Linked, Pointers
  <1>4. B[NULL] = {}
    BY DEF Shape, Subtrees
  <1> HIDE DEF c
  <1>5. ASSUME NEW m \in M, c \in B[lc[m]]
        PROVE  <<x, m>> \in ord
    <2>1. CASE m = node
      BY <2>1
    <2>2. CASE m # node
      <3>1. lc[m] # NULL /\ c # lc[m]
        BY <1>2, <1>3, <1>4, <1>5, <2>2
      <3>2. par[c] \in B[lc[m]]
        BY <1>3, <1>5, <3>1, ParentInside
      <3>3. QED
        BY <1>1, <1>2, <3>2
    <2>3. QED
      BY <2>1, <2>2
  <1>6. ASSUME NEW m \in M, c \in B[rc[m]]
        PROVE  <<m, x>> \in ord
    <2>1. m # node
      BY <1>2, <1>6
    <2>2. rc[m] # NULL /\ c # rc[m]
      BY <1>2, <1>3, <1>4, <1>6, <2>1
    <2>3. par[c] \in B[rc[m]]
      BY <1>3, <1>6, <2>2, ParentInside
    <2>4. QED
      BY <1>1, <1>2, <2>3
  <1>7. OnPath(lc, rc, M, B, ord, c, x)
    BY <1>2, <1>5, <1>6 DEF OnPath
  <1>8. QED
    BY <1>7 DEF c

LEMMA MirrorPath ==
  ASSUME NEW lc, NEW rc, NEW par, NEW root, NEW M, NEW B, NEW ord,
         Shape(lc, rc, par, root, M, B, ord), NEW node, NEW x \in Name
  PROVE  OnPath(lc, rc, M, B, ord, node, x) <=> OnPath(rc, lc, M, B, Reversed(ord), node, x)
  <1>1. M \subseteq Name
    BY DEF Shape, Pointers
  <1>2. \A m \in M : /\ <<x, m>> \in Reversed(ord) <=> <<m, x>> \in ord
                     /\ <<m, x>> \in Reversed(ord) <=> <<x, m>> \in ord
    BY <1>1 DEF Reversed
  <1>3. QED
    BY <1>2 DEF OnPath

LEMMA PathRight ==
  ASSUME NEW lc, NEW rc, NEW par, NEW root, NEW M, NEW B, NEW ord, IsOrder(ord),
         Shape(lc, rc, par, root, M, B, ord), NEW node, NEW x \in Name,
         OnPath(lc, rc, M, B, ord, node, x), rc[node] # NULL, <<node, x>> \in ord
  PROVE  OnPath(lc, rc, M, B, ord, rc[node], x)
  <1>1. IsOrder(Reversed(ord)) /\ Shape(rc, lc, par, root, M, B, Reversed(ord))
    BY MirrorOrder, MirrorShape
  <1>2. OnPath(rc, lc, M, B, Reversed(ord), node, x)
    BY MirrorPath
  <1>3. <<x, node>> \in Reversed(ord)
    <2>1. node \in Name
      BY DEF OnPath, Shape, Pointers
    <2>2. QED
      BY <2>1 DEF Reversed
  <1>4. OnPath(rc, lc, M, B, Reversed(ord), rc[node], x)
    BY <1>1, <1>2, <1>3, PathLeft
  <1>5. QED
    BY <1>4, MirrorPath

\* x becomes the left child of node.
Attaches(lc, rc, par, M, lc1, rc1, par1, node, x) ==
  /\ lc[node] = NULL /\ lc1[x] = NULL /\ rc1[x] = NULL /\ par1[x] = node
  /\ \A m \in M : /\ lc1[m] = IF m = node THEN x ELSE lc[m]
                  /\ rc1[m] = rc[m] /\ par1[m] = par[m]

LEMMA AttachShape ==
  ASSUME NEW lc, NEW rc, NEW par, NEW root, NEW M, NEW B, NEW ord, IsOrder(ord),
         Shape(lc, rc, par, root, M, B, ord), NEW node, NEW x \in Name, x \notin M,
         OnPath(lc, rc, M, B, ord, node, x), <<x, node>> \in ord,
         NEW lc1, NEW rc1, NEW par1,
         Attaches(lc, rc, par, M, lc1, rc1, par1, node, x)
  PROVE  \E B1 : Shape(lc1, rc1, par1, root, M \cup {x}, B1, ord)
  <1> DEFINE N == M \cup {x}
             B1 == [m \in N \cup {NULL} |->
                     IF m = x THEN {x} ELSE IF node \in B[m] THEN B[m] \cup {x} ELSE B[m]]
  <1>1. /\ lc[node] = NULL /\ lc1[x] = NULL /\ rc1[x] = NULL /\ par1[x] = node
        /\ \A m \in M : /\ lc1[m] = IF m = node THEN x ELSE lc[m]
                        /\ rc1[m] = rc[m] /\ par1[m] = par[m]
    BY DEF Attaches
  <1>2. /\ M \subseteq Name /\ IsFiniteSet(M) /\ root \in M \cup {NULL} /\ NULL \notin Name
        /\ \A m \in M : /\ lc[m] \in M \cup {NULL}
                        /\ rc[m] \in M \cup {NULL}
                        /\ par[m] \in M \cup {NULL}
    BY AvlAssumption DEF Shape, Pointers
  <1>3. \A m \in M : /\ lc[m] # NULL => par[lc[m]] = m
                     /\ rc[m] # NULL => par[rc[m]] = m
                     /\ par[m] = NULL <=> m = root
                     /\ par[m] # NULL => lc[par[m]] = m \/ rc[par[m]] = m
    BY DEF Shape, Linked
  <1>4. /\ B \in [M \cup {NULL} -> SUBSET M] /\ B[NULL] = {} /\ B[root] = M
        /\ \A m \in M : B[m] = {m} \cup B[lc[m]] \cup B[rc[m]]
    BY DEF Shape, Subtrees
  <1>5. \A m \in M : /\ \A y \in B[lc[m]] : <<y, m>> \in ord
                     /\ \A y \in B[rc[m]] : <<m, y>> \in ord
    BY DEF Shape, Sorted
  <1>6. node \in M /\ \A m \in M : /\ node \in B[lc[m]] => <<x, m>> \in ord
                                   /\ node \in B[rc[m]] => <<m, x>> \in ord
    BY DEF OnPath
  <1>7. node \notin B[rc[node]]
    BY <1>6, NodeFacts
  <1>8. Pointers(lc1, rc1, par1, root, N)
    <2>1. IsFiniteSet(N)
      BY <1>2, FS_AddElement
    <2>2. QED
      BY <1>1, <1>2, <1>6, <2>1 DEF Pointers
  <1>9. Linked(lc1, rc1, par1, root, N)
    <2>1. ASSUME NEW m \in M
          PROVE  /\ lc1[m] # NULL => par1[lc1[m]] = m
                 /\ rc1[m] # NULL => par1[rc1[m]] = m
                 /\ par1[m] = NULL <=> m = root
                 /\ par1[m] # NULL => lc1[par1[m]] = m \/ rc1[par1[m]] = m
      BY <1>1, <1>2, <1>3, <1>6
    <2>2. /\ lc1[x] = NULL /\ rc1[x] = NULL /\ par1[x] # NULL /\ x # root
          /\ lc1[par1[x]] = x
      BY <1>1, <1>2, <1>6
    <2>3. QED
      BY <2>1, <2>2 DEF Linked
  <1>10. /\ B1 \in [N \cup {NULL} -> SUBSET N] /\ B1[NULL] = {} /\ B1[x] = {x}
         /\ \A m \in M \cup {NULL} : B1[m] = IF node \in B[m] THEN B[m] \cup {x} ELSE B[m]
    BY <1>2, <1>4
  <1> HIDE DEF B1
  <1>11. Subtrees(lc1, rc1, root, N, B1)
    <2>1. B1[root] = N
      BY <1>2, <1>4, <1>6, <1>10
    <2>2. ASSUME NEW m \in M, m # node
          PROVE  B1[m] = {m} \cup B1[lc1[m]] \cup B1[rc1[m]]
      <3>1. lc1[m] = lc[m] /\ rc1[m] = rc[m]
        BY <1>1, <2>2
      <3>2. node \in B[m] <=> node \in B[lc[m]] \/ node \in B[rc[m]]
        BY <1>4, <2>2
      <3>3. /\ B1[m] = IF node \in B[m] THEN B[m] \cup {x} ELSE B[m]
            /\ B1[lc[m]] = IF node \in B[lc[m]] THEN B[lc[m]] \cup {x} ELSE B[lc[m]]
            /\ B1[rc[m]] = IF node \in B[rc[m]] THEN B[rc[m]] \cup {x} ELSE B[rc[m]]
        BY <1>2, <1>10
      <3>4. B[m] = {m} \cup B[lc[m]] \cup B[rc[m]]
        BY <1>4
      <3>5. CASE node \in B[lc[m]]
        BY <3>1, <3>2, <3>3, <3>4, <3>5
      <3>6. CASE node \notin B[lc[m]]
        BY <3>1, <3>2, <3>3, <3>4, <3>6
      <3>7. QED
        BY <3>5, <3>6
    <2>3. B1[node] = {node} \cup B1[lc1[node]] \cup B1[rc1[node]]
      <3>1. lc1[node] = x /\ rc1[node] = rc[node] /\ node \in B[node]
        BY <1>1, <1>4, <1>6
      <3>2. B1[rc[node]] = B[rc[node]] /\ B1[node] = B[node] \cup {x}
        BY <1>2, <1>6, <1>7, <1>10, <3>1
      <3>3. B[node] = {node} \cup B[rc[node]]
        BY <1>1, <1>4, <1>6
      <3>4. QED
        BY <1>10, <3>1, <3>2, <3>3
    <2>4. B1[x] = {x} \cup B1[lc1[x]] \cup B1[rc1[x]]
      BY <1>1, <1>10
    <2>5. QED
      BY <1>10, <2>1, <2>2, <2>3, <2>4 DEF Subtrees
  <1>12. Sorted(lc1, rc1, N, B1, ord)
    <2>1. ASSUME NEW m \in M, m # node
          PROVE  /\ \A y \in B1[lc1[m]] : <<y, m>> \in ord
                 /\ \A y \in B1[rc1[m]] : <<m, y>> \in ord
      <3>1. lc1[m] = lc[m] /\ rc1[m] = rc[m]
        BY <1>1, <2>1
      <3>2. /\ B1[lc[m]] = IF node \in B[lc[m]] THEN B[lc[m]] \cup {x} ELSE B[lc[m]]
            /\ B1[rc[m]] = IF node \in B[rc[m]] THEN B[rc[m]] \cup {x} ELSE B[rc[m]]
        BY <1>2, <1>10
      <3>3. /\ \A y \in B[lc[m]] : <<y, m>> \in ord
            /\ \A y \in B[rc[m]] : <<m, y>> \in ord
            /\ node \in B[lc[m]] => <<x, m>> \in ord
            /\ node \in B[rc[m]] => <<m, x>> \in ord
        BY <1>5, <1>6
      <3>4. QED
        BY <3>1, <3>2, <3>3
    <2>2. /\ \A y \in B1[lc1[node]] : <<y, node>> \in ord
          /\ \A y \in B1[rc1[node]] : <<node, y>> \in ord
      <3>1. lc1[node] = x /\ rc1[node] = rc[node] /\ rc[node] \in M \cup {NULL}
        BY <1>1, <1>2, <1>6
      <3>2. B1[rc[node]] = B[rc[node]]
        BY <1>7, <1>10, <3>1
      <3>3. \A y \in B[rc[node]] : <<node, y>> \in ord
        BY <1>5, <1>6
      <3>4. QED
        BY <1>10, <3>1, <3>2, <3>3
    <2>3. B1[lc1[x]] = {} /\ B1[rc1[x]] = {}
      BY <1>1, <1>10
    <2>4. QED
      BY <2>1, <2>2, <2>3 DEF Sorted
  <1>13. QED
    BY <1>8, <1>9, <1>11, <1>12 DEF Shape

\* The fields that change when x is linked below node; the sides are left open.
LeafFields(t, w, node, x) ==
  /\ w \in Tree /\ w.height = t.height /\ w.cnt = t.cnt
  /\ w.parent[x] = node
  /\ \A m \in Name : m # x => w.parent[m] = t.parent[m]
  /\ \A m \in Name : m # node => w.left[m] = t.left[m] /\ w.right[m] = t.right[m]

\* A node that is in no tree, as avl_init leaves it.
Fresh(t, x) == t.left[x] = NULL /\ t.right[x] = NULL /\ t.height[x] = 1 /\ t.cnt[x] = 1

\* A new leaf is where avl_fix starts.
LEMMA LeafFixing ==
  ASSUME NEW t \in Tree, NEW M, M \subseteq Name, NEW node \in M, NEW x \in Name, x \notin M,
         \A m \in M : Exact(t, m), \A m \in M : t.left[m] # x /\ t.right[m] # x,
         Fresh(t, x), NEW w, LeafFields(t, w, node, x),
         \/ t.left[node] = NULL /\ w.left[node] = x /\ w.right[node] = t.right[node]
         \/ t.right[node] = NULL /\ w.right[node] = x /\ w.left[node] = t.left[node]
  PROVE  Fixing(w, M \cup {x}, x)
  <1>1. /\ w \in Tree /\ w.height = t.height /\ w.cnt = t.cnt /\ w.parent[x] = node
        /\ \A m \in Name : m # node => w.left[m] = t.left[m] /\ w.right[m] = t.right[m]
    BY DEF LeafFields
  <1>2. \A c : avl_height(w, c) = avl_height(t, c) /\ avl_cnt(w, c) = avl_cnt(t, c)
    BY <1>1 DEF avl_height, avl_cnt
  <1>3. Near(w, x, 0)
    <2>1. w.left[x] = NULL /\ w.right[x] = NULL
      BY <1>1 DEF Fresh
    <2>2. avl_height(w, NULL) = 0 /\ Higher(0, 0) = 0
      BY DEF avl_height, Higher
    <2>3. QED
      BY <2>1, <2>2 DEF Near
  <1>4. Waiting(w, node, x, 0)
    <2>1. x # NULL /\ avl_height(t, NULL) = 0
      BY AvlAssumption DEF avl_height
    <2>2. /\ HeightAs(w, w.left[node], x, 0) = avl_height(t, t.left[node])
          /\ HeightAs(w, w.right[node], x, 0) = avl_height(t, t.right[node])
      BY <1>2, <2>1 DEF HeightAs
    <2>3. Exact(t, node)
      OBVIOUS
    <2>4. QED
      BY <1>1, <2>2, <2>3 DEF Waiting, Exact, Even, Measured
  <1>5. ASSUME NEW m \in M, m # node
        PROVE  Exact(w, m)
    <2>1. Exact(t, m) /\ w.left[m] = t.left[m] /\ w.right[m] = t.right[m]
      BY <1>1, <1>5
    <2>2. QED
      BY <1>1, <1>2, <2>1, ExactFrame
  <1>6. QED
    BY <1>1, <1>3, <1>4, <1>5 DEF Fixing

\* What tree_insert makes of t at the end of the search path.
Grown(t, w, root, M, ord, x) ==
  /\ w \in Tree /\ IsTree(w, root, M \cup {x}, ord) /\ Fixing(w, M \cup {x}, x)
  /\ \A m \in Name : m \notin M => w.left[m] = t.left[m] /\ w.right[m] = t.right[m]

AddLeft(t, node, x)  == [t EXCEPT !.left[node] = x, !.parent[x] = node]
AddRight(t, node, x) == [t EXCEPT !.right[node] = x, !.parent[x] = node]

LEMMA AttachLeft ==
  ASSUME NEW t \in Tree, NEW root, NEW M, NEW B, NEW ord, IsOrder(ord),
         Shape(t.left, t.right, t.parent, root, M, B, ord), \A m \in M : Exact(t, m),
         NEW node, NEW x \in Name, x \notin M, Fresh(t, x),
         OnPath(t.left, t.right, M, B, ord, node, x),
         <<x, node>> \in ord, t.left[node] = NULL
  PROVE  Grown(t, AddLeft(t, node, x), root, M, ord, x)
  <1> DEFINE w == AddLeft(t, node, x)
  <1>1. node \in M /\ M \subseteq Name /\ node # x
        /\ \A m \in M : t.left[m] \in M \cup {NULL} /\ t.right[m] \in M \cup {NULL}
    BY DEF OnPath, Shape, Pointers
  <1>2. /\ w \in Tree /\ w.height = t.height /\ w.cnt = t.cnt /\ w.right = t.right
        /\ \A m \in Name : w.parent[m] = IF m = x THEN node ELSE t.parent[m]
        /\ \A m \in Name : w.left[m] = IF m = node THEN x ELSE t.left[m]
    BY <1>1 DEF Tree, AddLeft
  <1> HIDE DEF w
  <1>3. LeafFields(t, w, node, x)
    BY <1>2 DEF LeafFields
  <1>4. \A m \in M : t.left[m] # x /\ t.right[m] # x
    BY <1>1, AvlAssumption
  <1>5. w.left[node] = x /\ w.right[node] = t.right[node]
    BY <1>1, <1>2
  <1>6. Fixing(w, M \cup {x}, x)
    BY <1>1, <1>3, <1>4, <1>5, LeafFixing
  <1>7. Attaches(t.left, t.right, t.parent, M, w.left, w.right, w.parent, node, x)
    BY <1>1, <1>2 DEF Attaches, Fresh
  <1>8. IsTree(w, root, M \cup {x}, ord)
    BY <1>7, AttachShape DEF IsTree
  <1>9. Grown(t, w, root, M, ord, x)
    BY <1>1, <1>2, <1>6, <1>8 DEF Grown
  <1>10. QED
    BY <1>9 DEF w

LEMMA AttachRight ==
  ASSUME NEW t \in Tree, NEW root, NEW M, NEW B, NEW ord, IsOrder(ord),
         Shape(t.left, t.right, t.parent, root, M, B, ord), \A m \in M : Exact(t, m),
         NEW node, NEW x \in Name, x \notin M, Fresh(t, x),
         OnPath(t.left, t.right, M, B, ord, node, x),
         <<node, x>> \in ord, t.right[node] = NULL
  PROVE  Grown(t, AddRight(t, node, x), root, M, ord, x)
  <1> DEFINE w == AddRight(t, node, x)
  <1>1. node \in M /\ M \subseteq Name /\ node # x
        /\ \A m \in M : t.left[m] \in M \cup {NULL} /\ t.right[m] \in M \cup {NULL}
    BY DEF OnPath, Shape, Pointers
  <1>2. /\ w \in Tree /\ w.height = t.height /\ w.cnt = t.cnt /\ w.left = t.left
        /\ \A m \in Name : w.parent[m] = IF m = x THEN node ELSE t.parent[m]
        /\ \A m \in Name : w.right[m] = IF m = node THEN x ELSE t.right[m]
    BY <1>1 DEF Tree, AddRight
  <1> HIDE DEF w
  <1>3. LeafFields(t, w, node, x)
    BY <1>2 DEF LeafFields
  <1>4. \A m \in M : t.left[m] # x /\ t.right[m] # x
    BY <1>1, AvlAssumption
  <1>5. w.right[node] = x /\ w.left[node] = t.left[node]
    BY <1>1, <1>2
  <1>6. Fixing(w, M \cup {x}, x)
    BY <1>1, <1>3, <1>4, <1>5, LeafFixing
  <1>7. Attaches(t.right, t.left, t.parent, M, w.right, w.left, w.parent, node, x)
    BY <1>1, <1>2 DEF Attaches, Fresh
  <1>8. /\ IsOrder(Reversed(ord)) /\ OnPath(t.right, t.left, M, B, Reversed(ord), node, x)
        /\ Shape(t.right, t.left, t.parent, root, M, B, Reversed(ord))
    BY MirrorOrder, MirrorPath, MirrorShape
  <1>9. <<x, node>> \in Reversed(ord)
    BY <1>1 DEF Reversed
  <1>10. PICK B1 : Shape(w.right, w.left, w.parent, root, M \cup {x}, B1, Reversed(ord))
    BY <1>7, <1>8, <1>9, AttachShape
  <1>11. IsTree(w, root, M \cup {x}, ord)
    BY <1>10, UnmirrorShape DEF IsTree
  <1>12. Grown(t, w, root, M, ord, x)
    BY <1>1, <1>2, <1>6, <1>11 DEF Grown
  <1>13. QED
    BY <1>12 DEF w

\* The first node of an empty tree.
LEMMA AttachRoot ==
  ASSUME NEW t \in Tree, NEW ord, NEW x \in Name, Fresh(t, x)
  PROVE  Grown(t, [t EXCEPT !.parent[x] = NULL], x, {}, ord, x)
  <1> DEFINE w == [t EXCEPT !.parent[x] = NULL]
             B == [m \in {x, NULL} |-> IF m = x THEN {x} ELSE {}]
  <1>1. /\ w \in Tree /\ w.left = t.left /\ w.right = t.right /\ w.parent[x] = NULL
        /\ w.left[x] = NULL /\ w.right[x] = NULL /\ x # NULL
    BY AvlAssumption DEF Tree, Fresh
  <1> HIDE DEF w
  <1>2. Shape(w.left, w.right, w.parent, x, {x}, B, ord)
    <2>1. IsFiniteSet({x})
      BY FS_Singleton
    <2>2. Pointers(w.left, w.right, w.parent, x, {x}) /\ Linked(w.left, w.right, w.parent, x, {x})
      BY <1>1, <2>1 DEF Pointers, Linked
    <2>3. B \in [{x} \cup {NULL} -> SUBSET {x}] /\ B[NULL] = {} /\ B[x] = {x}
      BY <1>1
    <2> HIDE DEF B
    <2>4. Subtrees(w.left, w.right, x, {x}, B) /\ Sorted(w.left, w.right, {x}, B, ord)
      BY <1>1, <2>3 DEF Subtrees, Sorted
    <2>5. QED
      BY <2>2, <2>4 DEF Shape
  <1>3. Fixing(w, {x}, x)
    <2>1. avl_height(w, NULL) = 0 /\ Higher(0, 0) = 0
      BY DEF avl_height, Higher
    <2>2. Near(w, x, 0)
      BY <1>1, <2>1 DEF Near
    <2>3. QED
      BY <1>1, <2>2 DEF Fixing
  <1>4. {} \cup {x} = {x}
    OBVIOUS
  <1>5. Grown(t, w, x, {}, ord, x)
    <2>1. IsTree(w, x, {x}, ord)
      BY <1>2 DEF IsTree
    <2>2. QED
      BY <1>1, <1>3, <1>4, <2>1 DEF Grown
  <1>6. QED
    BY <1>5 DEF w

-----------------------------------------------------------------------------
(* avl_del_easy *)

\* The only child of v, or nothing, takes the place of v.
Unlinks(lc, rc, par, root, M, lc1, rc1, par1, root1, v, child) ==
  /\ \/ lc[v] = NULL /\ child = rc[v]
     \/ rc[v] = NULL /\ child = lc[v]
  /\ root1 = IF v = root THEN child ELSE root
  /\ \A m \in M : m # v =>
       /\ lc1[m] = IF lc[m] = v THEN child ELSE lc[m]
       /\ rc1[m] = IF rc[m] = v THEN child ELSE rc[m]
       /\ par1[m] = IF m = child THEN par[v] ELSE par[m]

LEMMA UnlinkShape ==
  ASSUME NEW lc, NEW rc, NEW par, NEW root, NEW M, NEW B, NEW ord, IsOrder(ord),
         Shape(lc, rc, par, root, M, B, ord), NEW v \in M, NEW child,
         NEW lc1, NEW rc1, NEW par1, NEW root1,
         Unlinks(lc, rc, par, root, M, lc1, rc1, par1, root1, v, child)
  PROVE  \E B1 : Shape(lc1, rc1, par1, root1, M \ {v}, B1, ord)
  <1> DEFINE N == M \ {v}
             B1 == [m \in N \cup {NULL} |-> B[m] \ {v}]
  <1>1. /\ \/ lc[v] = NULL /\ child = rc[v]
           \/ rc[v] = NULL /\ child = lc[v]
        /\ root1 = IF v = root THEN child ELSE root
        /\ \A m \in N : /\ lc1[m] = IF lc[m] = v THEN child ELSE lc[m]
                        /\ rc1[m] = IF rc[m] = v THEN child ELSE rc[m]
                        /\ par1[m] = IF m = child THEN par[v] ELSE par[m]
    BY DEF Unlinks
  <1>2. /\ M \subseteq Name /\ IsFiniteSet(M) /\ root \in M \cup {NULL} /\ NULL \notin Name
        /\ \A m \in M : /\ lc[m] \in M \cup {NULL}
                        /\ rc[m] \in M \cup {NULL}
                        /\ par[m] \in M \cup {NULL}
    BY AvlAssumption DEF Shape, Pointers
  <1>3. \A m \in M : /\ lc[m] # NULL => par[lc[m]] = m
                     /\ rc[m] # NULL => par[rc[m]] = m
                     /\ par[m] = NULL <=> m = root
                     /\ par[m] # NULL => lc[par[m]] = m \/ rc[par[m]] = m
    BY DEF Shape, Linked
  <1>4. /\ B \in [M \cup {NULL} -> SUBSET M] /\ B[NULL] = {} /\ B[root] = M
        /\ \A m \in M : B[m] = {m} \cup B[lc[m]] \cup B[rc[m]]
    BY DEF Shape, Subtrees
  <1>5. /\ v # NULL /\ v \notin B[lc[v]] /\ v \notin B[rc[v]]
        /\ lc[v] # v /\ rc[v] # v /\ \A m \in M : m \in B[m]
    BY <1>2, NodeFacts
  <1>6. /\ child \in N \cup {NULL} /\ B[child] = B[v] \ {v}
        /\ child # NULL => par[child] = v
        /\ \A m \in M : par[m] = v => m = child
    BY <1>1, <1>2, <1>3, <1>4, <1>5
  <1>7. par[v] # v /\ (par[v] # NULL => par[v] # child)
    <2>1. par[v] # v
      BY <1>2, <1>3, <1>5
    <2>2. ASSUME par[v] # NULL, par[v] = child
          PROVE  FALSE
      <3>1. v \in B[child]
        BY <1>2, <1>3, <1>4, <1>5, <2>2
      <3>2. QED
        BY <1>6, <3>1
    <2>3. QED
      BY <2>1, <2>2
  <1>8. Pointers(lc1, rc1, par1, root1, N)
    <2>1. IsFiniteSet(N) /\ N \subseteq Name
      BY <1>2, FS_RemoveElement
    <2>2. root1 \in N \cup {NULL}
      BY <1>1, <1>2, <1>6
    <2>3. ASSUME NEW m \in N
          PROVE  lc1[m] \in N \cup {NULL} /\ rc1[m] \in N \cup {NULL} /\ par1[m] \in N \cup {NULL}
      BY <1>1, <1>2, <1>6, <1>7, <2>3
    <2>4. QED
      BY <2>1, <2>2, <2>3 DEF Pointers
  <1>9. Linked(lc1, rc1, par1, root1, N)
    <2> SUFFICES ASSUME NEW m \in N
                 PROVE  /\ lc1[m] # NULL => par1[lc1[m]] = m
                        /\ rc1[m] # NULL => par1[rc1[m]] = m
                        /\ par1[m] = NULL <=> m = root1
                        /\ par1[m] # NULL => lc1[par1[m]] = m \/ rc1[par1[m]] = m
      BY DEF Linked
    <2>1. lc1[m] # NULL => par1[lc1[m]] = m
      BY <1>1, <1>2, <1>3, <1>5, <1>6
    <2>2. rc1[m] # NULL => par1[rc1[m]] = m
      BY <1>1, <1>2, <1>3, <1>5, <1>6
    <2>3. par1[m] = NULL <=> m = root1
      BY <1>1, <1>2, <1>3, <1>5, <1>6
    <2>4. par1[m] # NULL => lc1[par1[m]] = m \/ rc1[par1[m]] = m
      <3>1. CASE m = child
        <4>1. par1[m] = par[v]
          BY <1>1, <3>1
        <4>2. par[v] # NULL => par[v] \in N /\ (lc[par[v]] = v \/ rc[par[v]] = v)
          BY <1>2, <1>3, <1>7
        <4>3. QED
          BY <1>1, <3>1, <4>1, <4>2
      <3>2. CASE m # child
        <4>1. par1[m] = par[m] /\ par[m] # v /\ m # v
          BY <1>1, <1>6, <3>2
        <4>2. par[m] # NULL => par[m] \in N /\ (lc[par[m]] = m \/ rc[par[m]] = m)
          BY <1>2, <1>3, <4>1
        <4>3. QED
          BY <1>1, <4>1, <4>2
      <3>3. QED
        BY <3>1, <3>2
    <2>5. QED
      BY <2>1, <2>2, <2>3, <2>4
  <1>10. /\ B1 \in [N \cup {NULL} -> SUBSET N] /\ B1[NULL] = {}
         /\ \A m \in N \cup {NULL} : B1[m] = B[m] \ {v}
    BY <1>2, <1>4
  <1> HIDE DEF B1
  <1>11. B1[child] = B[v] \ {v}
    BY <1>6, <1>10
  <1>12. \A m \in N : B1[lc1[m]] = B[lc[m]] \ {v} /\ B1[rc1[m]] = B[rc[m]] \ {v}
    <2> TAKE m \in N
    <2>1. /\ lc1[m] = IF lc[m] = v THEN child ELSE lc[m]
          /\ rc1[m] = IF rc[m] = v THEN child ELSE rc[m]
          /\ lc[m] \in M \cup {NULL} /\ rc[m] \in M \cup {NULL}
      BY <1>1, <1>2
    <2>2. /\ lc[m] # v => B1[lc[m]] = B[lc[m]] \ {v}
          /\ rc[m] # v => B1[rc[m]] = B[rc[m]] \ {v}
      BY <1>10, <2>1
    <2>3. QED
      BY <1>11, <2>1, <2>2
  <1>13. Subtrees(lc1, rc1, root1, N, B1)
    <2>1. B1[root1] = N
      <3>1. CASE v = root
        BY <1>1, <1>4, <1>11, <3>1
      <3>2. CASE v # root
        <4>1. root1 = root /\ root \in N \cup {NULL}
          BY <1>1, <1>2, <3>2
        <4>2. QED
          BY <1>4, <1>10, <4>1
      <3>3. QED
        BY <3>1, <3>2
    <2>2. ASSUME NEW m \in N
          PROVE  B1[m] = {m} \cup B1[lc1[m]] \cup B1[rc1[m]]
      <3>1. B1[m] = B[m] \ {v} /\ B[m] = {m} \cup B[lc[m]] \cup B[rc[m]] /\ m # v
        BY <1>4, <1>10
      <3>2. B1[lc1[m]] = B[lc[m]] \ {v} /\ B1[rc1[m]] = B[rc[m]] \ {v}
        BY <1>12
      <3>3. QED
        BY <3>1, <3>2
    <2>3. QED
      BY <1>10, <2>1, <2>2 DEF Subtrees
  <1>14. Sorted(lc1, rc1, N, B1, ord)
    <2>1. \A m \in M : /\ \A y \in B[lc[m]] : <<y, m>> \in ord
                       /\ \A y \in B[rc[m]] : <<m, y>> \in ord
      BY DEF Shape, Sorted
    <2>2. QED
      BY <1>12, <2>1 DEF Sorted
  <1>15. QED
    BY <1>8, <1>9, <1>13, <1>14 DEF Shape

\* The fields that avl_del_easy changes.
UnlinkFields(t, w, v, child) ==
  /\ w \in Tree /\ w.height = t.height /\ w.cnt = t.cnt
  /\ \A m \in Name : /\ w.parent[m] = IF m = child THEN t.parent[v] ELSE t.parent[m]
                     /\ w.left[m] = IF m = t.parent[v] /\ t.left[m] = v THEN child ELSE t.left[m]
                     /\ w.right[m] = IF m = t.parent[v] /\ t.left[m] # v THEN child ELSE t.right[m]

LEMMA UnlinkMakes ==
  ASSUME NEW t \in Tree, NEW v \in Name
  PROVE  /\ Unlink(t, v).child = IF t.left[v] # NULL THEN t.left[v] ELSE t.right[v]
         /\ UnlinkFields(t, Unlink(t, v).tree, v, Unlink(t, v).child)
  <1> DEFINE child == IF t.left[v] # NULL THEN t.left[v] ELSE t.right[v]
             p == t.parent[v]
             u == IF child = NULL THEN t ELSE [t EXCEPT !.parent[child] = p]
             w == Relink(u, p, v, child)
  <1>1. Unlink(t, v).tree = w /\ Unlink(t, v).child = child
    BY DEF Unlink
  <1>2. child \in Name \cup {NULL} /\ p \in Name \cup {NULL} /\ NULL \notin Name
    BY AvlAssumption DEF Tree
  <1> HIDE DEF child, p
  <1>3. /\ u \in Tree /\ u.left = t.left /\ u.right = t.right /\ u.height = t.height /\ u.cnt = t.cnt
        /\ \A m \in Name : u.parent[m] = IF m = child THEN p ELSE t.parent[m]
    BY <1>2 DEF Tree
  <1> HIDE DEF u
  <1>4. Relinked(u, w, p, v, child)
    BY <1>2, <1>3, RelinkFields
  <1> HIDE DEF w
  <1>5. UnlinkFields(t, w, v, child)
    BY <1>3, <1>4 DEF Relinked, UnlinkFields, p
  <1>6. QED
    BY <1>1, <1>5 DEF child

\* What avl_del_easy makes of t before it calls avl_fix.
Shrunk(t, w, root, M, ord, v, p) ==
  /\ w \in Tree /\ IsTree(w, root, M \ {v}, ord)
  /\ p # NULL => p \in M \ {v} /\ Fixing(w, M \ {v}, p)
  /\ p = NULL => \A m \in M \ {v} : Exact(w, m)
  /\ \A m \in Name \ M : w.left[m] = t.left[m] /\ w.right[m] = t.right[m]

\* A node with at most one child has the height of that child and one more.
LEMMA OneChildHeight ==
  ASSUME NEW t \in Tree, NEW v \in Name, Exact(t, v),
         t.left[v] = NULL \/ t.right[v] = NULL,
         NEW child, child = IF t.left[v] # NULL THEN t.left[v] ELSE t.right[v]
  PROVE  avl_height(t, child) \in Nat /\ t.height[v] = 1 + avl_height(t, child)
  <1> DEFINE a == avl_height(t, t.left[v])
             b == avl_height(t, t.right[v])
  <1>1. t.left[v] \in Name \cup {NULL} /\ t.right[v] \in Name \cup {NULL}
    BY DEF Tree
  <1>2. a \in Nat /\ b \in Nat
    BY <1>1, HeightType
  <1>3. t.height[v] = 1 + Higher(a, b)
    BY DEF Exact, Measured
  <1>4. /\ t.left[v] = NULL => a = 0
        /\ t.right[v] = NULL => b = 0
    BY DEF avl_height
  <1>5. /\ t.left[v] = NULL => avl_height(t, child) = b
        /\ t.left[v] # NULL => avl_height(t, child) = a
    OBVIOUS
  <1> HIDE DEF a, b
  <1>6. QED
    BY <1>2, <1>3, <1>4, <1>5 DEF Higher

\* A subtree of p that had height a has height c, one less.
LEMMA ShrinkNear ==
  ASSUME NEW t \in Tree, NEW w \in Tree, NEW p \in Name, Exact(t, p),
         NEW c \in Nat, NEW a \in Nat, c = a - 1,
         \/ /\ avl_height(t, t.left[p]) = a /\ avl_height(w, w.left[p]) = c
            /\ avl_height(w, w.right[p]) = avl_height(t, t.right[p])
         \/ /\ avl_height(t, t.right[p]) = a /\ avl_height(w, w.right[p]) = c
            /\ avl_height(w, w.left[p]) = avl_height(t, t.left[p])
  PROVE  Near(w, p, t.height[p])
  <1> DEFINE l == avl_height(t, t.left[p])
             r == avl_height(t, t.right[p])
             h == t.height[p]
  <1>1. t.left[p] \in Name \cup {NULL} /\ t.right[p] \in Name \cup {NULL}
    BY DEF Tree
  <1>2. l \in Nat /\ r \in Nat
    BY <1>1, HeightType
  <1>3. l - r \in -1..1 /\ h = 1 + Higher(l, r)
    BY DEF Exact, Even, Measured
  <1>4. Higher(l, r) = Higher(r, l) /\ Higher(c, l) = Higher(l, c)
    BY <1>2, HigherFacts
  <1>5. \/ l = a /\ avl_height(w, w.left[p]) = c /\ avl_height(w, w.right[p]) = r
        \/ r = a /\ avl_height(w, w.right[p]) = c /\ avl_height(w, w.left[p]) = l
    OBVIOUS
  <1> HIDE DEF l, r, h
  <1>6. CASE l = a /\ avl_height(w, w.left[p]) = c /\ avl_height(w, w.right[p]) = r
    <2>1. /\ c - r \in -2..2
          /\ c - r \in -1..1 => h \in Higher(c, r)..(Higher(c, r) + 2)
          /\ c - r \notin -1..1 => h \in Higher(c, r)..(Higher(c, r) + 1)
      <3>1. a - r \in -1..1 /\ h = 1 + Higher(a, r) /\ c - a \in -1..1
        BY <1>3, <1>6
      <3>2. QED
        BY <1>2, <3>1, ClimbHeights
    <2>2. QED
      BY <1>6, <2>1 DEF Near, h
  <1>7. CASE r = a /\ avl_height(w, w.right[p]) = c /\ avl_height(w, w.left[p]) = l
    <2>1. /\ l - c \in -2..2
          /\ c - l \in -1..1 => h \in Higher(c, l)..(Higher(c, l) + 2)
          /\ c - l \notin -1..1 => h \in Higher(c, l)..(Higher(c, l) + 1)
      <3>1. a - l \in -1..1 /\ h = 1 + Higher(a, l) /\ c - a \in -1..1
        BY <1>2, <1>3, <1>4, <1>7
      <3>2. QED
        BY <1>2, <3>1, ClimbHeights
    <2>2. l - c \in -1..1 <=> c - l \in -1..1
      BY <1>2
    <2>3. QED
      BY <1>4, <1>7, <2>1, <2>2 DEF Near, h
  <1>8. QED
    BY <1>5, <1>6, <1>7

LEMMA UnlinkFacts ==
  ASSUME NEW t \in Tree, NEW root, NEW M, NEW B, NEW ord, IsOrder(ord),
         Shape(t.left, t.right, t.parent, root, M, B, ord), \A m \in M : Exact(t, m),
         NEW v \in M, t.left[v] = NULL \/ t.right[v] = NULL
  PROVE  Shrunk(t, Unlink(t, v).tree,
                IF t.parent[v] = NULL THEN Unlink(t, v).child ELSE root,
                M, ord, v, t.parent[v])
  <1> DEFINE w == Unlink(t, v).tree
             child == Unlink(t, v).child
             p == t.parent[v]
             root1 == IF p = NULL THEN child ELSE root
  <1>1. /\ M \subseteq Name /\ NULL \notin Name /\ p \in M \cup {NULL}
        /\ \A m \in M : t.left[m] \in M \cup {NULL} /\ t.right[m] \in M \cup {NULL}
        /\ p = NULL <=> v = root
    BY AvlAssumption DEF Shape, Pointers, Linked
  <1>2. /\ child = IF t.left[v] # NULL THEN t.left[v] ELSE t.right[v]
        /\ UnlinkFields(t, w, v, child)
    BY <1>1, UnlinkMakes
  <1> HIDE DEF w, child
  <1>3. /\ w \in Tree /\ w.height = t.height /\ w.cnt = t.cnt
        /\ \A m \in Name : /\ w.parent[m] = IF m = child THEN p ELSE t.parent[m]
                           /\ w.left[m] = IF m = p /\ t.left[m] = v THEN child ELSE t.left[m]
                           /\ w.right[m] = IF m = p /\ t.left[m] # v THEN child ELSE t.right[m]
    BY <1>2 DEF UnlinkFields
  <1>4. \A c : avl_height(w, c) = avl_height(t, c) /\ avl_cnt(w, c) = avl_cnt(t, c)
    BY <1>3 DEF avl_height, avl_cnt
  <1>5. /\ p # NULL => (p \in M /\ p # v /\ (t.left[p] = v <=> t.right[p] # v))
        /\ \A m \in M : m # p => t.left[m] # v /\ t.right[m] # v
    <2>1. CASE p # NULL
      BY <1>1, <2>1, OneSide
    <2>2. CASE p = NULL
      <3>1. \A m \in M : t.left[m] # v /\ t.right[m] # v
        <4>1. \A m \in M : /\ t.left[m] # NULL => t.parent[t.left[m]] = m
                           /\ t.right[m] # NULL => t.parent[t.right[m]] = m
          BY DEF Shape, Linked
        <4>2. QED
          BY <1>1, <2>2, <4>1
      <3>2. QED
        BY <2>2, <3>1
    <2>3. QED
      BY <2>1, <2>2
  <1>6. IsTree(w, root1, M \ {v}, ord)
    <2>1. /\ \/ t.left[v] = NULL /\ child = t.right[v]
             \/ t.right[v] = NULL /\ child = t.left[v]
          /\ root1 = IF v = root THEN child ELSE root
      BY <1>1, <1>2
    <2>2. \A m \in M : m # v =>
            /\ w.left[m] = IF t.left[m] = v THEN child ELSE t.left[m]
            /\ w.right[m] = IF t.right[m] = v THEN child ELSE t.right[m]
            /\ w.parent[m] = IF m = child THEN p ELSE t.parent[m]
      BY <1>1, <1>3, <1>5
    <2> HIDE DEF root1
    <2>3. Unlinks(t.left, t.right, t.parent, root, M, w.left, w.right, w.parent, root1, v, child)
      BY <2>1, <2>2 DEF Unlinks
    <2>4. QED
      BY <2>3, UnlinkShape DEF IsTree
  <1>7. ASSUME NEW m \in M \ {v}, m # p
        PROVE  Exact(w, m)
    <2>1. Exact(t, m) /\ w.left[m] = t.left[m] /\ w.right[m] = t.right[m]
      BY <1>1, <1>3, <1>7
    <2>2. QED
      BY <1>3, <1>4, <2>1, ExactFrame
  <1>8. ASSUME p # NULL
        PROVE  p \in M \ {v} /\ Fixing(w, M \ {v}, p)
    <2>1. p \in M /\ p # v /\ p \in Name /\ v \in Name
      BY <1>1, <1>5, <1>8
    <2>2. Near(w, p, t.height[p])
      <3>1. avl_height(t, child) \in Nat /\ t.height[v] = 1 + avl_height(t, child)
        BY <1>1, <1>2, OneChildHeight
      <3>2. avl_height(t, v) = t.height[v]
        BY <1>1, <2>1 DEF avl_height
      <3>3. /\ t.left[p] = v => w.left[p] = child /\ w.right[p] = t.right[p]
            /\ t.left[p] # v => w.right[p] = child /\ w.left[p] = t.left[p] /\ t.right[p] = v
        BY <1>3, <1>5, <1>8, <2>1
      <3>4. \/ /\ avl_height(t, t.left[p]) = t.height[v]
               /\ avl_height(w, w.left[p]) = avl_height(t, child)
               /\ avl_height(w, w.right[p]) = avl_height(t, t.right[p])
            \/ /\ avl_height(t, t.right[p]) = t.height[v]
               /\ avl_height(w, w.right[p]) = avl_height(t, child)
               /\ avl_height(w, w.left[p]) = avl_height(t, t.left[p])
        BY <1>4, <3>2, <3>3
      <3>5. Exact(t, p)
        BY <2>1
      <3> DEFINE c == avl_height(t, child)
                 a == t.height[v]
      <3>6. c \in Nat /\ a \in Nat /\ c = a - 1
        BY <3>1
      <3> HIDE DEF c, a, p
      <3>7. QED
        BY <1>3, <2>1, <3>4, <3>5, <3>6, ShrinkNear DEF c, a
    <2>3. t.height[p] \in Nat
      BY <2>1 DEF Tree
    <2>4. p # child
      <3>1. /\ v \notin B[t.left[v]] /\ v \notin B[t.right[v]] /\ v \in B[v]
            /\ B[t.left[p]] \subseteq B[p] /\ B[t.right[p]] \subseteq B[p]
        BY <2>1, NodeFacts
      <3>2. v \in B[p]
        BY <1>5, <1>8, <3>1
      <3>3. QED
        BY <1>2, <3>1, <3>2
    <2>5. w.parent[p] = t.parent[p] /\ t.parent[p] \in M \cup {NULL}
      BY <1>3, <2>1, <2>4 DEF Shape, Pointers
    <2>6. w.parent[p] # NULL => Waiting(w, w.parent[p], p, t.height[p])
      <3> HAVE w.parent[p] # NULL
      <3>1. t.parent[p] \in M /\ t.parent[p] # p
            /\ (t.left[t.parent[p]] = p \/ t.right[t.parent[p]] = p)
        BY <2>1, <2>5, OneSide
      <3>2. t.parent[p] # v
        BY <1>2, <1>1, <2>1, <2>4, <3>1
      <3>3. Exact(w, t.parent[p])
        BY <1>7, <3>1, <3>2
      <3>4. \A c : HeightAs(w, c, p, t.height[p]) = avl_height(w, c)
        BY <1>1, <1>3, <2>1 DEF HeightAs, avl_height
      <3>5. QED
        BY <2>5, <3>3, <3>4 DEF Waiting, Exact, Even, Measured
    <2>7. QED
      BY <1>7, <2>1, <2>2, <2>3, <2>6 DEF Fixing
  <1>9. \A m \in Name \ M : w.left[m] = t.left[m] /\ w.right[m] = t.right[m]
    <2> TAKE m \in Name \ M
    <2>1. m # p
      BY <1>1
    <2>2. QED
      BY <1>3, <2>1
  <1>10. \A m \in M \ {v} : p = NULL => Exact(w, m)
    BY <1>1, <1>7
  <1> HIDE DEF p, root1
  <1>11. Shrunk(t, w, root1, M, ord, v, p)
    BY <1>3, <1>6, <1>8, <1>9, <1>10 DEF Shrunk
  <1>12. QED
    BY <1>11 DEF w, child, p, root1

-----------------------------------------------------------------------------
(* The swap of avl_del *)

\* v stands where n stood.
Standin(m, n, v) == IF m = n THEN v ELSE m

Replaces(lc, rc, par, root, M, lc1, rc1, par1, root1, n, v) ==
  /\ root1 = Standin(root, n, v)
  /\ \A m \in M : /\ lc1[Standin(m, n, v)] = Standin(lc[m], n, v)
                  /\ rc1[Standin(m, n, v)] = Standin(rc[m], n, v)
                  /\ par1[Standin(m, n, v)] = Standin(par[m], n, v)

\* Nothing in M is between n and v.
SamePlace(M, ord, n, v) ==
  \A m \in M : m # n => (<<m, n>> \in ord <=> <<m, v>> \in ord)

LEMMA ReplaceShape ==
  ASSUME NEW lc, NEW rc, NEW par, NEW root, NEW M, NEW B, NEW ord, IsOrder(ord),
         Shape(lc, rc, par, root, M, B, ord), NEW n \in M, NEW v \in Name, v \notin M,
         SamePlace(M, ord, n, v), NEW lc1, NEW rc1, NEW par1, NEW root1,
         Replaces(lc, rc, par, root, M, lc1, rc1, par1, root1, n, v)
  PROVE  \E B1 : Shape(lc1, rc1, par1, root1, (M \ {n}) \cup {v}, B1, ord)
  <1> DEFINE N == (M \ {n}) \cup {v}
             S(m) == Standin(m, n, v)
             Was(m) == IF m = v THEN n ELSE m
             Sub(X) == IF n \in X THEN (X \ {n}) \cup {v} ELSE X
             B1 == [m \in N \cup {NULL} |-> Sub(B[Was(m)])]
  <1>1. /\ root1 = S(root)
        /\ \A m \in M : lc1[S(m)] = S(lc[m]) /\ rc1[S(m)] = S(rc[m]) /\ par1[S(m)] = S(par[m])
    BY DEF Replaces
  <1>2. /\ M \subseteq Name /\ IsFiniteSet(M) /\ root \in M \cup {NULL} /\ NULL \notin Name
        /\ \A m \in M : /\ lc[m] \in M \cup {NULL}
                        /\ rc[m] \in M \cup {NULL}
                        /\ par[m] \in M \cup {NULL}
    BY AvlAssumption DEF Shape, Pointers
  <1>3. \A m \in M : /\ lc[m] # NULL => par[lc[m]] = m
                     /\ rc[m] # NULL => par[rc[m]] = m
                     /\ par[m] = NULL <=> m = root
                     /\ par[m] # NULL => lc[par[m]] = m \/ rc[par[m]] = m
    BY DEF Shape, Linked
  <1>4. /\ B \in [M \cup {NULL} -> SUBSET M] /\ B[NULL] = {} /\ B[root] = M
        /\ \A m \in M : B[m] = {m} \cup B[lc[m]] \cup B[rc[m]]
    BY DEF Shape, Subtrees
  <1>5. /\ \A m \in M \cup {NULL} : S(m) \in N \cup {NULL} /\ (S(m) = NULL <=> m = NULL)
        /\ \A m, k \in M \cup {NULL} : S(m) = S(k) => m = k
        /\ \A m \in M : S(m) \in N
        /\ \A k \in N : \E m \in M : k = S(m)
    <2>1. /\ \A m \in M \cup {NULL} : S(m) \in N \cup {NULL} /\ (S(m) = NULL <=> m = NULL)
          /\ \A m, k \in M \cup {NULL} : S(m) = S(k) => m = k
          /\ \A m \in M : S(m) \in N
      BY <1>2 DEF Standin
    <2>2. ASSUME NEW k \in N
          PROVE  \E m \in M : k = S(m)
      <3>1. Was(k) \in M /\ k = S(Was(k))
        BY <2>2 DEF Standin
      <3> HIDE DEF Was
      <3>2. QED
        BY <3>1
    <2>3. QED
      BY <2>1, <2>2
  <1>6. /\ B1 \in [N \cup {NULL} -> SUBSET N] /\ B1[NULL] = {}
        /\ \A m \in M \cup {NULL} : B1[S(m)] = Sub(B[m])
    <2>1. \A m \in N \cup {NULL} : Was(m) \in M \cup {NULL}
      BY <1>2
    <2>2. \A X \in SUBSET M : Sub(X) \in SUBSET N
      OBVIOUS
    <2>3. \A m \in M \cup {NULL} : Was(S(m)) = m
      BY <1>2 DEF Standin
    <2>4. Sub({}) = {} /\ Was(NULL) = NULL
      BY <1>2
    <2> HIDE DEF Was, Sub, S
    <2>5. B1 \in [N \cup {NULL} -> SUBSET N] /\ \A m \in N \cup {NULL} : B1[m] = Sub(B[Was(m)])
      BY <1>4, <2>1, <2>2
    <2> HIDE DEF B1
    <2>6. B1[NULL] = {}
      <3>1. B1[NULL] = Sub(B[Was(NULL)])
        BY <2>5
      <3>2. B[NULL] = {}
        BY <1>4
      <3>3. QED
        BY <2>4, <3>1, <3>2, Zenon
    <2>7. ASSUME NEW m \in M \cup {NULL}
          PROVE  B1[S(m)] = Sub(B[m])
      <3>1. S(m) \in N \cup {NULL}
        BY <1>5
      <3>2. B1[S(m)] = Sub(B[Was(S(m))])
        BY <2>5, <3>1
      <3>3. Was(S(m)) = m
        BY <2>3
      <3>4. QED
        BY <3>2, <3>3, Zenon
    <2>8. QED
      BY <2>5, <2>6, <2>7
  <1> HIDE DEF B1, Was
  <1>7. Pointers(lc1, rc1, par1, root1, N)
    <2>1. IsFiniteSet(N) /\ N \subseteq Name
      BY <1>2, FS_RemoveElement, FS_AddElement
    <2> HIDE DEF S
    <2>2. root1 \in N \cup {NULL}
      BY <1>1, <1>2, <1>5
    <2>3. ASSUME NEW k \in N
          PROVE  lc1[k] \in N \cup {NULL} /\ rc1[k] \in N \cup {NULL} /\ par1[k] \in N \cup {NULL}
      <3>1. PICK m \in M : k = S(m)
        BY <1>5
      <3> HIDE DEF N
      <3>2. QED
        BY <1>1, <1>2, <1>5, <3>1
    <2>4. QED
      BY <2>1, <2>2, <2>3 DEF Pointers
  <1>8. Linked(lc1, rc1, par1, root1, N)
    <2> SUFFICES ASSUME NEW k \in N
                 PROVE  /\ lc1[k] # NULL => par1[lc1[k]] = k
                        /\ rc1[k] # NULL => par1[rc1[k]] = k
                        /\ par1[k] = NULL <=> k = root1
                        /\ par1[k] # NULL => lc1[par1[k]] = k \/ rc1[par1[k]] = k
      BY DEF Linked
    <2>1. PICK m \in M : k = S(m)
      BY <1>5
    <2> HIDE DEF S, N
    <2>2. lc1[k] = S(lc[m]) /\ rc1[k] = S(rc[m]) /\ par1[k] = S(par[m]) /\ root1 = S(root)
      BY <1>1, <2>1
    <2>3. lc1[k] # NULL => par1[lc1[k]] = k
      BY <1>1, <1>2, <1>3, <1>5, <2>1, <2>2
    <2>4. rc1[k] # NULL => par1[rc1[k]] = k
      BY <1>1, <1>2, <1>3, <1>5, <2>1, <2>2
    <2>5. par1[k] = NULL <=> k = root1
      BY <1>2, <1>3, <1>5, <2>1, <2>2
    <2>6. par1[k] # NULL => lc1[par1[k]] = k \/ rc1[par1[k]] = k
      BY <1>1, <1>2, <1>3, <1>5, <2>1, <2>2
    <2>7. QED
      BY <2>3, <2>4, <2>5, <2>6
  <1>9. Subtrees(lc1, rc1, root1, N, B1)
    <2>1. B1[root1] = N
      <3>1. B1[root1] = Sub(M)
        BY <1>1, <1>2, <1>4, <1>6
      <3>2. QED
        BY <3>1
    <2>2. ASSUME NEW k \in N
          PROVE  B1[k] = {k} \cup B1[lc1[k]] \cup B1[rc1[k]]
      <3>1. PICK m \in M : k = S(m)
        BY <1>5
      <3>2. /\ B1[k] = Sub(B[m]) /\ B1[lc1[k]] = Sub(B[lc[m]]) /\ B1[rc1[k]] = Sub(B[rc[m]])
        <4> HIDE DEF S, Sub
        <4>1. QED
          BY <1>1, <1>2, <1>6, <3>1
      <3>3. /\ B[m] = {m} \cup B[lc[m]] \cup B[rc[m]]
            /\ B[m] \subseteq M /\ B[lc[m]] \subseteq M /\ B[rc[m]] \subseteq M
        BY <1>2, <1>4
      <3> DEFINE b == B[m]
                 l == B[lc[m]]
                 r == B[rc[m]]
      <3>4. b = {m} \cup l \cup r
        BY <3>3
      <3> HIDE DEF b, l, r
      <3>5. CASE m = n
        <4>1. k = v
          BY <3>1, <3>5 DEF Standin
        <4>2. Sub(b) = {v} \cup Sub(l) \cup Sub(r)
          BY <3>4, <3>5
        <4>3. QED
          BY <3>2, <4>1, <4>2 DEF b, l, r
      <3>6. CASE m # n
        <4>1. k = m
          BY <3>1, <3>6 DEF Standin
        <4>2. Sub(b) = {m} \cup Sub(l) \cup Sub(r)
          BY <3>4, <3>6
        <4>3. QED
          BY <3>2, <4>1, <4>2 DEF b, l, r
      <3>7. QED
        BY <3>5, <3>6
    <2>3. QED
      BY <1>6, <2>1, <2>2 DEF Subtrees
  <1>10. Sorted(lc1, rc1, N, B1, ord)
    <2> SUFFICES ASSUME NEW k \in N
                 PROVE  /\ \A y \in B1[lc1[k]] : <<y, k>> \in ord
                        /\ \A y \in B1[rc1[k]] : <<k, y>> \in ord
      BY DEF Sorted
    <2>1. PICK m \in M : k = S(m)
      BY <1>5
    <2>2. B1[lc1[k]] = Sub(B[lc[m]]) /\ B1[rc1[k]] = Sub(B[rc[m]])
      <3> HIDE DEF S, Sub
      <3>1. QED
        BY <1>1, <1>2, <1>6, <2>1
    <2>3. /\ \A y \in B[lc[m]] : <<y, m>> \in ord
          /\ \A y \in B[rc[m]] : <<m, y>> \in ord
          /\ B[lc[m]] \subseteq M /\ B[rc[m]] \subseteq M
      BY <1>2, <1>4 DEF Shape, Sorted
    <2>4. m = n => n \notin B[lc[m]] /\ n \notin B[rc[m]]
      BY NodeFacts
    <2>5. \A y \in M : y # n => /\ <<y, n>> \in ord <=> <<y, v>> \in ord
                                /\ <<n, y>> \in ord <=> <<v, y>> \in ord
      <3> TAKE y \in M
      <3> HAVE y # n
      <3>1. <<y, n>> \in ord <=> <<y, v>> \in ord
        BY DEF SamePlace
      <3>2. y \in Name /\ n \in Name /\ v \in Name /\ y # v
        BY <1>2
      <3>3. \A a, b \in Name : a # b => (<<a, b>> \in ord <=> <<b, a>> \notin ord)
        BY DEF IsOrder
      <3>4. QED
        BY <3>1, <3>2, <3>3
    <2>6. k = IF m = n THEN v ELSE m
      BY <2>1 DEF Standin
    <2>7. ASSUME NEW y \in B1[lc1[k]]
          PROVE  <<y, k>> \in ord
      <3>1. (y = v /\ n \in B[lc[m]]) \/ (y \in B[lc[m]] /\ y # n)
        BY <2>2, <2>7
      <3>2. QED
        BY <2>3, <2>4, <2>5, <2>6, <3>1
    <2>8. ASSUME NEW y \in B1[rc1[k]]
          PROVE  <<k, y>> \in ord
      <3>1. (y = v /\ n \in B[rc[m]]) \/ (y \in B[rc[m]] /\ y # n)
        BY <2>2, <2>8
      <3>2. QED
        BY <2>3, <2>4, <2>5, <2>6, <3>1
    <2>9. QED
      BY <2>7, <2>8
  <1>11. QED
    BY <1>7, <1>8, <1>9, <1>10 DEF Shape

\* The fields of a stand-in, and of the nodes around it.
ReplaceFields(t, w, M, n, v) ==
  /\ w \in Tree
  /\ \A m \in M : /\ w.left[Standin(m, n, v)] = Standin(t.left[m], n, v)
                  /\ w.right[Standin(m, n, v)] = Standin(t.right[m], n, v)
                  /\ w.parent[Standin(m, n, v)] = Standin(t.parent[m], n, v)
                  /\ w.height[Standin(m, n, v)] = t.height[m]
                  /\ w.cnt[Standin(m, n, v)] = t.cnt[m]
  /\ \A m \in Name : m \notin M /\ m # v => w.left[m] = t.left[m] /\ w.right[m] = t.right[m]

LEMMA ReplaceMakes ==
  ASSUME NEW t \in Tree, NEW root, NEW M, NEW B, NEW ord, IsOrder(ord),
         Shape(t.left, t.right, t.parent, root, M, B, ord),
         NEW n \in M, NEW v \in Name, v \notin M
  PROVE  ReplaceFields(t, Replace(t, n, v), M, n, v)
  <1> DEFINE u == [t EXCEPT !.left[v] = t.left[n], !.right[v] = t.right[n],
                            !.parent[v] = t.parent[n],
                            !.height[v] = t.height[n], !.cnt[v] = t.cnt[n]]
             y == [u EXCEPT !.parent = [m \in Name |->
                    IF m \in {t.left[n], t.right[n]} THEN v ELSE u.parent[m]]]
             p == t.parent[n]
             w == Relink(y, p, n, v)
  <1>1. /\ M \subseteq Name /\ NULL \notin Name /\ n \in Name /\ n # v
        /\ p \in M \cup {NULL} /\ t.left[n] \in M \cup {NULL} /\ t.right[n] \in M \cup {NULL}
        /\ t.height[n] \in Nat /\ t.cnt[n] \in Nat
    BY AvlAssumption DEF Shape, Pointers, Tree
  <1>2. /\ u \in Tree
        /\ \A m \in Name : /\ u.left[m] = IF m = v THEN t.left[n] ELSE t.left[m]
                           /\ u.right[m] = IF m = v THEN t.right[n] ELSE t.right[m]
                           /\ u.parent[m] = IF m = v THEN p ELSE t.parent[m]
                           /\ u.height[m] = IF m = v THEN t.height[n] ELSE t.height[m]
                           /\ u.cnt[m] = IF m = v THEN t.cnt[n] ELSE t.cnt[m]
    BY <1>1 DEF Tree
  <1> HIDE DEF u
  <1>3. /\ y \in Tree /\ y.left = u.left /\ y.right = u.right
        /\ y.height = u.height /\ y.cnt = u.cnt
        /\ \A m \in Name : y.parent[m] = IF m \in {t.left[n], t.right[n]} THEN v ELSE u.parent[m]
    BY <1>2 DEF Tree
  <1>4. Replace(t, n, v) = w
    BY DEF Replace, u
  <1> HIDE DEF y
  <1>5. Relinked(y, w, p, n, v)
    BY <1>1, <1>3, RelinkFields
  <1> HIDE DEF w
  <1>6. /\ w \in Tree /\ w.parent = y.parent /\ w.height = y.height /\ w.cnt = y.cnt
        /\ \A m \in Name : /\ w.left[m] = IF m = p /\ y.left[p] = n THEN v ELSE y.left[m]
                           /\ w.right[m] = IF m = p /\ y.left[p] # n THEN v ELSE y.right[m]
    BY <1>5 DEF Relinked
  <1>7. /\ t.left[n] # n /\ t.right[n] # n
        /\ p # NULL => (p \in M /\ p # n /\ (t.left[p] = n <=> t.right[p] # n))
        /\ \A m \in M : t.left[m] = n \/ t.right[m] = n => m = p
        /\ \A m \in M : m \in {t.left[n], t.right[n]} <=> t.parent[m] = n
    <2>1. t.left[n] # n /\ t.right[n] # n
      BY <1>1, NodeFacts
    <2>2. \A m \in M : /\ t.left[m] # NULL => t.parent[t.left[m]] = m
                       /\ t.right[m] # NULL => t.parent[t.right[m]] = m
                       /\ t.parent[m] # NULL => t.left[t.parent[m]] = m \/ t.right[t.parent[m]] = m
      BY DEF Shape, Linked
    <2>3. p # NULL => (p \in M /\ p # n /\ (t.left[p] = n <=> t.right[p] # n))
      BY OneSide
    <2>4. \A m \in M : t.left[m] = n \/ t.right[m] = n => m = p
      BY <1>1, <2>2
    <2>5. \A m \in M : m \in {t.left[n], t.right[n]} <=> t.parent[m] = n
      BY <1>1, <2>2
    <2>6. QED
      BY <2>1, <2>3, <2>4, <2>5
  <1>8. ASSUME NEW m \in M, m # n
        PROVE  /\ w.left[m] = Standin(t.left[m], n, v)
               /\ w.right[m] = Standin(t.right[m], n, v)
               /\ w.parent[m] = Standin(t.parent[m], n, v)
               /\ w.height[m] = t.height[m] /\ w.cnt[m] = t.cnt[m]
    <2>1. /\ y.left[m] = t.left[m] /\ y.right[m] = t.right[m] /\ m # v /\ m \in Name
          /\ y.height[m] = t.height[m] /\ y.cnt[m] = t.cnt[m]
          /\ y.parent[m] = IF t.parent[m] = n THEN v ELSE t.parent[m]
      BY <1>1, <1>2, <1>3, <1>7, <1>8
    <2>2. w.left[m] = Standin(t.left[m], n, v) /\ w.right[m] = Standin(t.right[m], n, v)
      BY <1>1, <1>6, <1>7, <1>8, <2>1 DEF Standin
    <2>3. QED
      BY <1>6, <2>1, <2>2 DEF Standin
  <1>9. /\ w.left[v] = Standin(t.left[n], n, v)
        /\ w.right[v] = Standin(t.right[n], n, v)
        /\ w.parent[v] = Standin(t.parent[n], n, v)
        /\ w.height[v] = t.height[n] /\ w.cnt[v] = t.cnt[n]
    <2>1. v # p /\ v \notin {t.left[n], t.right[n]} /\ p # n
      BY <1>1, <1>7
    <2>2. /\ y.left[v] = t.left[n] /\ y.right[v] = t.right[n] /\ y.parent[v] = p
          /\ y.height[v] = t.height[n] /\ y.cnt[v] = t.cnt[n]
      BY <1>2, <1>3, <2>1
    <2>3. w.left[v] = t.left[n] /\ w.right[v] = t.right[n] /\ w.parent[v] = p
      BY <1>6, <2>1, <2>2
    <2>4. QED
      BY <1>6, <1>7, <2>1, <2>2, <2>3 DEF Standin
  <1>10. ASSUME NEW m \in Name, m \notin M, m # v
         PROVE  w.left[m] = t.left[m] /\ w.right[m] = t.right[m]
    <2>1. m # p
      BY <1>1, <1>10
    <2>2. QED
      BY <1>2, <1>3, <1>6, <1>10, <2>1
  <1>11. \A m \in M : Standin(m, n, v) = IF m = n THEN v ELSE m
    BY DEF Standin
  <1>12. ReplaceFields(t, w, M, n, v)
    BY <1>6, <1>8, <1>9, <1>10, <1>11 DEF ReplaceFields
  <1>13. QED
    BY <1>4, <1>12

LEMMA ReplaceExact ==
  ASSUME NEW t \in Tree, NEW w, NEW M, M \subseteq Name,
         \A m \in M : t.left[m] \in M \cup {NULL} /\ t.right[m] \in M \cup {NULL},
         NEW n \in M, NEW v \in Name, v \notin M, ReplaceFields(t, w, M, n, v),
         NEW m \in M, Exact(t, m)
  PROVE  Exact(w, Standin(m, n, v))
  <1> DEFINE S(k) == Standin(k, n, v)
             l == t.left[m]
             r == t.right[m]
             s == S(m)
  <1>1. \A k \in M : w.height[S(k)] = t.height[k] /\ w.cnt[S(k)] = t.cnt[k]
    BY DEF ReplaceFields
  <1>2. w.left[s] = S(l) /\ w.right[s] = S(r)
    BY DEF ReplaceFields
  <1>3. \A k \in M : S(k) # NULL /\ k # NULL
    BY AvlAssumption DEF Standin
  <1>4. S(NULL) = NULL
    BY AvlAssumption DEF Standin
  <1> HIDE DEF S
  <1>5. \A k \in M \cup {NULL} :
          avl_height(w, S(k)) = avl_height(t, k) /\ avl_cnt(w, S(k)) = avl_cnt(t, k)
    BY <1>1, <1>3, <1>4 DEF avl_height, avl_cnt
  <1>6. /\ avl_height(w, S(l)) = avl_height(t, l) /\ avl_cnt(w, S(l)) = avl_cnt(t, l)
        /\ avl_height(w, S(r)) = avl_height(t, r) /\ avl_cnt(w, S(r)) = avl_cnt(t, r)
    BY <1>5
  <1>7. w.height[s] = t.height[m] /\ w.cnt[s] = t.cnt[m]
    BY <1>1
  <1> HIDE DEF s
  <1>8. Exact(w, s)
    BY <1>2, <1>6, <1>7 DEF Exact, Even, Measured
  <1>9. QED
    BY <1>8 DEF s, S

\* What the swap makes of t: a tree with v in the place of n.
Replaced(t, w, root, M, ord, n, v) ==
  /\ w \in Tree
  /\ IsTree(w, IF t.parent[n] = NULL THEN v ELSE root, (M \ {n}) \cup {v}, ord)
  /\ \A m \in (M \ {n}) \cup {v} : Exact(w, m)
  /\ \A m \in Name : m \notin M /\ m # v => w.left[m] = t.left[m] /\ w.right[m] = t.right[m]

LEMMA ReplaceFacts ==
  ASSUME NEW t \in Tree, NEW root, NEW M, NEW ord, IsOrder(ord),
         IsTree(t, root, M, ord), \A m \in M : Exact(t, m),
         NEW n \in M, NEW v \in Name, v \notin M, SamePlace(M, ord, n, v)
  PROVE  Replaced(t, Replace(t, n, v), root, M, ord, n, v)
  <1> DEFINE w == Replace(t, n, v)
  <1>1. PICK B : Shape(t.left, t.right, t.parent, root, M, B, ord)
    BY DEF IsTree
  <1>2. ReplaceFields(t, w, M, n, v)
    BY <1>1, ReplaceMakes
  <1> HIDE DEF w
  <1>3. /\ M \subseteq Name
        /\ \A m \in M : t.left[m] \in M \cup {NULL} /\ t.right[m] \in M \cup {NULL}
    BY <1>1 DEF Shape, Pointers
  <1> DEFINE root1 == Standin(root, n, v)
             N == (M \ {n}) \cup {v}
  <1>4. root1 = IF t.parent[n] = NULL THEN v ELSE root
    BY <1>1 DEF Standin, Shape, Linked
  <1> HIDE DEF root1
  <1>5. Replaces(t.left, t.right, t.parent, root, M, w.left, w.right, w.parent, root1, n, v)
    BY <1>2 DEF Replaces, ReplaceFields, root1
  <1>6. IsTree(w, root1, N, ord)
    BY <1>1, <1>5, ReplaceShape DEF IsTree
  <1>7. ASSUME NEW k \in N
        PROVE  Exact(w, k)
    <2> DEFINE m == IF k = v THEN n ELSE k
    <2>1. m \in M /\ Standin(m, n, v) = k
      BY <1>7 DEF Standin
    <2> HIDE DEF m
    <2>2. Exact(t, m)
      BY <2>1
    <2>3. Exact(w, Standin(m, n, v))
      BY <1>2, <1>3, <2>1, <2>2, ReplaceExact
    <2>4. QED
      BY <2>1, <2>3
  <1>8. /\ w \in Tree
        /\ \A m \in Name : m \notin M /\ m # v => w.left[m] = t.left[m] /\ w.right[m] = t.right[m]
    BY <1>2 DEF ReplaceFields
  <1>9. Replaced(t, w, root, M, ord, n, v)
    BY <1>4, <1>6, <1>7, <1>8 DEF Replaced
  <1>10. QED
    BY <1>9 DEF w

\* avl_init of a node that is not in the tree.
LEMMA InitFacts ==
  ASSUME NEW t \in Tree, NEW n \in Name
  PROVE  /\ avl_init(t, n) \in Tree /\ Fresh(avl_init(t, n), n)
         /\ \A m \in Name : m # n => /\ avl_init(t, n).left[m] = t.left[m]
                                     /\ avl_init(t, n).right[m] = t.right[m]
                                     /\ avl_init(t, n).parent[m] = t.parent[m]
                                     /\ avl_init(t, n).height[m] = t.height[m]
                                     /\ avl_init(t, n).cnt[m] = t.cnt[m]
  <1> DEFINE u == [t EXCEPT !.left[n] = NULL, !.right[n] = NULL, !.parent[n] = NULL,
                            !.height[n] = 1, !.cnt[n] = 1]
  <1>1. /\ u \in Tree
        /\ u.left[n] = NULL /\ u.right[n] = NULL /\ u.height[n] = 1 /\ u.cnt[n] = 1
        /\ \A m \in Name : m # n => /\ u.left[m] = t.left[m] /\ u.right[m] = t.right[m]
                                    /\ u.parent[m] = t.parent[m]
                                    /\ u.height[m] = t.height[m] /\ u.cnt[m] = t.cnt[m]
    BY DEF Tree
  <1>2. avl_init(t, n) = u
    BY DEF avl_init
  <1> HIDE DEF u
  <1>3. QED
    BY <1>1, <1>2 DEF Fresh

LEMMA InitTree ==
  ASSUME NEW t \in Tree, NEW root, NEW M, NEW ord, IsTree(t, root, M, ord),
         NEW n \in Name, n \notin M
  PROVE  /\ IsTree(avl_init(t, n), root, M, ord)
         /\ \A m \in M : Exact(t, m) => Exact(avl_init(t, n), m)
  <1> DEFINE u == avl_init(t, n)
  <1>1. PICK B : Shape(t.left, t.right, t.parent, root, M, B, ord)
    BY DEF IsTree
  <1>2. /\ M \subseteq Name /\ NULL \notin Name
        /\ \A m \in M : t.left[m] \in M \cup {NULL} /\ t.right[m] \in M \cup {NULL}
                        /\ t.parent[m] \in M \cup {NULL}
    BY <1>1, AvlAssumption DEF Shape, Pointers
  <1>3. \A m \in M : /\ u.left[m] = t.left[m] /\ u.right[m] = t.right[m]
                     /\ u.parent[m] = t.parent[m]
                     /\ u.height[m] = t.height[m] /\ u.cnt[m] = t.cnt[m]
    BY <1>2, InitFacts
  <1> HIDE DEF u
  <1>4. Pointers(u.left, u.right, u.parent, root, M)
    BY <1>1, <1>3 DEF Shape, Pointers
  <1>5. Linked(u.left, u.right, u.parent, root, M)
    <2>1. Linked(t.left, t.right, t.parent, root, M)
      BY <1>1 DEF Shape
    <2>2. QED
      BY <1>2, <1>3, <2>1 DEF Linked
  <1>6. Subtrees(u.left, u.right, root, M, B) /\ Sorted(u.left, u.right, M, B, ord)
    BY <1>1, <1>3 DEF Shape, Subtrees, Sorted
  <1>7. IsTree(u, root, M, ord)
    BY <1>4, <1>5, <1>6 DEF IsTree, Shape
  <1>8. ASSUME NEW m \in M, Exact(t, m)
        PROVE  Exact(u, m)
    <2>1. \A c \in M \cup {NULL} : avl_height(u, c) = avl_height(t, c) /\ avl_cnt(u, c) = avl_cnt(t, c)
      BY <1>2, <1>3 DEF avl_height, avl_cnt
    <2>2. t.left[m] \in M \cup {NULL} /\ t.right[m] \in M \cup {NULL}
      BY <1>2
    <2>3. QED
      BY <1>3, <1>8, <2>1, <2>2, ExactFrame
  <1>9. QED
    BY <1>7, <1>8 DEF u

-----------------------------------------------------------------------------
(* What the tree says of its nodes *)

\* The counts are the sizes of the subtrees.
LEMMA CountIsSize ==
  ASSUME NEW t \in Tree, NEW root, NEW M, NEW B, NEW ord, IsOrder(ord),
         Shape(t.left, t.right, t.parent, root, M, B, ord), \A m \in M : Exact(t, m)
  PROVE  \A c \in M \cup {NULL} : avl_cnt(t, c) = Cardinality(B[c])
  <1> DEFINE T == {m \in M : t.cnt[m] # Cardinality(B[m])}
  <1>1. /\ M \subseteq Name /\ NULL \notin Name /\ IsFiniteSet(M)
        /\ \A m \in M : t.left[m] \in M \cup {NULL} /\ t.right[m] \in M \cup {NULL}
        /\ B \in [M \cup {NULL} -> SUBSET M] /\ B[NULL] = {}
        /\ \A m \in M : B[m] = {m} \cup B[t.left[m]] \cup B[t.right[m]]
    BY AvlAssumption DEF Shape, Pointers, Subtrees
  <1>2. \A c \in M \cup {NULL} : IsFiniteSet(B[c]) /\ Cardinality(B[c]) \in Nat
    <2> TAKE c \in M \cup {NULL}
    <2>1. B[c] \subseteq M
      BY <1>1
    <2>2. IsFiniteSet(B[c])
      BY <1>1, <2>1, FS_Subset
    <2>3. QED
      BY <2>2, FS_CardinalityType
  <1>3. ASSUME NEW c \in M \cup {NULL}, c \notin T
        PROVE  avl_cnt(t, c) = Cardinality(B[c])
    BY <1>1, <1>3, FS_EmptySet DEF avl_cnt
  <1>4. T = {}
    <2> SUFFICES ASSUME T # {} PROVE FALSE
      OBVIOUS
    <2>1. PICK m \in T : t.left[m] \notin T /\ t.right[m] \notin T
      BY TreeMin
    <2> DEFINE l == B[t.left[m]]
               r == B[t.right[m]]
    <2>2. m \in M /\ t.left[m] \in M \cup {NULL} /\ t.right[m] \in M \cup {NULL}
      BY <1>1
    <2>3. /\ avl_cnt(t, t.left[m]) = Cardinality(l) /\ avl_cnt(t, t.right[m]) = Cardinality(r)
      BY <1>3, <2>1, <2>2
    <2>4. /\ IsFiniteSet(l) /\ IsFiniteSet(r) /\ Cardinality(l) \in Nat /\ Cardinality(r) \in Nat
      BY <1>2, <2>2
    <2>5. l \cap r = {} /\ m \notin l /\ m \notin r /\ B[m] = (l \cup r) \cup {m}
      BY <1>1, <2>2, NodeFacts
    <2>6. t.cnt[m] = 1 + Cardinality(l) + Cardinality(r)
      BY <2>2, <2>3 DEF Exact, Measured
    <2> HIDE DEF l, r
    <2>7. IsFiniteSet(l \cup r) /\ Cardinality(l \cup r) = Cardinality(l) + Cardinality(r)
      <3>1. /\ IsFiniteSet(l \cup r)
            /\ Cardinality(l \cup r) = Cardinality(l) + Cardinality(r) - Cardinality(l \cap r)
        BY <2>4, FS_Union
      <3>2. Cardinality(l \cap r) = 0
        BY <2>5, FS_EmptySet
      <3>3. QED
        BY <2>4, <3>1, <3>2
    <2>8. Cardinality(B[m]) = Cardinality(l) + Cardinality(r) + 1
      BY <2>5, <2>7, FS_AddElement
    <2>9. t.cnt[m] # Cardinality(B[m])
      OBVIOUS
    <2> HIDE DEF T
    <2>10. QED
      BY <2>4, <2>6, <2>8, <2>9
  <1>5. QED
    BY <1>3, <1>4

\* A tree depends on the order of its own nodes only.
LEMMA OrderFrame ==
  ASSUME NEW t, NEW root, NEW M, NEW ord, NEW ord1, IsTree(t, root, M, ord),
         \A a, b \in M : <<a, b>> \in ord => <<a, b>> \in ord1
  PROVE  IsTree(t, root, M, ord1)
  <1>1. PICK B : Shape(t.left, t.right, t.parent, root, M, B, ord)
    BY DEF IsTree
  <1>2. \A m \in M : B[t.left[m]] \subseteq M /\ B[t.right[m]] \subseteq M
    BY <1>1 DEF Shape, Pointers, Subtrees
  <1>3. Sorted(t.left, t.right, M, B, ord1)
    BY <1>1, <1>2 DEF Shape, Sorted
  <1>4. QED
    BY <1>1, <1>3 DEF Shape, IsTree

LEMMA TreeFacts ==
  ASSUME NEW t, NEW root, NEW M, NEW ord, IsTree(t, root, M, ord)
  PROVE  /\ M \subseteq Name /\ IsFiniteSet(M) /\ root \in M \cup {NULL}
         /\ root = NULL => M = {}
         /\ \A m \in M : /\ t.left[m] \in M \cup {NULL} /\ t.right[m] \in M \cup {NULL}
                         /\ t.parent[m] \in M \cup {NULL}
                         /\ t.left[m] # NULL => t.parent[t.left[m]] = m
                         /\ t.right[m] # NULL => t.parent[t.right[m]] = m
                         /\ t.parent[m] = NULL <=> m = root
  BY DEF IsTree, Shape, Pointers, Linked, Subtrees
=============================================================================
