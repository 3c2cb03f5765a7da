-------------------------------- MODULE ZSet --------------------------------
(***************************************************************************)
(* zset.cpp: a sorted set.  Each member is one ZNode that is linked into   *)
(* a hash table by name and into an AVL tree by (score, name).  With it    *)
(* the part of do_zadd, do_zrem, do_zscore, do_zquery and entry_del that   *)
(* works on one sorted set.                                                *)
(*                                                                         *)
(* The hash table is the abstract one of Dict, which HashTable implements: *)
(* the set of the names in it.  Each turn of the loops (tree_insert,       *)
(* avl_fix, zset_seekge, avl_offset) is a step.  The server has one        *)
(* thread, so an operation starts only when none is running.               *)
(*                                                                         *)
(* A definition named D_Fault is D with a fault; no specification uses it. *)
(***************************************************************************)
EXTENDS Avl, FiniteSets, Sequences

CONSTANTS
  Score,    \* the scores clients use
  Query     \* the arguments of ZQUERY: records of score, name, offset, limit

ASSUME ZSetAssumption ==
  /\ Name \subseteq Int /\ Score \subseteq Int
  /\ Query \subseteq [score : Int, name : Int, offset : Int, limit : Int]

VARIABLES
  hmap,     \* zset->hmap: the names in it
  score,    \* ZNode::score
  tree,     \* ZNode::tree of all nodes
  root,     \* zset->root
  op,       \* the running operation and its arguments
  pc,       \* "idle", or the loop that is running
  node,     \* the loop's node
  other,    \* avl_del's victim, if it has one; zset_seekge's candidate
  pos,      \* avl_offset's pos
  offset,   \* avl_offset's argument
  out       \* do_zquery's output so far: names and scores in turn

setVars  == <<hmap, score, tree, root>>
loopVars == <<node, other, pos, offset>>
vars == <<setVars, op, pc, loopVars, out>>

NoOp == [cmd |-> "none"]

Init ==
  /\ hmap = {} /\ score = [n \in Name |-> 0]
  /\ tree = NoTree /\ root = NULL
  /\ op = NoOp /\ pc = "idle"
  /\ node = NULL /\ other = NULL /\ pos = 0 /\ offset = 0
  /\ out = << >>

\* Back to the event loop.  What is dead is forgotten, the output included.
Return ==
  /\ op' = NoOp /\ pc' = "idle"
  /\ node' = NULL /\ other' = NULL /\ pos' = 0 /\ offset' = 0
  /\ out' = << >>

-----------------------------------------------------------------------------
(* The order *)

\* Node n is before the tuple (s, m).
zless(n, s, m) == IF score[n] # s THEN score[n] < s ELSE n < m

zset_lookup(n) == root # NULL /\ n \in hmap

-----------------------------------------------------------------------------
(* avl_del *)

\* Detach node n; then avl_fix unless the tree has lost its root.
StartDel(n) ==
  LET simple == tree.left[n] = NULL \/ tree.right[n] = NULL
      v == IF simple THEN n ELSE Successor(tree, n)
      u == Unlink(tree, v)
  IN /\ tree' = u.tree
     /\ other' = IF simple THEN NULL ELSE v
     /\ node' = tree.parent[v]
     /\ IF tree.parent[v] = NULL
        THEN root' = u.child /\ pc' = "detached"
        ELSE root' = root /\ pc' = "delfix"

\* One turn of avl_fix, called by avl_del_easy or by tree_insert.
FixStep ==
  /\ pc \in {"delfix", "insfix"}
  /\ LET f == FixNode(tree, node) IN
       /\ tree' = f.tree
       /\ IF tree.parent[node] # NULL
          THEN node' = tree.parent[node] /\ UNCHANGED <<root, pc, op, other, pos, offset, out>>
          ELSE /\ root' = f.top
               /\ IF pc = "insfix" THEN Return
                  ELSE pc' = "detached" /\ node' = NULL
                       /\ UNCHANGED <<op, other, pos, offset, out>>
  /\ UNCHANGED <<hmap, score>>

\* avl_del has come back from avl_fix: the successor takes the node's place.
\* ZREM frees the node; an update gives it its score and inserts it again.
Detached ==
  /\ pc = "detached"
  /\ LET n == op.name
         t == IF other = NULL THEN tree ELSE Replace(tree, n, other)
         r == IF other # NULL /\ tree.parent[n] = NULL THEN other ELSE root
     IN /\ tree' = avl_init(t, n)
        /\ root' = r
        /\ IF op.cmd = "zrem" THEN Return /\ score' = [score EXCEPT ![n] = 0]
           ELSE /\ score' = [score EXCEPT ![n] = op.score]
                /\ pc' = "search" /\ node' = r /\ other' = NULL
                /\ UNCHANGED <<op, pos, offset, out>>
  /\ UNCHANGED hmap

-----------------------------------------------------------------------------
(* tree_insert *)

\* The tree is empty: the new node is the root.
InsertRoot ==
  /\ pc = "search" /\ node = NULL
  /\ root' = op.name
  /\ tree' = [tree EXCEPT !.parent[op.name] = NULL]
  /\ pc' = "insfix" /\ node' = op.name
  /\ UNCHANGED <<hmap, score, op, other, pos, offset, out>>

\* One turn of the search; at the end of the path the node is attached.
SearchStep ==
  /\ pc = "search" /\ node # NULL
  /\ LET n == op.name
         lt == zless(n, score[node], node)
         next == IF lt THEN tree.left[node] ELSE tree.right[node]
     IN IF next # NULL
        THEN node' = next /\ UNCHANGED <<tree, pc>>
        ELSE /\ tree' = IF lt THEN [tree EXCEPT !.left[node] = n, !.parent[n] = node]
                              ELSE [tree EXCEPT !.right[node] = n, !.parent[n] = node]
             /\ pc' = "insfix" /\ node' = n
  /\ UNCHANGED <<hmap, score, root, op, other, pos, offset, out>>

-----------------------------------------------------------------------------
(* The operations.  ZSCORE, and ZREM of a name that is not there, only look  *)
(* the name up.                                                              *)

\* ZADD n s: zset_insert, of a new name, the same score or another score.
ZAdd(n, s) ==
  /\ pc = "idle"
  /\ \/ /\ ~zset_lookup(n)
        /\ hmap' = hmap \cup {n}
        /\ score' = [score EXCEPT ![n] = s]
        /\ tree' = avl_init(tree, n)
        /\ op' = [cmd |-> "zadd", name |-> n, score |-> s]
        /\ pc' = "search" /\ node' = root /\ other' = NULL
        /\ UNCHANGED root
     \/ /\ zset_lookup(n) /\ score[n] # s
        /\ op' = [cmd |-> "zadd", name |-> n, score |-> s]
        /\ StartDel(n)
        /\ UNCHANGED <<hmap, score>>
     \/ /\ zset_lookup(n) /\ score[n] = s
        /\ UNCHANGED <<setVars, op, pc, node, other>>
  /\ UNCHANGED <<pos, offset, out>>

\* ZREM n: zset_delete if the name is there.
ZRem(n) ==
  /\ pc = "idle"
  /\ zset_lookup(n)
  /\ hmap' = hmap \ {n}
  /\ op' = [cmd |-> "zrem", name |-> n]
  /\ StartDel(n)
  /\ UNCHANGED <<score, pos, offset, out>>

\* entry_del of the key: every node is freed.
zset_clear ==
  /\ pc = "idle"
  /\ hmap' = {} /\ root' = NULL /\ tree' = NoTree
  /\ score' = [n \in Name |-> 0]
  /\ UNCHANGED <<op, pc, loopVars, out>>

-----------------------------------------------------------------------------
(* ZQUERY *)

ZQuery(q) ==
  /\ pc = "idle"
  /\ IF q.limit <= 0 THEN UNCHANGED <<op, pc, node>>
     ELSE /\ op' = [cmd |-> "zquery", score |-> q.score, name |-> q.name,
                    offset |-> q.offset, limit |-> q.limit]
          /\ pc' = "seek" /\ node' = root
  /\ UNCHANGED <<setVars, other, pos, offset, out>>

\* One turn of zset_seekge, whose candidate is kept in other.
SeekStep ==
  /\ pc = "seek" /\ node # NULL
  /\ IF zless(node, op.score, op.name)
     THEN node' = tree.right[node] /\ UNCHANGED other
     ELSE node' = tree.left[node] /\ other' = node
  /\ UNCHANGED <<setVars, op, pc, pos, offset, out>>

\* Fault: znode_offset does not test for NULL.
SeekDone_NoNullCheck ==
  /\ pc = "seek" /\ node = NULL
  /\ pc' = "offset" /\ node' = other /\ other' = NULL
  /\ pos' = 0 /\ offset' = op.offset
  /\ UNCHANGED <<setVars, op, out>>

\* znode_offset of what was found.
SeekDone ==
  /\ pc = "seek" /\ node = NULL
  /\ IF other = NULL THEN Return
     ELSE /\ pc' = "offset" /\ node' = other /\ other' = NULL
          /\ pos' = 0 /\ offset' = op.offset
          /\ UNCHANGED <<op, out>>
  /\ UNCHANGED setVars

\* Fault: the node itself is not counted.
LeftSpan_NoSelf(n) == avl_cnt(tree, tree.left[n])

\* The distance from the node in front of n's subtree to n, and from n to
\* the one behind its subtree.
LeftSpan(n)  == avl_cnt(tree, tree.left[n]) + 1
RightSpan(n) == avl_cnt(tree, tree.right[n]) + 1

\* Fault: the last node of the subtree is taken to be outside.
InRight_Short == pos < offset /\ pos + avl_cnt(tree, tree.right[node]) > offset

InRight == pos < offset /\ pos + avl_cnt(tree, tree.right[node]) >= offset
InLeft  == pos > offset /\ pos - avl_cnt(tree, tree.left[node]) <= offset

\* One turn of avl_offset.
OffsetStep ==
  /\ pc = "offset" /\ offset # pos
  /\ LET parent == tree.parent[node] IN
     IF InRight
     THEN node' = tree.right[node] /\ pos' = pos + LeftSpan(tree.right[node])
     ELSE IF InLeft
     THEN node' = tree.left[node] /\ pos' = pos - RightSpan(tree.left[node])
     ELSE /\ parent # NULL
          /\ node' = parent
          /\ pos' = IF tree.right[parent] = node THEN pos - LeftSpan(node)
                                                 ELSE pos + RightSpan(node)
  /\ UNCHANGED <<setVars, op, pc, other, offset, out>>

\* avl_offset returns NULL: the end of the output.
OffsetOut ==
  /\ pc = "offset" /\ offset # pos
  /\ ~InRight /\ ~InLeft /\ tree.parent[node] = NULL
  /\ Return
  /\ UNCHANGED setVars

\* avl_offset returns a node: one turn of the output loop, which asks for
\* the next node even if the limit is reached.
Output ==
  /\ pc = "offset" /\ offset = pos
  /\ IF Len(out) < op.limit
     THEN /\ out' = out \o <<node, score[node]>>
          /\ pos' = 0 /\ offset' = 1
          /\ UNCHANGED <<op, pc, node, other>>
     ELSE Return
  /\ UNCHANGED setVars

-----------------------------------------------------------------------------
Call == zset_clear
        \/ \E n \in Name : ZRem(n) \/ \E s \in Score : ZAdd(n, s)
        \/ \E q \in Query : ZQuery(q)

Inside == FixStep \/ Detached \/ InsertRoot \/ SearchStep
          \/ SeekStep \/ SeekDone \/ OffsetStep \/ OffsetOut \/ Output

Next == Call \/ Inside

Spec == Init /\ [][Next]_vars

-----------------------------------------------------------------------------
(* Properties *)

\* The types of the variables; a loop that looks into its node has one.
TypeOK ==
  /\ hmap \subseteq Name /\ score \in [Name -> Int]
  /\ tree \in Tree /\ root \in Name \cup {NULL}
  /\ op.cmd \in {"none", "zadd", "zrem", "zquery"}
  /\ pc \in {"idle", "delfix", "insfix", "detached", "search", "seek", "offset"}
  /\ pc = "idle" <=> op.cmd = "none"
  /\ {node, other} \subseteq Name \cup {NULL}
  /\ pc \in {"delfix", "insfix", "offset"} => node # NULL
  /\ pos \in Int /\ offset \in Int
  /\ out \in Seq(Int)

\* The names of the tree from left to right.
Inorder ==
  LET side[n \in Name \cup {NULL}] ==
        IF n = NULL THEN << >>
        ELSE side[tree.left[n]] \o <<n>> \o side[tree.right[n]]
  IN side[root]

\* Between operations the two indexes hold the same members, and the tree
\* has them in the order of (score, name): a node that a rotation or the swap
\* with its successor loses would still answer ZSCORE.
IndexesAgree ==
  pc = "idle" =>
    LET walk == Inorder IN
      /\ {walk[i] : i \in 1..Len(walk)} = hmap
      /\ \A i, j \in 1..Len(walk) : i < j => zless(walk[i], score[walk[j]], walk[j])

\* Between operations parents and children point at each other.  avl_offset
\* and avl_fix climb by the parent pointers, searches descend by the others.
LinksAgree ==
  pc = "idle" =>
    /\ root # NULL => tree.parent[root] = NULL
    /\ \A n \in hmap : \A c \in {tree.left[n], tree.right[n]} \ {NULL} :
         tree.parent[c] = n

\* Between operations no subtree is taller than its sibling by more than one.
Balanced ==
  pc = "idle" =>
    \A n \in hmap :
      LET l == avl_height(tree, tree.left[n])
          r == avl_height(tree, tree.right[n])
      IN l - r \in -1..1 /\ tree.height[n] = 1 + Higher(l, r)

\* Between operations every node counts its subtree, whatever was rotated,
\* detached or put in its place.
CountsExact ==
  pc = "idle" =>
    /\ avl_cnt(tree, root) = Cardinality(hmap)
    /\ \A n \in hmap : tree.cnt[n] =
         1 + avl_cnt(tree, tree.left[n]) + avl_cnt(tree, tree.right[n])

\* What ZQUERY should answer: from the first member at or behind the key, move
\* by the offset; the limit counts names and scores, two for each member.
Rank(n) == Cardinality({m \in hmap : zless(m, score[n], n)})
Expected(q) ==
  LET total == Cardinality(hmap)
      first == Cardinality({m \in hmap : zless(m, q.score, q.name)})
      start == first + q.offset
      atRank(r) == CHOOSE n \in hmap : Rank(n) = r
      most == (q.limit + 1) \div 2
      len == IF total - start < most THEN total - start ELSE most
  IN IF first = total \/ start < 0 \/ start >= total THEN << >>
     ELSE [i \in 1..(2 * len) |->
             LET n == atRank(start + (i - 1) \div 2)
             IN IF i % 2 = 1 THEN n ELSE score[n]]

\* zset_seekge and the climbing and descending of avl_offset find the members
\* that counting from the start would find, also for negative offsets and for
\* offsets outside the set.
QueryIsExact ==
  [][ op.cmd = "zquery" /\ pc' = "idle" => out = Expected(op) ]_vars
=============================================================================
