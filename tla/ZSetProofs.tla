---------------------------- MODULE ZSetProofs ----------------------------
(***************************************************************************)
(* Machine-checked proofs about ZSet: the tree of a sorted set is a        *)
(* balanced search tree with exact counts, whatever operations came before.*)
(***************************************************************************)
EXTENDS MCZSet, AvlProofs

-----------------------------------------------------------------------------
(* The order *)

\* zless, as a set of pairs of nodes.
Before(s) == {e \in Name \X Name :
                IF s[e[1]] # s[e[2]] THEN s[e[1]] < s[e[2]] ELSE e[1] < e[2]}

LEMMA BeforeIs ==
  ASSUME NEW s, NEW a \in Name, NEW b \in Name
  PROVE  <<a, b>> \in Before(s) <=> IF s[a] # s[b] THEN s[a] < s[b] ELSE a < b
  BY DEF Before

LEMMA BeforeOrders ==
  ASSUME NEW s \in [Name -> Int]
  PROVE  IsOrder(Before(s))
  <1>1. Name \subseteq Int
    BY ZSetAssumption
  <1>2. \A a \in Name : <<a, a>> \notin Before(s)
    BY <1>1, BeforeIs
  <1>3. \A a, b, c \in Name :
          <<a, b>> \in Before(s) /\ <<b, c>> \in Before(s) => <<a, c>> \in Before(s)
    <2> SUFFICES ASSUME NEW a \in Name, NEW b \in Name, NEW c \in Name,
                        <<a, b>> \in Before(s), <<b, c>> \in Before(s)
                 PROVE  <<a, c>> \in Before(s)
      OBVIOUS
    <2>1. /\ IF s[a] # s[b] THEN s[a] < s[b] ELSE a < b
          /\ IF s[b] # s[c] THEN s[b] < s[c] ELSE b < c
      BY BeforeIs
    <2>2. s[a] \in Int /\ s[b] \in Int /\ s[c] \in Int /\ a \in Int /\ b \in Int /\ c \in Int
      BY <1>1
    <2>3. IF s[a] # s[c] THEN s[a] < s[c] ELSE a < c
      BY <2>1, <2>2
    <2>4. QED
      BY <2>3, BeforeIs
  <1>4. \A a, b \in Name : a = b \/ <<a, b>> \in Before(s) \/ <<b, a>> \in Before(s)
    <2> SUFFICES ASSUME NEW a \in Name, NEW b \in Name, a # b
                 PROVE  <<a, b>> \in Before(s) \/ <<b, a>> \in Before(s)
      OBVIOUS
    <2>1. s[a] \in Int /\ s[b] \in Int /\ a \in Int /\ b \in Int
      BY <1>1
    <2>2. QED
      BY <2>1, BeforeIs
  <1>5. QED
    BY <1>2, <1>3, <1>4 DEF IsOrder

LEMMA ZlessIsBefore ==
  ASSUME NEW a \in Name, NEW b \in Name
  PROVE  zless(a, score[b], b) <=> <<a, b>> \in Before(score)
  BY BeforeIs DEF zless

\* A node that is not in the tree may change its score.
LEMMA ScoreFrame ==
  ASSUME NEW s \in [Name -> Int], NEW t, NEW root1, NEW M, IsTree(t, root1, M, Before(s)),
         NEW n \in Name, n \notin M, NEW x
  PROVE  IsTree(t, root1, M, Before([s EXCEPT ![n] = x]))
  <1> DEFINE u == [s EXCEPT ![n] = x]
  <1>1. M \subseteq Name
    BY TreeFacts
  <1>2. \A a \in M : u[a] = s[a]
    BY <1>1
  <1> HIDE DEF u
  <1>3. \A a, b \in M : <<a, b>> \in Before(s) => <<a, b>> \in Before(u)
    BY <1>1, <1>2, BeforeIs
  <1>4. IsTree(t, root1, M, Before(u))
    BY <1>3, OrderFrame
  <1>5. QED
    BY <1>4 DEF u

-----------------------------------------------------------------------------
(* The inductive invariant *)

\* The nodes that are in the tree.  A search has its node in the hash table
\* only; avl_del has detached its node, or the successor of its node.
Members ==
  IF pc = "search" THEN hmap \ {op.name}
  ELSE IF pc \in {"delfix", "detached"}
       THEN IF other = NULL THEN hmap \ {op.name} ELSE (hmap \cup {op.name}) \ {other}
  ELSE hmap

\* The nodes whose fields avl_del will overwrite.
Loose == IF pc \in {"delfix", "detached"} THEN {op.name, other} ELSE {}

\* What the running operation knows.
OpOK ==
  /\ pc = "idle" => op = NoOp /\ other = NULL /\ out = << >>
  /\ pc \in {"delfix", "detached"} =>
       /\ op.name \in Name
       /\ \/ op.cmd = "zadd" /\ op.name \in hmap /\ op.score \in Int
          \/ op.cmd = "zrem" /\ op.name \notin hmap
  /\ pc \in {"search", "insfix"} => op.cmd = "zadd" /\ op.name \in hmap
  /\ pc \in {"seek", "offset"} =>
       /\ op.cmd = "zquery" /\ op.score \in Int /\ op.name \in Int
       /\ op.offset \in Int /\ op.limit \in Int

TreeOK == IsTree(tree, root, Members, Before(score))

ExactOK == pc \notin {"delfix", "insfix"} => \A m \in Members : Exact(tree, m)

FixOK == pc \in {"delfix", "insfix"} => node \in Members /\ Fixing(tree, Members, node)

\* The successor can stand in for the node.
SwapOK == pc \in {"delfix", "detached"} /\ other # NULL =>
            /\ other \in hmap /\ other # op.name
            /\ SamePlace(Members, Before(score), op.name, other)

\* The search of tree_insert is on the path to the place of x.
Searching(t, r, M, ord, n, x) ==
  IF n = NULL THEN r = NULL
  ELSE \E B : /\ Shape(t.left, t.right, t.parent, r, M, B, ord)
              /\ OnPath(t.left, t.right, M, B, ord, n, x)

SearchOK == pc = "search" =>
              /\ Fresh(tree, op.name)
              /\ Searching(tree, root, Members, Before(score), node, op.name)

\* The loops of ZQUERY stay in the tree.
QueryOK == /\ pc = "seek" => {node, other} \subseteq hmap \cup {NULL}
           /\ pc = "offset" => node \in hmap

\* Nodes that are not in the tree have no children.
UnusedOK == \A m \in Name : m \notin Members /\ m \notin Loose =>
              tree.left[m] = NULL /\ tree.right[m] = NULL

Inv == /\ TypeOK /\ OpOK /\ TreeOK /\ ExactOK /\ FixOK
       /\ SwapOK /\ SearchOK /\ QueryOK /\ UnusedOK

LEMMA InitInv == Init => Inv
  <1> SUFFICES ASSUME Init PROVE Inv
    OBVIOUS
  <1>1. TypeOK /\ OpOK
    BY DEF Init, TypeOK, OpOK, NoOp, NoTree, Tree
  <1>2. Members = {} /\ Loose = {}
    BY DEF Init, Members, Loose
  <1>3. TreeOK
    <2> DEFINE B == [m \in {NULL} |-> {}]
    <2>1. IsFiniteSet({}) /\ root = NULL
      BY FS_EmptySet DEF Init
    <2>2. Pointers(tree.left, tree.right, tree.parent, root, {})
      BY <2>1 DEF Pointers
    <2>3. B \in [{} \cup {NULL} -> SUBSET {}] /\ B[NULL] = {}
      OBVIOUS
    <2> HIDE DEF B
    <2>4. Subtrees(tree.left, tree.right, root, {}, B)
      BY <2>1, <2>3 DEF Subtrees
    <2>5. QED
      BY <1>2, <2>2, <2>4 DEF TreeOK, IsTree, Shape, Linked, Sorted
  <1>4. ExactOK /\ FixOK /\ SwapOK /\ SearchOK /\ QueryOK
    BY <1>2 DEF Init, ExactOK, FixOK, SwapOK, SearchOK, QueryOK
  <1>5. UnusedOK
    BY DEF Init, UnusedOK, NoTree
  <1>6. QED
    BY <1>1, <1>3, <1>4, <1>5 DEF Inv

LEMMA SearchStarts ==
  ASSUME NEW t, NEW r, NEW M, NEW ord, IsOrder(ord), IsTree(t, r, M, ord), NEW x
  PROVE  Searching(t, r, M, ord, r, x)
  <1>1. CASE r = NULL
    BY <1>1 DEF Searching
  <1>2. CASE r # NULL
    <2>1. PICK B : Shape(t.left, t.right, t.parent, r, M, B, ord)
      BY DEF IsTree
    <2>2. OnPath(t.left, t.right, M, B, ord, r, x)
      BY <1>2, <2>1, PathStarts
    <2>3. QED
      BY <1>2, <2>1, <2>2 DEF Searching
  <1>3. QED
    BY <1>1, <1>2

-----------------------------------------------------------------------------
(* The steps of ZQUERY *)

\* They leave the tree alone.
LEMMA QueryFrame ==
  ASSUME Inv, UNCHANGED setVars, pc \in {"idle", "seek", "offset"},
         pc' \in {"idle", "seek", "offset"}, TypeOK', OpOK', QueryOK'
  PROVE  Inv'
  <1>1. Members = hmap /\ Loose = {}
    BY DEF Members, Loose
  <1>2. Members' = hmap /\ Loose' = {}
    BY DEF Members, Loose, setVars
  <1>3. tree' = tree /\ root' = root /\ score' = score
    BY DEF setVars
  <1>4. TreeOK'
    BY <1>1, <1>2, <1>3 DEF Inv, TreeOK
  <1>5. ExactOK' /\ FixOK' /\ SwapOK' /\ SearchOK'
    BY <1>1, <1>2, <1>3 DEF Inv, ExactOK, FixOK, SwapOK, SearchOK
  <1>6. UnusedOK'
    BY <1>1, <1>2, <1>3 DEF Inv, UnusedOK
  <1>7. QED
    BY <1>4, <1>5, <1>6 DEF Inv

LEMMA ReturnTypes ==
  ASSUME TypeOK, UNCHANGED setVars, Return
  PROVE  TypeOK' /\ OpOK' /\ QueryOK'
  BY DEF TypeOK, OpOK, QueryOK, Return, setVars, NoOp

LEMMA ZQueryInv ==
  ASSUME Inv, NEW q \in Query, ZQuery(q)
  PROVE  Inv'
  <1>1. pc = "idle" /\ UNCHANGED setVars /\ UNCHANGED <<other, pos, offset, out>>
    BY DEF ZQuery
  <1>2. TypeOK /\ OpOK /\ QueryOK
    BY DEF Inv
  <1>3. CASE q.limit <= 0
    <2>1. UNCHANGED <<op, pc, node>>
      BY <1>3 DEF ZQuery
    <2>2. TypeOK' /\ OpOK' /\ QueryOK'
      BY <1>1, <1>2, <2>1 DEF TypeOK, OpOK, QueryOK, setVars
    <2>3. QED
      BY <1>1, <2>1, <2>2, QueryFrame
  <1>4. CASE ~(q.limit <= 0)
    <2>1. /\ op' = [cmd |-> "zquery", score |-> q.score, name |-> q.name,
                    offset |-> q.offset, limit |-> q.limit]
          /\ pc' = "seek" /\ node' = root
      BY <1>4 DEF ZQuery
    <2>2. q.score \in Int /\ q.name \in Int /\ q.offset \in Int /\ q.limit \in Int
      BY ZSetAssumption
    <2>3. root \in hmap \cup {NULL} /\ other = NULL
      <3>1. IsTree(tree, root, hmap, Before(score))
        BY <1>1 DEF Inv, TreeOK, Members
      <3>2. QED
        BY <1>1, <1>2, <3>1, TreeFacts DEF OpOK
    <2>4. TypeOK' /\ OpOK' /\ QueryOK'
      BY <1>1, <1>2, <2>1, <2>2, <2>3 DEF TypeOK, OpOK, QueryOK, setVars
    <2>5. QED
      BY <1>1, <2>1, <2>4, QueryFrame
  <1>5. QED
    BY <1>3, <1>4

LEMMA QueryTree ==
  ASSUME Inv, pc \in {"idle", "seek", "offset"}
  PROVE  /\ IsTree(tree, root, hmap, Before(score))
         /\ \A m \in hmap : /\ tree.left[m] \in hmap \cup {NULL}
                            /\ tree.right[m] \in hmap \cup {NULL}
                            /\ tree.parent[m] \in hmap \cup {NULL}
         /\ \A m \in hmap : Exact(tree, m)
         /\ score \in [Name -> Int] /\ hmap \subseteq Name /\ tree \in Tree
  <1>1. IsTree(tree, root, hmap, Before(score)) /\ \A m \in hmap : Exact(tree, m)
    BY DEF Inv, TreeOK, ExactOK, Members
  <1>2. QED
    BY <1>1, TreeFacts DEF Inv, TypeOK

LEMMA SeekInv ==
  ASSUME Inv, SeekStep \/ SeekDone
  PROVE  Inv'
  <1>1. TypeOK /\ OpOK /\ QueryOK /\ pc = "seek" /\ UNCHANGED setVars
    BY DEF Inv, SeekStep, SeekDone
  <1>2. CASE SeekStep
    <2>1. node \in hmap /\ UNCHANGED <<op, pc, pos, offset, out>>
          /\ \/ node' = tree.right[node] /\ UNCHANGED other
             \/ node' = tree.left[node] /\ other' = node
      BY <1>1, <1>2 DEF SeekStep, QueryOK
    <2>2. node' \in hmap \cup {NULL} /\ other' \in hmap \cup {NULL}
      BY <1>1, <2>1, QueryTree DEF QueryOK
    <2>3. TypeOK' /\ OpOK' /\ QueryOK'
      BY <1>1, <2>1, <2>2 DEF TypeOK, OpOK, QueryOK, setVars
    <2>4. QED
      BY <1>1, <2>1, <2>3, QueryFrame
  <1>3. CASE SeekDone /\ other = NULL
    <2>1. Return
      BY <1>3 DEF SeekDone
    <2>2. pc' = "idle"
      BY <2>1 DEF Return
    <2>3. QED
      BY <1>1, <2>1, <2>2, ReturnTypes, QueryFrame
  <1>4. CASE SeekDone /\ other # NULL
    <2>1. /\ pc' = "offset" /\ node' = other /\ other' = NULL
          /\ pos' = 0 /\ offset' = op.offset /\ UNCHANGED <<op, out>>
      BY <1>4 DEF SeekDone
    <2>2. TypeOK' /\ OpOK' /\ QueryOK'
      BY <1>1, <1>4, <2>1, AvlAssumption DEF TypeOK, OpOK, QueryOK, setVars
    <2>3. QED
      BY <1>1, <2>1, <2>2, QueryFrame
  <1>5. QED
    BY <1>2, <1>3, <1>4

\* avl_offset never steps to a child that is not there.
LEMMA OffsetMoves ==
  ASSUME Inv, OffsetStep
  PROVE  /\ node \in hmap /\ node' \in hmap /\ pos' \in Int
         /\ InRight => node' = tree.right[node]
         /\ ~InRight /\ InLeft => node' = tree.left[node]
         /\ ~InRight /\ ~InLeft => node' = tree.parent[node]
  <1>1. pc = "offset" /\ node \in hmap /\ pos \in Int /\ offset \in Int
    BY DEF Inv, TypeOK, QueryOK, OffsetStep
  <1>2. /\ tree.left[node] \in hmap \cup {NULL} /\ tree.right[node] \in hmap \cup {NULL}
        /\ tree.parent[node] \in hmap \cup {NULL} /\ hmap \subseteq Name /\ tree \in Tree
        /\ \A m \in hmap : tree.left[m] \in Name \cup {NULL} /\ tree.right[m] \in Name \cup {NULL}
    BY <1>1, QueryTree
  <1>3. avl_cnt(tree, NULL) = 0
    BY DEF avl_cnt
  <1>4. \A m \in hmap : LeftSpan(m) \in Int /\ RightSpan(m) \in Int
    <2> TAKE m \in hmap
    <2>1. avl_cnt(tree, tree.left[m]) \in Nat /\ avl_cnt(tree, tree.right[m]) \in Nat
      BY <1>2, HeightType
    <2>2. QED
      BY <2>1 DEF LeftSpan, RightSpan
  <1>5. CASE InRight
    <2>1. tree.right[node] # NULL
      BY <1>1, <1>3, <1>5 DEF InRight
    <2>2. node' = tree.right[node] /\ pos' = pos + LeftSpan(tree.right[node])
      BY <1>5 DEF OffsetStep
    <2>3. node' \in hmap /\ LeftSpan(node') \in Int
      BY <1>2, <1>4, <2>1, <2>2
    <2>4. QED
      BY <1>1, <1>5, <2>2, <2>3
  <1>6. CASE ~InRight /\ InLeft
    <2>1. tree.left[node] # NULL
      BY <1>1, <1>3, <1>6 DEF InLeft
    <2>2. node' = tree.left[node] /\ pos' = pos - RightSpan(tree.left[node])
      BY <1>6 DEF OffsetStep
    <2>3. node' \in hmap /\ RightSpan(node') \in Int
      BY <1>2, <1>4, <2>1, <2>2
    <2>4. QED
      BY <1>1, <1>6, <2>2, <2>3
  <1>7. CASE ~InRight /\ ~InLeft
    <2>1. /\ tree.parent[node] # NULL /\ node' = tree.parent[node]
          /\ pos' = pos - LeftSpan(node) \/ pos' = pos + RightSpan(node)
      BY <1>7 DEF OffsetStep
    <2>2. LeftSpan(node) \in Int /\ RightSpan(node) \in Int
      BY <1>1, <1>4
    <2>3. QED
      BY <1>1, <1>2, <1>7, <2>1, <2>2
  <1>8. QED
    BY <1>5, <1>6, <1>7

LEMMA OffsetInv ==
  ASSUME Inv, OffsetStep \/ OffsetOut \/ Output
  PROVE  Inv'
  <1>1. TypeOK /\ OpOK /\ QueryOK /\ pc = "offset" /\ UNCHANGED setVars
    BY DEF Inv, OffsetStep, OffsetOut, Output
  <1>2. CASE OffsetStep
    <2>1. node' \in hmap /\ pos' \in Int
      BY <1>2, OffsetMoves
    <2>2. UNCHANGED <<op, pc, other, offset, out>>
      BY <1>2 DEF OffsetStep
    <2>3. TypeOK' /\ OpOK' /\ QueryOK'
      BY <1>1, <2>1, <2>2, AvlAssumption DEF TypeOK, OpOK, QueryOK, setVars
    <2>4. QED
      BY <1>1, <2>2, <2>3, QueryFrame
  <1>3. CASE Return
    <2>1. pc' = "idle"
      BY <1>3 DEF Return
    <2>2. QED
      BY <1>1, <1>3, <2>1, ReturnTypes, QueryFrame
  <1>4. CASE Output /\ Len(out) < op.limit
    <2>1. /\ out' = out \o <<node, score[node]>>
          /\ pos' = 0 /\ offset' = 1 /\ UNCHANGED <<op, pc, node, other>>
      BY <1>4 DEF Output
    <2>2. out' \in Seq(Int)
      <3>1. node \in Int /\ score[node] \in Int /\ out \in Seq(Int)
        BY <1>1, ZSetAssumption DEF TypeOK, QueryOK
      <3>2. QED
        BY <2>1, <3>1
    <2>3. TypeOK' /\ OpOK' /\ QueryOK'
      BY <1>1, <2>1, <2>2 DEF TypeOK, OpOK, QueryOK, setVars
    <2>4. QED
      BY <1>1, <2>1, <2>3, QueryFrame
  <1>5. QED
    BY <1>2, <1>3, <1>4 DEF OffsetOut, Output

-----------------------------------------------------------------------------
(* The turns of avl_fix *)

LEMMA FixStepInv ==
  ASSUME Inv, FixStep
  PROVE  Inv'
  <1> DEFINE f == FixNode(tree, node)
             p == tree.parent[node]
             M == Members
             ord == Before(score)
  <1>1. /\ TypeOK /\ OpOK /\ pc \in {"delfix", "insfix"} /\ tree' = f.tree
        /\ UNCHANGED <<hmap, score>>
    BY DEF Inv, FixStep
  <1>2. /\ tree \in Tree /\ IsOrder(ord) /\ IsTree(tree, root, M, ord)
        /\ node \in M /\ Fixing(tree, M, node)
    BY <1>1, BeforeOrders DEF Inv, TypeOK, TreeOK, FixOK
  <1>3. TurnDone(tree, f, root, M, ord, node, p)
    <2> HIDE DEF M, ord
    <2>1. QED
      BY <1>2, FixNodeFacts
  <1> HIDE DEF f
  <1>4. /\ tree' \in Tree /\ f.top \in M
        /\ IsTree(tree', IF p = NULL THEN f.top ELSE root, M, ord)
        /\ p = NULL => \A m \in M : Exact(tree', m)
        /\ p # NULL => p \in M /\ Fixing(tree', M, p)
        /\ \A m \in Name \ M : tree'.left[m] = tree.left[m] /\ tree'.right[m] = tree.right[m]
    BY <1>1, <1>3 DEF TurnDone
  <1>5. M \subseteq Name /\ NULL \notin Name /\ (pc = "insfix" => M = hmap /\ Loose = {})
    BY <1>1, <1>2, TreeFacts, AvlAssumption DEF Members, Loose
  <1>6. CASE p # NULL
    <2>1. node' = p /\ UNCHANGED <<root, pc, op, other, pos, offset, out>>
      BY <1>6 DEF FixStep
    <2>2. Members' = M /\ Loose' = Loose
      BY <1>1, <2>1 DEF Members, Loose
    <2> HIDE DEF M, p
    <2>3. TypeOK' /\ OpOK'
      BY <1>1, <1>4, <1>5, <1>6, <2>1 DEF TypeOK, OpOK
    <2>4. TreeOK' /\ ExactOK' /\ FixOK'
      BY <1>1, <1>4, <1>6, <2>1, <2>2 DEF TreeOK, ExactOK, FixOK
    <2>5. SwapOK' /\ SearchOK' /\ QueryOK'
      BY <1>1, <2>1, <2>2 DEF Inv, SwapOK, SearchOK, QueryOK, M
    <2>6. UnusedOK'
      BY <1>4, <2>2 DEF Inv, UnusedOK, M
    <2>7. QED
      BY <2>3, <2>4, <2>5, <2>6 DEF Inv
  <1>7. CASE p = NULL /\ pc = "insfix"
    <2>1. root' = f.top /\ Return
      BY <1>7 DEF FixStep, f
    <2>2. pc' = "idle" /\ Members' = hmap /\ Loose' = {} /\ M = hmap /\ Loose = {}
      BY <1>1, <1>5, <1>7, <2>1 DEF Members, Loose, Return
    <2> HIDE DEF M, p
    <2>3. TypeOK' /\ OpOK'
      BY <1>1, <1>4, <1>5, <2>1 DEF TypeOK, OpOK, Return, NoOp
    <2>4. TreeOK' /\ ExactOK' /\ FixOK'
      BY <1>1, <1>4, <1>7, <2>1, <2>2 DEF TreeOK, ExactOK, FixOK
    <2>5. SwapOK' /\ SearchOK' /\ QueryOK'
      BY <2>2 DEF SwapOK, SearchOK, QueryOK
    <2>6. UnusedOK'
      BY <1>4, <2>2 DEF Inv, UnusedOK, M
    <2>7. QED
      BY <2>3, <2>4, <2>5, <2>6 DEF Inv
  <1>8. CASE p = NULL /\ pc = "delfix"
    <2>1. /\ root' = f.top /\ pc' = "detached" /\ node' = NULL
          /\ UNCHANGED <<op, other, pos, offset, out>>
      BY <1>8 DEF FixStep, f
    <2>2. Members' = M /\ Loose' = Loose
      BY <1>1, <1>8, <2>1 DEF Members, Loose
    <2> HIDE DEF M, p
    <2>3. TypeOK' /\ OpOK'
      BY <1>1, <1>4, <1>5, <1>8, <2>1 DEF TypeOK, OpOK
    <2>4. TreeOK' /\ ExactOK' /\ FixOK'
      BY <1>1, <1>4, <1>8, <2>1, <2>2 DEF TreeOK, ExactOK, FixOK
    <2>5. SwapOK' /\ SearchOK' /\ QueryOK'
      BY <1>1, <1>8, <2>1, <2>2 DEF Inv, SwapOK, SearchOK, QueryOK, M
    <2>6. UnusedOK'
      BY <1>4, <2>2 DEF Inv, UnusedOK, M
    <2>7. QED
      BY <2>3, <2>4, <2>5, <2>6 DEF Inv
  <1>9. QED
    BY <1>1, <1>6, <1>7, <1>8

-----------------------------------------------------------------------------
(* The steps of tree_insert *)

\* The node is linked into the tree: avl_fix starts.
LEMMA GrownInv ==
  ASSUME Inv, pc = "search",
         Grown(tree, tree', root', Members, Before(score), op.name),
         pc' = "insfix", node' = op.name, root' \in Name \cup {NULL},
         UNCHANGED <<hmap, score, op, other, pos, offset, out>>
  PROVE  Inv'
  <1>1. /\ TypeOK /\ OpOK /\ op.cmd = "zadd" /\ op.name \in hmap
        /\ Members = hmap \ {op.name} /\ hmap \subseteq Name
    BY DEF Inv, OpOK, TypeOK, Members
  <1>2. Members' = hmap /\ Members \cup {op.name} = hmap /\ Loose = {} /\ Loose' = {}
    BY <1>1 DEF Members, Loose
  <1>3. /\ tree' \in Tree /\ IsTree(tree', root', hmap, Before(score))
        /\ Fixing(tree', hmap, op.name)
        /\ \A m \in Name : m \notin Members =>
             tree'.left[m] = tree.left[m] /\ tree'.right[m] = tree.right[m]
    BY <1>2 DEF Grown
  <1>4. TypeOK' /\ OpOK'
    BY <1>1, <1>3, AvlAssumption DEF TypeOK, OpOK
  <1>5. TreeOK' /\ ExactOK' /\ FixOK'
    BY <1>1, <1>2, <1>3 DEF TreeOK, ExactOK, FixOK
  <1>6. SwapOK' /\ SearchOK' /\ QueryOK'
    BY DEF SwapOK, SearchOK, QueryOK
  <1>7. UnusedOK'
    BY <1>1, <1>2, <1>3 DEF Inv, UnusedOK
  <1>8. QED
    BY <1>4, <1>5, <1>6, <1>7 DEF Inv

LEMMA InsertRootInv ==
  ASSUME Inv, InsertRoot
  PROVE  Inv'
  <1>1. /\ pc = "search" /\ node = NULL /\ root' = op.name
        /\ tree' = [tree EXCEPT !.parent[op.name] = NULL]
        /\ pc' = "insfix" /\ node' = op.name
        /\ UNCHANGED <<hmap, score, op, other, pos, offset, out>>
    BY DEF InsertRoot
  <1>2. root = NULL /\ Fresh(tree, op.name) /\ op.name \in Name /\ tree \in Tree
    BY <1>1 DEF Inv, SearchOK, Searching, OpOK, TypeOK
  <1>3. Members = {}
    BY <1>2, TreeFacts DEF Inv, TreeOK
  <1>4. Grown(tree, tree', root', Members, Before(score), op.name)
    BY <1>1, <1>2, <1>3, AttachRoot
  <1>5. QED
    BY <1>1, <1>2, <1>4, GrownInv

LEMMA SearchStepInv ==
  ASSUME Inv, SearchStep
  PROVE  Inv'
  <1> DEFINE n == op.name
             lt == zless(n, score[node], node)
             next == IF lt THEN tree.left[node] ELSE tree.right[node]
             ord == Before(score)
             M == Members
  <1>1. /\ pc = "search" /\ node # NULL
        /\ UNCHANGED <<hmap, score, root, op, other, pos, offset, out>>
    BY DEF SearchStep
  <1>2. /\ TypeOK /\ OpOK /\ tree \in Tree /\ IsOrder(ord) /\ n \in hmap /\ n \in Name
        /\ Fresh(tree, n) /\ M = hmap \ {n} /\ \A m \in M : Exact(tree, m)
        /\ root \in Name \cup {NULL}
    BY <1>1, BeforeOrders DEF Inv, TypeOK, OpOK, SearchOK, ExactOK, Members
  <1>3. PICK B : /\ Shape(tree.left, tree.right, tree.parent, root, M, B, ord)
                 /\ OnPath(tree.left, tree.right, M, B, ord, node, n)
    BY <1>1 DEF Inv, SearchOK, Searching
  <1>4. /\ node \in M /\ M \subseteq Name /\ node \in Name /\ node # n /\ n \notin M
        /\ tree.left[node] \in Name \cup {NULL} /\ tree.right[node] \in Name \cup {NULL}
    BY <1>2, <1>3 DEF OnPath, Shape, Pointers
  <1>5. /\ lt => <<n, node>> \in ord
        /\ ~lt => <<node, n>> \in ord
    <2>1. lt <=> <<n, node>> \in ord
      BY <1>2, <1>4, ZlessIsBefore
    <2>2. QED
      BY <1>2, <1>4, <2>1 DEF IsOrder
  <1>6. CASE next # NULL
    <2>1. node' = next /\ UNCHANGED <<tree, pc>>
      BY <1>6 DEF SearchStep
    <2>2. OnPath(tree.left, tree.right, M, B, ord, next, n)
      <3> HIDE DEF ord, M
      <3>1. CASE lt
        BY <1>2, <1>3, <1>5, <1>6, <3>1, PathLeft
      <3>2. CASE ~lt
        BY <1>2, <1>3, <1>5, <1>6, <3>2, PathRight
      <3>3. QED
        BY <3>1, <3>2
    <2>3. Members' = M /\ Loose' = Loose
      BY <1>1, <2>1 DEF Members, Loose
    <2>4. next \in Name
      BY <1>4, <1>6
    <2> HIDE DEF next, M, ord
    <2>5. Searching(tree', root', Members', ord, node', n)
      BY <1>1, <1>3, <1>6, <2>1, <2>2, <2>3 DEF Searching
    <2>6. TypeOK' /\ OpOK'
      BY <1>1, <1>2, <2>1, <2>4 DEF TypeOK, OpOK
    <2>7. TreeOK' /\ ExactOK' /\ FixOK'
      BY <1>1, <2>1, <2>3 DEF Inv, TreeOK, ExactOK, FixOK, M
    <2>8. SwapOK' /\ SearchOK' /\ QueryOK'
      BY <1>1, <1>2, <2>1, <2>5 DEF SwapOK, SearchOK, QueryOK, ord
    <2>9. UnusedOK'
      BY <2>1, <2>3 DEF Inv, UnusedOK, M
    <2>10. QED
      BY <2>6, <2>7, <2>8, <2>9 DEF Inv
  <1>7. CASE next = NULL
    <2>1. /\ tree' = IF lt THEN [tree EXCEPT !.left[node] = n, !.parent[n] = node]
                           ELSE [tree EXCEPT !.right[node] = n, !.parent[n] = node]
          /\ pc' = "insfix" /\ node' = n
      BY <1>7 DEF SearchStep
    <2>2. Grown(tree, tree', root, M, ord, n)
      <3> HIDE DEF ord, M, n
      <3>1. CASE lt
        <4>1. tree.left[node] = NULL
          BY <1>7, <3>1
        <4>2. tree' = AddLeft(tree, node, n)
          BY <2>1, <3>1 DEF AddLeft
        <4> HIDE DEF lt
        <4>3. <<n, node>> \in ord
          BY <1>5, <3>1
        <4>4. Grown(tree, AddLeft(tree, node, n), root, M, ord, n)
          BY <1>2, <1>3, <1>4, <4>1, <4>3, AttachLeft
        <4>5. QED
          BY <4>2, <4>4
      <3>2. CASE ~lt
        <4>1. tree.right[node] = NULL
          BY <1>7, <3>2
        <4>2. tree' = AddRight(tree, node, n)
          BY <2>1, <3>2 DEF AddRight
        <4> HIDE DEF lt
        <4>3. <<node, n>> \in ord
          BY <1>5, <3>2
        <4>4. Grown(tree, AddRight(tree, node, n), root, M, ord, n)
          BY <1>2, <1>3, <1>4, <4>1, <4>3, AttachRight
        <4>5. QED
          BY <4>2, <4>4
      <3>3. QED
        BY <3>1, <3>2
    <2>3. QED
      BY <1>1, <1>2, <2>1, <2>2, GrownInv
  <1>8. QED
    BY <1>6, <1>7

-----------------------------------------------------------------------------
(* The steps of avl_del *)

\* The node to detach: n itself, or its successor.
Victim(n) == IF tree.left[n] = NULL \/ tree.right[n] = NULL THEN n ELSE Successor(tree, n)

LEMMA VictimFacts ==
  ASSUME Inv, pc = "idle", NEW n \in hmap
  PROVE  /\ Victim(n) \in hmap
         /\ tree.left[Victim(n)] = NULL \/ tree.right[Victim(n)] = NULL
         /\ ~(tree.left[n] = NULL \/ tree.right[n] = NULL) =>
              /\ Victim(n) # n
              /\ SamePlace(hmap \ {Victim(n)}, Before(score), n, Victim(n))
  <1> DEFINE ord == Before(score)
             v == Successor(tree, n)
  <1>1. /\ IsTree(tree, root, hmap, ord) /\ hmap \subseteq Name /\ tree \in Tree /\ IsOrder(ord)
        /\ \A m \in Name \ hmap : tree.left[m] = NULL
    BY QueryTree, BeforeOrders DEF Inv, UnusedOK, Members, Loose
  <1>2. CASE tree.left[n] = NULL \/ tree.right[n] = NULL
    BY <1>2 DEF Victim
  <1>3. CASE ~(tree.left[n] = NULL \/ tree.right[n] = NULL)
    <2> HIDE DEF ord
    <2>1. PICK B : Shape(tree.left, tree.right, tree.parent, root, hmap, B, ord)
      BY <1>1 DEF IsTree
    <2>2. IsLeast(B, ord, tree.right[n], v)
      BY <1>1, <1>3, <2>1, SuccessorFacts
    <2> HIDE DEF v
    <2>3. /\ v \in hmap /\ v # n /\ tree.left[v] = NULL
          /\ \A m \in hmap : m # n /\ m # v => (<<m, n>> \in ord <=> <<m, v>> \in ord)
      BY <1>1, <1>3, <2>1, <2>2, SuccessorIsNext
    <2>4. SamePlace(hmap \ {v}, ord, n, v)
      BY <2>3 DEF SamePlace
    <2>5. Victim(n) = v
      BY <1>3 DEF Victim, v
    <2>6. QED
      BY <1>3, <2>3, <2>4, <2>5 DEF ord
  <1>4. QED
    BY <1>2, <1>3

\* What is known when the node is detached.
Detaching(n, v, M) ==
  /\ tree' \in Tree /\ IsTree(tree', root', M, Before(score))
  /\ other' = NULL \/ other' = v
  /\ other' = NULL => v = n
  /\ other' # NULL => v # n /\ SamePlace(M, Before(score), n, v)
  /\ node' \in Name \cup {NULL} /\ root' \in Name \cup {NULL}
  /\ \/ pc' = "delfix" /\ node' \in M /\ Fixing(tree', M, node')
     \/ pc' = "detached" /\ \A m \in M : Exact(tree', m)
  /\ \A m \in Name \ hmap : tree'.left[m] = tree.left[m] /\ tree'.right[m] = tree.right[m]

LEMMA StartDelFacts ==
  ASSUME Inv, pc = "idle", NEW n \in hmap, StartDel(n)
  PROVE  Detaching(n, Victim(n), hmap \ {Victim(n)})
  <1> DEFINE v == Victim(n)
             u == Unlink(tree, v)
             p == tree.parent[v]
             M == hmap \ {v}
             simple == tree.left[n] = NULL \/ tree.right[n] = NULL
  <1>1. /\ tree' = u.tree
        /\ other' = IF simple THEN NULL ELSE v
        /\ node' = p
        /\ p = NULL => root' = u.child /\ pc' = "detached"
        /\ p # NULL => root' = root /\ pc' = "delfix"
    BY DEF StartDel, Victim
  <1>2. /\ IsTree(tree, root, hmap, Before(score)) /\ \A m \in hmap : Exact(tree, m)
        /\ hmap \subseteq Name /\ tree \in Tree /\ IsOrder(Before(score))
    BY QueryTree, BeforeOrders
  <1>3. /\ v \in hmap
        /\ tree.left[v] = NULL \/ tree.right[v] = NULL
        /\ ~simple => v # n /\ SamePlace(M, Before(score), n, v)
        /\ simple => v = n
    BY VictimFacts DEF Victim
  <1> HIDE DEF v
  <1>4. PICK B : Shape(tree.left, tree.right, tree.parent, root, hmap, B, Before(score))
    BY <1>2 DEF IsTree
  <1>5. Shrunk(tree, u.tree, IF p = NULL THEN u.child ELSE root, hmap, Before(score), v, p)
    BY <1>2, <1>3, <1>4, UnlinkFacts
  <1> HIDE DEF u, p
  <1>6. /\ tree' \in Tree /\ IsTree(tree', root', M, Before(score))
        /\ p # NULL => p \in M /\ Fixing(tree', M, p)
        /\ p = NULL => \A m \in M : Exact(tree', m)
        /\ \A m \in Name \ hmap : tree'.left[m] = tree.left[m] /\ tree'.right[m] = tree.right[m]
    BY <1>1, <1>5 DEF Shrunk
  <1>7. root' \in Name \cup {NULL} /\ M \subseteq Name /\ v # NULL
    BY <1>2, <1>3, <1>6, TreeFacts, AvlAssumption
  <1> HIDE DEF simple, M
  <1>8. Detaching(n, v, M)
    BY <1>1, <1>3, <1>6, <1>7 DEF Detaching
  <1>9. QED
    BY <1>8 DEF v, M

\* ZADD of another score, or ZREM.
LEMMA DelStarts ==
  ASSUME Inv, pc = "idle", NEW n \in hmap, StartDel(n), op'.name = n,
         \/ op'.cmd = "zadd" /\ op'.score \in Int /\ hmap' = hmap
         \/ op'.cmd = "zrem" /\ hmap' = hmap \ {n},
         UNCHANGED <<score, pos, offset, out>>
  PROVE  Inv'
  <1> DEFINE v == Victim(n)
             M == hmap \ {v}
  <1>1. Detaching(n, v, M) /\ v \in hmap
    BY StartDelFacts, VictimFacts
  <1>2. TypeOK /\ OpOK /\ hmap \subseteq Name /\ NULL \notin Name
    BY AvlAssumption DEF Inv, TypeOK
  <1> HIDE DEF v
  <1>3. pc' \in {"delfix", "detached"} /\ (other' = NULL \/ other' = v)
        /\ (other' = NULL => v = n) /\ (other' # NULL => v # n)
    BY <1>1 DEF Detaching
  <1>4. Members' = M
    <2>1. Members' = IF other' = NULL THEN hmap' \ {n} ELSE (hmap' \cup {n}) \ {other'}
      BY <1>3 DEF Members
    <2>2. QED
      BY <1>3, <2>1
  <1>5. Loose' = {n, other'}
    BY <1>3 DEF Loose
  <1>6. TypeOK'
    BY <1>1, <1>2, AvlAssumption DEF TypeOK, Detaching
  <1>7. OpOK'
    BY <1>2, <1>3 DEF OpOK
  <1> HIDE DEF M
  <1>8. TreeOK' /\ ExactOK' /\ FixOK'
    BY <1>1, <1>4 DEF Detaching, TreeOK, ExactOK, FixOK
  <1>9. SwapOK' /\ SearchOK' /\ QueryOK'
    BY <1>1, <1>3, <1>4 DEF Detaching, SwapOK, SearchOK, QueryOK
  <1>10. UnusedOK'
    <2> SUFFICES ASSUME NEW m \in Name, m \notin M, m \notin {n, other'}
                 PROVE  tree'.left[m] = NULL /\ tree'.right[m] = NULL
      BY <1>4, <1>5 DEF UnusedOK
    <2>1. m \notin hmap
      BY <1>3 DEF M
    <2>2. tree.left[m] = NULL /\ tree.right[m] = NULL
      BY <2>1 DEF Inv, UnusedOK, Members, Loose
    <2>3. QED
      BY <1>1, <2>1, <2>2 DEF Detaching
  <1>11. QED
    BY <1>6, <1>7, <1>8, <1>9, <1>10 DEF Inv

LEMMA ZRemInv ==
  ASSUME Inv, NEW n \in Name, ZRem(n)
  PROVE  Inv'
  <1>1. /\ pc = "idle" /\ n \in hmap /\ hmap' = hmap \ {n} /\ StartDel(n)
        /\ op' = [cmd |-> "zrem", name |-> n] /\ UNCHANGED <<score, pos, offset, out>>
    BY DEF ZRem, zset_lookup
  <1>2. op'.name = n /\ op'.cmd = "zrem"
    BY <1>1
  <1>3. QED
    BY <1>1, <1>2, DelStarts

LEMMA ZAddInv ==
  ASSUME Inv, NEW n \in Name, NEW s \in Score, ZAdd(n, s)
  PROVE  Inv'
  <1>1. pc = "idle" /\ UNCHANGED <<pos, offset, out>> /\ s \in Int
    BY ZSetAssumption DEF ZAdd
  <1>2. /\ TypeOK /\ OpOK /\ Members = hmap /\ Loose = {}
        /\ tree \in Tree /\ score \in [Name -> Int]
    BY <1>1 DEF Inv, TypeOK, Members, Loose
  <1>3. /\ IsTree(tree, root, hmap, Before(score)) /\ \A m \in hmap : Exact(tree, m)
        /\ hmap \subseteq Name
    BY <1>1, QueryTree
  <1>4. CASE zset_lookup(n) /\ score[n] # s
    <2>1. /\ op' = [cmd |-> "zadd", name |-> n, score |-> s]
          /\ StartDel(n) /\ UNCHANGED <<hmap, score>>
      BY <1>4 DEF ZAdd
    <2>2. op'.name = n /\ op'.cmd = "zadd" /\ op'.score \in Int
      BY <1>1, <2>1
    <2>3. n \in hmap
      BY <1>4 DEF zset_lookup
    <2>4. QED
      BY <1>1, <2>1, <2>2, <2>3, DelStarts
  <1>5. CASE zset_lookup(n) /\ score[n] = s
    <2>1. UNCHANGED <<setVars, op, pc, node, other>>
      BY <1>5 DEF ZAdd
    <2>2. TypeOK' /\ OpOK' /\ QueryOK'
      BY <1>1, <1>2, <2>1 DEF TypeOK, OpOK, QueryOK, setVars
    <2>3. QED
      BY <1>1, <2>1, <2>2, QueryFrame
  <1>6. CASE ~zset_lookup(n)
    <2>1. /\ hmap' = hmap \cup {n}
          /\ score' = [score EXCEPT ![n] = s]
          /\ tree' = avl_init(tree, n)
          /\ op' = [cmd |-> "zadd", name |-> n, score |-> s]
          /\ pc' = "search" /\ node' = root /\ other' = NULL /\ UNCHANGED root
      BY <1>6 DEF ZAdd
    <2>2. n \notin hmap
      BY <1>3, <1>6, TreeFacts DEF zset_lookup
    <2>3. op'.name = n /\ op'.cmd = "zadd"
      BY <2>1
    <2>4. Members' = hmap /\ Loose' = {}
      BY <2>1, <2>2, <2>3 DEF Members, Loose
    <2>5. /\ tree' \in Tree /\ Fresh(tree', n) /\ IsTree(tree', root, hmap, Before(score))
          /\ \A m \in hmap : Exact(tree', m)
          /\ \A m \in Name : m # n => tree'.left[m] = tree.left[m] /\ tree'.right[m] = tree.right[m]
      BY <1>2, <1>3, <2>1, <2>2, InitFacts, InitTree
    <2>6. IsTree(tree', root', hmap, Before(score')) /\ score' \in [Name -> Int]
      BY <1>1, <1>2, <2>1, <2>2, <2>5, ScoreFrame
    <2>7. Searching(tree', root', hmap, Before(score'), node', n)
      BY <2>1, <2>6, BeforeOrders, SearchStarts
    <2>8. TypeOK' /\ OpOK'
      BY <1>1, <1>2, <1>3, <2>1, <2>3, <2>5, <2>6 DEF TypeOK, OpOK
    <2>9. TreeOK' /\ ExactOK' /\ FixOK'
      BY <2>1, <2>4, <2>5, <2>6 DEF TreeOK, ExactOK, FixOK
    <2>10. SwapOK' /\ SearchOK' /\ QueryOK'
      BY <2>1, <2>3, <2>4, <2>5, <2>7 DEF SwapOK, SearchOK, QueryOK
    <2>11. UnusedOK'
      <3>1. \A m \in Name : m \notin hmap => tree.left[m] = NULL /\ tree.right[m] = NULL
        BY <1>2 DEF Inv, UnusedOK
      <3>2. QED
        BY <2>4, <2>5, <3>1 DEF UnusedOK, Fresh
    <2>12. QED
      BY <2>8, <2>9, <2>10, <2>11 DEF Inv
  <1>7. QED
    BY <1>4, <1>5, <1>6

\* The tree when avl_del returns, with op.name out of it.
LEMMA DetachedTree ==
  ASSUME Inv, pc = "detached",
         NEW t, t = IF other = NULL THEN tree ELSE Replace(tree, op.name, other),
         NEW r, r = IF other # NULL /\ tree.parent[op.name] = NULL THEN other ELSE root,
         NEW u, u = avl_init(t, op.name)
  PROVE  /\ u \in Tree /\ IsTree(u, r, hmap \ {op.name}, Before(score)) /\ Fresh(u, op.name)
         /\ \A m \in hmap \ {op.name} : Exact(u, m)
         /\ \A m \in Name : m \notin hmap \ {op.name} => u.left[m] = NULL /\ u.right[m] = NULL
  <1> DEFINE n == op.name
             M == Members
             N == hmap \ {n}
             ord == Before(score)
  <1>1. /\ n \in Name /\ tree \in Tree /\ hmap \subseteq Name /\ IsOrder(ord)
        /\ IsTree(tree, root, M, ord) /\ \A m \in M : Exact(tree, m)
        /\ \A m \in Name : m \notin M /\ m \notin {n, other} =>
             tree.left[m] = NULL /\ tree.right[m] = NULL
    BY BeforeOrders DEF Inv, OpOK, TypeOK, TreeOK, ExactOK, UnusedOK, Loose
  <1>2. /\ t \in Tree /\ IsTree(t, r, N, ord) /\ \A m \in N : Exact(t, m)
        /\ \A m \in Name : m \notin N /\ m # n => t.left[m] = NULL /\ t.right[m] = NULL
    <2>1. CASE other = NULL
      <3>1. M = N /\ t = tree /\ r = root
        BY <2>1 DEF Members
      <3>2. \A m \in Name : m # other
        BY <2>1, AvlAssumption
      <3>3. QED
        BY <1>1, <3>1, <3>2
    <2>2. CASE other # NULL
      <3>1. /\ other \in hmap /\ other # n /\ SamePlace(M, ord, n, other)
            /\ M = (hmap \cup {n}) \ {other}
        BY <2>2 DEF Inv, SwapOK, Members
      <3>2. n \in M /\ other \in Name /\ other \notin M /\ (M \ {n}) \cup {other} = N
        BY <1>1, <3>1
      <3>3. t = Replace(tree, n, other)
        BY <2>2
      <3>4. r = IF tree.parent[n] = NULL THEN other ELSE root
        BY <2>2
      <3> HIDE DEF M, N, ord, n
      <3>5. Replaced(tree, Replace(tree, n, other), root, M, ord, n, other)
        BY <1>1, <3>1, <3>2, ReplaceFacts
      <3>6. /\ t \in Tree
            /\ IsTree(t, IF tree.parent[n] = NULL THEN other ELSE root, (M \ {n}) \cup {other}, ord)
            /\ \A m \in (M \ {n}) \cup {other} : Exact(t, m)
            /\ \A m \in Name : m \notin M /\ m # other =>
                 t.left[m] = tree.left[m] /\ t.right[m] = tree.right[m]
        BY <3>3, <3>5 DEF Replaced
      <3>7. \A m \in Name : m \notin N /\ m # n => m \notin M /\ m # other
        BY <3>1, <3>2
      <3>8. QED
        BY <1>1, <3>2, <3>4, <3>6, <3>7
    <2>3. QED
      BY <2>1, <2>2
  <1> HIDE DEF M, N, ord, n
  <1>3. n \notin N /\ u = avl_init(t, n)
    BY DEF N, n
  <1>4. /\ u \in Tree /\ Fresh(u, n)
        /\ \A m \in Name : m # n => u.left[m] = t.left[m] /\ u.right[m] = t.right[m]
    BY <1>1, <1>2, <1>3, InitFacts
  <1>5. IsTree(u, r, N, ord) /\ \A m \in N : Exact(u, m)
    BY <1>1, <1>2, <1>3, InitTree
  <1>6. \A m \in Name : m \notin N => u.left[m] = NULL /\ u.right[m] = NULL
    BY <1>2, <1>4 DEF Fresh
  <1>7. QED
    BY <1>4, <1>5, <1>6 DEF N, ord, n

LEMMA DetachedInv ==
  ASSUME Inv, Detached
  PROVE  Inv'
  <1> DEFINE n == op.name
             t == IF other = NULL THEN tree ELSE Replace(tree, n, other)
             r == IF other # NULL /\ tree.parent[n] = NULL THEN other ELSE root
             N == hmap \ {n}
  <1>1. pc = "detached" /\ tree' = avl_init(t, n) /\ root' = r /\ hmap' = hmap
    BY DEF Detached
  <1>2. /\ TypeOK /\ n \in Name /\ score \in [Name -> Int] /\ hmap \subseteq Name
        /\ \/ op.cmd = "zadd" /\ n \in hmap /\ op.score \in Int
           \/ op.cmd = "zrem" /\ n \notin hmap
    BY <1>1 DEF Inv, TypeOK, OpOK
  <1>3. /\ tree' \in Tree /\ IsTree(tree', root', N, Before(score)) /\ Fresh(tree', n)
        /\ \A m \in N : Exact(tree', m)
        /\ \A m \in Name : m \notin N => tree'.left[m] = NULL /\ tree'.right[m] = NULL
    BY <1>1, DetachedTree
  <1> HIDE DEF t, r
  <1>4. root' \in Name \cup {NULL} /\ n \notin N
    BY <1>2, <1>3, TreeFacts
  <1>5. CASE op.cmd = "zrem"
    <2>1. Return /\ score' = [score EXCEPT ![n] = 0]
      BY <1>5 DEF Detached
    <2>2. IsTree(tree', root', N, Before(score')) /\ score' \in [Name -> Int]
      <3>1. score' \in [Name -> Int]
        BY <1>2, <2>1
      <3> HIDE DEF N
      <3>2. IsTree(tree', root', N, Before([score EXCEPT ![n] = 0]))
        BY <1>2, <1>3, <1>4, ScoreFrame
      <3>3. QED
        BY <2>1, <3>1, <3>2
    <2>3. pc' = "idle" /\ Members' = N /\ Loose' = {}
      BY <1>1, <1>2, <1>5, <2>1 DEF Return, Members, Loose
    <2> HIDE DEF N
    <2>4. TypeOK' /\ OpOK'
      BY <1>1, <1>2, <1>3, <1>4, <2>1, <2>2 DEF TypeOK, OpOK, Return, NoOp
    <2>5. TreeOK' /\ ExactOK' /\ FixOK'
      BY <1>3, <2>2, <2>3 DEF TreeOK, ExactOK, FixOK
    <2>6. SwapOK' /\ SearchOK' /\ QueryOK'
      BY <2>3 DEF SwapOK, SearchOK, QueryOK
    <2>7. UnusedOK'
      BY <1>3, <2>3 DEF UnusedOK
    <2>8. QED
      BY <2>4, <2>5, <2>6, <2>7 DEF Inv
  <1>6. CASE op.cmd = "zadd"
    <2>1. /\ score' = [score EXCEPT ![n] = op.score]
          /\ pc' = "search" /\ node' = root' /\ other' = NULL /\ UNCHANGED <<op, pos, offset, out>>
      BY <1>1, <1>6 DEF Detached, r, n
    <2>2. IsTree(tree', root', N, Before(score')) /\ score' \in [Name -> Int]
      <3>1. op.score \in Int
        BY <1>2, <1>6
      <3>2. score' \in [Name -> Int]
        BY <1>2, <2>1, <3>1
      <3> HIDE DEF N
      <3>3. IsTree(tree', root', N, Before([score EXCEPT ![n] = op.score]))
        BY <1>2, <1>3, <1>4, ScoreFrame
      <3>4. QED
        BY <2>1, <3>2, <3>3
    <2>3. Members' = N /\ Loose' = {}
      BY <1>1, <2>1 DEF Members, Loose
    <2> HIDE DEF N
    <2>4. TypeOK' /\ OpOK'
      BY <1>1, <1>2, <1>3, <1>4, <1>6, <2>1, <2>2 DEF TypeOK, OpOK
    <2>5. TreeOK' /\ ExactOK' /\ FixOK'
      BY <1>3, <2>1, <2>2, <2>3 DEF TreeOK, ExactOK, FixOK
    <2>6. Searching(tree', root', N, Before(score'), node', n)
      BY <2>1, <2>2, BeforeOrders, SearchStarts
    <2>7. SwapOK' /\ SearchOK' /\ QueryOK'
      BY <1>3, <2>1, <2>3, <2>6 DEF SwapOK, SearchOK, QueryOK
    <2>8. UnusedOK'
      BY <1>3, <2>3 DEF UnusedOK
    <2>9. QED
      BY <2>4, <2>5, <2>7, <2>8 DEF Inv
  <1>7. QED
    BY <1>2, <1>5, <1>6

LEMMA ClearInv ==
  ASSUME Inv, zset_clear
  PROVE  Inv'
  <1>1. /\ pc = "idle" /\ hmap' = {} /\ root' = NULL /\ tree' = NoTree
        /\ score' = [n \in Name |-> 0] /\ UNCHANGED <<op, pc, node, other, pos, offset, out>>
    BY DEF zset_clear, loopVars
  <1>2. TypeOK' /\ OpOK'
    BY <1>1 DEF Inv, TypeOK, OpOK, NoTree, Tree
  <1>3. Members' = {} /\ Loose' = {}
    BY <1>1 DEF Members, Loose
  <1>4. TreeOK'
    <2> DEFINE B == [m \in {NULL} |-> {}]
    <2>1. IsFiniteSet({})
      BY FS_EmptySet
    <2>2. Pointers(tree'.left, tree'.right, tree'.parent, root', {})
      BY <1>1, <2>1 DEF Pointers
    <2>3. B \in [{} \cup {NULL} -> SUBSET {}] /\ B[NULL] = {}
      OBVIOUS
    <2> HIDE DEF B
    <2>4. Subtrees(tree'.left, tree'.right, root', {}, B)
      BY <1>1, <2>3 DEF Subtrees
    <2>5. IsTree(tree', root', {}, Before(score'))
      BY <2>2, <2>4 DEF IsTree, Shape, Linked, Sorted
    <2>6. QED
      BY <1>3, <2>5 DEF TreeOK
  <1>5. ExactOK' /\ FixOK' /\ SwapOK' /\ SearchOK' /\ QueryOK'
    BY <1>1, <1>3 DEF ExactOK, FixOK, SwapOK, SearchOK, QueryOK
  <1>6. UnusedOK'
    BY <1>1 DEF UnusedOK, NoTree
  <1>7. QED
    BY <1>2, <1>4, <1>5, <1>6 DEF Inv

LEMMA StutterInv ==
  ASSUME Inv, UNCHANGED vars
  PROVE  Inv'
  <1>1. /\ hmap' = hmap /\ score' = score /\ tree' = tree /\ root' = root /\ op' = op /\ pc' = pc
        /\ node' = node /\ other' = other /\ pos' = pos /\ offset' = offset /\ out' = out
    BY DEF vars, setVars, loopVars
  <1>2. Members' = Members /\ Loose' = Loose
    BY <1>1 DEF Members, Loose
  <1>3. TypeOK' /\ OpOK' /\ QueryOK'
    BY <1>1 DEF Inv, TypeOK, OpOK, QueryOK
  <1>4. TreeOK' /\ ExactOK' /\ FixOK' /\ SwapOK'
    BY <1>1, <1>2 DEF Inv, TreeOK, ExactOK, FixOK, SwapOK
  <1>5. SearchOK'
    BY <1>1, <1>2 DEF Inv, SearchOK
  <1>6. UnusedOK'
    BY <1>1, <1>2 DEF Inv, UnusedOK
  <1>7. QED
    BY <1>3, <1>4, <1>5, <1>6 DEF Inv

LEMMA NextInv == Inv /\ [Next]_vars => Inv'
  <1> SUFFICES ASSUME Inv, [Next]_vars PROVE Inv'
    OBVIOUS
  <1>1. CASE zset_clear
    BY <1>1, ClearInv
  <1>2. ASSUME NEW n \in Name, ZRem(n) PROVE Inv'
    BY <1>2, ZRemInv
  <1>3. ASSUME NEW n \in Name, NEW s \in Score, ZAdd(n, s) PROVE Inv'
    BY <1>3, ZAddInv
  <1>4. ASSUME NEW q \in Query, ZQuery(q) PROVE Inv'
    BY <1>4, ZQueryInv
  <1>5. CASE FixStep \/ Detached
    BY <1>5, FixStepInv, DetachedInv
  <1>6. CASE InsertRoot \/ SearchStep
    BY <1>6, InsertRootInv, SearchStepInv
  <1>7. CASE SeekStep \/ SeekDone
    BY <1>7, SeekInv
  <1>8. CASE OffsetStep \/ OffsetOut \/ Output
    BY <1>8, OffsetInv
  <1>9. CASE UNCHANGED vars
    BY <1>9, StutterInv
  <1>10. QED
    BY <1>1, <1>2, <1>3, <1>4, <1>5, <1>6, <1>7, <1>8, <1>9 DEF Next, Call, Inside

\* In the middle of every loop of avl.cpp and zset.cpp, the nodes that are in
\* the tree form a search tree; only the node that avl_fix is at, and what is
\* above it, may have a stale height or count or lean by two.
THEOREM ZSetInvariant == Spec => []Inv
  BY InitInv, NextInv, PTL DEF Spec

\* The variables keep their types; the loops of avl_fix and avl_offset never
\* look into a node that is not there.
THEOREM TypeCorrect == Spec => []TypeOK
  <1>1. Inv => TypeOK
    BY DEF Inv
  <1>2. QED
    BY <1>1, ZSetInvariant, PTL

\* Rotations, detaching, the swap with the successor and attaching leave
\* parents and children pointing at each other.
THEOREM LinksCorrect == Spec => []LinksAgree
  <1>1. Inv => LinksAgree
    <2> SUFFICES ASSUME Inv, pc = "idle"
                 PROVE  /\ root # NULL => tree.parent[root] = NULL
                        /\ \A n \in hmap : \A c \in {tree.left[n], tree.right[n]} \ {NULL} :
                             tree.parent[c] = n
      BY DEF LinksAgree
    <2>1. IsTree(tree, root, hmap, Before(score))
      BY QueryTree
    <2>2. QED
      BY <2>1, TreeFacts
  <1>2. QED
    BY <1>1, ZSetInvariant, PTL

\* avl_fix restores the balance on the whole path to the root, after every
\* insertion and removal, for trees of any height.
THEOREM BalanceCorrect == Spec => []Balanced
  <1>1. Inv => Balanced
    <2> SUFFICES ASSUME Inv, pc = "idle", NEW n \in hmap
                 PROVE  /\ avl_height(tree, tree.left[n]) - avl_height(tree, tree.right[n]) \in -1..1
                        /\ tree.height[n] = 1 + Higher(avl_height(tree, tree.left[n]),
                                                       avl_height(tree, tree.right[n]))
      BY DEF Balanced
    <2>1. Exact(tree, n)
      BY QueryTree
    <2>2. QED
      BY <2>1 DEF Exact, Even, Measured
  <1>2. QED
    BY <1>1, ZSetInvariant, PTL

\* After every operation each node counts exactly the nodes of its subtree, so
\* the root counts the members of the hash index.
THEOREM CountsCorrect == Spec => []CountsExact
  <1>1. Inv => CountsExact
    <2> SUFFICES ASSUME Inv, pc = "idle"
                 PROVE  /\ avl_cnt(tree, root) = Cardinality(hmap)
                        /\ \A n \in hmap : tree.cnt[n] =
                             1 + avl_cnt(tree, tree.left[n]) + avl_cnt(tree, tree.right[n])
      BY DEF CountsExact
    <2>1. /\ IsTree(tree, root, hmap, Before(score)) /\ \A m \in hmap : Exact(tree, m)
          /\ tree \in Tree /\ IsOrder(Before(score))
      BY QueryTree, BeforeOrders
    <2>2. PICK B : Shape(tree.left, tree.right, tree.parent, root, hmap, B, Before(score))
      BY <2>1 DEF IsTree
    <2>3. root \in hmap \cup {NULL} /\ B[root] = hmap
      BY <2>2 DEF Shape, Pointers, Subtrees
    <2>4. avl_cnt(tree, root) = Cardinality(hmap)
      <3>1. \A c \in hmap \cup {NULL} : avl_cnt(tree, c) = Cardinality(B[c])
        BY <2>1, <2>2, CountIsSize
      <3>2. avl_cnt(tree, root) = Cardinality(B[root])
        BY <2>3, <3>1
      <3>3. QED
        BY <2>3, <3>2, Zenon
    <2>5. QED
      BY <2>1, <2>4 DEF Exact, Measured
  <1>2. QED
    BY <1>1, ZSetInvariant, PTL

-----------------------------------------------------------------------------
(* The walk from left to right *)

\* g gives the walk of every subtree of the nodes S.
Walks(lc, rc, S, g) ==
  g[NULL] = << >> /\ \A m \in S : g[m] = g[lc[m]] \o <<m>> \o g[rc[m]]

\* The recursion of the walk has a solution, because the tree is finite.
LEMMA WalkExists ==
  ASSUME NEW lc, NEW rc, NEW par, NEW r, NEW M, NEW B, NEW ord, IsOrder(ord),
         Shape(lc, rc, par, r, M, B, ord)
  PROVE  \E g : Walks(lc, rc, M, g)
  <1> DEFINE T == {c \in M : ~ \E g : Walks(lc, rc, B[c], g)}
  <1>1. /\ M \subseteq Name /\ NULL \notin Name /\ r \in M \cup {NULL}
        /\ \A m \in M : lc[m] \in M \cup {NULL} /\ rc[m] \in M \cup {NULL}
        /\ B[NULL] = {} /\ B[r] = M
        /\ \A m \in M : B[m] = {m} \cup B[lc[m]] \cup B[rc[m]]
    BY AvlAssumption DEF Shape, Pointers, Subtrees
  <1>2. \E g : Walks(lc, rc, {}, g)
    <2>1. Walks(lc, rc, {}, [m \in {NULL} |-> << >>])
      BY DEF Walks
    <2>2. QED
      BY <2>1
  <1>3. ASSUME NEW c \in M, NEW m \in B[c]
        PROVE  /\ lc[m] \in B[c] \cup {NULL} /\ rc[m] \in B[c] \cup {NULL}
               /\ m \in M
    <2>1. m \in M /\ B[m] \subseteq B[c]
      BY <1>3, Nesting
    <2>2. /\ lc[m] # NULL => lc[m] \in B[lc[m]] /\ B[lc[m]] \subseteq B[m]
          /\ rc[m] # NULL => rc[m] \in B[rc[m]] /\ B[rc[m]] \subseteq B[m]
      BY <2>1, NodeFacts
    <2>3. QED
      BY <2>1, <2>2
  <1>4. T = {}
    <2> SUFFICES ASSUME T # {} PROVE FALSE
      OBVIOUS
    <2>1. PICK c \in T : lc[c] \notin T /\ rc[c] \notin T
      BY TreeMin
    <2> DEFINE L == B[lc[c]]
               R == B[rc[c]]
    <2>2. PICK gl : Walks(lc, rc, L, gl)
      <3>1. CASE lc[c] = NULL
        <4>1. L = {}
          BY <1>1, <3>1
        <4>2. QED
          BY <1>2, <4>1
      <3>2. CASE lc[c] # NULL
        <4>1. lc[c] \in M
          BY <1>1, <3>2
        <4>2. QED
          BY <2>1, <4>1
      <3>3. QED
        BY <3>1, <3>2
    <2>3. PICK gr : Walks(lc, rc, R, gr)
      <3>1. CASE rc[c] = NULL
        <4>1. R = {}
          BY <1>1, <3>1
        <4>2. QED
          BY <1>2, <4>1
      <3>2. CASE rc[c] # NULL
        <4>1. rc[c] \in M
          BY <1>1, <3>2
        <4>2. QED
          BY <2>1, <4>1
      <3>3. QED
        BY <3>1, <3>2
    <2>4. /\ c \in M /\ c \notin L /\ c \notin R /\ L \cap R = {} /\ B[c] = {c} \cup L \cup R
          /\ lc[c] # NULL => lc[c] \in M /\ lc[c] \in L
          /\ rc[c] # NULL => rc[c] \in M /\ rc[c] \in R
      BY <1>1, <2>1, NodeFacts
    <2>5. /\ \A m \in L : lc[m] \in L \cup {NULL} /\ rc[m] \in L \cup {NULL} /\ m \in M
          /\ \A m \in R : lc[m] \in R \cup {NULL} /\ rc[m] \in R \cup {NULL} /\ m \in M
      <3>1. ASSUME NEW m \in L
            PROVE  lc[m] \in L \cup {NULL} /\ rc[m] \in L \cup {NULL} /\ m \in M
        <4>1. lc[c] \in M
          BY <1>1, <2>4, <3>1
        <4>2. QED
          BY <1>3, <3>1, <4>1
      <3>2. ASSUME NEW m \in R
            PROVE  lc[m] \in R \cup {NULL} /\ rc[m] \in R \cup {NULL} /\ m \in M
        <4>1. rc[c] \in M
          BY <1>1, <2>4, <3>2
        <4>2. QED
          BY <1>3, <3>2, <4>1
      <3>3. QED
        BY <3>1, <3>2
    <2>6. /\ gl[NULL] = << >> /\ \A m \in L : gl[m] = gl[lc[m]] \o <<m>> \o gl[rc[m]]
          /\ gr[NULL] = << >> /\ \A m \in R : gr[m] = gr[lc[m]] \o <<m>> \o gr[rc[m]]
      BY <2>2, <2>3 DEF Walks
    <2> DEFINE whole == gl[lc[c]] \o <<c>> \o gr[rc[c]]
               g == [m \in B[c] \cup {NULL} |->
                      IF m = c THEN whole ELSE IF m \in R THEN gr[m] ELSE gl[m]]
    <2>7. NULL \notin L /\ NULL \notin R /\ c # NULL
      BY <1>1, <2>4, <2>5
    <2> HIDE DEF L, R, whole
    <2>8. /\ g[c] = whole /\ g[NULL] = gl[NULL]
          /\ \A m \in L \cup {NULL} : g[m] = gl[m]
          /\ \A m \in R : g[m] = gr[m]
      BY <2>4, <2>6, <2>7
    <2> HIDE DEF g
    <2>9. \A m \in R \cup {NULL} : g[m] = gr[m]
      BY <2>6, <2>8
    <2>10. g[c] = g[lc[c]] \o <<c>> \o g[rc[c]]
      <3>1. g[lc[c]] = gl[lc[c]] /\ g[rc[c]] = gr[rc[c]]
        BY <2>4, <2>8, <2>9
      <3>2. QED
        BY <2>8, <3>1 DEF whole
    <2>11. ASSUME NEW m \in L
           PROVE  g[m] = g[lc[m]] \o <<m>> \o g[rc[m]]
      <3>1. g[m] = gl[m] /\ g[lc[m]] = gl[lc[m]] /\ g[rc[m]] = gl[rc[m]]
        BY <2>5, <2>8, <2>11
      <3>2. gl[m] = gl[lc[m]] \o <<m>> \o gl[rc[m]]
        BY <2>6, <2>11
      <3>3. QED
        BY <3>1, <3>2, Zenon
    <2>12. ASSUME NEW m \in R
           PROVE  g[m] = g[lc[m]] \o <<m>> \o g[rc[m]]
      <3>1. g[m] = gr[m] /\ g[lc[m]] = gr[lc[m]] /\ g[rc[m]] = gr[rc[m]]
        BY <2>5, <2>8, <2>9, <2>12
      <3>2. gr[m] = gr[lc[m]] \o <<m>> \o gr[rc[m]]
        BY <2>6, <2>12
      <3>3. QED
        BY <3>1, <3>2, Zenon
    <2>13. Walks(lc, rc, B[c], g)
      <3>1. \A m \in B[c] : g[m] = g[lc[m]] \o <<m>> \o g[rc[m]]
        BY <2>4, <2>10, <2>11, <2>12, Zenon
      <3>2. g[NULL] = << >>
        BY <2>6, <2>8
      <3>3. QED
        BY <3>1, <3>2 DEF Walks
    <2>14. QED
      BY <2>1, <2>13
  <1>5. CASE r = NULL
    BY <1>1, <1>2, <1>5
  <1>6. CASE r # NULL
    BY <1>1, <1>4, <1>6
  <1>7. QED
    BY <1>5, <1>6

\* w lists the nodes S in order.
Lists(w, S, ord) ==
  /\ w \in Seq(Name) /\ {w[i] : i \in 1..Len(w)} = S
  /\ \A i, j \in 1..Len(w) : i < j => <<w[i], w[j]>> \in ord

LEMMA ListsConcat ==
  ASSUME NEW ord, IsOrder(ord), NEW L, NEW R, NEW a, NEW b, Lists(a, L, ord), Lists(b, R, ord),
         NEW n \in Name, \A m \in L : <<m, n>> \in ord, \A m \in R : <<n, m>> \in ord
  PROVE  Lists(a \o <<n>> \o b, {n} \cup L \cup R, ord)
  <1> DEFINE w == a \o <<n>> \o b
             k == Len(a)
  <1>1. /\ a \in Seq(Name) /\ b \in Seq(Name)
        /\ \A i \in 1..k : a[i] \in L /\ a[i] \in Name
        /\ \A i \in 1..Len(b) : b[i] \in R /\ b[i] \in Name
        /\ \A i, j \in 1..k : i < j => <<a[i], a[j]>> \in ord
        /\ \A i, j \in 1..Len(b) : i < j => <<b[i], b[j]>> \in ord
    BY DEF Lists
  <1>2. L \subseteq Name /\ R \subseteq Name
    BY DEF Lists
  <1>3. k \in Nat /\ Len(b) \in Nat
    BY <1>1
  <1>4. /\ w \in Seq(Name) /\ Len(w) = k + 1 + Len(b)
        /\ \A i \in 1..Len(w) : w[i] = IF i <= k THEN a[i] ELSE IF i = k + 1 THEN n ELSE b[i - k - 1]
    BY <1>1, <1>3
  <1> HIDE DEF w, k
  <1>5. \A i \in 1..Len(w) : /\ i <= k => i \in 1..k
                             /\ i > k + 1 => i - k - 1 \in 1..Len(b)
    BY <1>3, <1>4
  <1>6. ASSUME NEW i \in 1..Len(w), NEW j \in 1..Len(w), i < j
        PROVE  <<w[i], w[j]>> \in ord
    <2>1. CASE j <= k
      BY <1>1, <1>3, <1>4, <1>5, <1>6, <2>1
    <2>2. CASE j = k + 1
      <3>1. w[j] = n /\ i <= k /\ w[i] = a[i]
        BY <1>3, <1>4, <1>6, <2>2
      <3>2. a[i] \in L
        BY <1>1, <1>5, <3>1
      <3>3. QED
        BY <3>1, <3>2
    <2>3. CASE j > k + 1 /\ i <= k
      <3>1. w[j] = b[j - k - 1] /\ w[i] = a[i]
        BY <1>3, <1>4, <2>3
      <3>2. a[i] \in L /\ b[j - k - 1] \in R
        BY <1>1, <1>5, <2>3
      <3>3. <<a[i], n>> \in ord /\ <<n, b[j - k - 1]>> \in ord
        BY <3>2
      <3>4. <<a[i], b[j - k - 1]>> \in ord
        BY <1>2, <3>2, <3>3 DEF IsOrder
      <3>5. QED
        BY <3>1, <3>4
    <2>4. CASE j > k + 1 /\ i = k + 1
      <3>1. w[j] = b[j - k - 1] /\ w[i] = n
        BY <1>3, <1>4, <2>4
      <3>2. b[j - k - 1] \in R
        BY <1>1, <1>5, <2>4
      <3>3. QED
        BY <3>1, <3>2
    <2>5. CASE i > k + 1
      <3>1. w[j] = b[j - k - 1] /\ w[i] = b[i - k - 1]
        BY <1>3, <1>4, <1>6, <2>5
      <3>2. i - k - 1 \in 1..Len(b) /\ j - k - 1 \in 1..Len(b) /\ i - k - 1 < j - k - 1
        BY <1>3, <1>5, <1>6, <2>5
      <3>3. QED
        BY <1>1, <3>1, <3>2
    <2>6. QED
      BY <1>3, <1>6, <2>1, <2>2, <2>3, <2>4, <2>5
  <1>7. {w[i] : i \in 1..Len(w)} = {n} \cup L \cup R
    <2>1. ASSUME NEW i \in 1..Len(w)
          PROVE  w[i] \in {n} \cup L \cup R
      BY <1>1, <1>3, <1>4, <1>5
    <2>2. n \in {w[i] : i \in 1..Len(w)}
      <3>1. k + 1 \in 1..Len(w) /\ w[k + 1] = n
        BY <1>3, <1>4
      <3>2. QED
        BY <3>1
    <2>3. ASSUME NEW m \in L
          PROVE  m \in {w[i] : i \in 1..Len(w)}
      <3>1. PICK i \in 1..k : m = a[i]
        BY DEF Lists, k
      <3>2. i \in 1..Len(w) /\ w[i] = m
        BY <1>3, <1>4, <3>1
      <3>3. QED
        BY <3>2
    <2>4. ASSUME NEW m \in R
          PROVE  m \in {w[i] : i \in 1..Len(w)}
      <3>1. PICK i \in 1..Len(b) : m = b[i]
        BY DEF Lists
      <3>2. i + k + 1 \in 1..Len(w) /\ (i + k + 1) - k - 1 = i
        BY <1>3, <1>4
      <3>3. w[i + k + 1] = b[i]
        BY <1>3, <1>4, <3>2
      <3>4. QED
        BY <3>1, <3>2, <3>3
    <2>5. QED
      BY <2>1, <2>2, <2>3, <2>4
  <1>8. Lists(w, {n} \cup L \cup R, ord)
    BY <1>4, <1>6, <1>7 DEF Lists
  <1>9. QED
    BY <1>8 DEF w

LEMMA WalkLists ==
  ASSUME NEW lc, NEW rc, NEW par, NEW r, NEW M, NEW B, NEW ord, IsOrder(ord),
         Shape(lc, rc, par, r, M, B, ord), NEW g, Walks(lc, rc, M, g)
  PROVE  Lists(g[r], M, ord)
  <1> DEFINE T == {c \in M : ~Lists(g[c], B[c], ord)}
  <1>1. /\ M \subseteq Name /\ r \in M \cup {NULL}
        /\ \A m \in M : lc[m] \in M \cup {NULL} /\ rc[m] \in M \cup {NULL}
        /\ B[NULL] = {} /\ B[r] = M
        /\ \A m \in M : B[m] = {m} \cup B[lc[m]] \cup B[rc[m]]
    BY DEF Shape, Pointers, Subtrees
  <1>2. g[NULL] = << >> /\ \A m \in M : g[m] = g[lc[m]] \o <<m>> \o g[rc[m]]
    BY DEF Walks
  <1>3. Lists(g[NULL], B[NULL], ord)
    <2>1. Lists(<< >>, {}, ord)
      BY DEF Lists
    <2>2. QED
      BY <1>1, <1>2, <2>1
  <1>4. T = {}
    <2> SUFFICES ASSUME T # {} PROVE FALSE
      OBVIOUS
    <2>1. PICK c \in T : lc[c] \notin T /\ rc[c] \notin T
      BY TreeMin
    <2>2. c \in M /\ c \in Name /\ lc[c] \in M \cup {NULL} /\ rc[c] \in M \cup {NULL}
      BY <1>1
    <2>3. Lists(g[lc[c]], B[lc[c]], ord) /\ Lists(g[rc[c]], B[rc[c]], ord)
      <3>1. \A m \in M \cup {NULL} : m \notin T => Lists(g[m], B[m], ord)
        BY <1>3
      <3> HIDE DEF T
      <3>2. QED
        BY <2>1, <2>2, <3>1
    <2>4. (\A m \in B[lc[c]] : <<m, c>> \in ord) /\ (\A m \in B[rc[c]] : <<c, m>> \in ord)
      BY <2>2 DEF Shape, Sorted
    <2>5. Lists(g[lc[c]] \o <<c>> \o g[rc[c]], {c} \cup B[lc[c]] \cup B[rc[c]], ord)
      BY <2>2, <2>3, <2>4, ListsConcat
    <2>6. g[c] = g[lc[c]] \o <<c>> \o g[rc[c]] /\ B[c] = {c} \cup B[lc[c]] \cup B[rc[c]]
      BY <1>1, <1>2, <2>2
    <2>7. Lists(g[c], B[c], ord)
      BY <2>5, <2>6, Zenon
    <2>8. QED
      BY <2>7
  <1>5. \A m \in M \cup {NULL} : Lists(g[m], B[m], ord)
    BY <1>3, <1>4
  <1>6. Lists(g[r], B[r], ord)
    BY <1>1, <1>5
  <1>7. QED
    BY <1>1, <1>6, Zenon

\* Inorder lists the members in order.
LEMMA InorderLists ==
  ASSUME Inv, pc = "idle"
  PROVE  Lists(Inorder, hmap, Before(score))
  <1> DEFINE ord == Before(score)
             Eq(g) == [n \in Name \cup {NULL} |->
                        IF n = NULL THEN << >> ELSE g[tree.left[n]] \o <<n>> \o g[tree.right[n]]]
  <1>1. /\ IsTree(tree, root, hmap, ord) /\ hmap \subseteq Name /\ tree \in Tree /\ IsOrder(ord)
        /\ NULL \notin Name
        /\ \A m \in hmap : tree.left[m] \in hmap \cup {NULL} /\ tree.right[m] \in hmap \cup {NULL}
        /\ \A m \in Name \ hmap : tree.left[m] = NULL /\ tree.right[m] = NULL
    BY QueryTree, BeforeOrders, AvlAssumption DEF Inv, UnusedOK, Members, Loose
  <1> HIDE DEF ord
  <1>2. PICK B : Shape(tree.left, tree.right, tree.parent, root, hmap, B, ord)
    BY <1>1 DEF IsTree
  <1>3. PICK h : Walks(tree.left, tree.right, hmap, h)
    BY <1>1, <1>2, WalkExists
  <1> DEFINE one(n) == << >> \o <<n>> \o << >>
             f == [n \in Name \cup {NULL} |-> IF n \in hmap \cup {NULL} THEN h[n] ELSE one(n)]
  <1>4. /\ h[NULL] = << >>
        /\ \A m \in hmap : h[m] = h[tree.left[m]] \o <<m>> \o h[tree.right[m]]
    BY <1>3 DEF Walks
  <1>5. /\ \A m \in hmap \cup {NULL} : f[m] = h[m]
        /\ \A m \in Name \ hmap : f[m] = one(m)
    <2> HIDE DEF one
    <2>1. QED
      BY <1>1
  <1>6. f = Eq(f)
    <2>1. ASSUME NEW n \in Name \cup {NULL}
          PROVE  f[n] = IF n = NULL THEN << >> ELSE f[tree.left[n]] \o <<n>> \o f[tree.right[n]]
      <3> HIDE DEF f
      <3>1. CASE n = NULL
        BY <1>4, <1>5, <3>1
      <3>2. CASE n \in hmap
        <4>1. /\ f[n] = h[n] /\ f[tree.left[n]] = h[tree.left[n]]
              /\ f[tree.right[n]] = h[tree.right[n]]
          BY <1>1, <1>5, <3>2
        <4>2. h[n] = h[tree.left[n]] \o <<n>> \o h[tree.right[n]] /\ n # NULL
          BY <1>1, <1>4, <3>2
        <4>3. QED
          BY <4>1, <4>2, Zenon
      <3>3. CASE n \in Name \ hmap
        <4>1. tree.left[n] = NULL /\ tree.right[n] = NULL /\ f[NULL] = << >> /\ n # NULL
          BY <1>1, <1>4, <1>5, <3>3
        <4>2. f[n] = << >> \o <<n>> \o << >>
          BY <1>5, <3>3
        <4>3. QED
          BY <4>1, <4>2, Zenon
      <3>4. QED
        BY <2>1, <3>1, <3>2, <3>3
    <2>2. f = [n \in Name \cup {NULL} |-> f[n]]
      OBVIOUS
    <2> HIDE DEF f
    <2>3. QED
      BY <2>1, <2>2
  <1> HIDE DEF f
  <1>7. PICK g : g = Eq(g) /\ Inorder = g[root]
    <2> HIDE DEF Eq
    <2>1. \E g : g = Eq(g)
      BY <1>6
    <2>2. QED
      BY <2>1 DEF Inorder, Eq
  <1>8. Walks(tree.left, tree.right, hmap, g)
    <2>1. ASSUME NEW n \in Name \cup {NULL}
          PROVE  g[n] = IF n = NULL THEN << >> ELSE g[tree.left[n]] \o <<n>> \o g[tree.right[n]]
      <3>1. Eq(g)[n] = IF n = NULL THEN << >> ELSE g[tree.left[n]] \o <<n>> \o g[tree.right[n]]
        OBVIOUS
      <3> HIDE DEF Eq
      <3>2. g = Eq(g)
        BY <1>7
      <3>3. QED
        BY <3>1, <3>2, Zenon
    <2>2. g[NULL] = << >>
      BY <2>1
    <2>3. \A m \in hmap : g[m] = g[tree.left[m]] \o <<m>> \o g[tree.right[m]]
      <3> TAKE m \in hmap
      <3>1. m \in Name /\ m # NULL
        BY <1>1
      <3>2. QED
        BY <2>1, <3>1
    <2>4. QED
      BY <2>2, <2>3 DEF Walks
  <1>9. Lists(g[root], hmap, ord)
    BY <1>1, <1>2, <1>8, WalkLists
  <1> HIDE DEF Eq
  <1>10. Inorder = g[root]
    BY <1>7
  <1>11. QED
    BY <1>9, <1>10 DEF ord

\* After every operation the walk of the tree meets exactly the names in the
\* hash index, in the order of (score, name).
THEOREM IndexesCorrect == Spec => []IndexesAgree
  <1>1. Inv => IndexesAgree
    <2> SUFFICES ASSUME Inv, pc = "idle" PROVE IndexesAgree
      BY DEF IndexesAgree
    <2> DEFINE walk == Inorder
    <2>1. Lists(walk, hmap, Before(score))
      BY InorderLists
    <2> HIDE DEF walk
    <2>2. /\ walk \in Seq(Name) /\ {walk[i] : i \in 1..Len(walk)} = hmap
          /\ \A i, j \in 1..Len(walk) : i < j => <<walk[i], walk[j]>> \in Before(score)
      BY <2>1 DEF Lists
    <2>3. ASSUME NEW i \in 1..Len(walk), NEW j \in 1..Len(walk), i < j
          PROVE  zless(walk[i], score[walk[j]], walk[j])
      <3>1. walk[i] \in Name /\ walk[j] \in Name
        BY <2>2
      <3>2. QED
        BY <2>2, <2>3, <3>1, ZlessIsBefore
    <2>4. QED
      BY <2>2, <2>3 DEF IndexesAgree, walk
  <1>2. QED
    BY <1>1, ZSetInvariant, PTL

-----------------------------------------------------------------------------
(* The loop of avl_offset *)

\* The node that is looked for is in the subtree of node.
Within == /\ pos - avl_cnt(tree, tree.left[node]) <= offset
          /\ offset <= pos + avl_cnt(tree, tree.right[node])

\* While avl_offset climbs, the height of the node grows with every turn; once
\* it has the position below the node it descends, and the height shrinks.
TurnsOK ==
  /\ turns \in Nat
  /\ pc # "offset" => turns = 0
  /\ pc = "offset" =>
       \/ turns <= tree.height[node] - 1
       \/ Within /\ turns + tree.height[node] <= 2 * avl_height(tree, root) - 1

\* No node is higher than the root, and a parent is higher than its children.
LEMMA TreeHeights ==
  ASSUME NEW t \in Tree, NEW r, NEW M, NEW ord, IsOrder(ord), IsTree(t, r, M, ord),
         \A m \in M : Exact(t, m)
  PROVE  /\ \A m \in M : t.height[m] \in Nat /\ t.height[m] >= 1 /\ avl_height(t, m) = t.height[m]
         /\ \A m \in M : /\ t.left[m] # NULL => t.height[t.left[m]] < t.height[m]
                         /\ t.right[m] # NULL => t.height[t.right[m]] < t.height[m]
         /\ \A m \in M : t.parent[m] # NULL => t.height[m] < t.height[t.parent[m]]
         /\ \A m \in M : t.height[m] <= avl_height(t, r)
  <1>1. PICK B : Shape(t.left, t.right, t.parent, r, M, B, ord)
    BY DEF IsTree
  <1>2. /\ M \subseteq Name /\ NULL \notin Name /\ r \in M \cup {NULL}
        /\ \A m \in M : /\ t.left[m] \in M \cup {NULL} /\ t.right[m] \in M \cup {NULL}
                        /\ t.parent[m] \in M \cup {NULL}
                        /\ t.parent[m] # NULL => t.left[t.parent[m]] = m \/ t.right[t.parent[m]] = m
        /\ B[r] = M /\ B[NULL] = {}
        /\ \A m \in M : B[m] = {m} \cup B[t.left[m]] \cup B[t.right[m]]
    BY <1>1, AvlAssumption DEF Shape, Pointers, Linked, Subtrees
  <1>3. \A m \in M : t.height[m] \in Nat /\ avl_height(t, m) = t.height[m]
    BY <1>2 DEF avl_height, Tree
  <1>4. ASSUME NEW m \in M
        PROVE  /\ t.height[m] >= 1
               /\ t.left[m] # NULL => t.height[t.left[m]] < t.height[m]
               /\ t.right[m] # NULL => t.height[t.right[m]] < t.height[m]
    <2> DEFINE a == avl_height(t, t.left[m])
               b == avl_height(t, t.right[m])
    <2>1. t.left[m] \in Name \cup {NULL} /\ t.right[m] \in Name \cup {NULL}
      BY <1>2
    <2>2. a \in Nat /\ b \in Nat
      BY <2>1, HeightType
    <2>3. t.height[m] = 1 + Higher(a, b)
      BY DEF Exact, Measured
    <2>4. /\ t.left[m] # NULL => t.height[t.left[m]] = a
          /\ t.right[m] # NULL => t.height[t.right[m]] = b
      BY DEF avl_height
    <2> HIDE DEF a, b
    <2>5. Higher(a, b) \in Nat /\ a <= Higher(a, b) /\ b <= Higher(a, b)
      BY <2>2, HigherFacts
    <2>6. QED
      BY <2>2, <2>3, <2>4, <2>5
  <1>5. \A m \in M : t.parent[m] # NULL => t.height[m] < t.height[t.parent[m]]
    <2> TAKE m \in M
    <2> HAVE t.parent[m] # NULL
    <2>1. t.parent[m] \in M /\ m # NULL
      BY <1>2
    <2>2. QED
      BY <1>2, <1>4, <2>1
  <1>6. \A m \in M : t.height[m] <= avl_height(t, r)
    <2> DEFINE T == {c \in M : \E m \in B[c] : ~(t.height[m] <= t.height[c])}
    <2>1. T = {}
      <3> SUFFICES ASSUME T # {} PROVE FALSE
        OBVIOUS
      <3>1. PICK c \in T : t.left[c] \notin T /\ t.right[c] \notin T
        BY <1>1, TreeMin
      <3>2. PICK m \in B[c] : ~(t.height[m] <= t.height[c])
        BY <3>1
      <3>3. m \in M
        BY <1>1, <3>1, <3>2, Nesting
      <3>4. t.left[c] \in M \cup {NULL} /\ t.right[c] \in M \cup {NULL} /\ c \in M
        BY <1>2
      <3>5. ASSUME m \in B[t.left[c]] PROVE FALSE
        <4>1. t.left[c] \in M /\ t.left[c] # NULL
          BY <1>2, <3>4, <3>5
        <4>2. t.height[m] <= t.height[t.left[c]]
          BY <3>1, <3>5, <4>1
        <4>3. QED
          BY <1>3, <1>4, <3>2, <3>3, <3>4, <4>1, <4>2
      <3>6. ASSUME m \in B[t.right[c]] PROVE FALSE
        <4>1. t.right[c] \in M /\ t.right[c] # NULL
          BY <1>2, <3>4, <3>6
        <4>2. t.height[m] <= t.height[t.right[c]]
          BY <3>1, <3>6, <4>1
        <4>3. QED
          BY <1>3, <1>4, <3>2, <3>3, <3>4, <4>1, <4>2
      <3>7. m # c
        BY <1>3, <3>2, <3>4
      <3>8. QED
        BY <1>2, <3>2, <3>4, <3>5, <3>6, <3>7
    <2>2. ASSUME NEW m \in M PROVE t.height[m] <= avl_height(t, r)
      <3>1. r \in M /\ m \in B[r]
        BY <1>2, <2>2
      <3>2. t.height[m] <= t.height[r]
        BY <2>1, <3>1
      <3>3. QED
        BY <1>3, <3>1, <3>2
    <2>3. QED
      BY <2>2
  <1>7. QED
    BY <1>3, <1>4, <1>5, <1>6

LEMMA TurnsNext ==
  ASSUME Inv, Inv', TurnsOK, OffsetStep, turns' = turns + 1
  PROVE  TurnsOK'
  <1> DEFINE H == avl_height(tree, root)
             h == tree.height[node]
             k == tree.height[node']
             cl == avl_cnt(tree, tree.left[node])
             cr == avl_cnt(tree, tree.right[node])
             dl == avl_cnt(tree, tree.left[node'])
             dr == avl_cnt(tree, tree.right[node'])
  <1>1. /\ pc = "offset" /\ pc' = "offset" /\ offset # pos /\ tree' = tree /\ root' = root
        /\ offset' = offset /\ pos \in Int /\ offset \in Int
    BY DEF OffsetStep, setVars, Inv, TypeOK
  <1>2. /\ node \in hmap /\ node' \in hmap /\ pos' \in Int
        /\ InRight => node' = tree.right[node]
        /\ ~InRight /\ InLeft => node' = tree.left[node]
        /\ ~InRight /\ ~InLeft => node' = tree.parent[node]
    BY OffsetMoves
  <1>3. /\ IsTree(tree, root, hmap, Before(score)) /\ \A m \in hmap : Exact(tree, m)
        /\ hmap \subseteq Name /\ tree \in Tree /\ IsOrder(Before(score))
        /\ \A m \in hmap : tree.left[m] \in hmap \cup {NULL} /\ tree.right[m] \in hmap \cup {NULL}
    BY <1>1, QueryTree, BeforeOrders
  <1>4. /\ \A m \in hmap : tree.height[m] \in Nat /\ tree.height[m] >= 1
        /\ \A m \in hmap : /\ tree.left[m] # NULL => tree.height[tree.left[m]] < tree.height[m]
                           /\ tree.right[m] # NULL => tree.height[tree.right[m]] < tree.height[m]
        /\ \A m \in hmap : tree.parent[m] # NULL => tree.height[m] < tree.height[tree.parent[m]]
        /\ \A m \in hmap : tree.height[m] <= avl_height(tree, root)
    BY <1>3, TreeHeights
  <1>5. node' # NULL /\ NULL \notin hmap
    BY <1>2, <1>3, AvlAssumption
  <1>6. /\ h \in Nat /\ h >= 1 /\ k \in Nat /\ k >= 1 /\ h <= H /\ k <= H
        /\ InRight => k < h
        /\ ~InRight /\ InLeft => k < h
        /\ ~InRight /\ ~InLeft => h < k
    BY <1>2, <1>4, <1>5
  <1>7. H \in Nat
    <2>1. root \in Name \cup {NULL}
      BY DEF Inv, TypeOK
    <2>2. QED
      BY <1>3, <2>1, HeightType
  <1>8. /\ cl \in Nat /\ cr \in Nat /\ dl \in Nat /\ dr \in Nat
    <2>1. \A m \in hmap : tree.left[m] \in Name \cup {NULL} /\ tree.right[m] \in Name \cup {NULL}
      BY <1>3
    <2>2. QED
      BY <1>2, <1>3, <2>1, HeightType
  <1>9. avl_cnt(tree, node') = 1 + dl + dr
    <2>1. Exact(tree, node')
      BY <1>2, <1>3
    <2>2. QED
      BY <1>5, <2>1 DEF Exact, Measured, avl_cnt
  <1>10. /\ InRight <=> pos < offset /\ pos + cr >= offset
         /\ InLeft <=> pos > offset /\ pos - cl <= offset
         /\ Within <=> pos - cl <= offset /\ offset <= pos + cr
    BY DEF InRight, InLeft, Within
  <1>11. Within' <=> pos' - dl <= offset /\ offset <= pos' + dr
    BY <1>1 DEF Within
  <1>12. turns \in Nat /\ (turns <= h - 1 \/ (Within /\ turns + h <= 2 * H - 1))
    BY <1>1 DEF TurnsOK
  <1>13. TurnsOK' <=> /\ turns + 1 \in Nat
                      /\ \/ turns + 1 <= k - 1
                         \/ Within' /\ (turns + 1) + k <= 2 * H - 1
    BY <1>1 DEF TurnsOK
  <1>14. CASE InRight
    <2>1. pos' = pos + (dl + 1) /\ cr = 1 + dl + dr
      BY <1>2, <1>9, <1>14 DEF OffsetStep, LeftSpan
    <2> HIDE DEF H, h, k, cl, cr, dl, dr
    <2>2. Within'
      BY <1>1, <1>8, <1>10, <1>11, <1>14, <2>1
    <2>3. (turns + 1) + k <= 2 * H - 1
      BY <1>6, <1>7, <1>12, <1>14
    <2>4. QED
      BY <1>12, <1>13, <2>2, <2>3
  <1>15. CASE ~InRight /\ InLeft
    <2>1. pos' = pos - (dr + 1) /\ cl = 1 + dl + dr
      BY <1>2, <1>9, <1>15 DEF OffsetStep, RightSpan
    <2> HIDE DEF H, h, k, cl, cr, dl, dr
    <2>2. Within'
      BY <1>1, <1>8, <1>10, <1>11, <1>15, <2>1
    <2>3. (turns + 1) + k <= 2 * H - 1
      BY <1>6, <1>7, <1>12, <1>15
    <2>4. QED
      BY <1>12, <1>13, <2>2, <2>3
  <1>16. CASE ~InRight /\ ~InLeft
    <2> HIDE DEF H, h, k, cl, cr, dl, dr
    <2>1. ~Within
      BY <1>1, <1>8, <1>10, <1>16
    <2>2. QED
      BY <1>6, <1>12, <1>13, <1>16, <2>1
  <1>17. QED
    BY <1>14, <1>15, <1>16

\* avl_offset climbs and then descends and never turns back: it takes at most
\* two turns for each level of the tree, however long the offset.
THEOREM OffsetCorrect == HSpec => []OffsetIsLogarithmic
  <1>1. HInit => Inv /\ TurnsOK
    BY InitInv DEF HInit, Init, TurnsOK
  <1>2. Inv /\ TurnsOK /\ [HNext]_<<vars, turns>> => Inv' /\ TurnsOK'
    <2> SUFFICES ASSUME Inv, TurnsOK, [HNext]_<<vars, turns>>
                 PROVE  Inv' /\ TurnsOK'
      OBVIOUS
    <2>1. [Next]_vars
      BY DEF HNext
    <2>2. Inv'
      BY <2>1, NextInv
    <2>3. CASE HNext /\ OffsetStep
      <3>1. turns' = turns + 1
        BY <2>3 DEF HNext
      <3>2. QED
        BY <2>2, <2>3, <3>1, TurnsNext
    <2>4. CASE HNext /\ ~OffsetStep
      <3>1. turns' = 0
        BY <2>4 DEF HNext
      <3>2. pc' = "offset" => tree'.height[node'] >= 1 /\ tree'.height[node'] \in Nat
        <4>1. (pc = "offset" => IsTree(tree, root, hmap, Before(score))
                              /\ (\A m \in hmap : Exact(tree, m))
                              /\ tree \in Tree /\ node \in hmap /\ IsOrder(Before(score)))'
          BY <2>2, QueryTree, BeforeOrders DEF Inv, TypeOK, TreeOK, ExactOK, Members, QueryOK
        <4>2. (pc = "offset" => tree.height[node] >= 1 /\ tree.height[node] \in Nat)'
          BY <4>1, TreeHeights
        <4>3. QED
          BY <4>2
      <3>3. QED
        BY <2>2, <3>1, <3>2 DEF TurnsOK
    <2>5. CASE UNCHANGED <<vars, turns>>
      <3>1. Within' = Within
        BY <2>5 DEF Within, vars, setVars, loopVars
      <3>2. QED
        BY <2>2, <2>5, <3>1 DEF TurnsOK, vars, setVars, loopVars
    <2>6. QED
      BY <2>3, <2>4, <2>5
  <1>3. Inv /\ TurnsOK => OffsetIsLogarithmic
    <2> SUFFICES ASSUME Inv, TurnsOK, pc = "offset"
                 PROVE  turns <= 2 * (avl_height(tree, root) - 1)
      BY DEF TurnsOK, OffsetIsLogarithmic
    <2> DEFINE H == avl_height(tree, root)
               h == tree.height[node]
    <2>1. h \in Nat /\ h >= 1 /\ h <= H
      BY QueryTree, BeforeOrders, TreeHeights DEF Inv, QueryOK
    <2>2. H \in Nat
      BY HeightType DEF Inv, TypeOK
    <2>3. turns \in Nat /\ (turns <= h - 1 \/ turns + h <= 2 * H - 1)
      BY DEF TurnsOK
    <2> HIDE DEF H, h
    <2>4. turns <= 2 * (H - 1)
      BY <2>1, <2>2, <2>3
    <2>5. QED
      BY <2>4 DEF H
  <1>4. QED
    BY <1>1, <1>2, <1>3, PTL DEF HSpec

-----------------------------------------------------------------------------
(* Positions *)

\* The position of n among M.
Place(M, ord, n) == Cardinality({m \in M : <<m, n>> \in ord})

LEMMA PlaceFacts ==
  ASSUME NEW M, M \subseteq Name, IsFiniteSet(M), NEW ord, IsOrder(ord), NEW n \in M
  PROVE  /\ IsFiniteSet({m \in M : <<m, n>> \in ord})
         /\ Place(M, ord, n) \in Nat /\ Cardinality(M) \in Nat /\ Place(M, ord, n) < Cardinality(M)
  <1> DEFINE F == {m \in M : <<m, n>> \in ord}
  <1>1. F \subseteq M /\ n \notin F
    BY DEF IsOrder
  <1>2. /\ IsFiniteSet(F) /\ Cardinality(F) <= Cardinality(M)
        /\ Cardinality(F) = Cardinality(M) => F = M
    BY <1>1, FS_Subset
  <1>3. Cardinality(F) \in Nat /\ Cardinality(M) \in Nat
    BY <1>2, FS_CardinalityType
  <1>4. F # M
    BY <1>1
  <1> HIDE DEF F
  <1>5. Cardinality(F) < Cardinality(M)
    BY <1>2, <1>3, <1>4
  <1>6. QED
    BY <1>2, <1>3, <1>5 DEF Place, F

\* The nodes between two nodes are what their positions differ by.
LEMMA PlaceSplit ==
  ASSUME NEW M, M \subseteq Name, IsFiniteSet(M), NEW ord, IsOrder(ord),
         NEW a \in M, NEW b \in M, <<a, b>> \in ord,
         NEW S, S = {m \in M : <<a, m>> \in ord /\ <<m, b>> \in ord}
  PROVE  Cardinality(S) \in Nat /\ Place(M, ord, b) = Place(M, ord, a) + 1 + Cardinality(S)
  <1> DEFINE F == {m \in M : <<m, a>> \in ord}
             G == {m \in M : <<m, b>> \in ord}
  <1>1. a \notin F /\ a \notin S /\ F \cap S = {}
    BY DEF IsOrder
  <1>2. G = (F \cup S) \cup {a}
    BY DEF IsOrder
  <1>3. S \subseteq M
    OBVIOUS
  <1>4. IsFiniteSet(F) /\ IsFiniteSet(S)
    BY <1>3, PlaceFacts, FS_Subset
  <1>5. Cardinality(F) \in Nat /\ Cardinality(S) \in Nat
    BY <1>4, FS_CardinalityType
  <1> HIDE DEF F, G
  <1>6. /\ IsFiniteSet(F \cup S)
        /\ Cardinality(F \cup S) = Cardinality(F) + Cardinality(S) - Cardinality(F \cap S)
    BY <1>4, FS_Union
  <1>7. Cardinality(F \cap S) = 0
    BY <1>1, FS_EmptySet
  <1>8. Cardinality(G) = Cardinality(F \cup S) + 1
    BY <1>1, <1>2, <1>6, FS_AddElement
  <1>9. Cardinality(G) = Cardinality(F) + 1 + Cardinality(S)
    BY <1>5, <1>6, <1>7, <1>8
  <1>10. QED
    BY <1>5, <1>9 DEF Place, F, G

LEMMA PlaceInjective ==
  ASSUME NEW M, M \subseteq Name, IsFiniteSet(M), NEW ord, IsOrder(ord),
         NEW a \in M, NEW b \in M, Place(M, ord, a) = Place(M, ord, b)
  PROVE  a = b
  <1>1. Place(M, ord, a) \in Nat /\ Place(M, ord, b) \in Nat
    BY PlaceFacts
  <1>2. ASSUME <<a, b>> \in ord PROVE FALSE
    <2> DEFINE S == {m \in M : <<a, m>> \in ord /\ <<m, b>> \in ord}
    <2>1. Cardinality(S) \in Nat /\ Place(M, ord, b) = Place(M, ord, a) + 1 + Cardinality(S)
      BY <1>2, PlaceSplit
    <2> HIDE DEF S
    <2>2. QED
      BY <1>1, <2>1
  <1>3. ASSUME <<b, a>> \in ord PROVE FALSE
    <2> DEFINE S == {m \in M : <<b, m>> \in ord /\ <<m, a>> \in ord}
    <2>1. Cardinality(S) \in Nat /\ Place(M, ord, a) = Place(M, ord, b) + 1 + Cardinality(S)
      BY <1>3, PlaceSplit
    <2> HIDE DEF S
    <2>2. QED
      BY <1>1, <2>1
  <1>4. QED
    BY <1>2, <1>3 DEF IsOrder

LEMMA PlaceRight ==
  ASSUME NEW lc, NEW rc, NEW par, NEW r, NEW M, NEW B, NEW ord, IsOrder(ord),
         Shape(lc, rc, par, r, M, B, ord), NEW p \in M, NEW c, c = rc[p], c # NULL
  PROVE  /\ Cardinality(B[lc[c]]) \in Nat
         /\ Place(M, ord, c) = Place(M, ord, p) + 1 + Cardinality(B[lc[c]])
  <1> DEFINE S == {m \in M : <<p, m>> \in ord /\ <<m, c>> \in ord}
  <1>1. /\ M \subseteq Name /\ IsFiniteSet(M)
        /\ \A m \in M : B[m] = {m} \cup B[lc[m]] \cup B[rc[m]]
        /\ \A m \in M : /\ \A y \in B[lc[m]] : <<y, m>> \in ord
                        /\ \A y \in B[rc[m]] : <<m, y>> \in ord
    BY DEF Shape, Pointers, Subtrees, Sorted
  <1>2. /\ c \in M /\ p \in B[p] /\ c \in B[p] /\ c \in B[rc[p]]
        /\ B[rc[p]] = B[c]
    BY NodeFacts
  <1>3. B[lc[c]] \subseteq M
    BY <1>2, NodeFacts
  <1>4. S = B[lc[c]]
    <2>1. ASSUME NEW m \in S PROVE m \in B[lc[c]]
      <3>1. m \in B[p]
        BY <1>2, <2>1, Convex
      <3>2. m # p /\ m \notin B[lc[p]] /\ m # c /\ m \notin B[rc[c]]
        BY <1>1, <1>2, <2>1 DEF IsOrder
      <3>3. QED
        BY <1>1, <1>2, <3>1, <3>2
    <2>2. ASSUME NEW m \in B[lc[c]] PROVE m \in S
      <3>1. m \in B[c] /\ m \in M
        BY <1>1, <1>2, <1>3, <2>2
      <3>2. QED
        BY <1>1, <1>2, <2>2, <3>1
    <2>3. QED
      BY <2>1, <2>2
  <1>5. <<p, c>> \in ord
    BY <1>1, <1>2
  <1>6. Cardinality(S) \in Nat /\ Place(M, ord, c) = Place(M, ord, p) + 1 + Cardinality(S)
    BY <1>1, <1>2, <1>5, PlaceSplit
  <1> HIDE DEF S
  <1>7. QED
    BY <1>4, <1>6, Zenon

LEMMA PlaceLeft ==
  ASSUME NEW lc, NEW rc, NEW par, NEW r, NEW M, NEW B, NEW ord, IsOrder(ord),
         Shape(lc, rc, par, r, M, B, ord), NEW p \in M, NEW c, c = lc[p], c # NULL
  PROVE  /\ Cardinality(B[rc[c]]) \in Nat
         /\ Place(M, ord, p) = Place(M, ord, c) + 1 + Cardinality(B[rc[c]])
  <1> DEFINE S == {m \in M : <<c, m>> \in ord /\ <<m, p>> \in ord}
  <1>1. /\ M \subseteq Name /\ IsFiniteSet(M)
        /\ \A m \in M : B[m] = {m} \cup B[lc[m]] \cup B[rc[m]]
        /\ \A m \in M : /\ \A y \in B[lc[m]] : <<y, m>> \in ord
                        /\ \A y \in B[rc[m]] : <<m, y>> \in ord
    BY DEF Shape, Pointers, Subtrees, Sorted
  <1>2. /\ c \in M /\ p \in B[p] /\ c \in B[p] /\ c \in B[lc[p]]
        /\ B[lc[p]] = B[c]
    BY NodeFacts
  <1>3. B[rc[c]] \subseteq M
    BY <1>2, NodeFacts
  <1>4. S = B[rc[c]]
    <2>1. ASSUME NEW m \in S PROVE m \in B[rc[c]]
      <3>1. m \in B[p]
        BY <1>2, <2>1, Convex
      <3>2. m # p /\ m \notin B[rc[p]] /\ m # c /\ m \notin B[lc[c]]
        BY <1>1, <1>2, <2>1 DEF IsOrder
      <3>3. QED
        BY <1>1, <1>2, <3>1, <3>2
    <2>2. ASSUME NEW m \in B[rc[c]] PROVE m \in S
      <3>1. m \in B[c] /\ m \in M
        BY <1>1, <1>2, <1>3, <2>2
      <3>2. QED
        BY <1>1, <1>2, <2>2, <3>1
    <2>3. QED
      BY <2>1, <2>2
  <1>5. <<c, p>> \in ord
    BY <1>1, <1>2
  <1>6. Cardinality(S) \in Nat /\ Place(M, ord, p) = Place(M, ord, c) + 1 + Cardinality(S)
    BY <1>1, <1>2, <1>5, PlaceSplit
  <1> HIDE DEF S
  <1>7. QED
    BY <1>4, <1>6, Zenon

LEMMA PlaceRoot ==
  ASSUME NEW lc, NEW rc, NEW par, NEW r, NEW M, NEW B, NEW ord, IsOrder(ord),
         Shape(lc, rc, par, r, M, B, ord), r \in M
  PROVE  /\ Place(M, ord, r) = Cardinality(B[lc[r]])
         /\ Cardinality(B[rc[r]]) \in Nat
         /\ Cardinality(M) = Place(M, ord, r) + 1 + Cardinality(B[rc[r]])
  <1> DEFINE L == B[lc[r]]
             R == B[rc[r]]
  <1>1. /\ M \subseteq Name /\ IsFiniteSet(M) /\ B[r] = M
        /\ B[r] = {r} \cup L \cup R
        /\ \A y \in L : <<y, r>> \in ord
        /\ \A y \in R : <<r, y>> \in ord
    BY DEF Shape, Pointers, Subtrees, Sorted
  <1>2. L \subseteq M /\ R \subseteq M /\ L \cap R = {} /\ r \notin L /\ r \notin R
    BY <1>1, NodeFacts
  <1> HIDE DEF L, R
  <1>3. {m \in M : <<m, r>> \in ord} = L
    BY <1>1, <1>2 DEF IsOrder
  <1>4. IsFiniteSet(L) /\ IsFiniteSet(R)
    BY <1>1, <1>2, FS_Subset
  <1>5. Cardinality(L) \in Nat /\ Cardinality(R) \in Nat
    BY <1>4, FS_CardinalityType
  <1>6. M = (L \cup R) \cup {r} /\ r \notin L \cup R
    BY <1>1, <1>2
  <1>7. /\ IsFiniteSet(L \cup R)
        /\ Cardinality(L \cup R) = Cardinality(L) + Cardinality(R) - Cardinality(L \cap R)
    BY <1>4, FS_Union
  <1>8. Cardinality(L \cap R) = 0
    BY <1>2, FS_EmptySet
  <1>9. Cardinality((L \cup R) \cup {r}) = Cardinality(L \cup R) + 1
    BY <1>6, <1>7, FS_AddElement
  <1>10. Cardinality(M) = Cardinality(L \cup R) + 1
    BY <1>6, <1>9, Zenon
  <1>11. Place(M, ord, r) = Cardinality(L)
    BY <1>3, Zenon DEF Place
  <1>12. Cardinality(M) = Cardinality(L) + 1 + Cardinality(R)
    BY <1>5, <1>7, <1>8, <1>10
  <1>13. QED
    BY <1>5, <1>11, <1>12 DEF L, R

-----------------------------------------------------------------------------
(* What ZQUERY answers *)

\* The members in front of the key, and the position of the first answer.
InFront == {m \in hmap : zless(m, op.score, op.name)}
StartsAt == Cardinality(InFront) + op.offset

\* zset_seekge: a member that is not below node is in front of the key, or it
\* is the candidate or behind it.  What is below node is in front of the candidate.
Narrows(B, n, cand) ==
  /\ \A m \in hmap : \/ m \in B[n] \/ m \in InFront
                     \/ cand # NULL /\ (m = cand \/ <<cand, m>> \in Before(score))
  /\ cand # NULL => /\ cand \notin InFront
                    /\ \A m \in B[n] : <<m, cand>> \in Before(score)

SeekOK ==
  pc = "seek" =>
    /\ out = << >> /\ op.limit > 0
    /\ \E B : /\ Shape(tree.left, tree.right, tree.parent, root, hmap, B, Before(score))
              /\ Narrows(B, node, other)

\* The output has k members, from the start of the answer, and the loop is on
\* its way to the next one.
Answers(o, k) ==
  /\ o \in Seq(Int) /\ Len(o) = 2 * k
  /\ \A i \in 1..k : /\ o[2 * i - 1] \in hmap /\ Rank(o[2 * i - 1]) = StartsAt + i - 1
                     /\ o[2 * i] = score[o[2 * i - 1]]

OutputOK ==
  pc = "offset" =>
    /\ op.limit > 0 /\ Cardinality(InFront) < Cardinality(hmap)
    /\ \E k \in Nat : /\ Answers(out, k)
                      /\ k > 0 => 2 * (k - 1) < op.limit
                      /\ Rank(node) + offset - pos = StartsAt + k

AnswerInv == SeekOK /\ OutputOK

LEMMA RankIsPlace ==
  ASSUME hmap \subseteq Name, NEW n \in Name
  PROVE  Rank(n) = Place(hmap, Before(score), n)
  <1>1. \A m \in hmap : zless(m, score[n], n) <=> <<m, n>> \in Before(score)
    BY ZlessIsBefore
  <1>2. {m \in hmap : zless(m, score[n], n)} = {m \in hmap : <<m, n>> \in Before(score)}
    BY <1>1
  <1>3. QED
    BY <1>2, Zenon DEF Rank, Place

\* The members in front of the key come first.
LEMMA KeyOrder ==
  ASSUME score \in [Name -> Int], NEW a \in Name, NEW b \in Name, <<a, b>> \in Before(score),
         NEW s \in Int, NEW x \in Int, zless(b, s, x)
  PROVE  zless(a, s, x)
  <1>1. score[a] \in Int /\ score[b] \in Int /\ a \in Int /\ b \in Int
    BY ZSetAssumption
  <1>2. IF score[a] # score[b] THEN score[a] < score[b] ELSE a < b
    BY BeforeIs
  <1>3. QED
    BY <1>1, <1>2 DEF zless

LEMMA SeekStarts ==
  ASSUME Inv, NEW q \in Query, ZQuery(q)
  PROVE  AnswerInv'
  <1>1. pc = "idle" /\ UNCHANGED setVars /\ UNCHANGED <<other, pos, offset, out>>
    BY DEF ZQuery
  <1>2. CASE q.limit <= 0
    <2>1. pc' = "idle"
      BY <1>1, <1>2 DEF ZQuery
    <2>2. QED
      BY <2>1 DEF AnswerInv, SeekOK, OutputOK
  <1>3. CASE ~(q.limit <= 0)
    <2>1. /\ op' = [cmd |-> "zquery", score |-> q.score, name |-> q.name,
                    offset |-> q.offset, limit |-> q.limit]
          /\ pc' = "seek" /\ node' = root
      BY <1>3 DEF ZQuery
    <2>2. op'.limit > 0
      <3>1. q.limit \in Int
        BY ZSetAssumption
      <3>2. QED
        BY <1>3, <2>1, <3>1
    <2>3. /\ IsTree(tree, root, hmap, Before(score)) /\ other = NULL
      BY <1>1, QueryTree DEF Inv, OpOK
    <2>4. PICK B : Shape(tree.left, tree.right, tree.parent, root, hmap, B, Before(score))
      BY <2>3 DEF IsTree
    <2>5. B[root] = hmap
      BY <2>4 DEF Shape, Subtrees
    <2>6. hmap' = hmap /\ score' = score /\ tree' = tree /\ root' = root /\ other' = NULL
      BY <1>1, <2>3 DEF setVars
    <2>7. Narrows(B, node, other)'
      BY <2>1, <2>5, <2>6 DEF Narrows
    <2>8. Shape(tree'.left, tree'.right, tree'.parent, root', hmap', B, Before(score'))
      BY <2>4, <2>6
    <2>9. out' = << >>
      BY <1>1 DEF Inv, OpOK
    <2>10. QED
      BY <2>1, <2>2, <2>7, <2>8, <2>9 DEF AnswerInv, SeekOK, OutputOK
  <1>4. QED
    BY <1>2, <1>3

LEMMA SeekNarrows ==
  ASSUME Inv, SeekOK, SeekStep
  PROVE  SeekOK'
  <1> DEFINE ord == Before(score)
  <1>1. /\ pc = "seek" /\ node # NULL /\ UNCHANGED <<setVars, op, pc, pos, offset, out>>
    BY DEF SeekStep
  <1>2. hmap' = hmap /\ score' = score /\ tree' = tree /\ root' = root /\ op' = op
    BY <1>1 DEF setVars
  <1>3. PICK B : /\ Shape(tree.left, tree.right, tree.parent, root, hmap, B, ord)
                 /\ Narrows(B, node, other)
    BY <1>1 DEF SeekOK
  <1>4. /\ node \in hmap /\ op.score \in Int /\ op.name \in Int /\ other \in hmap \cup {NULL}
        /\ hmap \subseteq Name /\ score \in [Name -> Int] /\ IsOrder(ord)
    BY <1>1, QueryTree, BeforeOrders DEF Inv, QueryOK, OpOK
  <1>5. /\ B[node] = {node} \cup B[tree.left[node]] \cup B[tree.right[node]]
        /\ B[node] \subseteq hmap /\ node \in B[node]
        /\ \A y \in B[tree.left[node]] : <<y, node>> \in ord
        /\ \A y \in B[tree.right[node]] : <<node, y>> \in ord
    BY <1>3, <1>4 DEF Shape, Subtrees, Sorted
  <1>6. /\ \A m \in hmap : \/ m \in B[node] \/ m \in InFront
                           \/ other # NULL /\ (m = other \/ <<other, m>> \in ord)
        /\ other # NULL => /\ other \notin InFront
                           /\ \A m \in B[node] : <<m, other>> \in ord
    BY <1>3 DEF Narrows
  <1>7. InFront' = InFront
    BY <1>2 DEF InFront, zless
  <1>8. Narrows(B, node', other')
    <2>1. CASE zless(node, op.score, op.name)
      <3>1. node' = tree.right[node] /\ other' = other
        BY <2>1 DEF SeekStep
      <3>2. \A m \in B[tree.left[node]] \cup {node} : m \in InFront
        <4>1. \A m \in B[tree.left[node]] : m \in hmap /\ m \in Name
          BY <1>4, <1>5
        <4>2. \A m \in B[tree.left[node]] : zless(m, op.score, op.name)
          BY <1>4, <1>5, <2>1, <4>1, KeyOrder
        <4>3. QED
          BY <1>4, <2>1, <4>1, <4>2 DEF InFront
      <3>3. QED
        BY <1>5, <1>6, <3>1, <3>2 DEF Narrows
    <2>2. CASE ~zless(node, op.score, op.name)
      <3>1. node' = tree.left[node] /\ other' = node
        BY <2>2 DEF SeekStep
      <3>2. node \notin InFront
        BY <2>2 DEF InFront
      <3>3. ASSUME NEW m \in hmap, other # NULL, m = other \/ <<other, m>> \in ord
            PROVE  <<node, m>> \in ord
        <4>1. <<node, other>> \in ord /\ node \in Name /\ other \in Name /\ m \in Name
          BY <1>4, <1>5, <1>6, <3>3
        <4>2. QED
          BY <1>4, <3>3, <4>1 DEF IsOrder
      <3>4. \A m \in hmap : \/ m \in B[tree.left[node]] \/ m \in InFront
                            \/ m = node \/ <<node, m>> \in ord
        BY <1>5, <1>6, <3>3
      <3>5. QED
        BY <1>1, <1>5, <3>1, <3>2, <3>4 DEF Narrows
    <2>3. QED
      BY <2>1, <2>2
  <1>9. Narrows(B, node, other)'
    BY <1>2, <1>7, <1>8 DEF Narrows
  <1>10. Shape(tree'.left, tree'.right, tree'.parent, root', hmap', B, Before(score'))
    BY <1>2, <1>3
  <1>11. out' = << >> /\ op'.limit > 0
    BY <1>1 DEF SeekOK
  <1>12. QED
    BY <1>9, <1>10, <1>11 DEF SeekOK

\* What zset_seekge has found when the path ends.
LEMMA SeekFinds ==
  ASSUME Inv, SeekOK, pc = "seek", node = NULL
  PROVE  /\ Cardinality(hmap) \in Nat /\ Cardinality(InFront) \in Nat
         /\ other = NULL => InFront = hmap
         /\ other # NULL => /\ Rank(other) = Cardinality(InFront)
                            /\ Cardinality(InFront) < Cardinality(hmap)
  <1> DEFINE ord == Before(score)
  <1>1. PICK B : /\ Shape(tree.left, tree.right, tree.parent, root, hmap, B, ord)
                 /\ Narrows(B, node, other)
    BY DEF SeekOK
  <1>2. /\ op.score \in Int /\ op.name \in Int /\ other \in hmap \cup {NULL}
        /\ hmap \subseteq Name /\ score \in [Name -> Int] /\ IsOrder(ord)
    BY QueryTree, BeforeOrders DEF Inv, QueryOK, OpOK
  <1>3. B[node] = {} /\ IsFiniteSet(hmap)
    BY <1>1 DEF Shape, Subtrees, Pointers
  <1>4. /\ \A m \in hmap : \/ m \in InFront
                           \/ other # NULL /\ (m = other \/ <<other, m>> \in ord)
        /\ other # NULL => other \notin InFront
    BY <1>1, <1>3 DEF Narrows
  <1>5. InFront \subseteq hmap
    BY DEF InFront
  <1>6. IsFiniteSet(InFront) /\ Cardinality(InFront) \in Nat /\ Cardinality(hmap) \in Nat
    BY <1>3, <1>5, FS_Subset, FS_CardinalityType
  <1>7. ASSUME other # NULL
        PROVE  Rank(other) = Cardinality(InFront) /\ Cardinality(InFront) < Cardinality(hmap)
    <2>1. other \in hmap /\ other \in Name
      BY <1>2, <1>7
    <2>2. {m \in hmap : <<m, other>> \in ord} = InFront
      <3>1. ASSUME NEW m \in hmap, <<m, other>> \in ord
            PROVE  m \in InFront
        <4>1. m \in Name /\ m # other /\ <<other, m>> \notin ord
          BY <1>2, <2>1, <3>1 DEF IsOrder
        <4>2. QED
          BY <1>4, <4>1
      <3>2. ASSUME NEW m \in InFront
            PROVE  m \in hmap /\ <<m, other>> \in ord
        <4>1. m \in hmap /\ m \in Name /\ zless(m, op.score, op.name)
          BY <1>2, <3>2 DEF InFront
        <4>2. ~zless(other, op.score, op.name)
          BY <1>4, <1>7, <2>1 DEF InFront
        <4>3. m # other /\ <<other, m>> \notin ord
          BY <1>2, <2>1, <4>1, <4>2, KeyOrder
        <4>4. QED
          BY <1>2, <2>1, <4>1, <4>3 DEF IsOrder
      <3>3. QED
        BY <3>1, <3>2
    <2>3. Rank(other) = Place(hmap, ord, other)
      BY <1>2, <2>1, RankIsPlace
    <2>4. Place(hmap, ord, other) < Cardinality(hmap)
      BY <1>2, <1>3, <2>1, PlaceFacts
    <2>5. Place(hmap, ord, other) = Cardinality(InFront)
      BY <2>2, Zenon DEF Place
    <2>6. QED
      BY <2>3, <2>4, <2>5
  <1>8. other = NULL => InFront = hmap
    BY <1>4, <1>5
  <1>9. QED
    BY <1>6, <1>7, <1>8

\* The steps of ZQUERY leave the positions alone.
LEMMA RankFrame ==
  ASSUME UNCHANGED setVars, UNCHANGED op
  PROVE  /\ hmap' = hmap /\ score' = score /\ tree' = tree /\ root' = root
         /\ InFront' = InFront /\ StartsAt' = StartsAt
         /\ \A x : Rank(x)' = Rank(x)
         /\ \A o, k : Answers(o, k)' <=> Answers(o, k)
  <1>1. hmap' = hmap /\ score' = score /\ tree' = tree /\ root' = root /\ op' = op
    BY DEF setVars
  <1>2. InFront' = InFront
    BY <1>1, Zenon DEF InFront, zless
  <1>3. StartsAt' = StartsAt
    BY <1>1, <1>2, Zenon DEF StartsAt
  <1>4. \A x : Rank(x)' = Rank(x)
    BY <1>1, Zenon DEF Rank, zless
  <1>5. ASSUME NEW o, NEW k
        PROVE  Answers(o, k)' <=> Answers(o, k)
    BY <1>1, <1>3, <1>4 DEF Answers
  <1>6. QED
    BY <1>1, <1>2, <1>3, <1>4, <1>5

\* zset_seekge hands its candidate to avl_offset.
LEMMA SeekHandsOver ==
  ASSUME Inv, SeekOK, SeekDone, other # NULL
  PROVE  AnswerInv'
  <1>1. /\ pc = "seek" /\ node = NULL /\ pc' = "offset" /\ node' = other
        /\ pos' = 0 /\ offset' = op.offset /\ op' = op /\ out' = out /\ UNCHANGED setVars
    BY DEF SeekDone
  <1>2. /\ Cardinality(InFront) \in Nat /\ Rank(other) = Cardinality(InFront)
        /\ Cardinality(InFront) < Cardinality(hmap)
    BY <1>1, SeekFinds
  <1>3. out = << >> /\ op.limit > 0 /\ op.offset \in Int
    BY <1>1 DEF SeekOK, Inv, OpOK
  <1>4. /\ hmap' = hmap /\ InFront' = InFront /\ StartsAt' = StartsAt
        /\ \A x : Rank(x)' = Rank(x)
        /\ \A o, k : Answers(o, k)' <=> Answers(o, k)
    BY <1>1, RankFrame
  <1>5. Answers(<< >>, 0)
    BY DEF Answers
  <1>6. Answers(out, 0)'
    <2>1. Answers(<< >>, 0)'
      BY <1>4, <1>5
    <2>2. out' = << >>
      BY <1>1, <1>3
    <2>3. QED
      BY <2>1, <2>2 DEF Answers
  <1>7. Rank(node)' = Cardinality(InFront)
    BY <1>1, <1>2, <1>4
  <1>8. (Rank(node) + offset - pos = StartsAt + 0)'
    BY <1>1, <1>2, <1>3, <1>4, <1>7 DEF StartsAt
  <1>9. (op.limit > 0 /\ Cardinality(InFront) < Cardinality(hmap))'
    BY <1>1, <1>2, <1>3, <1>4
  <1>10. OutputOK'
    BY <1>6, <1>8, <1>9 DEF OutputOK
  <1>11. QED
    BY <1>1, <1>10 DEF AnswerInv, SeekOK

LEMMA RankType ==
  ASSUME Inv, pc \in {"seek", "offset"}
  PROVE  /\ IsFiniteSet(hmap) /\ Cardinality(hmap) \in Nat
         /\ InFront \subseteq hmap /\ Cardinality(InFront) \in Nat /\ StartsAt \in Int
         /\ \A n \in hmap : Rank(n) \in Nat /\ Rank(n) < Cardinality(hmap)
  <1>1. /\ IsTree(tree, root, hmap, Before(score)) /\ IsOrder(Before(score))
        /\ hmap \subseteq Name
    BY QueryTree, BeforeOrders
  <1>2. IsFiniteSet(hmap)
    BY <1>1 DEF IsTree, Shape, Pointers
  <1>3. InFront \subseteq hmap
    BY DEF InFront
  <1>4. Cardinality(InFront) \in Nat /\ Cardinality(hmap) \in Nat
    BY <1>2, <1>3, FS_Subset, FS_CardinalityType
  <1>5. StartsAt \in Int
    BY <1>4 DEF StartsAt, Inv, OpOK
  <1>6. ASSUME NEW n \in hmap
        PROVE  Rank(n) \in Nat /\ Rank(n) < Cardinality(hmap)
    BY <1>1, <1>2, PlaceFacts, RankIsPlace
  <1>7. QED
    BY <1>2, <1>3, <1>4, <1>5, <1>6

\* pos follows the position of the node: a turn of avl_offset changes both by
\* the same number.
LEMMA OffsetTracks ==
  ASSUME Inv, OffsetStep
  PROVE  /\ Rank(node) \in Nat /\ Rank(node') \in Nat
         /\ Rank(node') - pos' = Rank(node) - pos
  <1> DEFINE ord == Before(score)
             P(n) == Place(hmap, ord, n)
  <1>1. pc = "offset" /\ pos \in Int /\ pos' \in Int /\ node \in hmap /\ node' \in hmap
    BY OffsetMoves DEF OffsetStep, Inv, TypeOK
  <1>2. /\ IsTree(tree, root, hmap, ord) /\ IsOrder(ord) /\ tree \in Tree
        /\ hmap \subseteq Name /\ \A m \in hmap : Exact(tree, m)
    BY <1>1, QueryTree, BeforeOrders
  <1>3. PICK B : Shape(tree.left, tree.right, tree.parent, root, hmap, B, ord)
    BY <1>2 DEF IsTree
  <1>4. /\ IsFiniteSet(hmap) /\ NULL \notin hmap
        /\ \A m \in hmap : /\ tree.left[m] \in hmap \cup {NULL} /\ tree.right[m] \in hmap \cup {NULL}
                           /\ tree.parent[m] # NULL =>
                                tree.left[tree.parent[m]] = m \/ tree.right[tree.parent[m]] = m
    BY <1>2, <1>3, AvlAssumption DEF Shape, Pointers, Linked
  <1>5. \A c \in hmap \cup {NULL} : avl_cnt(tree, c) = Cardinality(B[c])
    BY <1>2, <1>3, CountIsSize
  <1>6. P(node) \in Nat /\ P(node') \in Nat
    BY <1>1, <1>2, <1>4, PlaceFacts
  <1>7. Rank(node) = P(node) /\ Rank(node') = P(node')
    BY <1>1, <1>2, RankIsPlace
  <1>8. ASSUME NEW m \in hmap
        PROVE  /\ LeftSpan(m) = Cardinality(B[tree.left[m]]) + 1
               /\ RightSpan(m) = Cardinality(B[tree.right[m]]) + 1
    BY <1>4, <1>5 DEF LeftSpan, RightSpan
  <1>9. ASSUME NEW p \in hmap, NEW c \in hmap, c = tree.right[p]
        PROVE  LeftSpan(c) \in Nat /\ P(c) = P(p) + LeftSpan(c)
    <2>1. /\ Cardinality(B[tree.left[c]]) \in Nat
          /\ P(c) = P(p) + 1 + Cardinality(B[tree.left[c]])
      BY <1>2, <1>3, <1>4, <1>9, PlaceRight
    <2>2. P(p) \in Nat
      BY <1>2, <1>4, PlaceFacts
    <2>3. LeftSpan(c) = Cardinality(B[tree.left[c]]) + 1
      BY <1>8
    <2> HIDE DEF P
    <2>4. QED
      BY <2>1, <2>2, <2>3
  <1>10. ASSUME NEW p \in hmap, NEW c \in hmap, c = tree.left[p]
         PROVE  RightSpan(c) \in Nat /\ P(p) = P(c) + RightSpan(c)
    <2>1. /\ Cardinality(B[tree.right[c]]) \in Nat
          /\ P(p) = P(c) + 1 + Cardinality(B[tree.right[c]])
      BY <1>2, <1>3, <1>4, <1>10, PlaceLeft
    <2>2. P(c) \in Nat
      BY <1>2, <1>4, PlaceFacts
    <2>3. RightSpan(c) = Cardinality(B[tree.right[c]]) + 1
      BY <1>8
    <2> HIDE DEF P
    <2>4. QED
      BY <2>1, <2>2, <2>3
  <1> HIDE DEF P
  <1>11. P(node') - pos' = P(node) - pos
    <2>1. CASE InRight
      <3>1. node' = tree.right[node] /\ pos' = pos + LeftSpan(tree.right[node])
        BY <2>1 DEF OffsetStep
      <3>2. LeftSpan(node') \in Nat /\ P(node') = P(node) + LeftSpan(node')
        BY <1>1, <1>9, <3>1
      <3>3. pos' = pos + LeftSpan(node')
        BY <3>1
      <3>4. QED
        BY <1>1, <1>6, <3>2, <3>3
    <2>2. CASE ~InRight /\ InLeft
      <3>1. node' = tree.left[node] /\ pos' = pos - RightSpan(tree.left[node])
        BY <2>2 DEF OffsetStep
      <3>2. RightSpan(node') \in Nat /\ P(node) = P(node') + RightSpan(node')
        BY <1>1, <1>10, <3>1
      <3>3. pos' = pos - RightSpan(node')
        BY <3>1
      <3>4. QED
        BY <1>1, <1>6, <3>2, <3>3
    <2>3. CASE ~InRight /\ ~InLeft
      <3>1. /\ node' = tree.parent[node] /\ tree.parent[node] # NULL
            /\ pos' = IF tree.right[node'] = node THEN pos - LeftSpan(node)
                                                  ELSE pos + RightSpan(node)
        BY <2>3 DEF OffsetStep
      <3>2. CASE tree.right[node'] = node
        <4>1. LeftSpan(node) \in Nat /\ P(node) = P(node') + LeftSpan(node)
          BY <1>1, <1>9, <3>2
        <4>2. pos' = pos - LeftSpan(node)
          BY <3>1, <3>2
        <4>3. QED
          BY <1>1, <1>6, <4>1, <4>2
      <3>3. CASE tree.right[node'] # node
        <4>1. tree.left[node'] = node
          BY <1>1, <1>4, <3>1, <3>3
        <4>2. RightSpan(node) \in Nat /\ P(node') = P(node) + RightSpan(node)
          BY <1>1, <1>10, <4>1
        <4>3. pos' = pos + RightSpan(node)
          BY <3>1, <3>3
        <4>4. QED
          BY <1>1, <1>6, <4>2, <4>3
      <3>4. QED
        BY <3>2, <3>3
    <2>4. QED
      BY <2>1, <2>2, <2>3
  <1>12. QED
    BY <1>6, <1>7, <1>11

LEMMA OffsetAnswers ==
  ASSUME Inv, OutputOK, OffsetStep
  PROVE  AnswerInv'
  <1>1. /\ pc = "offset" /\ pc' = "offset" /\ op' = op /\ out' = out /\ offset' = offset
        /\ UNCHANGED setVars
    BY DEF OffsetStep
  <1>2. PICK k \in Nat : /\ Answers(out, k)
                         /\ k > 0 => 2 * (k - 1) < op.limit
                         /\ Rank(node) + offset - pos = StartsAt + k
    BY <1>1 DEF OutputOK
  <1>3. /\ hmap' = hmap /\ InFront' = InFront /\ StartsAt' = StartsAt
        /\ \A x : Rank(x)' = Rank(x)
        /\ \A o, j : Answers(o, j)' <=> Answers(o, j)
    BY <1>1, RankFrame
  <1>4. /\ Rank(node) \in Nat /\ Rank(node') \in Nat /\ pos \in Int /\ pos' \in Int /\ offset \in Int
        /\ Rank(node') - pos' = Rank(node) - pos
    BY OffsetTracks, OffsetMoves DEF Inv, TypeOK
  <1>5. Rank(node') + offset - pos' = StartsAt + k
    BY <1>2, <1>4
  <1>6. Rank(node)' = Rank(node')
    BY <1>3, Zenon DEF Rank, zless
  <1>7. (Rank(node) + offset - pos = StartsAt + k)'
    BY <1>1, <1>3, <1>5, <1>6
  <1>8. Answers(out, k)'
    <2>1. score' = score
      BY <1>1 DEF setVars
    <2>2. QED
      BY <1>1, <1>2, <1>3, <2>1 DEF Answers
  <1>9. (op.limit > 0 /\ Cardinality(InFront) < Cardinality(hmap))'
    BY <1>1, <1>3 DEF OutputOK
  <1>10. OutputOK'
    BY <1>1, <1>2, <1>7, <1>8, <1>9 DEF OutputOK
  <1>11. QED
    BY <1>1, <1>10 DEF AnswerInv, SeekOK

\* One turn of the output loop adds the member that comes next.
LEMMA AnswersGrow ==
  ASSUME hmap \subseteq Int, NEW o, NEW k \in Nat, Answers(o, k),
         NEW n \in hmap, score[n] \in Int, Rank(n) = StartsAt + k
  PROVE  Answers(o \o <<n, score[n]>>, k + 1)
  <1> DEFINE w == o \o <<n, score[n]>>
  <1>1. /\ o \in Seq(Int) /\ Len(o) = 2 * k
        /\ \A i \in 1..k : /\ o[2 * i - 1] \in hmap /\ Rank(o[2 * i - 1]) = StartsAt + i - 1
                           /\ o[2 * i] = score[o[2 * i - 1]]
    BY DEF Answers
  <1>2. n \in Int
    OBVIOUS
  <1>3. /\ w \in Seq(Int) /\ Len(w) = 2 * k + 2
        /\ \A j \in 1..(2 * k) : w[j] = o[j]
        /\ w[2 * k + 1] = n /\ w[2 * k + 2] = score[n]
    BY <1>1, <1>2
  <1> HIDE DEF w
  <1>4. ASSUME NEW i \in 1..(k + 1)
        PROVE  /\ w[2 * i - 1] \in hmap /\ Rank(w[2 * i - 1]) = StartsAt + i - 1
               /\ w[2 * i] = score[w[2 * i - 1]]
    <2>1. CASE i = k + 1
      <3>1. 2 * i - 1 = 2 * k + 1 /\ 2 * i = 2 * k + 2 /\ StartsAt + i - 1 = StartsAt + k
        BY <2>1
      <3>2. QED
        BY <1>3, <3>1
    <2>2. CASE i \in 1..k
      <3>1. 2 * i - 1 \in 1..(2 * k) /\ 2 * i \in 1..(2 * k)
        BY <2>2
      <3>2. QED
        BY <1>1, <1>3, <2>2, <3>1
    <2>3. QED
      BY <2>1, <2>2
  <1>5. Len(w) = 2 * (k + 1)
    BY <1>3
  <1>6. Answers(w, k + 1)
    BY <1>3, <1>4, <1>5 DEF Answers
  <1>7. QED
    BY <1>6 DEF w

LEMMA OutputAnswers ==
  ASSUME Inv, OutputOK, Output, Len(out) < op.limit
  PROVE  AnswerInv'
  <1>1. /\ pc = "offset" /\ pc' = "offset" /\ op' = op /\ out' = out \o <<node, score[node]>>
        /\ offset = pos /\ pos' = 0 /\ offset' = 1 /\ node' = node /\ UNCHANGED setVars
    BY DEF Output
  <1>2. PICK k \in Nat : /\ Answers(out, k)
                         /\ k > 0 => 2 * (k - 1) < op.limit
                         /\ Rank(node) + offset - pos = StartsAt + k
    BY <1>1 DEF OutputOK
  <1>3. /\ hmap' = hmap /\ score' = score /\ InFront' = InFront /\ StartsAt' = StartsAt
        /\ \A x : Rank(x)' = Rank(x)
    BY <1>1, RankFrame
  <1>4. /\ node \in hmap /\ hmap \subseteq Name /\ hmap \subseteq Int /\ score[node] \in Int
        /\ pos \in Int /\ op.limit \in Int /\ op.offset \in Int
    BY <1>1, ZSetAssumption DEF Inv, TypeOK, QueryOK, OpOK
  <1>5. Rank(node) \in Nat /\ StartsAt \in Int
    BY <1>1, <1>4, RankType
  <1>6. Rank(node) = StartsAt + k
    BY <1>1, <1>2, <1>4, <1>5
  <1>7. Answers(out \o <<node, score[node]>>, k + 1)
    BY <1>2, <1>4, <1>6, AnswersGrow
  <1>8. Answers(out, k + 1)'
    BY <1>1, <1>3, <1>7 DEF Answers
  <1>9. Rank(node)' = Rank(node)
    BY <1>1, <1>3, Zenon DEF Rank, zless
  <1>10. (Rank(node) + offset - pos = StartsAt + (k + 1))'
    BY <1>1, <1>3, <1>5, <1>6, <1>9
  <1>11. 2 * ((k + 1) - 1) < op.limit
    <2>1. Len(out) = 2 * k
      BY <1>2 DEF Answers
    <2>2. QED
      BY <2>1
  <1>12. (op.limit > 0 /\ Cardinality(InFront) < Cardinality(hmap))'
    BY <1>1, <1>3 DEF OutputOK
  <1>13. OutputOK'
    BY <1>1, <1>8, <1>10, <1>11, <1>12 DEF OutputOK
  <1>14. QED
    BY <1>1, <1>13 DEF AnswerInv, SeekOK

\* The number of members of a full answer.
Most == (op.limit + 1) \div 2

LEMMA Halves ==
  ASSUME NEW i \in Nat, i >= 1
  PROVE  /\ (i - 1) \div 2 \in Nat
         /\ i % 2 = 1 => i = 2 * ((i - 1) \div 2) + 1
         /\ i % 2 # 1 => i = 2 * ((i - 1) \div 2) + 2
  OBVIOUS

LEMMA MostFacts ==
  ASSUME NEW l \in Int, l > 0
  PROVE  LET h == (l + 1) \div 2
         IN  h \in Nat /\ h >= 1 /\ 2 * h >= l /\ 2 * (h - 1) < l
  OBVIOUS

\* Nothing to answer: no member at or behind the key, or none at the offset.
LEMMA ExpectsNothing ==
  ASSUME Cardinality(InFront) = Cardinality(hmap) \/ StartsAt < 0 \/ StartsAt >= Cardinality(hmap)
  PROVE  Expected(op) = << >>
  BY DEF Expected, InFront, StartsAt

\* Positions name members, so the answer of a given length is unique.
LEMMA AnswersAreExpected ==
  ASSUME Inv, pc = "offset", NEW o, NEW k \in Nat, Answers(o, k),
         Cardinality(InFront) # Cardinality(hmap), ~(StartsAt < 0), ~(StartsAt >= Cardinality(hmap)),
         k = IF Cardinality(hmap) - StartsAt < Most THEN Cardinality(hmap) - StartsAt ELSE Most
  PROVE  o = Expected(op)
  <1> DEFINE at(r) == CHOOSE n \in hmap : Rank(n) = r
             e(i) == LET n == at(StartsAt + (i - 1) \div 2) IN IF i % 2 = 1 THEN n ELSE score[n]
  <1>1. Expected(op) = [i \in 1..(2 * k) |-> e(i)]
    BY DEF Expected, InFront, StartsAt, Most
  <1>2. /\ o \in Seq(Int) /\ Len(o) = 2 * k
        /\ \A i \in 1..k : /\ o[2 * i - 1] \in hmap /\ Rank(o[2 * i - 1]) = StartsAt + i - 1
                           /\ o[2 * i] = score[o[2 * i - 1]]
    BY DEF Answers
  <1>3. StartsAt \in Int /\ IsFiniteSet(hmap) /\ hmap \subseteq Name /\ IsOrder(Before(score))
    BY RankType, QueryTree, BeforeOrders
  <1>4. \A a, b \in hmap : Rank(a) = Rank(b) => a = b
    BY <1>3, PlaceInjective, RankIsPlace
  <1>5. ASSUME NEW i \in 1..(2 * k)
        PROVE  o[i] = e(i)
    <2> DEFINE h == (i - 1) \div 2
    <2>1. /\ h \in Nat /\ i \in Nat /\ i >= 1
          /\ i % 2 = 1 => i = 2 * h + 1
          /\ i % 2 # 1 => i = 2 * h + 2
      BY Halves
    <2> HIDE DEF h
    <2>2. h + 1 \in 1..k /\ 2 * (h + 1) - 1 = 2 * h + 1 /\ 2 * (h + 1) = 2 * h + 2
      BY <2>1
    <2>3. /\ o[2 * h + 1] \in hmap /\ Rank(o[2 * h + 1]) = StartsAt + (h + 1) - 1
          /\ o[2 * h + 2] = score[o[2 * h + 1]]
      BY <1>2, <2>2
    <2>4. StartsAt + (h + 1) - 1 = StartsAt + h
      BY <1>3, <2>1
    <2>5. at(StartsAt + h) = o[2 * h + 1]
      <3>1. o[2 * h + 1] \in hmap /\ Rank(o[2 * h + 1]) = StartsAt + h
        BY <2>3, <2>4
      <3>2. at(StartsAt + h) \in hmap /\ Rank(at(StartsAt + h)) = StartsAt + h
        BY <3>1
      <3> HIDE DEF at
      <3>3. QED
        BY <1>4, <3>1, <3>2
    <2> HIDE DEF at
    <2>6. e(i) = IF i % 2 = 1 THEN at(StartsAt + h) ELSE score[at(StartsAt + h)]
      BY DEF h
    <2> HIDE DEF e
    <2>7. QED
      BY <2>1, <2>3, <2>5, <2>6
  <1>6. o = [i \in 1..(2 * k) |-> o[i]]
    BY <1>2
  <1> HIDE DEF e
  <1>7. QED
    BY <1>1, <1>5, <1>6

\* What is in the output has its place in the set.
LEMMA AnswerBounds ==
  ASSUME Inv, pc = "offset", NEW o, NEW k \in Nat, Answers(o, k)
  PROVE  /\ k > 0 => StartsAt >= 0 /\ StartsAt + k - 1 < Cardinality(hmap)
         /\ k = 0 => o = << >>
  <1>1. /\ o \in Seq(Int) /\ Len(o) = 2 * k
        /\ \A i \in 1..k : o[2 * i - 1] \in hmap /\ Rank(o[2 * i - 1]) = StartsAt + i - 1
    BY DEF Answers
  <1>2. /\ StartsAt \in Int /\ Cardinality(hmap) \in Nat
        /\ \A n \in hmap : Rank(n) \in Nat /\ Rank(n) < Cardinality(hmap)
    BY RankType
  <1>3. ASSUME NEW i \in 1..k
        PROVE  StartsAt + i - 1 >= 0 /\ StartsAt + i - 1 < Cardinality(hmap)
    <2>1. /\ Rank(o[2 * i - 1]) = StartsAt + i - 1 /\ Rank(o[2 * i - 1]) \in Nat
          /\ Rank(o[2 * i - 1]) < Cardinality(hmap)
      BY <1>1, <1>2
    <2>2. QED
      BY <2>1
  <1>4. ASSUME k > 0
        PROVE  StartsAt >= 0 /\ StartsAt + k - 1 < Cardinality(hmap)
    <2>1. 1 \in 1..k /\ k \in 1..k
      BY <1>4
    <2>2. StartsAt + 1 - 1 >= 0 /\ StartsAt + k - 1 < Cardinality(hmap)
      BY <1>3, <2>1
    <2>3. QED
      BY <1>2, <2>2
  <1>5. k = 0 => o = << >>
    BY <1>1
  <1>6. QED
    BY <1>4, <1>5

\* avl_offset gives up only when the position is outside the set.
LEMMA OffsetOutside ==
  ASSUME Inv, OffsetOut
  PROVE  LET x == Rank(node) + offset - pos IN x < 0 \/ x >= Cardinality(hmap)
  <1> DEFINE ord == Before(score)
             cl == avl_cnt(tree, tree.left[node])
             cr == avl_cnt(tree, tree.right[node])
             total == Cardinality(hmap)
  <1>1. /\ pc = "offset" /\ offset # pos /\ ~InRight /\ ~InLeft /\ tree.parent[node] = NULL
        /\ node \in hmap /\ pos \in Int /\ offset \in Int
    BY DEF OffsetOut, Inv, TypeOK, QueryOK
  <1>2. /\ IsTree(tree, root, hmap, ord) /\ IsOrder(ord) /\ tree \in Tree
        /\ hmap \subseteq Name /\ \A m \in hmap : Exact(tree, m)
    BY <1>1, QueryTree, BeforeOrders
  <1>3. PICK B : Shape(tree.left, tree.right, tree.parent, root, hmap, B, ord)
    BY <1>2 DEF IsTree
  <1>4. /\ node = root
        /\ tree.left[node] \in hmap \cup {NULL} /\ tree.right[node] \in hmap \cup {NULL}
    BY <1>1, <1>3 DEF Shape, Pointers, Linked
  <1>5. \A c \in hmap \cup {NULL} : avl_cnt(tree, c) = Cardinality(B[c])
    BY <1>2, <1>3, CountIsSize
  <1>6. cl = Cardinality(B[tree.left[node]]) /\ cr = Cardinality(B[tree.right[node]])
    BY <1>4, <1>5
  <1>7. /\ Place(hmap, ord, node) = Cardinality(B[tree.left[node]])
        /\ Cardinality(B[tree.right[node]]) \in Nat
        /\ total = Place(hmap, ord, node) + 1 + Cardinality(B[tree.right[node]])
    BY <1>1, <1>2, <1>3, <1>4, PlaceRoot
  <1>8. Rank(node) = Place(hmap, ord, node)
    BY <1>1, <1>2, RankIsPlace
  <1>9. Rank(node) \in Nat
    BY <1>1, RankType
  <1>10. /\ ~(pos < offset /\ pos + cr >= offset)
         /\ ~(pos > offset /\ pos - cl <= offset)
    BY <1>1 DEF InRight, InLeft
  <1> HIDE DEF cl, cr, total
  <1>11. Rank(node) = cl /\ cr \in Nat /\ total = cl + 1 + cr /\ cl \in Nat
    BY <1>6, <1>7, <1>8, <1>9
  <1>12. Rank(node) + offset - pos < 0 \/ Rank(node) + offset - pos >= total
    BY <1>1, <1>10, <1>11
  <1>13. QED
    BY <1>12 DEF total

\* The three ways back to the event loop.
LEMMA ReturnsExpected ==
  ASSUME Inv, AnswerInv, SeekDone \/ OffsetOut \/ Output, pc' = "idle"
  PROVE  out = Expected(op)
  <1> DEFINE total == Cardinality(hmap)
  <1>1. CASE SeekDone
    <2>1. pc = "seek" /\ node = NULL /\ other = NULL
      BY <1>1 DEF SeekDone
    <2>2. InFront = hmap /\ out = << >>
      BY <2>1, SeekFinds DEF AnswerInv, SeekOK
    <2>3. Cardinality(InFront) = Cardinality(hmap)
      BY <2>2, Zenon
    <2>4. QED
      BY <2>2, <2>3, ExpectsNothing
  <1>2. ASSUME pc = "offset"
        PROVE  /\ op.limit \in Int /\ op.limit > 0 /\ total \in Nat /\ Cardinality(InFront) \in Nat
               /\ Cardinality(InFront) # total /\ StartsAt \in Int
               /\ Most \in Nat /\ 2 * Most >= op.limit /\ 2 * (Most - 1) < op.limit
    <2>1. /\ op.limit \in Int /\ op.limit > 0 /\ total \in Nat /\ Cardinality(InFront) \in Nat
          /\ Cardinality(InFront) < total /\ StartsAt \in Int
      BY <1>2, RankType DEF AnswerInv, OutputOK, Inv, OpOK
    <2>2. Most \in Nat /\ 2 * Most >= op.limit /\ 2 * (Most - 1) < op.limit
      BY <2>1, MostFacts DEF Most
    <2> HIDE DEF total
    <2>3. QED
      BY <2>1, <2>2
  <1>3. ASSUME pc = "offset"
        PROVE  \E k \in Nat : /\ Answers(out, k)
                              /\ k > 0 => 2 * (k - 1) < op.limit
                              /\ Rank(node) + offset - pos = StartsAt + k
    BY <1>3 DEF AnswerInv, OutputOK
  <1>4. CASE OffsetOut
    <2>1. pc = "offset"
      BY <1>4 DEF OffsetOut
    <2>2. PICK k \in Nat : /\ Answers(out, k)
                           /\ k > 0 => 2 * (k - 1) < op.limit
                           /\ Rank(node) + offset - pos = StartsAt + k
      BY <1>3, <2>1
    <2>3. StartsAt + k < 0 \/ StartsAt + k >= total
      BY <1>4, <2>2, OffsetOutside
    <2>4. /\ k > 0 => StartsAt >= 0 /\ StartsAt + k - 1 < total
          /\ k = 0 => out = << >>
      BY <2>1, <2>2, AnswerBounds
    <2>5. CASE StartsAt < 0 \/ StartsAt >= total
      <3>1. k = 0
        <4> HIDE DEF total
        <4>1. QED
          BY <1>2, <2>1, <2>4, <2>5
      <3>2. QED
        BY <2>4, <2>5, <3>1, ExpectsNothing
    <2>6. CASE ~(StartsAt < 0) /\ ~(StartsAt >= total)
      <3>1. k = IF total - StartsAt < Most THEN total - StartsAt ELSE Most
        <4> HIDE DEF total
        <4>1. QED
          BY <1>2, <2>1, <2>2, <2>3, <2>4, <2>6
      <3>2. Cardinality(InFront) # Cardinality(hmap)
        BY <1>2, <2>1
      <3>3. QED
        BY <2>1, <2>2, <2>6, <3>1, <3>2, AnswersAreExpected
    <2>7. QED
      BY <2>5, <2>6
  <1>5. CASE Output
    <2>1. pc = "offset" /\ offset = pos /\ ~(Len(out) < op.limit) /\ node \in hmap /\ pos \in Int
      BY <1>5 DEF Output, Inv, QueryOK, TypeOK
    <2>2. PICK k \in Nat : /\ Answers(out, k)
                           /\ k > 0 => 2 * (k - 1) < op.limit
                           /\ Rank(node) + offset - pos = StartsAt + k
      BY <1>3, <2>1
    <2>3. Len(out) = 2 * k
      BY <2>2 DEF Answers
    <2>4. /\ k > 0 => StartsAt >= 0 /\ StartsAt + k - 1 < total
      BY <2>1, <2>2, AnswerBounds
    <2>5. Rank(node) \in Nat /\ Rank(node) < total
      BY <2>1, RankType
    <2>6. /\ k = IF total - StartsAt < Most THEN total - StartsAt ELSE Most
          /\ ~(StartsAt < 0) /\ ~(StartsAt >= total)
      <3> HIDE DEF total
      <3>1. k > 0 /\ k = Most
        BY <1>2, <2>1, <2>2, <2>3
      <3>2. StartsAt + k < total
        BY <1>2, <2>1, <2>2, <2>5
      <3>3. QED
        BY <1>2, <2>1, <2>4, <3>1, <3>2
    <2>7. Cardinality(InFront) # Cardinality(hmap)
      BY <1>2, <2>1
    <2>8. QED
      BY <2>1, <2>2, <2>6, <2>7, AnswersAreExpected
  <1>6. QED
    BY <1>1, <1>4, <1>5

\* The operations that change the set are not in the loops of ZQUERY.
LEMMA AnswerNext ==
  ASSUME Inv, AnswerInv, [Next]_vars
  PROVE  AnswerInv' /\ (op.cmd = "zquery" /\ pc' = "idle" => (out = Expected(op) \/ UNCHANGED vars))
  <1>1. pc = "idle" <=> op.cmd = "none"
    BY DEF Inv, TypeOK
  <1>2. op.cmd = "zquery" => pc \in {"seek", "offset"}
    BY <1>1 DEF Inv, TypeOK, OpOK, NoOp
  <1>3. ASSUME pc' \notin {"seek", "offset"} PROVE AnswerInv'
    BY <1>3 DEF AnswerInv, SeekOK, OutputOK
  <1>4. CASE Call
    <2>1. pc = "idle"
      BY <1>4 DEF Call, zset_clear, ZRem, ZAdd, ZQuery
    <2>2. AnswerInv'
      <3>1. CASE \E q \in Query : ZQuery(q)
        BY <3>1, SeekStarts
      <3>2. CASE zset_clear \/ \E n \in Name : ZRem(n) \/ \E s \in Score : ZAdd(n, s)
        <4>1. pc' \notin {"seek", "offset"}
          BY <2>1, <3>2 DEF zset_clear, ZRem, ZAdd, StartDel
        <4>2. QED
          BY <1>3, <4>1
      <3>3. QED
        BY <1>4, <3>1, <3>2 DEF Call
    <2>3. QED
      BY <1>1, <2>1, <2>2
  <1>5. CASE FixStep \/ Detached \/ InsertRoot \/ SearchStep
    <2>1. pc \notin {"seek", "offset"} /\ pc' \notin {"seek", "offset"}
      BY <1>5 DEF FixStep, Detached, InsertRoot, SearchStep, Return
    <2>2. QED
      BY <1>2, <1>3, <2>1
  <1>6. CASE SeekStep
    <2>1. pc = "seek" /\ pc' = "seek"
      BY <1>6 DEF SeekStep
    <2>2. SeekOK'
      BY <1>6, SeekNarrows DEF AnswerInv
    <2>3. QED
      BY <2>1, <2>2 DEF AnswerInv, OutputOK
  <1>7. CASE SeekDone \/ OffsetOut \/ Output
    <2>1. CASE pc' = "idle"
      BY <1>3, <1>7, <2>1, ReturnsExpected
    <2>2. CASE pc' # "idle"
      <3>1. AnswerInv'
        <4>1. CASE SeekDone
          BY <2>2, <4>1, SeekHandsOver DEF SeekDone, Return, AnswerInv
        <4>2. CASE Output
          BY <2>2, <4>2, OutputAnswers DEF Output, Return, AnswerInv
        <4>3. CASE OffsetOut
          BY <2>2, <4>3 DEF OffsetOut, Return
        <4>4. QED
          BY <1>7, <4>1, <4>2, <4>3
      <3>2. QED
        BY <2>2, <3>1
    <2>3. QED
      BY <2>1, <2>2
  <1>8. CASE OffsetStep
    <2>1. pc' = "offset"
      BY <1>8 DEF OffsetStep
    <2>2. QED
      BY <1>8, <2>1, OffsetAnswers DEF AnswerInv
  <1>9. CASE UNCHANGED vars
    <2>1. /\ UNCHANGED setVars /\ UNCHANGED op /\ pc' = pc /\ node' = node /\ other' = other
          /\ pos' = pos /\ offset' = offset /\ out' = out
      BY <1>9 DEF vars, loopVars
    <2>2. /\ hmap' = hmap /\ score' = score /\ tree' = tree /\ root' = root
          /\ InFront' = InFront /\ StartsAt' = StartsAt /\ \A x : Rank(x)' = Rank(x)
      BY <2>1, RankFrame
    <2>3. SeekOK'
      BY <2>1, <2>2 DEF SeekOK, Narrows, AnswerInv
    <2>4. Rank(node)' = Rank(node)
      BY <2>1, <2>2, Zenon DEF Rank, zless
    <2>5. OutputOK'
      BY <2>1, <2>2, <2>4 DEF OutputOK, Answers, AnswerInv
    <2>6. QED
      BY <1>9, <2>3, <2>5 DEF AnswerInv
  <1>10. QED
    BY <1>4, <1>5, <1>6, <1>7, <1>8, <1>9 DEF Next, Inside

\* ZQUERY answers what counting from the start of the set would find: the
\* seek, the climbing and descending of avl_offset and the output loop together
\* give the members from the offset on, as many as the limit allows, for every
\* set, key, offset and limit.
THEOREM QueryCorrect == Spec => QueryIsExact
  <1>1. Init => Inv /\ AnswerInv
    BY InitInv DEF Init, AnswerInv, SeekOK, OutputOK
  <1>2. Inv /\ AnswerInv /\ [Next]_vars => Inv' /\ AnswerInv'
    BY NextInv, AnswerNext
  <1>3. Inv /\ AnswerInv /\ [Next]_vars
          => [op.cmd = "zquery" /\ pc' = "idle" => out = Expected(op)]_vars
    BY AnswerNext
  <1>4. QED
    BY <1>1, <1>2, <1>3, PTL DEF Spec, QueryIsExact
=============================================================================
