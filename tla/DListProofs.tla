---------------------------- MODULE DListProofs ----------------------------
(***************************************************************************)
(* Machine-checked proofs about DList: what dlist_detach and               *)
(* dlist_insert_before of list.h do to any list, and that a list which is  *)
(* linked and one cycle is the list of its nodes.                          *)
(***************************************************************************)
EXTENDS DList, FiniteSetTheorems, TLAPS

\* The lists over the nodes D whose pointers are members of V.
Lists(D, V) == [prev : [D -> V], next : [D -> V]]

-----------------------------------------------------------------------------
(* The operations.                                                         *)

\* A list that agrees on N with a good one.
LEMMA FrameFacts ==
  ASSUME NEW l, NEW m, NEW N,
         \A x \in N : m.next[x] = l.next[x] /\ m.prev[x] = l.prev[x],
         Linked(l, N), OneCycle(l, N)
  PROVE  Linked(m, N) /\ OneCycle(m, N)
  <1>1. Linked(m, N)
    BY DEF Linked
  <1>2. OneCycle(m, N)
    <2> SUFFICES ASSUME NEW C \in SUBSET N, C # {}, \A x \in C : m.next[x] \in C
                 PROVE  C = N
      BY DEF OneCycle
    <2>1. \A x \in C : l.next[x] \in C
      OBVIOUS
    <2>2. QED
      BY <2>1 DEF OneCycle
  <1>3. QED
    BY <1>1, <1>2

\* A list of one node.
LEMMA AloneFacts ==
  ASSUME NEW l, NEW h, l.next[h] = h, l.prev[h] = h
  PROVE  Linked(l, {h}) /\ OneCycle(l, {h})
  <1>1. Linked(l, {h})
    BY DEF Linked
  <1>2. OneCycle(l, {h})
    BY DEF OneCycle
  <1>3. QED
    BY <1>1, <1>2

LEMMA DetachFacts ==
  ASSUME NEW D, NEW V, NEW l \in Lists(D, V), NEW N, N \subseteq D,
         NEW x \in N, NEW h \in N, h # x,
         Linked(l, N), OneCycle(l, N)
  PROVE  /\ dlist_detach(l, x) \in Lists(D, V)
         /\ Linked(dlist_detach(l, x), N \ {x}) /\ OneCycle(dlist_detach(l, x), N \ {x})
         /\ \A y \in N \ {x} :
              dlist_detach(l, x).next[y] = IF y = l.prev[x] THEN l.next[x] ELSE l.next[y]
  <1> DEFINE m == dlist_detach(l, x)
             a == l.prev[x]
             b == l.next[x]
  <1>1. a \in N /\ b \in N /\ a \in D /\ b \in D /\ a \in V /\ b \in V
    BY DEF Linked, Lists
  <1>2. m \in Lists(D, V)
    BY <1>1 DEF dlist_detach, Lists
  <1>3. /\ \A y \in N : m.next[y] = IF y = a THEN b ELSE l.next[y]
        /\ \A y \in N : m.prev[y] = IF y = b THEN a ELSE l.prev[y]
    BY <1>1 DEF dlist_detach, Lists
  <1>4. a # x /\ b # x
    <2>1. b # x
      <3>1. b = x => {x} = N
        BY DEF OneCycle
      <3>2. QED
        BY <3>1
    <2>2. QED
      BY <2>1 DEF Linked
  <1> HIDE DEF m
  <1>5. Linked(m, N \ {x})
    <2> SUFFICES ASSUME NEW y \in N, y # x
                 PROVE  /\ m.next[y] \in N \ {x} /\ m.prev[m.next[y]] = y
                        /\ m.prev[y] \in N \ {x} /\ m.next[m.prev[y]] = y
      BY DEF Linked
    <2>1. /\ l.next[y] \in N /\ l.prev[l.next[y]] = y
          /\ l.prev[y] \in N /\ l.next[l.prev[y]] = y
          /\ l.next[a] = x /\ l.prev[b] = x
      BY DEF Linked
    <2>2. m.next[y] \in N \ {x} /\ m.prev[m.next[y]] = y
      BY <1>1, <1>3, <1>4, <2>1
    <2>3. m.prev[y] \in N \ {x} /\ m.next[m.prev[y]] = y
      BY <1>1, <1>3, <1>4, <2>1
    <2>4. QED
      BY <2>2, <2>3
  <1>6. OneCycle(m, N \ {x})
    <2> SUFFICES ASSUME NEW C \in SUBSET (N \ {x}), C # {}, \A y \in C : m.next[y] \in C
                 PROVE  C = N \ {x}
      BY DEF OneCycle
    <2>1. CASE a \in C
      <3>1. b \in C
        BY <1>3, <2>1
      <3>2. ASSUME NEW y \in C \cup {x}
            PROVE  l.next[y] \in C \cup {x}
        <4>1. CASE y = x
          BY <3>1, <4>1
        <4>2. CASE y = a
          BY <4>2 DEF Linked
        <4>3. CASE y # x /\ y # a
          BY <1>3, <4>3
        <4>4. QED
          BY <4>1, <4>2, <4>3
      <3>3. C \cup {x} = N
        <4> DEFINE E == C \cup {x}
        <4>1. E \in SUBSET N /\ E # {} /\ \A y \in E : l.next[y] \in E
          BY <3>2
        <4> HIDE DEF E
        <4>2. E = N
          BY <4>1 DEF OneCycle
        <4>3. QED
          BY <4>2 DEF E
      <3>4. QED
        BY <3>3
    <2>2. CASE a \notin C
      <3>1. \A y \in C : l.next[y] \in C
        BY <1>3, <2>2
      <3>2. C = N
        BY <3>1 DEF OneCycle
      <3>3. QED
        BY <3>2
    <2>3. QED
      BY <2>1, <2>2
  <1>7. QED
    BY <1>2, <1>3, <1>5, <1>6 DEF m

LEMMA InsertFacts ==
  ASSUME NEW D, NEW V, NEW l \in Lists(D, V), NEW N, N \subseteq D, D \subseteq V,
         NEW h \in N, NEW r \in D, r \notin N,
         Linked(l, N), OneCycle(l, N)
  PROVE  /\ dlist_insert_before(l, h, r) \in Lists(D, V)
         /\ Linked(dlist_insert_before(l, h, r), N \cup {r})
         /\ OneCycle(dlist_insert_before(l, h, r), N \cup {r})
         /\ \A y \in N :
              dlist_insert_before(l, h, r).next[y] = IF y = l.prev[h] THEN r ELSE l.next[y]
         /\ dlist_insert_before(l, h, r).next[r] = h
  <1> DEFINE m == dlist_insert_before(l, h, r)
             a == l.prev[h]
  <1>1. a \in N /\ a \in D /\ a \in V /\ r \in V /\ h \in V /\ l.next[a] = h
    BY DEF Linked
  <1>2. m \in Lists(D, V)
    BY <1>1 DEF dlist_insert_before, Lists
  <1>3. /\ m.next = [[l.next EXCEPT ![a] = r] EXCEPT ![r] = h]
        /\ m.prev = [[l.prev EXCEPT ![r] = a] EXCEPT ![h] = r]
    BY DEF dlist_insert_before
  <1>4. l.next \in [D -> V] /\ l.prev \in [D -> V]
    BY DEF Lists
  <1>5. /\ \A y \in N : m.next[y] = IF y = a THEN r ELSE l.next[y]
        /\ \A y \in N : m.prev[y] = IF y = h THEN r ELSE l.prev[y]
        /\ m.next[r] = h /\ m.prev[r] = a
    BY <1>1, <1>3, <1>4
  <1> HIDE DEF m
  <1>6. Linked(m, N \cup {r})
    <2> SUFFICES ASSUME NEW y \in N \cup {r}
                 PROVE  /\ m.next[y] \in N \cup {r} /\ m.prev[m.next[y]] = y
                        /\ m.prev[y] \in N \cup {r} /\ m.next[m.prev[y]] = y
      BY DEF Linked
    <2>1. CASE y = r
      BY <1>1, <1>5, <2>1
    <2>2. CASE y \in N
      <3>1. /\ l.next[y] \in N /\ l.prev[l.next[y]] = y
            /\ l.prev[y] \in N /\ l.next[l.prev[y]] = y
        BY <2>2 DEF Linked
      <3>2. QED
        BY <1>1, <1>5, <2>2, <3>1
    <2>3. QED
      BY <2>1, <2>2
  <1>7. OneCycle(m, N \cup {r})
    <2> SUFFICES ASSUME NEW C \in SUBSET (N \cup {r}), C # {}, \A y \in C : m.next[y] \in C
                 PROVE  C = N \cup {r}
      BY DEF OneCycle
    <2>1. r \in C => h \in C
      BY <1>5
    <2>2. C \ {r} # {}
      BY <2>1
    <2>3. ASSUME NEW y \in C \ {r}
          PROVE  l.next[y] \in C \ {r}
      <3>1. y \in N /\ l.next[y] \in N
        BY DEF Linked
      <3>2. CASE y = a
        BY <1>1, <1>5, <2>1, <3>1, <3>2
      <3>3. CASE y # a
        BY <1>5, <3>1, <3>3
      <3>4. QED
        BY <3>2, <3>3
    <2>4. C \ {r} = N
      BY <2>2, <2>3 DEF OneCycle
    <2>5. r \in C
      BY <1>1, <1>5, <2>4
    <2>6. QED
      BY <2>4, <2>5
  <1>8. QED
    BY <1>2, <1>5, <1>6, <1>7 DEF m

-----------------------------------------------------------------------------
(* Walking a list.                                                         *)

\* A non-empty set of naturals has a least element.
LEMMA LeastNumber ==
  ASSUME NEW T, T \subseteq Nat, T # {}
  PROVE  \E x \in T : \A y \in T : x <= y
  <1>1. PICK x \in T : \A y \in T : ~(<<y, x>> \in OpToRel(<, Nat))
    BY WFMin, NatLessThanWellFounded, Zenon
  <1>2. \A y \in T : ~(y < x)
    BY <1>1 DEF OpToRel
  <1>3. QED
    BY <1>2

\* f is a walk of n steps from h within N.
IsWalk(l, N, h, n, f) ==
  /\ f \in [0..n -> N] /\ f[0] = h
  /\ \A i \in 1..n : f[i] = l.next[f[i - 1]]

\* A walk can always go on.
LEMMA WalksExist ==
  ASSUME NEW l, NEW N, NEW h \in N, \A x \in N : l.next[x] \in N
  PROVE  \A n \in Nat : \E f : IsWalk(l, N, h, n, f)
  <1> DEFINE T == {n \in Nat : ~ \E f : IsWalk(l, N, h, n, f)}
  <1>1. SUFFICES ASSUME T # {}
                 PROVE  FALSE
    BY <1>1
  <1>2. T \subseteq Nat
    OBVIOUS
  <1>3. PICK n \in T : \A k \in T : n <= k
    <2> HIDE DEF T
    <2> QED
      BY <1>1, <1>2, LeastNumber
  <1>4. n \in Nat /\ ~ \E f : IsWalk(l, N, h, n, f)
    BY <1>3
  <1>5. n # 0
    <2>1. IsWalk(l, N, h, 0, [i \in 0..0 |-> h])
      BY DEF IsWalk
    <2>2. QED
      BY <1>4, <2>1
  <1>6. n - 1 \in Nat /\ n - 1 \notin T
    BY <1>3, <1>4, <1>5
  <1>7. PICK g : IsWalk(l, N, h, n - 1, g)
    BY <1>6
  <1> DEFINE f == [i \in 0..n |-> IF i = n THEN l.next[g[n - 1]] ELSE g[i]]
  <1>8. IsWalk(l, N, h, n, f)
    <2>1. g \in [0..(n - 1) -> N] /\ g[0] = h /\ \A i \in 1..(n - 1) : g[i] = l.next[g[i - 1]]
      BY <1>7 DEF IsWalk
    <2>2. f \in [0..n -> N] /\ f[0] = h
      BY <1>4, <1>5, <1>6, <2>1
    <2>3. ASSUME NEW i \in 1..n
          PROVE  f[i] = l.next[f[i - 1]]
      BY <1>4, <1>6, <2>1
    <2>4. QED
      BY <2>2, <2>3 DEF IsWalk
  <1>9. QED
    BY <1>4, <1>8

\* Walk computes the walk there is.
LEMMA WalkIs ==
  ASSUME NEW l, NEW N, NEW h \in N, N \subseteq DOMAIN l.next,
         NEW n \in Nat, NEW f, IsWalk(l, N, h, n, f)
  PROVE  Walk(l, h, n) = f[n]
  <1> DEFINE Step(g) == [i \in 0..n |-> IF i = 0 THEN h
                           ELSE IF g[i - 1] \in DOMAIN l.next THEN l.next[g[i - 1]]
                           ELSE g[i - 1]]
  <1>1. f \in [0..n -> N] /\ f[0] = h /\ \A i \in 1..n : f[i] = l.next[f[i - 1]]
    BY DEF IsWalk
  <1>2. f = Step(f)
    <2>1. \A i \in 0..n : f[i] = Step(f)[i]
      BY <1>1
    <2>2. QED
      BY <1>1, <2>1
  <1>3. PICK g : g = Step(g) /\ Walk(l, h, n) = g[n]
    <2> HIDE DEF Step
    <2> QED
      BY <1>2 DEF Walk, Step
  <1>4. /\ g[0] = h
        /\ \A i \in 1..n : g[i] = IF g[i - 1] \in DOMAIN l.next THEN l.next[g[i - 1]]
                                  ELSE g[i - 1]
    BY <1>3
  <1> HIDE DEF Step
  <1> DEFINE T == {i \in 0..n : g[i] # f[i]}
  <1>5. T = {}
    <2> SUFFICES ASSUME T # {}
                 PROVE  FALSE
      OBVIOUS
    <2>1. T \subseteq Nat
      OBVIOUS
    <2>2. PICK i \in T : \A k \in T : i <= k
      <3> HIDE DEF T
      <3> QED
        BY <2>1, LeastNumber
    <2>3. i \in 1..n /\ i - 1 \in 0..n /\ i - 1 \notin T
      BY <1>1, <1>4, <2>2
    <2>4. g[i - 1] = f[i - 1] /\ f[i - 1] \in N
      BY <1>1, <2>3
    <2>5. QED
      BY <1>1, <1>4, <2>2, <2>3, <2>4
  <1>6. QED
    BY <1>3, <1>5

\* The walk from h, step by step.
LEMMA WalkFacts ==
  ASSUME NEW l, NEW N, NEW h \in N, N \subseteq DOMAIN l.next,
         \A x \in N : l.next[x] \in N
  PROVE  /\ Walk(l, h, 0) = h
         /\ \A n \in Nat : Walk(l, h, n) \in N /\ Walk(l, h, n + 1) = l.next[Walk(l, h, n)]
  <1>1. ASSUME NEW n \in Nat
        PROVE  Walk(l, h, 0) = h /\ Walk(l, h, n) \in N /\ Walk(l, h, n + 1) = l.next[Walk(l, h, n)]
    <2>1. PICK f : IsWalk(l, N, h, n + 1, f)
      <3>1. n + 1 \in Nat
        OBVIOUS
      <3>2. QED
        BY <3>1, WalksExist, Zenon
    <2>2. /\ f \in [0..(n + 1) -> N] /\ f[0] = h
          /\ \A i \in 1..(n + 1) : f[i] = l.next[f[i - 1]]
      BY <2>1 DEF IsWalk
    <2> DEFINE g == [i \in 0..n |-> f[i]]
    <2>3. IsWalk(l, N, h, n, g)
      BY <2>2 DEF IsWalk
    <2>4. Walk(l, h, n + 1) = f[n + 1]
      BY <2>1, WalkIs
    <2>5. Walk(l, h, n) = g[n]
      <3> HIDE DEF g
      <3> QED
        BY <2>3, WalkIs
    <2>6. Walk(l, h, 0) = h
      <3>1. 0 \in Nat
        OBVIOUS
      <3>2. PICK z : IsWalk(l, N, h, 0, z)
        BY <3>1, WalksExist, Zenon
      <3>3. Walk(l, h, 0) = z[0]
        BY <3>1, <3>2, WalkIs
      <3>4. QED
        BY <3>2, <3>3 DEF IsWalk
    <2>7. QED
      BY <2>2, <2>4, <2>5, <2>6
  <1>2. QED
    BY <1>1

\* A finite list that is linked and one cycle is the list of its nodes: the
\* walk from the head comes back for the first time when it has met every
\* other node exactly once.
THEOREM CycleIsList ==
  ASSUME NEW l, NEW S, NEW h, h \notin S, IsFiniteSet(S),
         S \cup {h} \subseteq DOMAIN l.next,
         Linked(l, S \cup {h}), OneCycle(l, S \cup {h})
  PROVE  IsListOf(l, h, S, Cardinality(S))
  <1> DEFINE N == S \cup {h}
             W(i) == Walk(l, h, i)
  <1>1. /\ W(0) = h
        /\ \A n \in Nat : W(n) \in N /\ W(n + 1) = l.next[W(n)]
    <2>1. \A x \in N : l.next[x] \in N
      BY DEF Linked
    <2>2. h \in N /\ N \subseteq DOMAIN l.next
      OBVIOUS
    <2> HIDE DEF N
    <2>3. QED
      BY <2>1, <2>2, WalkFacts
  <1>2. \A x \in N : /\ l.next[x] \in N /\ l.prev[l.next[x]] = x
                     /\ l.prev[x] \in N /\ l.next[l.prev[x]] = x
    BY DEF Linked
  <1>3. \A C \in SUBSET N : C # {} /\ (\A x \in C : l.next[x] \in C) => C = N
    BY DEF OneCycle
  <1>4. h \in N
    OBVIOUS
  <1>5. IsFiniteSet(N) /\ Cardinality(N) = Cardinality(S) + 1 /\ Cardinality(S) \in Nat
    BY FS_AddElement, FS_CardinalityType
  <1> HIDE DEF N, W
  \* The walk meets every node, so it meets the last one and comes back.
  <1>6. \E n \in Nat \ {0} : W(n) = h
    <2> DEFINE C == {W(i) : i \in Nat}
    <2>1. C \in SUBSET N /\ C # {} /\ \A x \in C : l.next[x] \in C
      <3>1. C \in SUBSET N /\ h \in C
        BY <1>1
      <3>2. ASSUME NEW i \in Nat
            PROVE  l.next[W(i)] \in C
        <4>1. i + 1 \in Nat /\ l.next[W(i)] = W(i + 1)
          BY <1>1
        <4>2. QED
          BY <4>1
      <3>3. QED
        BY <3>1, <3>2
    <2>2. C = N
      <3> HIDE DEF C
      <3> QED
        BY <1>3, <2>1
    <2>3. PICK i \in Nat : l.prev[h] = W(i)
      BY <1>2, <1>4, <2>2
    <2>4. W(i + 1) = h /\ i + 1 \in Nat \ {0}
      BY <1>1, <1>2, <1>4, <2>3
    <2>5. QED
      BY <2>4
  <1> DEFINE T == {n \in Nat \ {0} : W(n) = h}
  <1>7. PICK m \in T : \A k \in T : m <= k
    <2>1. T \subseteq Nat /\ T # {}
      BY <1>6
    <2> HIDE DEF T
    <2>2. QED
      BY <2>1, LeastNumber
  <1>8. /\ m \in Nat \ {0} /\ W(m) = h
        /\ \A k \in 1..(m - 1) : W(k) # h
    BY <1>7
  <1> HIDE DEF T
  <1>9. {W(i) : i \in 0..(m - 1)} = N
    <2> DEFINE C == {W(i) : i \in 0..(m - 1)}
    <2>1. C \in SUBSET N /\ h \in C
      BY <1>1, <1>8
    <2>2. ASSUME NEW i \in 0..(m - 1)
          PROVE  l.next[W(i)] \in C
      <3>1. i \in Nat /\ l.next[W(i)] = W(i + 1)
        BY <1>1, <1>8
      <3>2. CASE i = m - 1
        <4>1. i + 1 = m
          BY <1>8, <3>2
        <4>2. QED
          BY <1>8, <2>1, <3>1, <4>1
      <3>3. CASE i # m - 1
        <4>1. i + 1 \in 0..(m - 1)
          BY <1>8, <3>3
        <4>2. QED
          BY <3>1, <4>1
      <3>4. QED
        BY <3>2, <3>3
    <2>3. \A x \in C : l.next[x] \in C
      BY <2>2
    <2>4. C = N
      <3> HIDE DEF C
      <3> QED
        BY <1>3, <2>1, <2>3
    <2>5. QED
      BY <2>4
  \* The first node that is met twice would be the head, met too early.
  <1>10. ASSUME NEW i \in 0..(m - 1), NEW j \in 0..(m - 1), W(i) = W(j), i < j
         PROVE  FALSE
    <2> DEFINE R == {k \in 0..(m - 1) : \E n \in 0..(m - 1) : k < n /\ W(k) = W(n)}
    <2>1. R \subseteq Nat /\ i \in R
      BY <1>10
    <2>2. PICK k \in R : \A q \in R : k <= q
      <3> HIDE DEF R
      <3> QED
        BY <2>1, LeastNumber
    <2>3. PICK n \in 0..(m - 1) : k < n /\ W(k) = W(n)
      BY <2>2
    <2>4. k \in 0..(m - 1) /\ n \in 1..(m - 1)
      BY <1>8, <2>2, <2>3
    <2>5. k # 0
      BY <1>1, <1>8, <2>3, <2>4
    <2>6. /\ k - 1 \in Nat /\ n - 1 \in Nat /\ (k - 1) + 1 = k /\ (n - 1) + 1 = n
          /\ k - 1 \in 0..(m - 1) /\ n - 1 \in 0..(m - 1) /\ k - 1 < n - 1
      BY <1>8, <2>3, <2>4, <2>5
    <2>7. /\ W(k) = l.next[W(k - 1)] /\ W(n) = l.next[W(n - 1)]
          /\ W(k - 1) \in N /\ W(n - 1) \in N
      BY <1>1, <2>6
    <2>8. W(k - 1) = W(n - 1)
      <3>1. /\ l.prev[l.next[W(k - 1)]] = W(k - 1)
            /\ l.prev[l.next[W(n - 1)]] = W(n - 1)
        BY <1>2, <2>7
      <3>2. QED
        BY <2>3, <2>7, <3>1
    <2>9. k - 1 \in R
      BY <2>6, <2>8
    <2>10. QED
      BY <2>2, <2>4, <2>9
  <1>11. Cardinality(N) = m
    <2> DEFINE g == [i \in 1..m |-> W(i - 1)]
    <2>1. \A i \in 1..m : i - 1 \in 0..(m - 1)
      BY <1>8
    <2>2. g \in [1..m -> N]
      BY <1>9, <2>1
    <2>3. ASSUME NEW i \in 1..m, NEW j \in 1..m, g[i] = g[j]
          PROVE  i = j
      <3>1. W(i - 1) = W(j - 1) /\ i - 1 \in 0..(m - 1) /\ j - 1 \in 0..(m - 1)
        BY <2>1, <2>3
      <3>2. ~(i - 1 < j - 1) /\ ~(j - 1 < i - 1)
        BY <1>10, <3>1
      <3>3. QED
        BY <3>1, <3>2
    <2>4. ASSUME NEW x \in N
          PROVE  \E i \in 1..m : g[i] = x
      <3>1. PICK i \in 0..(m - 1) : x = W(i)
        BY <1>9
      <3>2. i + 1 \in 1..m /\ (i + 1) - 1 = i
        BY <1>8
      <3>3. QED
        BY <3>1, <3>2
    <2> HIDE DEF g
    <2>5. g \in Bijection(1..m, N)
      BY <2>2, <2>3, <2>4 DEF Bijection, Injection, Surjection, IsInjective
    <2>6. ExistsBijection(1..m, N)
      BY <2>5 DEF ExistsBijection
    <2>7. QED
      BY <1>5, <1>8, <2>6, FS_CountingElements
  <1>12. m = Cardinality(S) + 1 /\ m - 1 = Cardinality(S)
    BY <1>5, <1>8, <1>11
  <1>13. {W(i) : i \in 1..Cardinality(S)} = S
    <2>1. S = N \ {h}
      BY DEF N
    <2>2. \A i \in 1..(m - 1) : i \in 0..(m - 1) /\ W(i) \in N /\ W(i) # h
      BY <1>1, <1>8
    <2>3. ASSUME NEW x \in S
          PROVE  \E i \in 1..(m - 1) : x = W(i)
      <3>1. PICK i \in 0..(m - 1) : x = W(i)
        BY <1>9, <2>1
      <3>2. i # 0
        BY <1>1, <2>1, <3>1
      <3>3. i \in 1..(m - 1)
        BY <1>8, <3>2
      <3>4. QED
        BY <3>1, <3>3
    <2>4. QED
      BY <1>12, <2>1, <2>2, <2>3
  <1>14. W(Cardinality(S) + 1) = h
    BY <1>8, <1>12
  <1>15. \A x \in S \cup {h} : l.prev[l.next[x]] = x
    BY <1>2 DEF N
  <1>16. QED
    BY <1>13, <1>14, <1>15 DEF IsListOf, W
=============================================================================
