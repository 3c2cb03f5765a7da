--------------------------- MODULE TtlHeapProofs ---------------------------
(***************************************************************************)
(* Machine-checked proofs about TtlHeap, for every set of keys, every set  *)
(* of TTLs, every batch limit and every clock bound.                       *)
(***************************************************************************)
EXTENDS TtlHeap, WellFoundedInduction, TLAPS

-----------------------------------------------------------------------------
(* Index arithmetic of the array-encoded tree.                             *)

\* heap_parent of a position other than the root is a smaller position whose
\* left or right child it is.
LEMMA ParentFacts ==
  \A i \in Nat \ {0} :
    /\ heap_parent(i) \in Nat
    /\ heap_parent(i) < i
    /\ i = heap_left(heap_parent(i)) \/ i = heap_right(heap_parent(i))
  BY DEF heap_parent, heap_left, heap_right

\* heap_left and heap_right of a position are larger, and their parent is it.
LEMMA ChildFacts ==
  \A p \in Nat :
    /\ heap_left(p) \in Nat \ {0} /\ heap_parent(heap_left(p)) = p
    /\ heap_right(p) \in Nat \ {0} /\ heap_parent(heap_right(p)) = p
    /\ heap_left(p) > p /\ heap_right(p) > p
  BY DEF heap_parent, heap_left, heap_right

\* The child that heap_down would move up: a position of the array below the
\* hole, earlier than the item and no later than its sibling; or the hole
\* itself, and then no child is earlier than the item.
LEMMA MinPosFacts ==
  ASSUME TypeOK, Sifting
  PROVE  /\ MinPos # pos =>
              /\ MinPos \in 1..(size - 1) /\ heap_parent(MinPos) = pos
              /\ heap[MinPos].val < item.val
              /\ \A i \in 1..(size - 1) :
                   heap_parent(i) = pos => heap[MinPos].val <= heap[i].val
         /\ MinPos = pos =>
              \A i \in 1..(size - 1) :
                heap_parent(i) = pos => item.val <= heap[i].val
  <1> DEFINE l == heap_left(pos)
             r == heap_right(pos)
  <1>1. /\ pos \in Nat /\ pos < size /\ size \in Nat
        /\ item \in HeapItem /\ heap \in [0..(size - 1) -> HeapItem]
    BY DEF TypeOK
  <1>2. /\ l \in Nat \ {0} /\ heap_parent(l) = pos /\ l > pos
        /\ r \in Nat \ {0} /\ heap_parent(r) = pos /\ r > pos
    BY <1>1, ChildFacts
  <1>3. \A i \in 1..(size - 1) : heap_parent(i) = pos => i = l \/ i = r
    BY <1>1, ParentFacts
  <1>4. /\ item.val \in Nat
        /\ \A i \in 0..(size - 1) : heap[i].val \in Nat
    BY <1>1 DEF HeapItem
  <1> HIDE DEF l, r
  <1>5. MinPos = IF r < size /\ heap[r].val < (IF l < size /\ heap[l].val < item.val
                                               THEN heap[l].val ELSE item.val)
                 THEN r ELSE IF l < size /\ heap[l].val < item.val THEN l ELSE pos
    BY DEF MinPos, l, r
  <1>6. CASE r < size /\ heap[r].val < (IF l < size /\ heap[l].val < item.val
                                        THEN heap[l].val ELSE item.val)
    BY <1>1, <1>2, <1>3, <1>4, <1>5, <1>6
  <1>7. CASE ~(r < size /\ heap[r].val < (IF l < size /\ heap[l].val < item.val
                                        THEN heap[l].val ELSE item.val))
    BY <1>1, <1>2, <1>3, <1>4, <1>5, <1>7
  <1>8. QED
    BY <1>6, <1>7

-----------------------------------------------------------------------------
(* Entering a sift loop.                                                   *)

\* heap_update may be called on an array that is a heap except at position
\* p, provided the children of p are no earlier than the parent of p: then
\* the order parts of the invariant hold for whichever loop it enters.
LEMMA SiftEntry ==
  ASSUME NEW n \in Nat, NEW p \in 0..(n - 1), NEW a \in [0..(n - 1) -> HeapItem],
         size' = n, heap' = a, pos' = p, item' = a[p],
         pc' = IF p > 0 /\ a[heap_parent(p)].val > a[p].val THEN "up" ELSE "down",
         \A i \in 1..(n - 1) :
           i # p /\ heap_parent(i) # p => a[heap_parent(i)].val <= a[i].val,
         p > 0 => \A i \in 1..(n - 1) :
                    heap_parent(i) = p => a[heap_parent(p)].val <= a[i].val
  PROVE  /\ OrderAroundHole' /\ OrderAcrossHole' /\ UpFits' /\ DownFits'
         /\ pc' \in {"up", "down"}
  <1>1. /\ size' = n /\ heap' = a /\ pos' = p /\ item' = a[p]
        /\ pc' = IF p > 0 /\ a[heap_parent(p)].val > a[p].val THEN "up" ELSE "down"
    OBVIOUS
  <1>2. \A i \in 1..(n - 1) : heap_parent(i) \in 0..(n - 1)
    BY ParentFacts
  <1>3. \A i \in 0..(n - 1) : a[i].val \in Nat
    BY DEF HeapItem
  <1>4. OrderAroundHole' /\ OrderAcrossHole'
    BY <1>1 DEF OrderAroundHole, OrderAcrossHole, InHole, Sifting
  <1>5. UpFits'
    <2> SUFFICES ASSUME pc' = "up", NEW i \in 1..(n - 1), heap_parent(i) = p
                 PROVE  a[p].val <= a[i].val
      BY <1>1 DEF UpFits
    <2>1. p > 0 /\ a[heap_parent(p)].val > a[p].val
      BY <1>1
    <2>2. heap_parent(p) \in 0..(n - 1)
      BY <1>2, <2>1
    <2> QED
      BY <1>3, <2>1, <2>2
  <1>6. DownFits'
    <2> SUFFICES ASSUME pc' = "down", p > 0
                 PROVE  a[heap_parent(p)].val <= a[p].val
      BY <1>1 DEF DownFits
    <2>1. heap_parent(p) \in 0..(n - 1)
      BY <1>2
    <2> QED
      BY <1>1, <1>3, <2>1
  <1>7. QED
    BY <1>1, <1>4, <1>5, <1>6

\* Dropping the timer of a key keeps the invariant, whether the key stays in
\* the database (PEXPIRE with a negative TTL) or leaves it (DEL, eviction).
LEMMA DropTimerInv ==
  ASSUME HeapInv, ~Sifting, NEW k \in db, NEW back \in {"idle", "sweep"},
         DropTimer(k, back), db' \in {db, db \ {k}}, now' = now,
         now_ms' = now_ms, nworks' \in Nat
  PROVE  HeapInv'
  <1> USE DEF NoIdx
  <1>1. /\ size \in Nat /\ heap \in [0..(size - 1) -> HeapItem]
        /\ heap_idx \in [Key -> Nat \cup {NoIdx}] /\ k \in Key /\ pos \in Nat
        /\ ret \in {"idle", "sweep"} /\ db \subseteq Key
        /\ now \in Nat /\ now_ms \in Nat /\ now_ms <= now
        /\ pc \in {"idle", "sweep"}
    BY DEF HeapInv, TypeOK, SampleIsPast, Sifting
  <1>2. \A i \in 0..(size - 1) : heap_idx[heap[i].ref] = i /\ heap[i].ref \in db
                                   /\ heap[i].ref \in Key /\ heap[i].val \in Nat
    BY <1>1 DEF HeapInv, LinksAroundHole, InHole, Sifting, HeapItem
  <1>3. \A j \in Key : heap_idx[j] # NoIdx =>
           heap_idx[j] < size /\ heap[heap_idx[j]].ref = j
    BY <1>1 DEF HeapInv, LinksAroundHole, InHole, Sifting
  <1>4. \A i \in 1..(size - 1) : heap[heap_parent(i)].val <= heap[i].val
    BY <1>1 DEF HeapInv, OrderAroundHole, InHole, Sifting
  <1>5. CASE heap_idx[k] = NoIdx
    <2>1. /\ pc' = back /\ heap' = heap /\ size' = size /\ heap_idx' = heap_idx
          /\ pos' = pos /\ item' = item /\ ret' = ret
      BY <1>5 DEF DropTimer
    <2>2. TypeOK'
      BY <1>1, <2>1 DEF TypeOK, Sifting
    <2>3. OrderAroundHole' /\ OrderAcrossHole' /\ UpFits' /\ DownFits' /\ SampleIsPast'
      BY <1>1, <1>4, <2>1
      DEF OrderAroundHole, OrderAcrossHole, UpFits, DownFits, SampleIsPast, InHole, Sifting
    <2>4. LinksAroundHole'
      BY <1>1, <1>2, <1>3, <1>5, <2>1 DEF LinksAroundHole, InHole, Sifting
    <2> QED
      BY <2>2, <2>3, <2>4 DEF HeapInv
  <1>6. CASE heap_idx[k] # NoIdx
    <2> DEFINE p == heap_idx[k]
               n == size - 1
               a == [i \in 0..(n - 1) |-> IF i = p THEN heap[n] ELSE heap[i]]
    <2>1. /\ p \in 0..n /\ heap[p].ref = k /\ n \in Nat
          /\ a \in [0..(n - 1) -> HeapItem]
      BY <1>1, <1>3, <1>6
    <2>2. heap_idx' = [heap_idx EXCEPT ![k] = NoIdx] /\ heap_delete(p, back)
      BY <1>6 DEF DropTimer
    <2>3. \A i \in 0..n : i # p => heap[i].ref # k
      BY <1>2, <2>1
    <2>4. CASE p < n
      <3>1. /\ size' = n /\ heap' = a /\ pos' = p /\ item' = a[p] /\ ret' = back
            /\ pc' = IF p > 0 /\ a[heap_parent(p)].val > a[p].val THEN "up" ELSE "down"
        BY <2>2, <2>4 DEF heap_delete, heap_update
      <3>2. \A i \in 1..(n - 1) :
              i # p /\ heap_parent(i) # p => a[heap_parent(i)].val <= a[i].val
        <4> TAKE i \in 1..(n - 1)
        <4>1. heap_parent(i) \in 0..(n - 1)
          BY ParentFacts, <2>1
        <4> QED
          BY <1>4, <2>1, <4>1
      <3>3. p > 0 => \A i \in 1..(n - 1) :
                       heap_parent(i) = p => a[heap_parent(p)].val <= a[i].val
        <4> SUFFICES ASSUME p > 0, NEW i \in 1..(n - 1), heap_parent(i) = p
                     PROVE  a[heap_parent(p)].val <= a[i].val
          OBVIOUS
        <4>1. /\ heap_parent(p) \in 0..(n - 1) /\ heap_parent(p) # p
              /\ p \in 1..(size - 1) /\ i # p
          BY ParentFacts, <2>1, <2>4
        <4>2. heap[heap_parent(p)].val <= heap[p].val /\ heap[p].val <= heap[i].val
          BY <1>4, <2>1, <4>1
        <4> QED
          BY <1>2, <2>1, <4>1, <4>2
      <3>4. /\ OrderAroundHole' /\ OrderAcrossHole' /\ UpFits' /\ DownFits'
            /\ pc' \in {"up", "down"}
        <4>1. p \in 0..(n - 1)
          BY <2>1, <2>4
        <4> HIDE DEF p, n, a
        <4> QED
          BY SiftEntry, <2>1, <4>1, <3>1, <3>2, <3>3, Zenon
      <3>5. item' = heap[n] /\ item' \in HeapItem /\ item'.ref \in db /\ item'.ref # k
        BY <1>1, <1>2, <2>1, <2>3, <2>4, <3>1
      <3>6. TypeOK'
        BY <1>1, <2>1, <2>2, <2>4, <3>1, <3>4, <3>5 DEF TypeOK, Sifting
      <3>7. \A i \in 0..(n - 1) : i # p =>
              /\ heap_idx'[a[i].ref] = i /\ a[i].ref \in db' /\ a[i].ref # item'.ref
        BY <1>1, <1>2, <2>1, <2>2, <2>3, <3>5
      <3>8. \A j \in Key : heap_idx'[j] # NoIdx /\ j # item'.ref =>
              /\ heap_idx'[j] < n /\ a[heap_idx'[j]].ref = j /\ heap_idx'[j] # p
        <4> SUFFICES ASSUME NEW j \in Key, heap_idx'[j] # NoIdx, j # item'.ref
                     PROVE  /\ heap_idx'[j] < n /\ a[heap_idx'[j]].ref = j
                            /\ heap_idx'[j] # p
          OBVIOUS
        <4>1. j # k /\ heap_idx'[j] = heap_idx[j]
          BY <1>1, <2>2
        <4>2. heap_idx[j] \in 0..n /\ heap[heap_idx[j]].ref = j
          BY <1>1, <1>3, <2>1, <4>1
        <4>3. heap_idx[j] # n /\ heap_idx[j] # p
          BY <2>1, <3>5, <4>1, <4>2
        <4> QED
          BY <2>1, <4>1, <4>2, <4>3
      <3>9. LinksAroundHole'
        BY <3>1, <3>4, <3>5, <3>7, <3>8, <2>1 DEF LinksAroundHole, InHole, Sifting
      <3> QED
        BY <1>1, <3>4, <3>6, <3>9 DEF HeapInv, SampleIsPast
    <2>5. CASE p = n
      <3>1. /\ heap' = a /\ size' = n /\ pc' = back /\ ret' = "idle"
            /\ pos' = pos /\ item' = item
        BY <2>1, <2>2, <2>5 DEF heap_delete
      <3>2. \A i \in 0..(n - 1) : a[i] = heap[i]
        BY <2>1, <2>5
      <3>3. TypeOK'
        BY <1>1, <2>1, <2>2, <3>1 DEF TypeOK, Sifting
      <3>4. OrderAroundHole'
        <4> SUFFICES ASSUME NEW i \in 1..(n - 1)
                     PROVE  a[heap_parent(i)].val <= a[i].val
          BY <3>1 DEF OrderAroundHole
        <4>1. heap_parent(i) \in 0..(n - 1)
          BY ParentFacts, <2>1
        <4> QED
          BY <1>4, <2>1, <3>2, <4>1
      <3>5. OrderAcrossHole' /\ UpFits' /\ DownFits' /\ SampleIsPast'
        BY <1>1, <3>1 DEF OrderAcrossHole, UpFits, DownFits, Sifting, SampleIsPast
      <3>6. \A i \in 0..(n - 1) : heap_idx'[a[i].ref] = i /\ a[i].ref \in db'
        BY <1>1, <1>2, <2>1, <2>2, <2>3, <2>5, <3>2
      <3>7. \A j \in Key : heap_idx'[j] # NoIdx =>
              heap_idx'[j] < n /\ a[heap_idx'[j]].ref = j
        <4> SUFFICES ASSUME NEW j \in Key, heap_idx'[j] # NoIdx
                     PROVE  heap_idx'[j] < n /\ a[heap_idx'[j]].ref = j
          OBVIOUS
        <4>1. j # k /\ heap_idx'[j] = heap_idx[j]
          BY <1>1, <2>2
        <4>2. heap_idx[j] \in 0..n /\ heap[heap_idx[j]].ref = j
          BY <1>1, <1>3, <2>1, <4>1
        <4> QED
          BY <2>1, <2>5, <3>2, <4>1, <4>2
      <3>8. LinksAroundHole'
        BY <3>1, <3>6, <3>7 DEF LinksAroundHole, InHole, Sifting
      <3> QED
        BY <3>3, <3>4, <3>5, <3>8 DEF HeapInv
    <2> QED
      BY <2>1, <2>4, <2>5
  <1>7. QED
    BY <1>5, <1>6

-----------------------------------------------------------------------------
(* The sift loops.                                                         *)

\* The facts of the invariant about a running loop, in first-order form.
LEMMA SiftFacts ==
  ASSUME HeapInv, Sifting
  PROVE  /\ size \in Nat /\ pos \in 0..(size - 1) /\ item \in HeapItem
         /\ heap \in [0..(size - 1) -> HeapItem]
         /\ heap_idx \in [Key -> Nat \cup {NoIdx}]
         /\ item.val \in Nat /\ item.ref \in Key /\ item.ref \in db
         /\ \A i \in 0..(size - 1) : heap[i].val \in Nat /\ heap[i].ref \in Key
         /\ \A i \in 1..(size - 1) : heap_parent(i) \in 0..(size - 1) /\ heap_parent(i) < i
         /\ \A i \in 1..(size - 1) : i # pos /\ heap_parent(i) # pos =>
              heap[heap_parent(i)].val <= heap[i].val
         /\ pos > 0 => \A i \in 1..(size - 1) :
              heap_parent(i) = pos => heap[heap_parent(pos)].val <= heap[i].val
         /\ \A i \in 0..(size - 1) : i # pos =>
              heap_idx[heap[i].ref] = i /\ heap[i].ref \in db /\ heap[i].ref # item.ref
         /\ \A k \in Key : heap_idx[k] # NoIdx /\ k # item.ref =>
              heap_idx[k] < size /\ heap[heap_idx[k]].ref = k /\ heap_idx[k] # pos
  <1>1. /\ size \in Nat /\ pos \in 0..(size - 1) /\ item \in HeapItem
        /\ heap \in [0..(size - 1) -> HeapItem]
        /\ heap_idx \in [Key -> Nat \cup {NoIdx}]
    BY DEF HeapInv, TypeOK
  <1>2. /\ item.val \in Nat /\ item.ref \in Key
        /\ \A i \in 0..(size - 1) : heap[i].val \in Nat /\ heap[i].ref \in Key
    BY <1>1 DEF HeapItem
  <1>3. \A i \in 1..(size - 1) : heap_parent(i) \in 0..(size - 1) /\ heap_parent(i) < i
    BY <1>1, ParentFacts
  <1>4. \A i \in 1..(size - 1) : i # pos /\ heap_parent(i) # pos =>
          heap[heap_parent(i)].val <= heap[i].val
    BY DEF HeapInv, OrderAroundHole, InHole
  <1>5. pos > 0 => \A i \in 1..(size - 1) :
          heap_parent(i) = pos => heap[heap_parent(pos)].val <= heap[i].val
    BY DEF HeapInv, OrderAcrossHole
  <1>6. /\ item.ref \in db
        /\ \A i \in 0..(size - 1) : i # pos =>
              heap_idx[heap[i].ref] = i /\ heap[i].ref \in db /\ heap[i].ref # item.ref
        /\ \A k \in Key : heap_idx[k] # NoIdx /\ k # item.ref =>
              heap_idx[k] < size /\ heap[heap_idx[k]].ref = k /\ heap_idx[k] # pos
    BY DEF HeapInv, LinksAroundHole, InHole
  <1>7. QED
    BY <1>1, <1>2, <1>3, <1>4, <1>5, <1>6

\* One turn of either loop moves an item from q, next to the hole, into the
\* hole and leaves the hole at q; the links stay right around the new hole.
LEMMA MoveHole ==
  ASSUME HeapInv, Sifting, NEW q \in 0..(size - 1), q # pos,
         heap' = [heap EXCEPT ![pos] = heap[q]],
         heap_idx' = [heap_idx EXCEPT ![heap[q].ref] = pos],
         pos' = q, UNCHANGED <<now, db, size, pc, item, ret, now_ms, nworks>>
  PROVE  TypeOK' /\ LinksAroundHole' /\ SampleIsPast'
  <1> USE DEF NoIdx
  <1>1. TypeOK'
    BY SiftFacts DEF HeapInv, TypeOK, Sifting
  <1>2. SampleIsPast'
    BY DEF HeapInv, SampleIsPast
  <1>3. \A i \in 0..(size - 1) : i # q =>
          /\ heap_idx'[heap'[i].ref] = i /\ heap'[i].ref \in db
          /\ heap'[i].ref # item.ref
    <2> TAKE i \in 0..(size - 1)
    <2>1. CASE i = pos
      BY SiftFacts, <2>1
    <2>2. CASE i # pos
      BY SiftFacts, <2>2
    <2> QED
      BY <2>1, <2>2
  <1>4. \A k \in Key : heap_idx'[k] # NoIdx /\ k # item.ref =>
          heap_idx'[k] < size /\ heap'[heap_idx'[k]].ref = k /\ heap_idx'[k] # q
    <2> TAKE k \in Key
    <2>1. CASE k = heap[q].ref
      BY SiftFacts, <2>1
    <2>2. CASE k # heap[q].ref
      BY SiftFacts, <2>2
    <2> QED
      BY <2>1, <2>2
  <1>5. LinksAroundHole'
    <2>1. item.ref \in db
      BY SiftFacts
    <2> QED
      BY <1>3, <1>4, <2>1 DEF LinksAroundHole, InHole, Sifting
  <1>6. QED
    BY <1>1, <1>2, <1>5

\* A turn of heap_up keeps the invariant: the parent moves down into the hole.
LEMMA HeapUpStepInv == HeapInv /\ HeapUpStep => HeapInv'
  <1> SUFFICES ASSUME HeapInv, HeapUpStep
               PROVE  HeapInv'
    OBVIOUS
  <1> DEFINE q == heap_parent(pos)
  <1>1. /\ pc = "up" /\ Sifting /\ pos > 0 /\ heap[q].val > item.val
        /\ heap' = [heap EXCEPT ![pos] = heap[q]]
        /\ heap_idx' = [heap_idx EXCEPT ![heap[q].ref] = pos]
        /\ pos' = q /\ UNCHANGED <<now, db, size, pc, item, ret, now_ms, nworks>>
    BY DEF HeapUpStep, AboveParent, Place, Sifting, sweepVars
  <1>2. q \in 0..(size - 1) /\ q < pos /\ pos \in 1..(size - 1)
    BY <1>1, SiftFacts
  <1>3. TypeOK' /\ LinksAroundHole' /\ SampleIsPast'
    <2>1. q # pos
      BY <1>1, <1>2, SiftFacts
    <2> HIDE DEF q
    <2> QED
      BY <1>1, <1>2, <2>1, MoveHole
  <1>4. OrderAroundHole'
    <2> SUFFICES ASSUME NEW i \in 1..(size - 1), i # q, heap_parent(i) # q
                 PROVE  heap'[heap_parent(i)].val <= heap'[i].val
      BY <1>1 DEF OrderAroundHole, InHole, Sifting
    <2>1. i # pos
      BY <1>2
    <2>2. CASE heap_parent(i) = pos
      BY <1>1, <1>2, <2>1, <2>2, SiftFacts
    <2>3. CASE heap_parent(i) # pos
      BY <1>1, <1>2, <2>1, <2>3, SiftFacts
    <2> QED
      BY <2>2, <2>3
  <1>5. OrderAcrossHole'
    <2> SUFFICES ASSUME q > 0, NEW i \in 1..(size - 1), heap_parent(i) = q
                 PROVE  heap'[heap_parent(q)].val <= heap'[i].val
      BY <1>1 DEF OrderAcrossHole, Sifting
    <2>1. /\ heap_parent(q) \in 0..(size - 1) /\ heap_parent(q) < q
          /\ heap[heap_parent(q)].val <= heap[q].val
      BY <1>2, SiftFacts, <1>1
    <2>2. heap'[heap_parent(q)] = heap[heap_parent(q)]
      BY <1>1, <1>2, <2>1, SiftFacts
    <2>3. CASE i = pos
      BY <1>1, <1>2, <2>1, <2>2, <2>3, SiftFacts
    <2>4. CASE i # pos
      <3>1. heap[q].val <= heap[i].val /\ heap'[i] = heap[i]
        BY <1>1, <1>2, <2>4, SiftFacts
      <3> QED
        BY <1>2, <2>1, <2>2, <3>1, SiftFacts, <1>1
    <2> QED
      BY <2>3, <2>4
  <1>6. UpFits'
    <2> SUFFICES ASSUME NEW i \in 1..(size - 1), heap_parent(i) = q
                 PROVE  item.val <= heap'[i].val
      BY <1>1 DEF UpFits
    <2>1. CASE i = pos
      BY <1>1, <1>2, <2>1, SiftFacts
    <2>2. CASE i # pos
      <3>1. heap[q].val <= heap[i].val /\ heap'[i] = heap[i]
        BY <1>1, <1>2, <2>2, SiftFacts
      <3> QED
        BY <1>1, <1>2, <3>1, SiftFacts
    <2> QED
      BY <2>1, <2>2
  <1>7. DownFits'
    BY <1>1 DEF DownFits
  <1>8. QED
    BY <1>3, <1>4, <1>5, <1>6, <1>7 DEF HeapInv

\* A turn of heap_down keeps the invariant: the earlier child moves up.
LEMMA HeapDownStepInv == HeapInv /\ HeapDownStep => HeapInv'
  <1> SUFFICES ASSUME HeapInv, HeapDownStep
               PROVE  HeapInv'
    OBVIOUS
  <1> DEFINE m == MinPos
  <1>1. /\ pc = "down" /\ Sifting /\ m # pos
        /\ heap' = [heap EXCEPT ![pos] = heap[m]]
        /\ heap_idx' = [heap_idx EXCEPT ![heap[m].ref] = pos]
        /\ pos' = m /\ UNCHANGED <<now, db, size, pc, item, ret, now_ms, nworks>>
    BY DEF HeapDownStep, Place, Sifting, sweepVars
  <1>2. /\ m \in 1..(size - 1) /\ heap_parent(m) = pos /\ heap[m].val < item.val
        /\ \A i \in 1..(size - 1) : heap_parent(i) = pos => heap[m].val <= heap[i].val
    BY <1>1, MinPosFacts DEF HeapInv
  <1> HIDE DEF m
  <1>3. TypeOK' /\ LinksAroundHole' /\ SampleIsPast'
    <2>1. m \in 0..(size - 1)
      BY <1>2, <1>1, SiftFacts
    <2> QED
      BY <1>1, <2>1, MoveHole
  <1>4. pos < m /\ pos \in 0..(size - 1)
    BY <1>1, <1>2, SiftFacts
  <1>5. OrderAroundHole'
    <2> SUFFICES ASSUME NEW i \in 1..(size - 1), i # m, heap_parent(i) # m
                 PROVE  heap'[heap_parent(i)].val <= heap'[i].val
      BY <1>1 DEF OrderAroundHole, InHole, Sifting
    <2>1. CASE i = pos
      <3>1. /\ heap_parent(pos) \in 0..(size - 1) /\ heap_parent(pos) < pos
            /\ heap[heap_parent(pos)].val <= heap[m].val
        BY <1>1, <1>2, <2>1, SiftFacts
      <3> QED
        BY <1>1, <1>2, <1>4, <2>1, <3>1, SiftFacts
    <2>2. CASE i # pos /\ heap_parent(i) = pos
      BY <1>1, <1>2, <1>4, <2>2, SiftFacts
    <2>3. CASE i # pos /\ heap_parent(i) # pos
      BY <1>1, <1>2, <1>4, <2>3, SiftFacts
    <2> QED
      BY <2>1, <2>2, <2>3
  <1>6. OrderAcrossHole'
    <2> SUFFICES ASSUME NEW i \in 1..(size - 1), heap_parent(i) = m
                 PROVE  heap'[heap_parent(m)].val <= heap'[i].val
      BY <1>1 DEF OrderAcrossHole, Sifting
    <2>1. i # pos /\ i # m /\ heap_parent(i) # pos
      BY <1>1, <1>2, <1>4, SiftFacts
    <2>2. heap[m].val <= heap[i].val
      BY <1>1, <2>1, SiftFacts
    <2> QED
      BY <1>1, <1>2, <1>4, <2>1, <2>2, SiftFacts
  <1>7. UpFits'
    BY <1>1 DEF UpFits
  <1>8. DownFits'
    BY <1>1, <1>2, <1>4, SiftFacts DEF DownFits
  <1>9. QED
    BY <1>3, <1>5, <1>6, <1>7, <1>8 DEF HeapInv

\* Both loops end by putting the item into the hole, where it fits: above
\* its children, below its parent.
LEMMA SiftReturnInv ==
  ASSUME HeapInv, Sifting, SiftReturn,
         pos > 0 => heap[heap_parent(pos)].val <= item.val,
         \A i \in 1..(size - 1) : heap_parent(i) = pos => item.val <= heap[i].val
  PROVE  HeapInv'
  <1> USE DEF NoIdx
  <1>1. /\ heap' = [heap EXCEPT ![pos] = item]
        /\ heap_idx' = [heap_idx EXCEPT ![item.ref] = pos]
        /\ pc' = ret /\ ret' = "idle" /\ pos' = 0
        /\ UNCHANGED <<now, db, size, now_ms, nworks>>
    BY DEF SiftReturn, Place, sweepVars
  <1>2. ret \in {"idle", "sweep"} /\ ~Sifting'
    BY <1>1 DEF HeapInv, TypeOK, Sifting
  <1>3. TypeOK'
    BY <1>1, <1>2, SiftFacts DEF HeapInv, TypeOK, Sifting
  <1>4. SampleIsPast' /\ OrderAcrossHole' /\ UpFits' /\ DownFits'
    BY <1>1, <1>2 DEF HeapInv, SampleIsPast, OrderAcrossHole, UpFits, DownFits, Sifting
  <1>5. OrderAroundHole'
    <2> SUFFICES ASSUME NEW i \in 1..(size - 1)
                 PROVE  heap'[heap_parent(i)].val <= heap'[i].val
      BY <1>1 DEF OrderAroundHole
    <2>1. CASE i = pos
      BY <1>1, <2>1, SiftFacts
    <2>2. CASE i # pos /\ heap_parent(i) = pos
      BY <1>1, <2>2, SiftFacts
    <2>3. CASE i # pos /\ heap_parent(i) # pos
      BY <1>1, <2>3, SiftFacts
    <2> QED
      BY <2>1, <2>2, <2>3
  <1>6. \A i \in 0..(size - 1) : heap_idx'[heap'[i].ref] = i /\ heap'[i].ref \in db
    <2> TAKE i \in 0..(size - 1)
    <2>1. CASE i = pos
      BY <1>1, <2>1, SiftFacts
    <2>2. CASE i # pos
      BY <1>1, <2>2, SiftFacts
    <2> QED
      BY <2>1, <2>2
  <1>7. \A k \in Key : heap_idx'[k] # NoIdx =>
          heap_idx'[k] < size /\ heap'[heap_idx'[k]].ref = k
    <2> TAKE k \in Key
    <2>1. CASE k = item.ref
      BY <1>1, <2>1, SiftFacts
    <2>2. CASE k # item.ref
      BY <1>1, <2>2, SiftFacts
    <2> QED
      BY <2>1, <2>2
  <1>8. LinksAroundHole'
    BY <1>1, <1>2, <1>6, <1>7 DEF LinksAroundHole, InHole
  <1>9. QED
    BY <1>3, <1>4, <1>5, <1>8 DEF HeapInv

\* heap_up stops where the item fits below its new parent.
LEMMA HeapUpDoneInv == HeapInv /\ HeapUpDone => HeapInv'
  <1> SUFFICES ASSUME HeapInv, HeapUpDone
               PROVE  HeapInv'
    OBVIOUS
  <1>1. pc = "up" /\ Sifting /\ SiftReturn /\ ~AboveParent
    BY DEF HeapUpDone, Sifting
  <1>2. pos > 0 => heap[heap_parent(pos)].val <= item.val
    <2> SUFFICES ASSUME pos > 0
                 PROVE  heap[heap_parent(pos)].val <= item.val
      OBVIOUS
    <2>1. ~(heap[heap_parent(pos)].val > item.val)
      BY <1>1 DEF AboveParent
    <2>2. pos \in 1..(size - 1)
      BY <1>1, SiftFacts
    <2>3. heap[heap_parent(pos)].val \in Nat /\ item.val \in Nat
      BY <1>1, <2>2, SiftFacts
    <2> QED
      BY <2>1, <2>3
  <1>3. \A i \in 1..(size - 1) : heap_parent(i) = pos => item.val <= heap[i].val
    BY <1>1 DEF HeapInv, UpFits
  <1>4. QED
    BY <1>1, <1>2, <1>3, SiftReturnInv

\* heap_down stops where the item fits above its new children.
LEMMA HeapDownDoneInv == HeapInv /\ HeapDownDone => HeapInv'
  <1> SUFFICES ASSUME HeapInv, HeapDownDone
               PROVE  HeapInv'
    OBVIOUS
  <1>1. pc = "down" /\ Sifting /\ SiftReturn /\ MinPos = pos
    BY DEF HeapDownDone, Sifting
  <1>2. pos > 0 => heap[heap_parent(pos)].val <= item.val
    BY <1>1 DEF HeapInv, DownFits
  <1>3. \A i \in 1..(size - 1) : heap_parent(i) = pos => item.val <= heap[i].val
    BY <1>1, MinPosFacts DEF HeapInv
  <1>4. QED
    BY <1>1, <1>2, <1>3, SiftReturnInv

-----------------------------------------------------------------------------
(* The commands and the sweep.                                             *)

\* The facts of the invariant when no loop is running, in first-order form.
LEMMA RestFacts ==
  ASSUME HeapInv, ~Sifting
  PROVE  /\ size \in Nat /\ heap \in [0..(size - 1) -> HeapItem]
         /\ heap_idx \in [Key -> Nat \cup {NoIdx}] /\ db \subseteq Key
         /\ \A i \in 0..(size - 1) : heap[i].val \in Nat /\ heap[i].ref \in Key
         /\ \A i \in 1..(size - 1) : heap_parent(i) \in 0..(size - 1) /\ heap_parent(i) < i
         /\ \A i \in 1..(size - 1) : heap[heap_parent(i)].val <= heap[i].val
         /\ \A i \in 0..(size - 1) : heap_idx[heap[i].ref] = i /\ heap[i].ref \in db
         /\ \A k \in Key : heap_idx[k] # NoIdx =>
              heap_idx[k] < size /\ heap[heap_idx[k]].ref = k
         /\ \A k \in Key : k \notin db => heap_idx[k] = NoIdx
  <1> USE DEF NoIdx
  <1>1. /\ size \in Nat /\ heap \in [0..(size - 1) -> HeapItem]
        /\ heap_idx \in [Key -> Nat \cup {NoIdx}] /\ db \subseteq Key
    BY DEF HeapInv, TypeOK
  <1>2. \A i \in 0..(size - 1) : heap[i].val \in Nat /\ heap[i].ref \in Key
    BY <1>1 DEF HeapItem
  <1>3. \A i \in 1..(size - 1) : heap_parent(i) \in 0..(size - 1) /\ heap_parent(i) < i
    BY <1>1, ParentFacts
  <1>4. \A i \in 1..(size - 1) : heap[heap_parent(i)].val <= heap[i].val
    BY DEF HeapInv, OrderAroundHole, InHole
  <1>5. /\ \A i \in 0..(size - 1) : heap_idx[heap[i].ref] = i /\ heap[i].ref \in db
        /\ \A k \in Key : heap_idx[k] # NoIdx =>
              heap_idx[k] < size /\ heap[heap_idx[k]].ref = k
    BY DEF HeapInv, LinksAroundHole, InHole
  <1>6. \A k \in Key : k \notin db => heap_idx[k] = NoIdx
    BY <1>1, <1>5
  <1>7. QED
    BY <1>1, <1>2, <1>3, <1>4, <1>5, <1>6

\* entry_new keeps the invariant: a key that was absent has no timer.
LEMMA NewEntryInv == \A k \in Key : HeapInv /\ NewEntry(k) => HeapInv'
  <1> SUFFICES ASSUME NEW k \in Key, HeapInv, NewEntry(k)
               PROVE  HeapInv'
    OBVIOUS
  <1>1. /\ ~Sifting /\ k \notin db /\ db' = db \cup {k}
        /\ heap_idx' = [heap_idx EXCEPT ![k] = NoIdx]
        /\ UNCHANGED <<now, heap, size, pc, pos, item, ret, now_ms, nworks>>
    BY DEF NewEntry, heapVars, sweepVars, Sifting
  <1>2. heap_idx' = heap_idx
    BY <1>1, RestFacts
  <1>3. TypeOK' /\ SampleIsPast' /\ OrderAroundHole' /\ OrderAcrossHole' /\ UpFits' /\ DownFits'
    BY <1>1, <1>2 DEF HeapInv, TypeOK, SampleIsPast, OrderAroundHole, OrderAcrossHole,
                      UpFits, DownFits, InHole, Sifting
  <1>4. LinksAroundHole'
    BY <1>1, <1>2, RestFacts DEF LinksAroundHole, InHole, Sifting
  <1>5. QED
    BY <1>3, <1>4 DEF HeapInv

\* PEXPIRE with a negative TTL keeps the invariant.
LEMMA PersistInv == \A k \in Key : HeapInv /\ Persist(k) => HeapInv'
  BY DropTimerInv DEF Persist, sweepVars, Sifting, HeapInv, TypeOK

\* DEL keeps the invariant: entry_del drops the timer with the Entry.
LEMMA DelInv == \A k \in Key : HeapInv /\ Del(k) => HeapInv'
  BY DropTimerInv DEF Del, sweepVars, Sifting, HeapInv, TypeOK

\* An eviction keeps the invariant, and always takes the ordinary branch: the
\* Entry of the root is in the hashtable.
LEMMA EvictInv == HeapInv /\ Evict => HeapInv'
  <1> SUFFICES ASSUME HeapInv, Evict
               PROVE  HeapInv'
    OBVIOUS
  <1>1. ~Sifting /\ pc = "sweep" /\ size > 0
    BY DEF Evict, Due, Sifting
  <1>2. heap[0].ref \in db
    BY <1>1, RestFacts
  <1>3. /\ db' = db \ {heap[0].ref} /\ DropTimer(heap[0].ref, "sweep")
        /\ nworks' = nworks + 1 /\ now' = now /\ now_ms' = now_ms
    BY <1>2 DEF Evict
  <1>4. nworks' \in Nat
    BY <1>3 DEF HeapInv, TypeOK
  <1>5. QED
    BY <1>1, <1>2, <1>3, <1>4, DropTimerInv

\* PEXPIRE with a non-negative TTL keeps the invariant, whether it replaces
\* the timer of the key or pushes a new one.
LEMMA ExpireInv ==
  \A k \in Key : \A ttl \in Ttl : HeapInv /\ Expire(k, ttl) => HeapInv'
  <1> SUFFICES ASSUME NEW k \in Key, NEW ttl \in Ttl, HeapInv, Expire(k, ttl)
               PROVE  HeapInv'
    OBVIOUS
  <1> USE DEF NoIdx
  <1> DEFINE x == [val |-> now + ttl, ref |-> k]
  <1>1. /\ ~Sifting /\ k \in db /\ heap_upsert(heap_idx[k], x)
        /\ UNCHANGED <<now, db, heap_idx, now_ms, nworks>>
    BY DEF Expire, sweepVars, Sifting
  <1>2. /\ now \in Nat /\ now_ms \in Nat /\ now_ms <= now /\ nworks \in Nat
        /\ x \in HeapItem /\ x.ref = k
    BY TtlHeapAssumption DEF HeapInv, TypeOK, SampleIsPast, HeapItem
  <1> HIDE DEF x
  <1>3. CASE heap_idx[k] # NoIdx
    <2> DEFINE p == heap_idx[k]
               a == [heap EXCEPT ![p] = x]
    <2>1. p \in 0..(size - 1) /\ heap[p].ref = k /\ a \in [0..(size - 1) -> HeapItem]
      BY <1>1, <1>2, <1>3, RestFacts
    <2>2. /\ size' = size /\ heap' = a /\ pos' = p /\ item' = a[p] /\ ret' = "idle"
          /\ pc' = IF p > 0 /\ a[heap_parent(p)].val > a[p].val THEN "up" ELSE "down"
      <3>1. heap_idx[k] # NoIdx /\ heap_idx[k] < size
        BY <1>1, <1>3, RestFacts
      <3>2. heap_update([heap EXCEPT ![heap_idx[k]] = x], heap_idx[k], size, "idle")
        BY <1>1, <3>1, Zenon DEF heap_upsert
      <3> QED
        BY <3>2, Zenon DEF heap_update
    <2>3. \A i \in 1..(size - 1) :
            i # p /\ heap_parent(i) # p => a[heap_parent(i)].val <= a[i].val
      BY <1>1, <2>1, RestFacts
    <2>4. p > 0 => \A i \in 1..(size - 1) :
                     heap_parent(i) = p => a[heap_parent(p)].val <= a[i].val
      <3> SUFFICES ASSUME p > 0, NEW i \in 1..(size - 1), heap_parent(i) = p
                   PROVE  a[heap_parent(p)].val <= a[i].val
        OBVIOUS
      <3>1. /\ p \in 1..(size - 1) /\ heap_parent(p) \in 0..(size - 1)
            /\ heap_parent(p) # p /\ i # p
        BY <1>1, <2>1, RestFacts
      <3>2. heap[heap_parent(p)].val <= heap[p].val /\ heap[p].val <= heap[i].val
        BY <1>1, <3>1, RestFacts
      <3> QED
        BY <1>1, <2>1, <3>1, <3>2, RestFacts
    <2>5. /\ OrderAroundHole' /\ OrderAcrossHole' /\ UpFits' /\ DownFits'
          /\ pc' \in {"up", "down"}
      <3>1. size \in Nat
        BY <1>1, RestFacts
      <3> HIDE DEF p, a
      <3> QED
        BY SiftEntry, <2>1, <2>2, <2>3, <2>4, <3>1, Zenon
    <2>6. item' = x
      BY <1>1, <2>1, <2>2, RestFacts
    <2>7. TypeOK'
      BY <1>1, <1>2, <2>1, <2>2, <2>5, <2>6, RestFacts DEF TypeOK, Sifting
    <2>8. LinksAroundHole'
      <3>1. \A i \in 0..(size - 1) : i # p =>
              heap_idx[a[i].ref] = i /\ a[i].ref \in db /\ a[i].ref # k
        BY <1>1, <2>1, RestFacts
      <3>2. \A j \in Key : heap_idx[j] # NoIdx /\ j # k =>
              heap_idx[j] < size /\ a[heap_idx[j]].ref = j /\ heap_idx[j] # p
        BY <1>1, <2>1, RestFacts
      <3> QED
        BY <1>1, <1>2, <2>2, <2>5, <2>6, <3>1, <3>2 DEF LinksAroundHole, InHole, Sifting
    <2> QED
      BY <1>1, <1>2, <2>5, <2>7, <2>8 DEF HeapInv, SampleIsPast
  <1>4. CASE heap_idx[k] = NoIdx
    <2> DEFINE n == size + 1
               a == [i \in 0..size |-> IF i = size THEN x ELSE heap[i]]
    <2>1. /\ n \in Nat /\ size \in 0..(n - 1) /\ n - 1 = size /\ size \in Nat
          /\ a \in [0..(n - 1) -> HeapItem]
      BY <1>1, <1>2, RestFacts
    <2>2. /\ size' = n /\ heap' = a /\ pos' = size /\ item' = a[size] /\ ret' = "idle"
          /\ pc' = IF size > 0 /\ a[heap_parent(size)].val > a[size].val THEN "up" ELSE "down"
      BY <1>1, <1>4 DEF heap_upsert, heap_update
    <2>3. /\ \A i \in 1..(n - 1) : i # size =>
               i \in 1..(size - 1) /\ heap_parent(i) < size
          /\ \A i \in 0..(size - 1) : a[i] = heap[i]
          /\ a[size] = x
      BY <1>1, <2>1, RestFacts
    <2>4. \A i \in 1..(n - 1) :
            i # size /\ heap_parent(i) # size => a[heap_parent(i)].val <= a[i].val
      BY <1>1, <2>1, <2>3, RestFacts
    <2>5. size > 0 => \A i \in 1..(n - 1) :
                     heap_parent(i) = size => a[heap_parent(size)].val <= a[i].val
      BY <2>1, <2>3, ParentFacts
    <2>6. /\ OrderAroundHole' /\ OrderAcrossHole' /\ UpFits' /\ DownFits'
          /\ pc' \in {"up", "down"}
      <3> HIDE DEF n, a
      <3> QED
        BY SiftEntry, <2>1, <2>2, <2>4, <2>5, Zenon
    <2>7. item' = x
      BY <2>2, <2>3
    <2>8. TypeOK'
      BY <1>1, <1>2, <2>1, <2>2, <2>6, <2>7, RestFacts DEF TypeOK, Sifting
    <2>9. LinksAroundHole'
      <3>1. \A i \in 0..(n - 1) : i # size =>
              heap_idx[a[i].ref] = i /\ a[i].ref \in db /\ a[i].ref # k
        BY <1>1, <1>4, <2>1, <2>3, RestFacts
      <3>2. \A j \in Key : heap_idx[j] # NoIdx /\ j # k =>
              heap_idx[j] < n /\ a[heap_idx[j]].ref = j /\ heap_idx[j] # size
        BY <1>1, <2>1, <2>3, RestFacts
      <3> HIDE DEF n, a
      <3> QED
        BY <1>1, <1>2, <2>2, <2>6, <2>7, <3>1, <3>2 DEF LinksAroundHole, InHole, Sifting
    <2> QED
      BY <1>1, <1>2, <2>6, <2>8, <2>9 DEF HeapInv, SampleIsPast
  <1>5. QED
    BY <1>3, <1>4

\* Starting and leaving the sweep, the clock and stuttering steps touch
\* neither the heap nor the back-pointers.
LEMMA OtherStepInv ==
  ASSUME HeapInv, SweepBegin \/ SweepEnd \/ Tick \/ UNCHANGED vars
  PROVE  HeapInv'
  <1> USE DEF HeapInv, TypeOK, OrderAroundHole, OrderAcrossHole, UpFits, DownFits,
              LinksAroundHole, SampleIsPast, InHole, Sifting, vars, heapVars, sweepVars
  <1>1. CASE SweepBegin
    BY <1>1 DEF SweepBegin
  <1>2. CASE SweepEnd
    BY <1>2 DEF SweepEnd
  <1>3. CASE Tick
    BY <1>3, TtlHeapAssumption DEF Tick
  <1>4. CASE UNCHANGED vars
    BY <1>4
  <1>5. QED
    BY <1>1, <1>2, <1>3, <1>4

\* The empty heap satisfies the invariant.
LEMMA InitInv == Init => HeapInv
  BY DEF Init, HeapInv, TypeOK, OrderAroundHole, OrderAcrossHole, UpFits, DownFits,
         LinksAroundHole, SampleIsPast, InHole, Sifting, HeapItem, NoIdx

\* Every step of the server keeps the invariant.
LEMMA NextInv == HeapInv /\ [Next]_vars => HeapInv'
  <1> SUFFICES ASSUME HeapInv, [Next]_vars
               PROVE  HeapInv'
    OBVIOUS
  <1>1. CASE Sift
    BY <1>1, HeapUpStepInv, HeapUpDoneInv, HeapDownStepInv, HeapDownDoneInv DEF Sift
  <1>2. CASE Command
    BY <1>2, NewEntryInv, ExpireInv, PersistInv, DelInv DEF Command
  <1>3. CASE Sweep
    BY <1>3, EvictInv, OtherStepInv DEF Sweep
  <1>4. CASE Tick \/ UNCHANGED vars
    BY <1>4, OtherStepInv
  <1>5. QED
    BY <1>1, <1>2, <1>3, <1>4 DEF Next

-----------------------------------------------------------------------------
(* The theorems.                                                           *)

\* The inductive invariant holds in every reachable state.
THEOREM HeapInvariant == Spec => []HeapInv
  BY InitInv, NextInv, PTL DEF Spec

\* Every variable keeps its type, and a sift loop never leaves the array.
THEOREM TypeCorrect == Spec => []TypeOK
  <1>1. HeapInv => TypeOK
    BY DEF HeapInv
  <1>2. QED
    BY <1>1, HeapInvariant, PTL

\* No timer is buried under a later one.
THEOREM HeapOrderCorrect == Spec => []HeapOrder
  <1>1. HeapInv => HeapOrder
    BY DEF HeapInv, HeapOrder, OrderAroundHole, InHole
  <1>2. QED
    BY <1>1, HeapInvariant, PTL

\* The heap and the heap_idx fields point at each other whenever a command
\* or the sweep can use them.
THEOREM BackRefsCorrect == Spec => []BackRefs
  <1>1. HeapInv => BackRefs
    BY DEF HeapInv, BackRefs, LinksAroundHole, InHole
  <1>2. QED
    BY <1>1, HeapInvariant, PTL

\* The ghost-timer fallback of process_timers is dead code.
THEOREM NoGhostTimerCorrect == Spec => []NoGhostTimer
  <1>1. HeapInv => NoGhostTimer
    BY DEF HeapInv, NoGhostTimer, LinksAroundHole, InHole
  <1>2. QED
    BY <1>1, HeapInvariant, PTL

\* A non-empty set of naturals has a least element.
LEMMA LeastOf ==
  ASSUME NEW T, T \subseteq Nat, T # {}
  PROVE  \E x \in T : \A y \in T : x <= y
  <1>1. PICK x \in T : \A y \in T : ~(<<y, x>> \in OpToRel(<, Nat))
    BY WFMin, NatLessThanWellFounded, Zenon
  <1>2. \A y \in T : ~(y < x)
    BY <1>1 DEF OpToRel
  <1>3. QED
    BY <1>2

\* The heap order makes the root the earliest timer: the first position with
\* an earlier one would have a parent that is earlier than the root too.
LEMMA RootFacts ==
  ASSUME HeapInv, ~Sifting
  PROVE  \A i \in 0..(size - 1) : heap[0].val <= heap[i].val
  <1> DEFINE T == {i \in 0..(size - 1) : heap[i].val < heap[0].val}
  <1>1. SUFFICES ASSUME T # {}
                 PROVE  FALSE
    BY <1>1, RestFacts
  <1>2. T \subseteq Nat
    BY RestFacts
  <1>3. PICK x \in T : \A y \in T : x <= y
    <2> HIDE DEF T
    <2> QED
      BY <1>1, <1>2, LeastOf
  <1>4. x \in 1..(size - 1)
    BY <1>3, RestFacts
  <1>5. heap_parent(x) \in T /\ heap_parent(x) < x
    BY <1>3, <1>4, RestFacts
  <1>6. QED
    BY <1>3, <1>4, <1>5, RestFacts

\* heap[0] is the earliest timer whenever next_timer_ms or process_timers
\* looks at it.
THEOREM RootIsEarliestCorrect == Spec => []RootIsEarliest
  <1>1. HeapInv => RootIsEarliest
    BY RootFacts DEF RootIsEarliest
  <1>2. QED
    BY <1>1, HeapInvariant, PTL

\* process_timers gives up only after its batch or when no key is overdue.
THEOREM SweepIsCompleteCorrect == Spec => SweepIsComplete
  <1> DEFINE A == pc = "sweep" /\ pc' = "idle" =>
                    \/ nworks > k_max_works
                    \/ \A k \in db : Deadline(k) # -1 => Deadline(k) >= now_ms
  <1>1. HeapInv /\ [Next]_vars => [A]_vars
    <2> SUFFICES ASSUME HeapInv, [Next]_vars, pc = "sweep", pc' = "idle",
                        ~(nworks > k_max_works),
                        NEW k \in db, Deadline(k) # -1
                 PROVE  Deadline(k) >= now_ms
      OBVIOUS
    <2>1. ~Sifting /\ k \in Key
      BY DEF Sifting, HeapInv, TypeOK
    <2>2. SweepEnd
      <3>1. ~Sift /\ ~Tick /\ ~SweepBegin /\ ~UNCHANGED vars /\ ~Command
        BY DEF Sift, HeapUpStep, HeapUpDone, HeapDownStep, HeapDownDone, Tick, SweepBegin,
               Command, NewEntry, Expire, Persist, Del, vars, heapVars
      <3>2. ~Evict
        <4> SUFFICES ASSUME Evict
                     PROVE  FALSE
          OBVIOUS
        <4>1. heap[0].ref \in db
          BY <2>1, RestFacts DEF Evict, Due
        <4>2. DropTimer(heap[0].ref, "sweep")
          BY <4>1 DEF Evict
        <4> QED
          BY <4>2 DEF DropTimer, heap_delete, heap_update
      <3> QED
        BY <3>1, <3>2 DEF Next, Sweep
    <2>3. nworks \in Nat /\ k_max_works \in Nat /\ now_ms \in Nat
      BY TtlHeapAssumption DEF HeapInv, TypeOK
    <2>4. ~Due
      BY <2>2, <2>3 DEF SweepEnd
    <2>5. heap_idx[k] \in 0..(size - 1) /\ Deadline(k) = heap[heap_idx[k]].val
      BY <2>1, RestFacts DEF Deadline, NoIdx
    <2>6. size > 0 /\ heap[0].val \in Nat /\ heap[heap_idx[k]].val \in Nat
      BY <2>1, <2>5, RestFacts
    <2>7. heap[0].val >= now_ms
      BY <2>3, <2>4, <2>6 DEF Due
    <2>8. heap[0].val <= heap[heap_idx[k]].val
      BY <2>1, <2>5, RootFacts
    <2> QED
      BY <2>3, <2>5, <2>6, <2>7, <2>8
  <1>2. QED
    BY <1>1, HeapInvariant, PTL DEF Spec, SweepIsComplete

-----------------------------------------------------------------------------
(* The heap implements the abstract timers.                                *)

\* The deadlines that clients have asked for are not affected by moving
\* items between positions of the array.
LEMMA SiftKeepsDeadlines ==
  ASSUME HeapInv, Sift
  PROVE  /\ \A k \in Key : Deadline(k)' = Deadline(k)
         /\ now' = now /\ db' = db /\ Sweeping' = Sweeping
  <1> USE DEF NoIdx
  <1>1. Sifting
    BY DEF Sift, HeapUpStep, HeapUpDone, HeapDownStep, HeapDownDone, Sifting
  <1>2. CASE SiftReturn
    <2>1. /\ heap' = [heap EXCEPT ![pos] = item]
          /\ heap_idx' = [heap_idx EXCEPT ![item.ref] = pos]
          /\ pc' = ret /\ now' = now /\ db' = db
      BY <1>2 DEF SiftReturn, Place
    <2>2. ~Sifting'
      BY <2>1 DEF Sifting, HeapInv, TypeOK
    <2>3. \A k \in Key : Deadline(k)' = Deadline(k)
      <3> TAKE k \in Key
      <3>1. Deadline(k)' = IF heap_idx'[k] = NoIdx THEN -1 ELSE heap'[heap_idx'[k]].val
        BY <2>2 DEF Deadline
      <3>2. CASE k = item.ref
        BY <1>1, <2>1, <3>1, <3>2, SiftFacts DEF Deadline
      <3>3. CASE k # item.ref
        BY <1>1, <2>1, <3>1, <3>3, SiftFacts DEF Deadline
      <3> QED
        BY <3>2, <3>3
    <2>4. Sweeping' = Sweeping
      BY <1>1, <2>1, <2>2 DEF Sweeping
    <2> QED
      BY <2>1, <2>3, <2>4
  <1>3. CASE HeapUpStep \/ HeapDownStep
    <2>1. PICK q \in 0..(size - 1) :
            /\ q # pos
            /\ heap' = [heap EXCEPT ![pos] = heap[q]]
            /\ heap_idx' = [heap_idx EXCEPT ![heap[q].ref] = pos]
            /\ UNCHANGED <<now, db, pc, item, ret>>
      <3>1. CASE HeapUpStep
        <4>1. pos > 0
          BY <3>1 DEF HeapUpStep, AboveParent
        <4>2. heap_parent(pos) \in 0..(size - 1) /\ heap_parent(pos) # pos
          BY <1>1, <4>1, SiftFacts
        <4> QED
          BY <3>1, <4>2 DEF HeapUpStep, Place
      <3>2. CASE HeapDownStep
        <4>1. MinPos # pos
          BY <3>2 DEF HeapDownStep
        <4>2. MinPos \in 0..(size - 1)
          BY <1>1, <4>1, MinPosFacts, SiftFacts DEF HeapInv
        <4> QED
          BY <3>2, <4>1, <4>2 DEF HeapDownStep, Place
      <3> QED
        BY <1>3, <3>1, <3>2
    <2>2. \A k \in Key : Deadline(k)' = Deadline(k)
      <3> TAKE k \in Key
      <3>1. Sifting' /\ item' = item
        BY <1>1, <2>1 DEF Sifting
      <3>2. CASE k = item.ref
        BY <1>1, <3>1, <3>2 DEF Deadline
      <3>3. CASE k # item.ref
        <4>1. /\ Deadline(k)' = IF heap_idx'[k] = NoIdx THEN -1 ELSE heap'[heap_idx'[k]].val
              /\ Deadline(k) = IF heap_idx[k] = NoIdx THEN -1 ELSE heap[heap_idx[k]].val
          BY <1>1, <3>1, <3>3 DEF Deadline
        <4>2. CASE k = heap[q].ref
          BY <1>1, <2>1, <4>1, <4>2, SiftFacts
        <4>3. CASE k # heap[q].ref
          BY <1>1, <2>1, <3>3, <4>1, <4>3, SiftFacts
        <4> QED
          BY <4>2, <4>3
      <3> QED
        BY <3>2, <3>3
    <2>3. Sweeping' = Sweeping
      BY <2>1 DEF Sweeping, Sifting
    <2> QED
      BY <2>1, <2>2, <2>3
  <1>4. QED
    BY <1>2, <1>3 DEF Sift, HeapUpDone, HeapDownDone

\* At rest a deadline is read through heap_idx.
LEMMA DeadlineAtRest ==
  ASSUME ~Sifting, NEW k \in Key
  PROVE  Deadline(k) = IF heap_idx[k] = NoIdx THEN -1 ELSE heap[heap_idx[k]].val
  BY DEF Deadline

\* Dropping the timer of k removes the deadline of k and no other.
LEMMA DropTimerDeadlines ==
  ASSUME HeapInv, ~Sifting, NEW k \in db, NEW back \in {"idle", "sweep"},
         DropTimer(k, back)
  PROVE  \A j \in Key : Deadline(j)' = IF j = k THEN -1 ELSE Deadline(j)
  <1> USE DEF NoIdx
  <1>1. k \in Key
    BY RestFacts
  <1>2. CASE heap_idx[k] = NoIdx
    <2>1. heap' = heap /\ heap_idx' = heap_idx /\ pc' = back
      BY <1>2 DEF DropTimer
    <2>2. ~Sifting'
      BY <2>1 DEF Sifting
    <2> QED
      BY <1>1, <1>2, <2>1, <2>2 DEF Deadline
  <1>3. CASE heap_idx[k] # NoIdx
    <2> DEFINE p == heap_idx[k]
               n == size - 1
               a == [i \in 0..(n - 1) |-> IF i = p THEN heap[n] ELSE heap[i]]
    <2>1. p \in 0..n /\ heap[p].ref = k /\ n \in Nat
      BY <1>1, <1>3, RestFacts
    <2>2. heap_idx' = [heap_idx EXCEPT ![k] = NoIdx] /\ heap_delete(p, back)
      BY <1>3 DEF DropTimer
    <2>3. \A j \in Key : Deadline(j) = IF heap_idx[j] = NoIdx THEN -1 ELSE heap[heap_idx[j]].val
      BY DEF Deadline
    <2>4. \A j \in Key : j # k /\ heap_idx[j] # NoIdx =>
            heap_idx[j] \in 0..n /\ heap_idx[j] # p /\ heap[heap_idx[j]].ref = j
      BY <1>1, <2>1, RestFacts
    <2>5. CASE p < n
      <3>1. /\ heap' = a /\ item' = a[p]
            /\ pc' = IF p > 0 /\ a[heap_parent(p)].val > a[p].val THEN "up" ELSE "down"
        BY <2>2, <2>5 DEF heap_delete, heap_update
      <3>2. Sifting' /\ item' = heap[n]
        BY <3>1, <2>1, <2>5 DEF Sifting
      <3>3. heap[n].ref # k /\ heap_idx[heap[n].ref] = n /\ heap[n].ref \in Key
        BY <1>1, <2>1, <2>5, RestFacts
      <3>4. \A j \in Key : Deadline(j)' =
              IF heap[n].ref = j THEN heap[n].val
              ELSE IF heap_idx'[j] = NoIdx THEN -1 ELSE a[heap_idx'[j]].val
        BY <3>1, <3>2 DEF Deadline
      <3> TAKE j \in Key
      <3>5. CASE j = k
        BY <1>1, <2>2, <3>3, <3>4, <3>5, RestFacts
      <3>6. CASE j = heap[n].ref
        <4>1. j # k /\ heap_idx[j] = n /\ n # NoIdx
          BY <2>1, <3>3, <3>6
        <4>2. Deadline(j)' = heap[n].val
          BY <3>4, <3>6
        <4>3. Deadline(j) = heap[n].val
          BY <2>3, <4>1
        <4> QED
          BY <4>1, <4>2, <4>3
      <3>7. CASE j # k /\ j # heap[n].ref
        <4>1. heap_idx'[j] = heap_idx[j]
          BY <1>1, <2>2, <3>7, RestFacts
        <4>2. heap_idx[j] # NoIdx => heap_idx[j] \in 0..(n - 1) /\ a[heap_idx[j]] = heap[heap_idx[j]]
          BY <2>1, <2>4, <3>7
        <4> HIDE DEF a
        <4> QED
          BY <2>3, <3>4, <3>7, <4>1, <4>2
      <3> QED
        BY <3>5, <3>6, <3>7
    <2>6. CASE p = n
      <3>1. heap' = a /\ pc' = back
        BY <2>1, <2>2, <2>6 DEF heap_delete
      <3>2. ~Sifting'
        BY <3>1 DEF Sifting
      <3>3. \A j \in Key : Deadline(j)' =
              IF heap_idx'[j] = NoIdx THEN -1 ELSE a[heap_idx'[j]].val
        BY <3>1, <3>2 DEF Deadline
      <3> TAKE j \in Key
      <3>4. CASE j = k
        BY <1>1, <2>2, <3>3, <3>4, RestFacts
      <3>5. CASE j # k
        <4>1. heap_idx'[j] = heap_idx[j]
          BY <1>1, <2>2, <3>5, RestFacts
        <4>2. heap_idx[j] # NoIdx => heap_idx[j] \in 0..(n - 1) /\ a[heap_idx[j]] = heap[heap_idx[j]]
          BY <2>1, <2>4, <2>6, <3>5
        <4> HIDE DEF a
        <4> QED
          BY <2>3, <3>3, <3>5, <4>1, <4>2
      <3> QED
        BY <3>4, <3>5
    <2> QED
      BY <2>1, <2>5, <2>6
  <1>4. QED
    BY <1>2, <1>3

\* Dropping a timer returns to the caller, at once or after a sift loop.
LEMMA DropTimerReturns ==
  ASSUME NEW k \in Key, NEW back \in {"idle", "sweep"}, DropTimer(k, back)
  PROVE  Sweeping' = (back = "sweep")
  <1>1. \/ pc' = back
        \/ pc' \in {"up", "down"} /\ ret' = back
    BY DEF DropTimer, heap_delete, heap_update
  <1>2. QED
    BY <1>1 DEF Sweeping, Sifting

\* PEXPIRE sets the deadline of its own key and no other.
LEMMA ExpireDeadlines ==
  ASSUME HeapInv, NEW k \in Key, NEW ttl \in Ttl, Expire(k, ttl)
  PROVE  \A j \in Key : Deadline(j)' = IF j = k THEN now + ttl ELSE Deadline(j)
  <1> USE DEF NoIdx
  <1> DEFINE x == [val |-> now + ttl, ref |-> k]
  <1>1. /\ ~Sifting /\ k \in db /\ heap_upsert(heap_idx[k], x) /\ heap_idx' = heap_idx
    BY DEF Expire, Sifting
  <1>2. x.ref = k /\ x.val = now + ttl
    OBVIOUS
  <1> HIDE DEF x
  <1>3. PICK p \in Nat :
          /\ heap_idx[k] # NoIdx => p = heap_idx[k] /\ p < size
          /\ heap_idx[k] = NoIdx => p = size
          /\ \A i \in 0..(size - 1) : i # p => heap'[i] = heap[i]
          /\ item' = x /\ pc' \in {"up", "down"}
    <2>1. CASE heap_idx[k] # NoIdx
      <3>1. heap_idx[k] \in 0..(size - 1)
        BY <1>1, <2>1, RestFacts
      <3>2. heap_idx[k] # NoIdx /\ heap_idx[k] < size
        BY <1>1, <2>1, RestFacts
      <3>3. heap_update([heap EXCEPT ![heap_idx[k]] = x], heap_idx[k], size, "idle")
        BY <1>1, <3>2, Zenon DEF heap_upsert
      <3>4. /\ heap' = [heap EXCEPT ![heap_idx[k]] = x]
            /\ item' = [heap EXCEPT ![heap_idx[k]] = x][heap_idx[k]]
            /\ pc' \in {"up", "down"}
        BY <3>3 DEF heap_update
      <3>5. \A i \in 0..(size - 1) : i # heap_idx[k] => heap'[i] = heap[i]
        BY <1>1, <3>4, RestFacts
      <3>6. item' = x
        BY <1>1, <3>1, <3>4, RestFacts
      <3>7. heap_idx[k] \in Nat
        BY <3>1
      <3> QED
        BY <3>2, <3>4, <3>5, <3>6, <3>7, Zenon
    <2>2. CASE heap_idx[k] = NoIdx
      <3>1. heap_update([i \in 0..size |-> IF i = size THEN x ELSE heap[i]],
                        size, size + 1, "idle")
        BY <1>1, <2>2, Zenon DEF heap_upsert
      <3>2. /\ heap' = [i \in 0..size |-> IF i = size THEN x ELSE heap[i]]
            /\ item' = [i \in 0..size |-> IF i = size THEN x ELSE heap[i]][size]
            /\ pc' \in {"up", "down"}
        BY <3>1 DEF heap_update
      <3>3. size \in Nat
        BY <1>1, RestFacts
      <3>4. item' = x /\ \A i \in 0..(size - 1) : heap'[i] = heap[i]
        BY <3>2, <3>3
      <3> QED
        BY <2>2, <3>2, <3>3, <3>4
    <2> QED
      BY <2>1, <2>2
  <1>4. Sifting'
    BY <1>3 DEF Sifting
  <1> TAKE j \in Key
  <1>5. CASE j = k
    BY <1>2, <1>3, <1>4, <1>5 DEF Deadline
  <1>6. CASE j # k
    <2>1. /\ Deadline(j)' = IF heap_idx[j] = NoIdx THEN -1 ELSE heap'[heap_idx[j]].val
          /\ Deadline(j) = IF heap_idx[j] = NoIdx THEN -1 ELSE heap[heap_idx[j]].val
      BY <1>1, <1>2, <1>3, <1>4, <1>6 DEF Deadline
    <2>2. heap_idx[j] # NoIdx => heap_idx[j] \in 0..(size - 1) /\ heap_idx[j] # p
      BY <1>1, <1>3, <1>6, RestFacts
    <2> QED
      BY <1>3, <1>6, <2>1, <2>2
  <1>7. QED
    BY <1>5, <1>6

\* Every step of the server is a step of the abstract timers or leaves them
\* alone.
LEMMA StepRefines ==
  ASSUME HeapInv, [Next]_vars
  PROVE  [Abs!TNext]_(Abs!timerVars)
  <1> USE DEF NoIdx, Abs!NoTtl
  <1>1. CASE Sift
    BY <1>1, SiftKeepsDeadlines DEF Abs!timerVars
  <1>2. ASSUME NEW k \in Key, NewEntry(k)
        PROVE  Abs!TInsert(k)
    <2>1. /\ ~Sifting /\ heap' = heap /\ pc' = pc /\ item' = item /\ now' = now
          /\ heap_idx' = [heap_idx EXCEPT ![k] = NoIdx]
          /\ k \notin db /\ db' = db \cup {k} /\ ~Sweeping /\ Sweeping' = Sweeping
      BY <1>2 DEF NewEntry, heapVars, Sifting, Sweeping
    <2>2. heap_idx' = heap_idx
      BY <2>1, RestFacts
    <2>3. \A j \in Key : Deadline(j)' = Deadline(j)
      BY <2>1, <2>2 DEF Deadline, Sifting
    <2> QED
      BY <2>1, <2>3 DEF Abs!TInsert
  <1>3. ASSUME NEW k \in Key, NEW ttl \in Ttl, Expire(k, ttl)
        PROVE  Abs!TSetTtl(k, ttl)
    <2>1. k \in db /\ now' = now /\ db' = db /\ ~Sweeping
      BY <1>3 DEF Expire, Sweeping, Sifting
    <2>2. Sweeping' = Sweeping
      BY <1>3 DEF Expire, heap_upsert, heap_update, Sweeping, Sifting
    <2>3. \A j \in Key : Deadline(j)' = IF j = k THEN now + ttl ELSE Deadline(j)
      BY <1>3, ExpireDeadlines
    <2> QED
      BY <2>1, <2>2, <2>3 DEF Abs!TSetTtl
  <1>4. ASSUME NEW k \in Key, Persist(k)
        PROVE  Abs!TPersist(k)
    <2>1. /\ ~Sifting /\ k \in db /\ now' = now /\ db' = db /\ DropTimer(k, "idle")
          /\ ~Sweeping
      BY <1>4 DEF Persist, Sifting, Sweeping
    <2>2. \A j \in Key : Deadline(j)' = IF j = k THEN -1 ELSE Deadline(j)
      BY <2>1, DropTimerDeadlines
    <2>3. Sweeping' = Sweeping
      BY <2>1, DropTimerReturns DEF Sweeping
    <2> QED
      BY <2>1, <2>2, <2>3 DEF Abs!TPersist
  <1>5. ASSUME NEW k \in Key, Del(k)
        PROVE  Abs!TDel(k)
    <2>1. /\ ~Sifting /\ k \in db /\ now' = now /\ db' = db \ {k} /\ DropTimer(k, "idle")
          /\ ~Sweeping
      BY <1>5 DEF Del, Sifting, Sweeping
    <2>2. \A j \in Key : Deadline(j)' = IF j = k THEN -1 ELSE Deadline(j)
      BY <2>1, DropTimerDeadlines
    <2>3. Sweeping' = Sweeping
      BY <2>1, DropTimerReturns DEF Sweeping
    <2> QED
      BY <2>1, <2>2, <2>3 DEF Abs!TDel, Abs!TRemove
  <1>6. ASSUME Evict
        PROVE  \E k \in Key : Abs!TEvict(k)
    <2>1. ~Sifting /\ size > 0 /\ heap[0].val < now_ms
      BY <1>6 DEF Evict, Due, Sifting
    <2>2. PICK k \in Key :
            k = heap[0].ref /\ k \in db /\ heap_idx[k] = 0 /\ heap[0].val \in Nat
      BY <2>1, RestFacts
    <2>3. db' = db \ {k} /\ DropTimer(k, "sweep") /\ now' = now
      BY <1>6, <2>2 DEF Evict
    <2>4. \A j \in Key : Deadline(j)' = IF j = k THEN -1 ELSE Deadline(j)
      BY <2>1, <2>2, <2>3, DropTimerDeadlines
    <2>5. Deadline(k) = heap[0].val
      BY <2>1, <2>2 DEF Deadline
    <2>6. heap[0].val < now
      BY <2>1, <2>2 DEF HeapInv, SampleIsPast, TypeOK
    <2>7. \A j \in Key : Deadline(j) # -1 => heap[0].val <= Deadline(j)
      <3> SUFFICES ASSUME NEW j \in Key, Deadline(j) # -1
                   PROVE  heap[0].val <= Deadline(j)
        OBVIOUS
      <3>1. heap_idx[j] # NoIdx /\ Deadline(j) = heap[heap_idx[j]].val
        BY <2>1 DEF Deadline
      <3>2. heap_idx[j] \in 0..(size - 1)
        BY <2>1, <3>1, RestFacts
      <3> QED
        BY <2>1, <3>1, <3>2, RootFacts
    <2>8. Sweeping /\ Sweeping'
      BY <1>6, <2>3, DropTimerReturns DEF Evict, Sweeping, Sifting
    <2>9. Abs!TEvict(k)
      BY <2>2, <2>3, <2>4, <2>5, <2>6, <2>7, <2>8 DEF Abs!TEvict, Abs!TRemove
    <2> QED
      BY <2>2, <2>9
  <1>7. CASE SweepBegin
    BY <1>7 DEF SweepBegin, Deadline, Sifting, Sweeping, Abs!TNext, Abs!TSweepBegin
  <1>8. CASE SweepEnd
    BY <1>8 DEF SweepEnd, Deadline, Sifting, Sweeping, Abs!TNext, Abs!TSweepEnd
  <1>9. CASE UNCHANGED vars
    BY <1>9 DEF vars, heapVars, Deadline, Sifting, Sweeping, Abs!timerVars
  <1>10. CASE Tick
    BY <1>10 DEF Tick, heapVars, Deadline, Sifting, Sweeping, Abs!TNext, Abs!TTick
  <1>11. QED
    BY <1>1, <1>2, <1>3, <1>4, <1>5, <1>6, <1>7, <1>10, <1>8, <1>9
    DEF Next, Command, Sweep, Abs!TNext

\* The heap, its back-pointers and the sweep implement the abstract timers:
\* whatever the order of commands, only the key that was addressed changes
\* its deadline, and only overdue keys are evicted, the earliest first.
THEOREM Refinement == Spec => TimersRefined
  <1>1. Init => Abs!TInit
    BY DEF Init, Abs!TInit, Deadline, Sifting, Sweeping, NoIdx, Abs!NoTtl
  <1>2. HeapInv /\ [Next]_vars => [Abs!TNext]_(Abs!timerVars)
    BY StepRefines
  <1>3. QED
    BY <1>1, <1>2, HeapInvariant, PTL DEF Spec, TimersRefined, Abs!TSpec
=============================================================================
