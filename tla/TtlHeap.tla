------------------------------ MODULE TtlHeap ------------------------------
(***************************************************************************)
(* The TTL min-heap of the server: heap.cpp, the Entry helpers of          *)
(* server.cpp that maintain it (heap_delete, heap_upsert, entry_set_ttl,   *)
(* entry_del) and their callers: the commands that create, expire and      *)
(* delete a key, and the TTL half of process_timers.                       *)
(*                                                                         *)
(* The heap is an array of items [val, ref]; `ref' points at the heap_idx  *)
(* field of an Entry, and every move of an item writes the item's new      *)
(* position through that pointer.  A pointer to the heap_idx of an Entry   *)
(* is modelled by the Entry's key: a key has at most one Entry.            *)
(*                                                                         *)
(* The sift loops heap_up and heap_down are modelled one iteration per     *)
(* step.  Nothing can run between two iterations (the server has one       *)
(* thread), so while a loop is running only the clock moves.               *)
(*                                                                         *)
(* A definition named D_Fault is D with a fault; no specification uses it. *)
(* It stands in for D to show that a property would notice the fault.      *)
(***************************************************************************)
EXTENDS Integers

CONSTANTS
  Key,          \* keys of the database
  Ttl,          \* non-negative TTLs (ms) that PEXPIRE is called with
  MaxNow,       \* bound of the model: the clock stops there
  k_max_works,  \* evictions after which process_timers yields (2000)
  NULL          \* the null pointer, not a key

ASSUME TtlHeapAssumption ==
  /\ NULL \notin Key
  /\ Ttl \subseteq Nat
  /\ MaxNow \in Nat
  /\ k_max_works \in Nat

VARIABLES
  now,       \* get_monotonic_msec()
  db,        \* keys that have an Entry in the top-level hashtable
  heap,      \* g_data.heap, an array indexed from 0
  size,      \* g_data.heap.size()
  heap_idx,  \* heap_idx[k]: the field of k's Entry, or -1
  pc,        \* "idle", "sweep" (process_timers), "up" or "down" (sift loops)
  pos, item, \* the loop's locals `pos' and `t'
  ret,       \* where control goes when the sift loop returns
  now_ms,    \* process_timers' sample of the clock
  nworks     \* process_timers' eviction count

heapVars  == <<heap, size, pc, pos, item, ret>>
sweepVars == <<now_ms, nworks>>
vars == <<now, db, heap_idx, heapVars, sweepVars>>

HeapItem == [val : Nat, ref : Key]
NoItem   == [val |-> 0, ref |-> NULL]
NoIdx    == -1

Init ==
  /\ now = 0
  /\ db = {}
  /\ heap = [i \in 0..-1 |-> NoItem]
  /\ size = 0
  /\ heap_idx = [k \in Key |-> NoIdx]
  /\ pc = "idle" /\ ret = "idle"
  /\ pos = 0 /\ item = NoItem
  /\ now_ms = 0 /\ nworks = 0

-----------------------------------------------------------------------------
(* heap.cpp *)

heap_parent(i) == (i + 1) \div 2 - 1
heap_left(i)   == i * 2 + 1
heap_right(i)  == i * 2 + 2

\* Fault: the item at p is only ever moved down.
heap_update_DownOnly(a, p, n, back) ==
  /\ heap' = a /\ size' = n
  /\ pos' = p /\ item' = a[p]
  /\ pc' = "down"
  /\ ret' = back

\* Enter heap_up or heap_down for position p of the array a of length n.
heap_update(a, p, n, back) ==
  /\ heap' = a /\ size' = n
  /\ pos' = p /\ item' = a[p]
  /\ pc' = IF p > 0 /\ a[heap_parent(p)].val > a[p].val THEN "up" ELSE "down"
  /\ ret' = back

\* Fault: the back-pointer is not written.
Place_NoBackRef(x, p) ==
  /\ heap' = [heap EXCEPT ![p] = x]
  /\ heap_idx' = heap_idx

\* Store item x at position p and write p through its back-pointer.
Place(x, p) ==
  /\ heap' = [heap EXCEPT ![p] = x]
  /\ heap_idx' = [heap_idx EXCEPT ![x.ref] = p]

\* The code after both loops: a[pos] = t; *a[pos].ref = pos.
SiftReturn ==
  /\ Place(item, pos)
  /\ pc' = ret /\ ret' = "idle"
  /\ pos' = 0 /\ item' = NoItem
  /\ UNCHANGED <<now, db, size, sweepVars>>

AboveParent == pos > 0 /\ heap[heap_parent(pos)].val > item.val

HeapUpStep ==
  /\ pc = "up"
  /\ AboveParent
  /\ Place(heap[heap_parent(pos)], pos)
  /\ pos' = heap_parent(pos)
  /\ UNCHANGED <<now, db, size, pc, item, ret, sweepVars>>

HeapUpDone ==
  /\ pc = "up"
  /\ ~AboveParent
  /\ SiftReturn

\* Fault: the right child is not considered.
MinPos_LeftOnly ==
  LET l == heap_left(pos)
  IN IF l < size /\ heap[l].val < item.val THEN l ELSE pos

\* The smallest of item and the children of pos: the loop's min_pos.
MinPos ==
  LET l == heap_left(pos)
      r == heap_right(pos)
      lmin == l < size /\ heap[l].val < item.val
      min_val == IF lmin THEN heap[l].val ELSE item.val
  IN IF r < size /\ heap[r].val < min_val THEN r ELSE IF lmin THEN l ELSE pos

HeapDownStep ==
  /\ pc = "down"
  /\ MinPos # pos
  /\ Place(heap[MinPos], pos)
  /\ pos' = MinPos
  /\ UNCHANGED <<now, db, size, pc, item, ret, sweepVars>>

HeapDownDone ==
  /\ pc = "down"
  /\ MinPos = pos
  /\ SiftReturn

-----------------------------------------------------------------------------
(* The Entry helpers of server.cpp *)

\* Overwrite position p by the last item, pop, and sift what moved there.
heap_delete(p, back) ==
  LET n == size - 1
      a == [i \in 0..(n - 1) |-> IF i = p THEN heap[n] ELSE heap[i]]
  IN IF p < n
     THEN heap_update(a, p, n, back)
     ELSE /\ heap' = a /\ size' = n
          /\ pc' = back /\ ret' = "idle"
          /\ UNCHANGED <<pos, item>>

\* Fault: a timer that is there already is overwritten and not moved.
heap_upsert_InPlace(p, x) ==
  IF p # NoIdx /\ p < size
  THEN heap' = [heap EXCEPT ![p] = x] /\ UNCHANGED <<size, pc, pos, item, ret>>
  ELSE heap_update([i \in 0..size |-> IF i = size THEN x ELSE heap[i]],
                   size, size + 1, "idle")

\* heap_idx is (size_t)-1 for an Entry without timer: never below the size.
heap_upsert(p, x) ==
  IF p # NoIdx /\ p < size
  THEN heap_update([heap EXCEPT ![p] = x], p, size, "idle")
  ELSE heap_update([i \in 0..size |-> IF i = size THEN x ELSE heap[i]],
                   size, size + 1, "idle")

\* Fault: heap_idx is not reset, so that the next call deletes once more.
DropTimer_KeepsIdx(k, back) ==
  IF heap_idx[k] # NoIdx
  THEN heap_delete(heap_idx[k], back) /\ UNCHANGED heap_idx
  ELSE pc' = back /\ UNCHANGED <<heap, size, heap_idx, pos, item, ret>>

\* Drop the timer of k if it has one.  The code resets heap_idx after
\* heap_delete returns; the loop never reads the field of the removed Entry.
DropTimer(k, back) ==
  IF heap_idx[k] # NoIdx
  THEN /\ heap_delete(heap_idx[k], back)
       /\ heap_idx' = [heap_idx EXCEPT ![k] = NoIdx]
  ELSE /\ pc' = back
       /\ UNCHANGED <<heap, size, heap_idx, pos, item, ret>>

-----------------------------------------------------------------------------
(* The commands *)

\* do_set and do_zadd of an absent key: entry_new, no timer.
NewEntry(k) ==
  /\ pc = "idle"
  /\ k \notin db
  /\ db' = db \cup {k}
  /\ heap_idx' = [heap_idx EXCEPT ![k] = NoIdx]
  /\ UNCHANGED <<now, heapVars, sweepVars>>

\* PEXPIRE k ttl with ttl >= 0.
Expire(k, ttl) ==
  /\ pc = "idle"
  /\ k \in db
  /\ heap_upsert(heap_idx[k], [val |-> now + ttl, ref |-> k])
  /\ UNCHANGED <<now, db, heap_idx, sweepVars>>

\* PEXPIRE k ttl with ttl < 0: the timer is removed.
Persist(k) ==
  /\ pc = "idle"
  /\ k \in db
  /\ DropTimer(k, "idle")
  /\ UNCHANGED <<now, db, sweepVars>>

\* Fault: the Entry is freed but its timer stays in the heap.
Del_KeepsTimer(k) ==
  /\ pc = "idle"
  /\ k \in db
  /\ db' = db \ {k}
  /\ UNCHANGED <<now, heap_idx, heapVars, sweepVars>>

\* DEL k: hm_delete, then entry_del.
Del(k) ==
  /\ pc = "idle"
  /\ k \in db
  /\ db' = db \ {k}
  /\ DropTimer(k, "idle")
  /\ UNCHANGED <<now, sweepVars>>

-----------------------------------------------------------------------------
(* process_timers, the part that evicts expired keys *)

SweepBegin ==
  /\ pc = "idle"
  /\ pc' = "sweep"
  /\ now_ms' = now /\ nworks' = 0
  /\ UNCHANGED <<now, db, heap_idx, heap, size, pos, item, ret>>

\* Faults: a key is due at its deadline, or only a millisecond later.
Due_AtDeadline == size > 0 /\ heap[0].val <= now_ms
Due_Late == size > 0 /\ heap[0].val + 1 < now_ms

Due == size > 0 /\ heap[0].val < now_ms

\* One turn of the loop.  `nworks++ >= k_max_works' breaks after the turn in
\* which nworks was already k_max_works.  When the Entry is not in the
\* hashtable (the ghost timer of the code's fallback) its heap_idx is reset
\* before entry_del, so the heap keeps its item.
Evict ==
  /\ pc = "sweep"
  /\ Due /\ nworks <= k_max_works
  /\ LET ent == heap[0].ref IN
     IF ent \in db
     THEN /\ db' = db \ {ent}
          /\ DropTimer(ent, "sweep")
          /\ nworks' = nworks + 1
     ELSE /\ heap_idx' = [heap_idx EXCEPT ![ent] = NoIdx]
          /\ UNCHANGED <<db, heapVars, nworks>>
  /\ UNCHANGED <<now, now_ms>>

SweepEnd ==
  /\ pc = "sweep"
  /\ ~(Due /\ nworks <= k_max_works)
  /\ pc' = "idle"
  /\ now_ms' = 0 /\ nworks' = 0
  /\ UNCHANGED <<now, db, heap_idx, heap, size, pos, item, ret>>

Tick ==
  /\ now < MaxNow
  /\ now' = now + 1
  /\ UNCHANGED <<db, heap_idx, heapVars, sweepVars>>

-----------------------------------------------------------------------------
Sift == HeapUpStep \/ HeapUpDone \/ HeapDownStep \/ HeapDownDone

Command ==
  \E k \in Key :
    \/ NewEntry(k)
    \/ \E ttl \in Ttl : Expire(k, ttl)
    \/ Persist(k)
    \/ Del(k)

Sweep == SweepBegin \/ Evict \/ SweepEnd

Next == Sift \/ Command \/ Sweep \/ Tick

Spec == Init /\ [][Next]_vars

\* The event loop calls process_timers in every turn, a call runs to its
\* end, and the clock advances.
FairSpec == Spec /\ WF_vars(Sift) /\ WF_vars(Evict \/ SweepEnd)
                 /\ SF_vars(SweepBegin) /\ WF_vars(Tick)

-----------------------------------------------------------------------------
(* Properties *)

Sifting == pc \in {"up", "down"}

\* The types of the variables; while a sift loop runs, its hole is inside
\* the array.
TypeOK ==
  /\ now \in Nat /\ now_ms \in Nat /\ nworks \in Nat
  /\ db \subseteq Key
  /\ size \in Nat
  /\ heap \in [0..(size - 1) -> HeapItem]
  /\ heap_idx \in [Key -> Nat \cup {NoIdx}]
  /\ pc \in {"idle", "sweep", "up", "down"}
  /\ ret \in {"idle", "sweep"}
  /\ pos \in Nat
  /\ Sifting => pos < size /\ item \in HeapItem

\* The deadline of k as the server knows it: through heap_idx, or in the
\* local `t' of a running sift loop.
Deadline(k) ==
  IF Sifting /\ item.ref = k THEN item.val
  ELSE IF heap_idx[k] = NoIdx THEN -1 ELSE heap[heap_idx[k]].val

\* Whenever no sift loop is running every timer is at or above its parent:
\* no sequence of PEXPIRE, DEL and evictions leaves a timer buried under a
\* later one (test_heap.cpp's verify, for every order of calls).
HeapOrder ==
  ~Sifting => \A i \in 1..(size - 1) : heap[heap_parent(i)].val <= heap[i].val

\* Whenever no sift loop is running the heap and the heap_idx fields of the
\* Entries point at each other, so DEL and PEXPIRE hit their own key's timer.
BackRefs ==
  ~Sifting =>
    /\ \A i \in 0..(size - 1) : heap_idx[heap[i].ref] = i
    /\ \A k \in Key : heap_idx[k] # NoIdx =>
         heap_idx[k] < size /\ heap[heap_idx[k]].ref = k

\* Every timer belongs to an Entry that is still in the hashtable: the
\* "ghost timer" fallback of process_timers, which would free an Entry that
\* the heap still points into, is never taken.
NoGhostTimer ==
  \A i \in 0..(size - 1) : ~(Sifting /\ i = pos) => heap[i].ref \in db

\* When no sift loop runs, heap[0] is the earliest of all timers: what
\* next_timer_ms and process_timers take it for.
RootIsEarliest ==
  ~Sifting => \A i \in 0..(size - 1) : heap[0].val <= heap[i].val

\* process_timers returns with no expired key left, unless it yielded after
\* its batch of evictions.
SweepIsComplete ==
  [][ pc = "sweep" /\ pc' = "idle" =>
        \/ nworks > k_max_works
        \/ \A k \in db : Deadline(k) # -1 => Deadline(k) >= now_ms ]_vars

\* process_timers is at work, perhaps inside a sift loop.
Sweeping == IF Sifting THEN ret = "sweep" ELSE pc = "sweep"

\* The heap implements the abstract timers.
Abs == INSTANCE Timers WITH expire <- [k \in Key |-> Deadline(k)],
                            sweeping <- Sweeping
TimersRefined == Abs!TSpec

\* Under the event loop's fairness a deadline below the clock's bound does
\* not stay in force: the key is evicted unless a command gets there first.
ExpiredIsEvicted ==
  \A k \in Key, t \in 0..(MaxNow - 1) :
    Deadline(k) = t ~> Deadline(k) # t

-----------------------------------------------------------------------------
(* The inductive invariant.  A running sift loop has lifted `item' out of  *)
(* the array and left a hole at `pos'; the parts below say how the rest of *)
(* the array fits around that hole.                                        *)

InHole(i) == Sifting /\ i = pos

\* Away from the hole the array is a heap.
OrderAroundHole ==
  \A i \in 1..(size - 1) :
    ~InHole(i) /\ ~InHole(heap_parent(i)) =>
      heap[heap_parent(i)].val <= heap[i].val

\* The children of the hole are no earlier than its parent.
OrderAcrossHole ==
  Sifting /\ pos > 0 =>
    \A i \in 1..(size - 1) :
      heap_parent(i) = pos => heap[heap_parent(pos)].val <= heap[i].val

\* heap_up carries an item that is no later than the children of the hole.
UpFits ==
  pc = "up" =>
    \A i \in 1..(size - 1) : heap_parent(i) = pos => item.val <= heap[i].val

\* heap_down carries an item that is no earlier than the parent of the hole.
DownFits ==
  pc = "down" /\ pos > 0 => heap[heap_parent(pos)].val <= item.val

\* Away from the hole, items and Entries point at each other.
LinksAroundHole ==
  /\ \A i \in 0..(size - 1) : ~InHole(i) =>
       /\ heap_idx[heap[i].ref] = i
       /\ heap[i].ref \in db
       /\ Sifting => heap[i].ref # item.ref
  /\ \A k \in Key : heap_idx[k] # NoIdx /\ ~(Sifting /\ k = item.ref) =>
       /\ heap_idx[k] < size
       /\ heap[heap_idx[k]].ref = k
       /\ ~InHole(heap_idx[k])
  /\ Sifting => item.ref \in db

\* A deadline that is below the sampled clock is below the clock.
SampleIsPast == now_ms <= now

HeapInv ==
  /\ TypeOK
  /\ OrderAroundHole /\ OrderAcrossHole /\ UpFits /\ DownFits
  /\ LinksAroundHole
  /\ SampleIsPast

\* The comment at k_max_works: "Don't delete more than 2000 at once".
BatchLimit == nworks <= k_max_works
=============================================================================
