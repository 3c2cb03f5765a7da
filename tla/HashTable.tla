----------------------------- MODULE HashTable -----------------------------
(***************************************************************************)
(* hashtable.cpp: a chaining hash table that grows by moving its nodes     *)
(* from `older' to `newer' a few at a time, in every operation.            *)
(*                                                                         *)
(* A table is its number of buckets n (mask + 1, or 0 when tab is NULL),   *)
(* its buckets and its size field.  A chain is the set of its nodes: the   *)
(* order in a chain decides only which node migrates first, so any of them *)
(* may.  A node stands for its key; callers insert a node only when a      *)
(* lookup has not found its key (do_set, do_zadd, zset_insert).            *)
(*                                                                         *)
(* hm_help_rehashing is modelled one turn of its loop per step.            *)
(*                                                                         *)
(* A definition named D_Fault is D with a fault; no specification uses it. *)
(***************************************************************************)
EXTENDS Integers, FiniteSets

CONSTANTS
  Node,               \* the nodes that callers may insert
  hcode,              \* hcode[x]: the hash code stored in node x
  InitBuckets,        \* buckets of the first table (4)
  k_max_load_factor,  \* nodes per bucket that trigger a resize (8)
  k_rehashing_work    \* nodes that one call of hm_help_rehashing moves (128)

ASSUME HashTableAssumption ==
  /\ IsFiniteSet(Node)
  /\ hcode \in [Node -> Nat]
  /\ InitBuckets \in Nat \ {0}
  /\ k_max_load_factor \in Nat \ {0}
  /\ k_rehashing_work \in Nat \ {0}

VARIABLES
  newer, older,  \* the two HTabs
  migrate_pos,   \* bucket of older that is being emptied
  pc,            \* "idle", "help" (the loop of hm_help_rehashing) or "find"
  op,            \* the operation that is running: its name and node
  nwork,         \* hm_help_rehashing's counter
  ret            \* what the last lookup or deletion returned

vars == <<newer, older, migrate_pos, pc, op, nwork, ret>>

NoTab == [n |-> 0, tab |-> [i \in 0..-1 |-> {}], size |-> 0]
NoOp  == [name |-> "none", node |-> {}]

Init ==
  /\ newer = NoTab /\ older = NoTab
  /\ migrate_pos = 0
  /\ pc = "idle" /\ op = NoOp /\ nwork = 0
  /\ ret = FALSE

-----------------------------------------------------------------------------
(* One table *)

h_init(n) == [n |-> n, tab |-> [i \in 0..(n - 1) |-> {}], size |-> 0]

Bucket(t, x) == hcode[x] % t.n

\* Fault: the size is not incremented.
h_insert_NoCount(t, x) ==
  [n |-> t.n, tab |-> [t.tab EXCEPT ![Bucket(t, x)] = @ \cup {x}], size |-> t.size]

h_insert(t, x) ==
  [n |-> t.n, tab |-> [t.tab EXCEPT ![Bucket(t, x)] = @ \cup {x}], size |-> t.size + 1]

h_lookup(t, x) == t.n # 0 /\ x \in t.tab[Bucket(t, x)]

\* Faults: the node is not unlinked; the size is not decremented.
h_detach_KeepsNode(t, b, x) == [n |-> t.n, tab |-> t.tab, size |-> t.size - 1]
h_detach_NoCount(t, b, x) ==
  [n |-> t.n, tab |-> [t.tab EXCEPT ![b] = @ \ {x}], size |-> t.size]

h_detach(t, b, x) ==
  [n |-> t.n, tab |-> [t.tab EXCEPT ![b] = @ \ {x}], size |-> t.size - 1]

-----------------------------------------------------------------------------
(* hm_help_rehashing *)

HelpLoop == pc = "help" /\ nwork < k_rehashing_work /\ older.size > 0

\* An empty slot: go on without counting it as work.
HelpSkip ==
  /\ HelpLoop
  /\ older.tab[migrate_pos] = {}
  /\ migrate_pos' = migrate_pos + 1
  /\ UNCHANGED <<newer, older, pc, op, nwork, ret>>

HelpMove ==
  /\ HelpLoop
  /\ \E x \in older.tab[migrate_pos] :
       /\ older' = h_detach(older, migrate_pos, x)
       /\ newer' = h_insert(newer, x)
  /\ nwork' = nwork + 1
  /\ UNCHANGED <<migrate_pos, pc, op, ret>>

\* Faults: the old table is freed with nodes in it, or never.
Discard_Always(t) == NoTab
Discard_Never(t) == t

Discard(t) == IF t.size = 0 THEN NoTab ELSE t

\* The loop ends; an emptied table is freed.  hm_insert returns, the other
\* operations go on to their search.
HelpReturn ==
  /\ pc = "help"
  /\ ~(nwork < k_rehashing_work /\ older.size > 0)
  /\ older' = Discard(older)
  /\ nwork' = 0
  /\ IF op.name = "insert" THEN pc' = "idle" /\ op' = NoOp
                           ELSE pc' = "find" /\ op' = op
  /\ UNCHANGED <<newer, migrate_pos, ret>>

-----------------------------------------------------------------------------
(* The operations *)

Members(t) == UNION {t.tab[i] : i \in 0..(t.n - 1)}
Stored == Members(newer) \cup Members(older)

Enter(name, x) ==
  /\ pc = "idle"
  /\ pc' = "help" /\ op' = [name |-> name, node |-> x] /\ nwork' = 0

hm_lookup(x) ==
  /\ Enter("lookup", x)
  /\ UNCHANGED <<newer, older, migrate_pos, ret>>

hm_delete(x) ==
  /\ Enter("delete", x)
  /\ UNCHANGED <<newer, older, migrate_pos, ret>>

\* Faults: the scan position is not reset; the table does not grow.
hm_trigger_rehashing_NoReset(t) ==
  older' = t /\ newer' = h_init(t.n * 2) /\ migrate_pos' = migrate_pos
hm_trigger_rehashing_NoGrowth(t) ==
  older' = t /\ newer' = h_init(t.n) /\ migrate_pos' = 0

hm_trigger_rehashing(t) ==
  older' = t /\ newer' = h_init(t.n * 2) /\ migrate_pos' = 0

\* Insert into newer; hm_trigger_rehashing when it is full and no migration
\* is under way.
hm_insert(x) ==
  /\ x \notin Stored
  /\ Enter("insert", x)
  /\ LET t == h_insert(IF newer.n = 0 THEN h_init(InitBuckets) ELSE newer, x) IN
     IF older.n = 0 /\ t.size >= t.n * k_max_load_factor
     THEN hm_trigger_rehashing(t)
     ELSE /\ newer' = t
          /\ UNCHANGED <<older, migrate_pos>>
  /\ UNCHANGED ret

\* h_lookup in newer, then in older; hm_delete detaches what it finds.
Find ==
  /\ pc = "find"
  /\ LET x == op.node
         inNewer == h_lookup(newer, x)
         inOlder == ~inNewer /\ h_lookup(older, x)
     IN /\ ret' = (inNewer \/ inOlder)
        /\ newer' = IF op.name = "delete" /\ inNewer
                    THEN h_detach(newer, Bucket(newer, x), x) ELSE newer
        /\ older' = IF op.name = "delete" /\ inOlder
                    THEN h_detach(older, Bucket(older, x), x) ELSE older
  /\ pc' = "idle" /\ op' = NoOp
  /\ UNCHANGED <<migrate_pos, nwork>>

hm_clear ==
  /\ pc = "idle"
  /\ newer' = NoTab /\ older' = NoTab /\ migrate_pos' = 0
  /\ UNCHANGED <<pc, op, nwork, ret>>

hm_size == newer.size + older.size

-----------------------------------------------------------------------------
Call == hm_clear \/ \E x \in Node : hm_lookup(x) \/ hm_insert(x) \/ hm_delete(x)
Inside == HelpSkip \/ HelpMove \/ HelpReturn \/ Find

Next == Call \/ Inside

Spec == Init /\ [][Next]_vars

\* Operations run to their end, and clients keep looking keys up.
FairSpec == Spec /\ WF_vars(Inside) /\ WF_vars(\E x \in Node : hm_lookup(x))

-----------------------------------------------------------------------------
(* Properties *)

\* The types of the variables; a size field never wraps below zero, and each
\* table has as many buckets as its mask says.
TypeOK ==
  /\ \A t \in {newer, older} :
       /\ DOMAIN t = {"n", "tab", "size"}
       /\ t.n \in Nat /\ t.size \in Nat
       /\ t.tab \in [0..(t.n - 1) -> SUBSET Node]
  /\ migrate_pos \in Nat /\ nwork \in Nat
  /\ pc \in {"idle", "help", "find"}
  /\ pc # "idle" => op.name \in {"lookup", "insert", "delete"} /\ op.node \in Node
  /\ ret \in BOOLEAN

\* Every node is in the bucket that its hash code selects in its table, and
\* in one table only, even half-way through a migration: a lookup finds it
\* in one probe per table, and a deletion leaves no second copy.
NodesInPlace ==
  /\ \A t \in {newer, older} : \A i \in 0..(t.n - 1) :
       \A x \in t.tab[i] : i = Bucket(t, x)
  /\ Members(newer) \cap Members(older) = {}

\* The size fields count the nodes: KEYS announces hm_size elements and
\* hm_foreach then visits exactly as many.
SizesCount ==
  /\ newer.size = Cardinality(Members(newer))
  /\ older.size = Cardinality(Members(older))

\* The scan of hm_help_rehashing never runs past the end of older: as long as
\* older has a node there is one at or behind migrate_pos, whatever was
\* deleted from older in the meantime.
MigrateInBounds ==
  /\ older.size > 0 => migrate_pos < older.n
  /\ \A i \in 0..(older.n - 1) : i < migrate_pos => older.tab[i] = {}

\* Between operations the newer table is not overfull: migrations finish
\* before the next resize is due.
LoadBounded == pc = "idle" => newer.size <= newer.n * k_max_load_factor

\* The two tables implement one map: no answer of a lookup or a deletion
\* depends on how far a migration has come.
Abs == INSTANCE Dict WITH keys <- Stored
DictRefined == Abs!DSpec

\* A migration does not stay unfinished while clients use the map.
RehashingEnds == older.n # 0 ~> older.n = 0

-----------------------------------------------------------------------------
(* The inductive invariant behind HashTableProofs *)

\* An operation is recorded as long as it runs, hm_insert does not search, and
\* a migration has a table to move nodes to.
OpInv ==
  /\ pc = "idle" <=> op = NoOp
  /\ pc = "find" => op.name # "insert"
  /\ older.n # 0 => newer.n # 0

\* Why migrations finish in time.  A node that waits in older counts twice: it
\* will need a place in newer, and so may the node whose insertion moves it.
\* An insertion adds one to the weight and then moves at least one node, which
\* takes one off; until it does, the weight may touch the limit.
Weight == newer.size + 2 * older.size
LoadInv ==
  newer.n # 0 =>
    /\ Weight <= newer.n * k_max_load_factor
    /\ Weight = newer.n * k_max_load_factor =>
         pc = "help" /\ op.name = "insert" /\ nwork = 0 /\ older.size > 0
    /\ pc # "help" /\ older.n # 0 /\ older.size = 0 =>
         Weight + 1 < newer.n * k_max_load_factor

HashInv ==
  TypeOK /\ NodesInPlace /\ SizesCount /\ MigrateInBounds /\ OpInv /\ LoadInv
=============================================================================
