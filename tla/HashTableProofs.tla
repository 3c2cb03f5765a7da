-------------------------- MODULE HashTableProofs --------------------------
(***************************************************************************)
(* Machine-checked proofs about HashTable, for every finite set of nodes,  *)
(* every hash function, every initial size, load factor and amount of      *)
(* migration per call.                                                     *)
(***************************************************************************)
EXTENDS HashTable, FiniteSetTheorems, TLAPS

-----------------------------------------------------------------------------
(* One table.                                                              *)

\* A table whose fields have their types, whose nodes are in the buckets of
\* their hash codes and whose size counts them.
IsTab(t) ==
  /\ DOMAIN t = {"n", "tab", "size"}
  /\ t.n \in Nat /\ t.size \in Nat
  /\ t.tab \in [0..(t.n - 1) -> SUBSET Node]
Sound(t) ==
  /\ IsTab(t)
  /\ \A i \in 0..(t.n - 1) : \A x \in t.tab[i] : i = Bucket(t, x)
  /\ t.size = Cardinality(Members(t))

\* The mask selects a bucket of the table.
LEMMA BucketInTable ==
  ASSUME NEW t, t.n \in Nat \ {0}, NEW x \in Node
  PROVE  Bucket(t, x) \in 0..(t.n - 1)
  <1>1. hcode[x] \in Nat
    BY HashTableAssumption
  <1>2. QED
    BY <1>1 DEF Bucket

\* The members of a table are nodes, so there are finitely many.
LEMMA MembersFinite ==
  ASSUME NEW t, IsTab(t)
  PROVE  /\ Members(t) \subseteq Node /\ IsFiniteSet(Members(t))
         /\ Cardinality(Members(t)) \in Nat
         /\ Cardinality(Members(t)) = 0 <=> Members(t) = {}
  <1>1. Members(t) \subseteq Node
    BY DEF Members, IsTab
  <1>2. IsFiniteSet(Members(t))
    BY <1>1, HashTableAssumption, FS_Subset
  <1>3. QED
    BY <1>1, <1>2, FS_CardinalityType, FS_EmptySet

\* h_lookup finds a node exactly when it is in the table: one probe is enough.
LEMMA LookupFinds ==
  ASSUME NEW t, Sound(t), NEW x \in Node
  PROVE  h_lookup(t, x) <=> x \in Members(t)
  <1>1. ASSUME t.n # 0
        PROVE  Bucket(t, x) \in 0..(t.n - 1)
    BY <1>1, BucketInTable DEF Sound, IsTab
  <1>2. t.n = 0 => Members(t) = {}
    BY DEF Members
  <1>3. QED
    BY <1>1, <1>2 DEF Sound, IsTab, h_lookup, Members

\* A fresh table, and no table, are sound and empty.
LEMMA EmptyTables ==
  /\ Sound(NoTab) /\ Members(NoTab) = {}
  /\ \A n \in Nat : Sound(h_init(n)) /\ Members(h_init(n)) = {}
  <1>1. IsTab(NoTab) /\ Members(NoTab) = {} /\ NoTab.size = 0
    BY DEF NoTab, IsTab, Members
  <1>2. ASSUME NEW n \in Nat
        PROVE  IsTab(h_init(n)) /\ Members(h_init(n)) = {} /\ h_init(n).size = 0
    BY DEF h_init, IsTab, Members
  <1>3. Sound(NoTab)
    BY <1>1, FS_EmptySet DEF Sound, Members
  <1>4. ASSUME NEW n \in Nat
        PROVE  Sound(h_init(n))
    <2>1. \A i \in 0..(h_init(n).n - 1) : h_init(n).tab[i] = {}
      BY DEF h_init
    <2>2. QED
      BY <1>2, <2>1, FS_EmptySet DEF Sound
  <1>5. QED
    BY <1>1, <1>2, <1>3, <1>4

\* h_insert of a node that is not there.
LEMMA InsertSound ==
  ASSUME NEW t, Sound(t), t.n # 0, NEW x \in Node, x \notin Members(t)
  PROVE  /\ Sound(h_insert(t, x))
         /\ Members(h_insert(t, x)) = Members(t) \cup {x}
         /\ h_insert(t, x).n = t.n /\ h_insert(t, x).size = t.size + 1
  <1> DEFINE b == Bucket(t, x)
             u == h_insert(t, x)
  <1>1. b \in 0..(t.n - 1)
    BY BucketInTable DEF Sound, IsTab
  <1>2. /\ u.n = t.n /\ u.size = t.size + 1
        /\ DOMAIN u = {"n", "tab", "size"}
        /\ u.tab = [t.tab EXCEPT ![b] = @ \cup {x}]
    BY DEF h_insert
  <1> HIDE DEF b, u
  <1>3. /\ u.tab \in [0..(t.n - 1) -> SUBSET Node]
        /\ u.tab[b] = t.tab[b] \cup {x}
        /\ \A i \in 0..(t.n - 1) : i # b => u.tab[i] = t.tab[i]
    BY <1>1, <1>2 DEF Sound, IsTab
  <1>4. IsTab(u)
    BY <1>2, <1>3 DEF Sound, IsTab
  <1>5. Members(u) = Members(t) \cup {x}
    BY <1>1, <1>2, <1>3 DEF Members
  <1>6. u.size = Cardinality(Members(u))
    BY <1>2, <1>5, MembersFinite, FS_AddElement DEF Sound
  <1>7. \A y : Bucket(u, y) = Bucket(t, y)
    BY <1>2 DEF Bucket
  <1>8. \A i \in 0..(u.n - 1) : \A y \in u.tab[i] : i = Bucket(u, y)
    BY <1>2, <1>3, <1>7 DEF Sound, b
  <1>9. QED
    BY <1>2, <1>4, <1>5, <1>6, <1>8 DEF Sound, u

\* h_detach of a node of bucket b.
LEMMA DetachSound ==
  ASSUME NEW t, Sound(t), NEW b \in 0..(t.n - 1), NEW x \in t.tab[b]
  PROVE  /\ Sound(h_detach(t, b, x))
         /\ x \in Node /\ x \in Members(t)
         /\ Members(h_detach(t, b, x)) = Members(t) \ {x}
         /\ h_detach(t, b, x).n = t.n
         /\ t.size > 0 /\ h_detach(t, b, x).size = t.size - 1
         /\ \A i \in 0..(t.n - 1) : h_detach(t, b, x).tab[i] \subseteq t.tab[i]
  <1> DEFINE u == h_detach(t, b, x)
  <1>1. x \in Node /\ x \in Members(t)
    BY DEF Sound, IsTab, Members
  <1>2. /\ u.n = t.n /\ u.size = t.size - 1
        /\ DOMAIN u = {"n", "tab", "size"}
        /\ u.tab = [t.tab EXCEPT ![b] = @ \ {x}]
    BY DEF h_detach
  <1> HIDE DEF u
  <1>3. /\ u.tab \in [0..(t.n - 1) -> SUBSET Node]
        /\ u.tab[b] = t.tab[b] \ {x}
        /\ \A i \in 0..(t.n - 1) : i # b => u.tab[i] = t.tab[i]
    BY <1>2 DEF Sound, IsTab
  <1>4. \A i \in 0..(t.n - 1) : x \in t.tab[i] => i = b
    BY DEF Sound
  <1>5. Members(u) = Members(t) \ {x}
    <2>1. Members(u) \subseteq Members(t) \ {x}
      BY <1>2, <1>3, <1>4 DEF Members
    <2>2. Members(t) \ {x} \subseteq Members(u)
      BY <1>2, <1>3 DEF Members
    <2>3. QED
      BY <2>1, <2>2
  <1>6. Cardinality(Members(t)) # 0 /\ t.size \in Nat /\ t.size = Cardinality(Members(t))
    BY <1>1, MembersFinite DEF Sound, IsTab
  <1>7. IsTab(u)
    BY <1>2, <1>3, <1>6 DEF Sound, IsTab
  <1>8. u.size = Cardinality(Members(u))
    BY <1>1, <1>2, <1>5, <1>6, MembersFinite, FS_RemoveElement DEF Sound
  <1>9. \A y : Bucket(u, y) = Bucket(t, y)
    BY <1>2 DEF Bucket
  <1>10. \A i \in 0..(u.n - 1) : \A y \in u.tab[i] : i = Bucket(u, y)
    BY <1>2, <1>3, <1>9 DEF Sound
  <1>11. \A i \in 0..(t.n - 1) : u.tab[i] \subseteq t.tab[i]
    BY <1>3
  <1>12. QED
    BY <1>1, <1>2, <1>5, <1>6, <1>7, <1>8, <1>10, <1>11 DEF Sound, u

-----------------------------------------------------------------------------
(* The invariant.                                                          *)

\* HashInv in terms of sound tables.
LEMMA InvOfTables ==
  HashInv <=>
    /\ Sound(newer) /\ Sound(older) /\ Members(newer) \cap Members(older) = {}
    /\ migrate_pos \in Nat /\ nwork \in Nat
    /\ pc \in {"idle", "help", "find"}
    /\ pc # "idle" => op.name \in {"lookup", "insert", "delete"} /\ op.node \in Node
    /\ ret \in BOOLEAN
    /\ MigrateInBounds /\ OpInv /\ LoadInv
  BY Zenon DEF HashInv, TypeOK, NodesInPlace, SizesCount, Sound, IsTab

\* The next state is in the invariant if its tables are sound.
LEMMA NextInv ==
  ASSUME Sound(newer'), Sound(older'), Members(newer') \cap Members(older') = {},
         migrate_pos' \in Nat, nwork' \in Nat, pc' \in {"idle", "help", "find"},
         pc' # "idle" => op'.name \in {"lookup", "insert", "delete"} /\ op'.node \in Node,
         ret' \in BOOLEAN, MigrateInBounds', OpInv', LoadInv'
  PROVE  HashInv'
  BY Zenon DEF HashInv, TypeOK, NodesInPlace, SizesCount, Sound, IsTab, Members, Bucket

LEMMA InitInv == Init => HashInv
  <1> SUFFICES ASSUME Init
               PROVE  HashInv
    OBVIOUS
  <1>1. /\ newer = NoTab /\ older = NoTab /\ migrate_pos = 0 /\ pc = "idle"
        /\ op = NoOp /\ nwork = 0 /\ ret = FALSE
    BY DEF Init
  <1>2. NoTab.n = 0 /\ NoTab.size = 0
    BY DEF NoTab
  <1>3. MigrateInBounds /\ OpInv /\ LoadInv
    BY <1>1, <1>2 DEF MigrateInBounds, OpInv, LoadInv
  <1>4. QED
    BY <1>1, <1>3, EmptyTables, InvOfTables

\* What a state of the invariant gives about its numbers.
LEMMA Numbers ==
  ASSUME HashInv
  PROVE  /\ newer.n \in Nat /\ newer.size \in Nat
         /\ older.n \in Nat /\ older.size \in Nat
         /\ newer.n * k_max_load_factor \in Nat
         /\ newer.n = 0 => newer.size = 0 /\ Members(newer) = {}
         /\ older.n = 0 => older.size = 0 /\ Members(older) = {}
         /\ k_max_load_factor \in Nat \ {0} /\ k_rehashing_work \in Nat \ {0}
  <1>1. Sound(newer) /\ Sound(older)
    BY InvOfTables
  <1>2. ASSUME NEW t, Sound(t)
        PROVE  t.n \in Nat /\ t.size \in Nat /\ (t.n = 0 => t.size = 0 /\ Members(t) = {})
    <2>1. t.n = 0 => Members(t) = {}
      BY DEF Members
    <2>2. QED
      BY <1>2, <2>1, MembersFinite DEF Sound, IsTab
  <1>3. QED
    BY <1>1, <1>2, HashTableAssumption

\* The scan: an empty slot is passed over.  The nodes that are left are behind
\* it, because the size says that there are some.
LEMMA HelpSkipInv == HashInv /\ HelpSkip => HashInv'
  <1> SUFFICES ASSUME HashInv, HelpSkip
               PROVE  HashInv'
    OBVIOUS
  <1>1. /\ newer' = newer /\ older' = older /\ pc' = pc /\ op' = op /\ nwork' = nwork
        /\ ret' = ret /\ migrate_pos' = migrate_pos + 1
        /\ older.size > 0 /\ older.tab[migrate_pos] = {} /\ pc = "help"
    BY DEF HelpSkip, HelpLoop
  <1>2. /\ Sound(older) /\ MigrateInBounds /\ migrate_pos \in Nat
    BY InvOfTables
  <1>3. PICK i \in 0..(older.n - 1) : older.tab[i] # {}
    <2>1. Members(older) # {}
      BY <1>1, <1>2, MembersFinite DEF Sound
    <2>2. QED
      BY <2>1 DEF Members
  <1>4. i >= migrate_pos + 1
    BY <1>1, <1>2, <1>3, Numbers DEF MigrateInBounds
  <1>5. MigrateInBounds'
    BY <1>1, <1>2, <1>4, Numbers DEF MigrateInBounds
  <1>6. OpInv' /\ LoadInv'
    BY <1>1, InvOfTables DEF OpInv, LoadInv, Weight
  <1>7. QED
    BY <1>1, <1>2, <1>5, <1>6, InvOfTables, NextInv

\* A node moves from one sound table to the other.
LEMMA HelpMoveInv == HashInv /\ HelpMove => HashInv' /\ Stored' = Stored
  <1> SUFFICES ASSUME HashInv, HelpMove
               PROVE  HashInv' /\ Stored' = Stored
    OBVIOUS
  <1>1. PICK x \in older.tab[migrate_pos] :
          older' = h_detach(older, migrate_pos, x) /\ newer' = h_insert(newer, x)
    BY DEF HelpMove
  <1>2. /\ nwork' = nwork + 1 /\ migrate_pos' = migrate_pos /\ pc' = pc /\ op' = op
        /\ ret' = ret /\ pc = "help" /\ older.size > 0
    BY DEF HelpMove, HelpLoop
  <1>3. /\ Sound(newer) /\ Sound(older) /\ Members(newer) \cap Members(older) = {}
        /\ MigrateInBounds /\ OpInv /\ LoadInv /\ nwork \in Nat /\ migrate_pos \in Nat
    BY InvOfTables
  <1>4. migrate_pos \in 0..(older.n - 1)
    BY <1>2, <1>3, Numbers DEF MigrateInBounds
  <1>5. /\ Sound(older') /\ Members(older') = Members(older) \ {x}
        /\ older'.n = older.n /\ older'.size = older.size - 1
        /\ \A i \in 0..(older.n - 1) : older'.tab[i] \subseteq older.tab[i]
        /\ x \in Node /\ x \in Members(older)
    BY <1>1, <1>3, <1>4, DetachSound
  <1>6. newer.n # 0
    BY <1>3, <1>4 DEF OpInv
  <1>7. /\ Sound(newer') /\ Members(newer') = Members(newer) \cup {x}
        /\ newer'.n = newer.n /\ newer'.size = newer.size + 1
    BY <1>1, <1>3, <1>5, <1>6, InsertSound
  <1>8. Members(newer') \cap Members(older') = {}
    BY <1>3, <1>5, <1>7
  <1>9. Stored' = Stored
    BY <1>5, <1>7 DEF Stored, Members
  <1>10. MigrateInBounds'
    BY <1>2, <1>3, <1>4, <1>5, Numbers DEF MigrateInBounds
  <1>11. OpInv'
    BY <1>2, <1>3, <1>5, <1>7 DEF OpInv
  <1>12. LoadInv'
    BY <1>2, <1>3, <1>5, <1>6, <1>7, Numbers DEF LoadInv, Weight
  <1>13. QED
    BY <1>2, <1>3, <1>5, <1>7, <1>8, <1>9, <1>10, <1>11, <1>12, InvOfTables, NextInv

\* The loop of hm_help_rehashing ends: it has moved a node or there is none.
LEMMA HelpReturnInv == HashInv /\ HelpReturn => HashInv' /\ Stored' = Stored
  <1> SUFFICES ASSUME HashInv, HelpReturn
               PROVE  HashInv' /\ Stored' = Stored
    OBVIOUS
  <1>1. /\ pc = "help" /\ ~(nwork < k_rehashing_work /\ older.size > 0)
        /\ older' = Discard(older) /\ nwork' = 0 /\ newer' = newer
        /\ migrate_pos' = migrate_pos /\ ret' = ret
        /\ IF op.name = "insert" THEN pc' = "idle" /\ op' = NoOp
                                 ELSE pc' = "find" /\ op' = op
    BY DEF HelpReturn
  <1>2. /\ Sound(newer) /\ Sound(older) /\ Members(newer) \cap Members(older) = {}
        /\ MigrateInBounds /\ OpInv /\ LoadInv /\ nwork \in Nat /\ migrate_pos \in Nat
        /\ op.name \in {"lookup", "insert", "delete"} /\ op.node \in Node /\ ret \in BOOLEAN
    BY <1>1, InvOfTables
  <1>3. /\ Sound(older') /\ Members(older') = Members(older)
        /\ older'.size = older.size /\ older'.n \in {0, older.n}
        /\ older.size = 0 => older'.n = 0
        /\ older.size # 0 => older' = older
    <2>1. CASE older.size = 0
      <3>1. older' = NoTab
        BY <1>1, <2>1 DEF Discard
      <3>2. Members(older) = {}
        BY <1>2, <2>1, MembersFinite DEF Sound
      <3>3. NoTab.size = 0 /\ NoTab.n = 0
        BY DEF NoTab
      <3>4. QED
        BY <2>1, <3>1, <3>2, <3>3, EmptyTables
    <2>2. CASE older.size # 0
      BY <1>1, <1>2, <2>2 DEF Discard
    <2>3. QED
      BY <2>1, <2>2
  <1>4. MigrateInBounds'
    BY <1>1, <1>2, <1>3, Numbers DEF MigrateInBounds
  <1>5. op.name # "none" /\ NoOp.name = "none"
    BY <1>2 DEF NoOp
  <1>6. OpInv'
    BY <1>1, <1>2, <1>3, <1>5 DEF OpInv
  <1>7. LoadInv'
    <2>1. nwork > 0 \/ older.size = 0
      BY <1>1, <1>2, Numbers
    <2>2. QED
      BY <1>1, <1>2, <1>3, <2>1, Numbers DEF LoadInv, Weight
  <1>8. Stored' = Stored
    BY <1>1, <1>3 DEF Stored, Members
  <1>9. pc' \in {"idle", "help", "find"} /\ nwork' \in Nat
        /\ (pc' # "idle" => op'.name \in {"lookup", "insert", "delete"} /\ op'.node \in Node)
    BY <1>1, <1>2
  <1>10. QED
    BY <1>1, <1>2, <1>3, <1>4, <1>6, <1>7, <1>8, <1>9, NextInv

\* A lookup or a deletion begins: nothing has changed yet.
LEMMA EnterInv ==
  ASSUME HashInv, NEW x \in Node, NEW name \in {"lookup", "delete"}, Enter(name, x),
         newer' = newer, older' = older, migrate_pos' = migrate_pos, ret' = ret
  PROVE  HashInv'
  <1>1. /\ pc = "idle" /\ pc' = "help" /\ op' = [name |-> name, node |-> x] /\ nwork' = 0
        /\ op'.name = name /\ op'.node = x
    BY DEF Enter
  <1>2. NoOp.name = "none"
    BY DEF NoOp
  <1>3. MigrateInBounds' /\ OpInv'
    BY <1>1, <1>2, InvOfTables DEF MigrateInBounds, OpInv
  <1>4. LoadInv'
    BY <1>1, InvOfTables DEF LoadInv, Weight
  <1>5. QED
    BY <1>1, <1>3, <1>4, InvOfTables, NextInv

\* An insertion: the weight was below the limit and grows by one, or the table
\* that is full to the limit becomes the older half of one twice as large.
LEMMA InsertInv ==
  ASSUME HashInv, NEW x \in Node, hm_insert(x)
  PROVE  HashInv' /\ Stored' = Stored \cup {x}
  <1> DEFINE base == IF newer.n = 0 THEN h_init(InitBuckets) ELSE newer
             t == h_insert(base, x)
             limit == t.n * k_max_load_factor
  <1>1. /\ x \notin Stored /\ pc = "idle" /\ ret' = ret
        /\ pc' = "help" /\ op' = [name |-> "insert", node |-> x] /\ nwork' = 0
        /\ op'.name = "insert" /\ op'.node = x
    BY DEF hm_insert, Enter
  <1>2. IF older.n = 0 /\ t.size >= limit
        THEN older' = t /\ newer' = h_init(t.n * 2) /\ migrate_pos' = 0
        ELSE newer' = t /\ older' = older /\ migrate_pos' = migrate_pos
    BY DEF hm_insert, hm_trigger_rehashing
  <1>3. /\ Sound(newer) /\ Sound(older) /\ Members(newer) \cap Members(older) = {}
        /\ MigrateInBounds /\ OpInv /\ LoadInv /\ migrate_pos \in Nat /\ ret \in BOOLEAN
    BY InvOfTables
  <1>4. /\ Sound(base) /\ base.n \in Nat \ {0} /\ Members(base) = Members(newer)
        /\ base.size = newer.size /\ (newer.n # 0 => base.n = newer.n)
    <2>1. CASE newer.n = 0
      <3>1. h_init(InitBuckets).n = InitBuckets /\ h_init(InitBuckets).size = 0
        BY DEF h_init
      <3>2. QED
        BY <2>1, <3>1, Numbers, EmptyTables, HashTableAssumption
    <2>2. CASE newer.n # 0
      BY <1>3, <2>2, Numbers
    <2>3. QED
      BY <2>1, <2>2
  <1> HIDE DEF base
  <1>5. x \notin Members(newer) /\ x \notin Members(older)
    BY <1>1 DEF Stored
  <1>6. /\ Sound(t) /\ Members(t) = Members(newer) \cup {x}
        /\ t.n = base.n /\ t.size = newer.size + 1
    BY <1>4, <1>5, InsertSound
  <1> HIDE DEF t
  <1>7. limit \in Nat \ {0} /\ (t.n * 2) * k_max_load_factor = 2 * limit
    BY <1>4, <1>6, Numbers
  <1>8. newer.n # 0 => limit = newer.n * k_max_load_factor
    BY <1>4, <1>6
  <1> HIDE DEF limit
  <1>9. t.size <= limit
    <2>1. CASE newer.n = 0
      BY <1>6, <1>7, <2>1, Numbers
    <2>2. CASE newer.n # 0
      BY <1>1, <1>3, <1>6, <1>7, <1>8, <2>2, Numbers DEF LoadInv, Weight
    <2>3. QED
      BY <2>1, <2>2
  <1>10. NoOp.name = "none"
    BY DEF NoOp
  <1>11. CASE older.n = 0 /\ t.size >= limit
    <2>1. /\ older' = t /\ newer' = h_init(t.n * 2) /\ migrate_pos' = 0
      BY <1>2, <1>11
    <2>2. /\ Sound(newer') /\ Members(newer') = {} /\ newer'.n = t.n * 2 /\ newer'.size = 0
      <3>1. t.n * 2 \in Nat
        BY <1>4, <1>6
      <3>2. QED
        BY <2>1, <3>1, EmptyTables DEF h_init
    <2>3. Members(older) = {}
      BY <1>11, Numbers
    <2>4. MigrateInBounds'
      BY <1>4, <1>6, <2>1 DEF MigrateInBounds
    <2>5. OpInv'
      BY <1>1, <1>4, <1>6, <1>10, <2>2 DEF OpInv
    <2>6. LoadInv'
      <3>1. newer'.n * k_max_load_factor = 2 * limit
        BY <1>7, <2>2
      <3>2. Weight' = 2 * t.size /\ t.size \in Nat /\ t.size > 0 /\ older'.size = t.size
        BY <1>6, <2>1, <2>2, Numbers DEF Weight
      <3>3. QED
        BY <1>1, <1>7, <1>9, <3>1, <3>2 DEF LoadInv
    <2>7. Stored' = Stored \cup {x}
      <3>1. Stored' = Members(newer') \cup Members(older')
        BY DEF Stored, Members
      <3>2. QED
        BY <1>6, <2>1, <2>2, <2>3, <3>1 DEF Stored
    <2>8. QED
      BY <1>1, <1>3, <1>6, <2>1, <2>2, <2>4, <2>5, <2>6, <2>7, NextInv
  <1>12. CASE ~(older.n = 0 /\ t.size >= limit)
    <2>1. newer' = t /\ older' = older /\ migrate_pos' = migrate_pos
      BY <1>2, <1>12
    <2>2. MigrateInBounds'
      BY <1>3, <2>1 DEF MigrateInBounds
    <2>3. OpInv'
      BY <1>1, <1>4, <1>6, <1>10, <2>1 DEF OpInv
    <2>4. LoadInv'
      <3>1. newer'.n * k_max_load_factor = limit
        BY <2>1 DEF limit
      <3>2. Weight' = Weight + 1 /\ Weight \in Nat /\ older'.size = older.size
        BY <1>6, <2>1, Numbers DEF Weight
      <3>3. CASE older.n = 0
        BY <1>1, <1>6, <1>7, <1>12, <2>1, <3>1, <3>3, Numbers DEF LoadInv, Weight
      <3>4. CASE older.n # 0
        <4>1. newer.n # 0
          BY <1>3, <3>4 DEF OpInv
        <4>2. /\ Weight < limit
              /\ older.size = 0 => Weight + 1 < limit
          BY <1>1, <1>3, <1>7, <1>8, <3>2, <3>4, <4>1 DEF LoadInv
        <4>3. QED
          BY <1>1, <1>7, <3>1, <3>2, <4>2, Numbers DEF LoadInv
      <3>5. QED
        BY <3>3, <3>4
    <2>5. Stored' = Stored \cup {x}
      BY <1>6, <2>1 DEF Stored, Members
    <2>6. QED
      BY <1>1, <1>3, <1>5, <1>6, <2>1, <2>2, <2>3, <2>4, <2>5, NextInv
  <1>13. QED
    BY <1>11, <1>12

\* h_lookup in both tables; a deletion takes the node out of the one that has it.
LEMMA FindInv ==
  ASSUME HashInv, Find
  PROVE  /\ HashInv'
         /\ ret' = (op.node \in Stored)
         /\ Stored' = IF op.name = "delete" THEN Stored \ {op.node} ELSE Stored
  <1> DEFINE x == op.node
  <1>1. /\ pc = "find" /\ pc' = "idle" /\ op' = NoOp
        /\ migrate_pos' = migrate_pos /\ nwork' = nwork
        /\ ret' = (h_lookup(newer, x) \/ (~h_lookup(newer, x) /\ h_lookup(older, x)))
        /\ newer' = IF op.name = "delete" /\ h_lookup(newer, x)
                    THEN h_detach(newer, Bucket(newer, x), x) ELSE newer
        /\ older' = IF op.name = "delete" /\ ~h_lookup(newer, x) /\ h_lookup(older, x)
                    THEN h_detach(older, Bucket(older, x), x) ELSE older
    BY DEF Find
  <1>2. /\ Sound(newer) /\ Sound(older) /\ Members(newer) \cap Members(older) = {}
        /\ MigrateInBounds /\ OpInv /\ LoadInv /\ nwork \in Nat /\ migrate_pos \in Nat
        /\ x \in Node
    BY <1>1, InvOfTables
  <1> HIDE DEF x
  <1>3. /\ h_lookup(newer, x) <=> x \in Members(newer)
        /\ h_lookup(older, x) <=> x \in Members(older)
    BY <1>2, LookupFinds
  <1>4. Stored' = Members(newer') \cup Members(older')
    BY DEF Stored, Members
  <1>5. ret' = (x \in Stored) /\ ret' \in BOOLEAN
    BY <1>1, <1>3 DEF Stored
  <1>6. ASSUME NEW t, Sound(t), h_lookup(t, x)
        PROVE  Bucket(t, x) \in 0..(t.n - 1) /\ x \in t.tab[Bucket(t, x)]
    BY <1>2, <1>6, BucketInTable DEF h_lookup, Sound, IsTab
  <1>7. ASSUME Sound(newer'), Sound(older'), newer'.n = newer.n, older'.n = older.n,
               newer'.size \in Nat, older'.size \in Nat,
               Members(newer') \cap Members(older') = {},
               \A i \in 0..(older.n - 1) : older'.tab[i] \subseteq older.tab[i],
               \/ older'.size = older.size /\ newer'.size <= newer.size
               \/ older'.size = older.size - 1 /\ newer'.size = newer.size
        PROVE  HashInv'
    <2>1. MigrateInBounds'
      BY <1>1, <1>2, <1>7, Numbers DEF MigrateInBounds
    <2>2. OpInv'
      BY <1>1, <1>2, <1>7 DEF OpInv
    <2>3. LoadInv'
      <3>1. newer'.n * k_max_load_factor = newer.n * k_max_load_factor
        BY <1>7
      <3>2. Weight' = newer'.size + 2 * older'.size
        BY DEF Weight
      <3>3. newer.n # 0 => newer.size + 2 * older.size < newer.n * k_max_load_factor
        BY <1>1, <1>2, Numbers DEF LoadInv, Weight
      <3>4. newer.n # 0 /\ older.n # 0 /\ older.size = 0 =>
              newer.size + 1 < newer.n * k_max_load_factor
        BY <1>1, <1>2, Numbers DEF LoadInv, Weight
      <3>5. QED
        BY <1>1, <1>7, <3>1, <3>2, <3>3, <3>4, Numbers DEF LoadInv
    <2>4. QED
      BY <1>1, <1>2, <1>5, <1>7, <2>1, <2>2, <2>3, NextInv
  <1>8. CASE op.name = "delete" /\ x \in Members(newer)
    <2>1. newer' = h_detach(newer, Bucket(newer, x), x) /\ older' = older
      BY <1>1, <1>3, <1>8
    <2>2. /\ Sound(newer') /\ Members(newer') = Members(newer) \ {x}
          /\ newer'.n = newer.n /\ newer'.size = newer.size - 1 /\ newer.size > 0
      BY <1>2, <1>3, <1>6, <1>8, <2>1, DetachSound
    <2>3. Stored' = Stored \ {x}
      BY <1>2, <1>4, <1>8, <2>1, <2>2 DEF Stored
    <2>4. HashInv'
      BY <1>2, <1>7, <2>1, <2>2, Numbers
    <2>5. QED
      BY <1>5, <1>8, <2>3, <2>4 DEF x
  <1>9. CASE op.name = "delete" /\ x \notin Members(newer) /\ x \in Members(older)
    <2>1. older' = h_detach(older, Bucket(older, x), x) /\ newer' = newer
      BY <1>1, <1>3, <1>9
    <2>2. /\ Sound(older') /\ Members(older') = Members(older) \ {x}
          /\ older'.n = older.n /\ older'.size = older.size - 1 /\ older.size > 0
          /\ \A i \in 0..(older.n - 1) : older'.tab[i] \subseteq older.tab[i]
      BY <1>2, <1>3, <1>6, <1>9, <2>1, DetachSound
    <2>3. Stored' = Stored \ {x}
      BY <1>2, <1>4, <1>9, <2>1, <2>2 DEF Stored
    <2>4. HashInv'
      BY <1>2, <1>7, <2>1, <2>2, Numbers
    <2>5. QED
      BY <1>5, <1>9, <2>3, <2>4 DEF x
  <1>10. CASE ~(op.name = "delete" /\ x \in Members(newer) \cup Members(older))
    <2>1. newer' = newer /\ older' = older
      BY <1>1, <1>3, <1>10
    <2>2. Stored' = Stored /\ (op.name = "delete" => x \notin Stored)
      BY <1>4, <1>10, <2>1 DEF Stored
    <2>3. HashInv'
      BY <1>2, <1>7, <2>1, Numbers
    <2>4. QED
      BY <1>5, <2>2, <2>3 DEF x
  <1>11. QED
    BY <1>8, <1>9, <1>10

LEMMA ClearInv == HashInv /\ hm_clear => HashInv' /\ Stored' = {}
  <1> SUFFICES ASSUME HashInv, hm_clear
               PROVE  HashInv' /\ Stored' = {}
    OBVIOUS
  <1>1. /\ pc = "idle" /\ newer' = NoTab /\ older' = NoTab /\ migrate_pos' = 0
        /\ pc' = pc /\ op' = op /\ nwork' = nwork /\ ret' = ret
    BY DEF hm_clear
  <1>2. NoTab.n = 0 /\ NoTab.size = 0
    BY DEF NoTab
  <1>3. MigrateInBounds' /\ OpInv' /\ LoadInv'
    BY <1>1, <1>2, InvOfTables DEF MigrateInBounds, OpInv, LoadInv
  <1>4. Stored' = Members(newer') \cup Members(older')
    BY DEF Stored, Members
  <1>5. QED
    BY <1>1, <1>3, <1>4, EmptyTables, InvOfTables, NextInv

LEMMA StepInv == HashInv /\ [Next]_vars => HashInv'
  <1> SUFFICES ASSUME HashInv, [Next]_vars
               PROVE  HashInv'
    OBVIOUS
  <1>1. CASE \E x \in Node : hm_lookup(x) \/ hm_delete(x)
    BY <1>1, EnterInv DEF hm_lookup, hm_delete
  <1>2. CASE \E x \in Node : hm_insert(x)
    BY <1>2, InsertInv
  <1>3. CASE UNCHANGED vars
    <2>1. /\ newer' = newer /\ older' = older /\ migrate_pos' = migrate_pos /\ pc' = pc
          /\ op' = op /\ nwork' = nwork /\ ret' = ret
      BY <1>3 DEF vars
    <2>2. MigrateInBounds' /\ OpInv' /\ LoadInv'
      BY <2>1, InvOfTables DEF MigrateInBounds, OpInv, LoadInv, Weight
    <2>3. QED
      BY <2>1, <2>2, InvOfTables, NextInv
  <1>4. QED
    BY <1>1, <1>2, <1>3, ClearInv, HelpSkipInv, HelpMoveInv, HelpReturnInv, FindInv
       DEF Next, Call, Inside

-----------------------------------------------------------------------------
(* The theorems.                                                           *)

\* Whatever the order of insertions, lookups, deletions and turns of the
\* migration, the tables satisfy the invariant.
THEOREM HashInvariant == Spec => []HashInv
  BY InitInv, StepInv, PTL DEF Spec

\* The fields of both tables keep their types; no size wraps below zero.
THEOREM TypeCorrect == Spec => []TypeOK
  <1>1. HashInv => TypeOK
    BY DEF HashInv
  <1>2. QED
    BY <1>1, HashInvariant, PTL

\* Every node is in the bucket of its hash code, in one of the tables only.
THEOREM NodesInPlaceCorrect == Spec => []NodesInPlace
  <1>1. HashInv => NodesInPlace
    BY DEF HashInv
  <1>2. QED
    BY <1>1, HashInvariant, PTL

\* The size fields count the nodes of their tables.
THEOREM SizesCountCorrect == Spec => []SizesCount
  <1>1. HashInv => SizesCount
    BY DEF HashInv
  <1>2. QED
    BY <1>1, HashInvariant, PTL

\* The scan of hm_help_rehashing stays inside the older table.
THEOREM MigrateInBoundsCorrect == Spec => []MigrateInBounds
  <1>1. HashInv => MigrateInBounds
    BY DEF HashInv
  <1>2. QED
    BY <1>1, HashInvariant, PTL

\* One node moved per call is enough, whatever the load factor: the newer
\* table is never overfull between operations.
THEOREM LoadBoundedCorrect == Spec => []LoadBounded
  <1>1. HashInv => LoadBounded
    BY Numbers DEF HashInv, LoadInv, Weight, LoadBounded
  <1>2. QED
    BY <1>1, HashInvariant, PTL

\* The two tables implement one map: calls take effect and answer as in Dict,
\* and the steps of a migration are invisible.
THEOREM Refinement == Spec => DictRefined
  <1>1. Init => Abs!DInit
    <2> SUFFICES ASSUME Init
                 PROVE  Abs!DInit
      OBVIOUS
    <2>1. Stored = {}
      BY EmptyTables DEF Init, Stored
    <2>2. QED
      BY <2>1 DEF Init, Abs!DInit, NoOp, Abs!NoOp
  <1>2. HashInv /\ [Next]_vars => [Abs!DNext]_(Abs!dictVars)
    <2> SUFFICES ASSUME HashInv, [Next]_vars
                 PROVE  Abs!DNext \/ UNCHANGED <<Stored, op, ret>>
      BY DEF Abs!dictVars
    <2> USE DEF Abs!DNext
    <2>0. (pc = "idle" => op.name = "none")
          /\ (pc # "idle" => op.name \in {"lookup", "insert", "delete"} /\ op.node \in Node)
      BY InvOfTables DEF OpInv, NoOp
    <2>1. ASSUME NEW x \in Node, NEW name \in {"lookup", "delete"}, Enter(name, x),
                 newer' = newer, older' = older, ret' = ret
          PROVE  Abs!DNext
      <3>1. Stored' = Stored
        BY <2>1 DEF Stored, Members
      <3>2. Abs!DCall(name, x)
        BY <2>0, <2>1, <3>1 DEF Enter, Abs!DCall
      <3>3. QED
        BY <3>2
    <2>2. ASSUME NEW x \in Node, hm_insert(x)
          PROVE  Abs!DNext
      <3>1. Stored' = Stored \cup {x}
        BY <2>2, InsertInv
      <3>2. Abs!DCall("insert", x)
        BY <2>0, <2>2, <3>1 DEF hm_insert, Enter, Abs!DCall
      <3>3. QED
        BY <3>2
    <2>3. CASE hm_clear
      <3>1. Stored' = {}
        BY <2>3, ClearInv
      <3>2. Abs!DClear
        BY <2>0, <2>3, <3>1 DEF hm_clear, Abs!DClear
      <3>3. QED
        BY <3>2
    <2>4. CASE HelpSkip
      BY <2>4 DEF HelpSkip, Stored, Members
    <2>5. CASE HelpMove
      BY <2>5, HelpMoveInv DEF HelpMove
    <2>6. CASE HelpReturn
      <3>1. Stored' = Stored
        BY <2>6, HelpReturnInv
      <3>2. CASE op.name = "insert"
        <4>1. Abs!DReturn
          BY <2>6, <3>1, <3>2 DEF HelpReturn, Abs!DReturn, NoOp, Abs!NoOp
        <4>2. QED
          BY <4>1
      <3>3. CASE op.name # "insert"
        BY <2>6, <3>1, <3>3 DEF HelpReturn
      <3>4. QED
        BY <3>2, <3>3
    <2>7. CASE Find
      <3>1. op.name # "insert" /\ op.name # "none"
        BY <2>0, <2>7, InvOfTables DEF Find, OpInv
      <3>2. Abs!DReturn
        BY <2>7, <3>1, FindInv DEF Find, Abs!DReturn, NoOp, Abs!NoOp
      <3>3. QED
        BY <3>2
    <2>8. CASE UNCHANGED vars
      BY <2>8 DEF vars, Stored, Members
    <2>9. QED
      BY <2>1, <2>2, <2>3, <2>4, <2>5, <2>6, <2>7, <2>8
         DEF Next, Call, Inside, hm_lookup, hm_delete
  <1>3. QED
    BY <1>1, <1>2, HashInvariant, PTL DEF Spec, DictRefined, Abs!DSpec
=============================================================================
