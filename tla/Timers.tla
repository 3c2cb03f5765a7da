------------------------------- MODULE Timers -------------------------------
(***************************************************************************)
(* What the TTL machinery of the server promises, with no heap in sight:   *)
(* every key of the database has at most one deadline, a deadline is set,  *)
(* replaced and dropped by the commands on its own key only, and the       *)
(* server evicts a key only in a sweep between two commands, only after    *)
(* its deadline, and the earliest one first.                               *)
(*                                                                         *)
(* TtlHeap (heap.cpp and the Entry helpers of server.cpp) implements this  *)
(* specification.                                                          *)
(***************************************************************************)
EXTENDS Integers

CONSTANTS
  Key,      \* the keys of the database
  Ttl,      \* the non-negative TTLs (ms) that clients ask for
  MaxNow    \* bound of the model: the clock stops there

VARIABLES
  now,      \* the monotonic clock
  db,       \* the set of keys present
  expire,   \* expire[k]: the deadline of k, or NoTtl
  sweeping  \* the server is evicting and serves no command

timerVars == <<now, db, expire, sweeping>>

NoTtl == -1

TInit ==
  /\ now = 0
  /\ db = {}
  /\ expire = [k \in Key |-> NoTtl]
  /\ sweeping = FALSE

TTick ==
  /\ now < MaxNow
  /\ now' = now + 1
  /\ UNCHANGED <<db, expire, sweeping>>

\* SET or ZADD of a key that is not there: the new key has no deadline.
TInsert(k) ==
  /\ ~sweeping
  /\ k \notin db
  /\ db' = db \cup {k}
  /\ UNCHANGED <<now, expire, sweeping>>

TSetTtl(k, ttl) ==
  /\ ~sweeping
  /\ k \in db
  /\ expire' = [expire EXCEPT ![k] = now + ttl]
  /\ UNCHANGED <<now, db, sweeping>>

TPersist(k) ==
  /\ ~sweeping
  /\ k \in db
  /\ expire' = [expire EXCEPT ![k] = NoTtl]
  /\ UNCHANGED <<now, db, sweeping>>

TRemove(k) ==
  /\ db' = db \ {k}
  /\ expire' = [expire EXCEPT ![k] = NoTtl]
  /\ UNCHANGED <<now, sweeping>>

TDel(k) == ~sweeping /\ k \in db /\ TRemove(k)

TSweepBegin == ~sweeping /\ sweeping' = TRUE /\ UNCHANGED <<now, db, expire>>
TSweepEnd == sweeping /\ sweeping' = FALSE /\ UNCHANGED <<now, db, expire>>

\* The deadline of k has passed and no other key is due before k.
TEvict(k) ==
  /\ sweeping
  /\ k \in db
  /\ expire[k] # NoTtl
  /\ expire[k] < now
  /\ \A j \in Key : expire[j] # NoTtl => expire[k] <= expire[j]
  /\ TRemove(k)

TNext ==
  \/ TTick \/ TSweepBegin \/ TSweepEnd
  \/ \E k \in Key :
       \/ TInsert(k)
       \/ \E ttl \in Ttl : TSetTtl(k, ttl)
       \/ TPersist(k)
       \/ TDel(k)
       \/ TEvict(k)

TSpec == TInit /\ [][TNext]_timerVars
=============================================================================
