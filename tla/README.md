# Verification of redis-lite

redis-lite is a single-threaded key-value server: a `poll` loop, a
length-prefixed binary protocol, a hash table that resizes a little at a time,
a binary heap of key deadlines, a linked list of idle connections and sorted
sets on an AVL tree.  This directory models the server from the bytes of a
request to the pointers of its data structures, together with its clients,
checks the models with TLC on small instances, and proves the safety of all of
them with TLAPS for every size: the TTL heap, the hash table, the connection
protocol, the event loop with its idle list, the sorted sets, and the keyspace
with its wire format.

Contents: [the system](#the-system) · [modules](#modules) ·
[runs](#runs) · [findings](#findings) · [fairness](#fairness) ·
[proofs](#proofs) · [limits](#what-is-not-modelled) · [plan](#plan).

## The system

| Component | State | Operations | What makes it correct |
|---|---|---|---|
| TTL heap (`heap.cpp`) | array of `(val, ref)`; `ref` points at the `heap_idx` field of an Entry | `heap_update` (`heap_up`, `heap_down`), `heap_upsert`, `heap_delete` | heap order; array and `heap_idx` fields point at each other |
| TTLs and eviction (`server.cpp`: `entry_set_ttl`, `entry_del`, `process_timers`) | `g_data.heap`, `Entry::heap_idx`, the clock sample, the batch counter | PEXPIRE, DEL, creation of keys, the timer sweep | only a key whose deadline has passed is evicted, the earliest first, and each one eventually |
| Event loop (`main`, `handle_accept`, `conn_destroy`, `next_timer_ms`, `process_timers`) | `fd2conn`, `idle_list`, `poll_args`, `revents`, the poll timeout | build `poll_args`, poll, accept, serve each descriptor, close, expire, evict | the snapshot given to poll never names a destroyed connection; table, list and kernel agree; poll sleeps exactly to the next timer |
| Connection (`handle_read`, `try_one_request`, `handle_write`) | `incoming`, `outgoing`, three intents | read, parse and run, write | requests run once and in order; responses form one stream; nothing complete is left waiting |
| Hash table (`hashtable.cpp`) | two tables, `migrate_pos` | `hm_lookup`, `hm_insert`, `hm_delete`, `hm_clear`, `hm_size`, `hm_help_rehashing`, `hm_trigger_rehashing` | two tables behave as one map at every step of a migration, and migrations end in time |
| Intrusive list (`list.h`) | circular doubly linked nodes | init, detach, insert before, empty | forward and backward links undo each other and go around exactly the members |
| Commands (`do_request`) | the Entries: string or sorted set, and TTL | GET, SET, DEL, KEYS, PEXPIRE, PTTL, Z\* | a command that fails changes nothing; a key lives as long as PTTL said and is gone after its deadline |
| Sorted sets (`zset.cpp`, `avl.cpp`) | a hash index and an AVL tree over the same nodes, with subtree sizes and heights | insert, delete, seek, offset, clear | both indexes hold the same members; balance, order and counts |
| Wire format (`parse_req`, `out_*`, `response_end`, and the clients' side) | none | write and parse requests; write and read tagged values | decoding inverts encoding at both ends; exactly the encodings are accepted; limits hold |
| Hash function (`common.h`) | none | `str_hash` | deterministic |
| Clients (`client.cpp`, `benchmark.cpp`, `aphelo.py`) | a socket | blocking request and response, or a burst | they read what the server wrote; a burst is served, if the client reads meanwhile or the socket buffers hold it |

How they interact.  `main` runs everything in one thread.  A turn takes a
snapshot of the connections, asks `next_timer_ms` (head of the idle list, root
of the TTL heap) how long to sleep, polls, accepts at most one client, serves
the snapshot in descriptor order, and ends with `process_timers`.  Serving a
descriptor may run several requests; a request reaches the hash table (which
migrates a few nodes on each call), and through `entry_set_ttl` and `entry_del`
the heap, whose moves write back into the Entries through raw pointers.

What is hard here is order, not parallelism: time passes between the clock
samples of one turn; descriptors are closed and reused while a snapshot of them
is in use; reads and writes stop in the middle of a message; signals restart
the turn before its timers ran; clients vanish with responses pending;
operations arrive in the middle of a migration; one stale back-pointer in the
heap surfaces many commands later.  `PROJECT.json` lists each of these hazards
at its line together with the properties that would catch it.

## Modules

| Module | Models | Notes |
|---|---|---|
| `Timers` | abstract specification | at most one deadline per key; commands between sweeps; a sweep evicts only after the deadline and the earliest key first |
| `TtlHeap` | `heap.cpp`, the Entry helpers and the TTL half of `process_timers` | implements `Timers` |
| `TtlHeapProofs` | | the theorems about `TtlHeap` |
| `MCTtlHeap` | | symmetry set |
| `DList` | `list.h` | operators on the links of a circular list |
| `DListProofs` | | what the operations do to the links; when links are a list |
| `EventLoop` | `main`, `handle_accept`, the intents, `conn_destroy`, `next_timer_ms`, `process_timers` | composes the loop with `Timers` as its database and `DList` as its idle list |
| `EventLoopProofs` | | the theorems about `EventLoop` |
| `MCEventLoop` | | history variable: when each client last did something |
| `Connection` | `handle_read`, `try_one_request`, `handle_write`, socket buffers and a client | one connection, token by token |
| `ConnectionProofs` | | the theorems about `Connection` |
| `Dict` | abstract specification | a set of keys; a call answers for its own key |
| `HashTable` | `hashtable.cpp` | implements `Dict` |
| `HashTableProofs` | | the theorems about `HashTable` |
| `MCHashTable` | | the hash codes |
| `Avl` | `avl.cpp` | operators on a tree of nodes with parent pointers, heights and counts |
| `AvlProofs` | | what rotating, fixing, attaching, detaching and replacing do to any search tree |
| `ZSet` | `zset.cpp` and the sorted-set part of the Z\* commands | drives the loops of `Avl`; its hash index is the set of `Dict` |
| `MCZSet` | | the queries; a history variable that counts the turns of `avl_offset` |
| `ZSetProofs` | | the theorems about `ZSet` and about the history of `MCZSet` |
| `Wire` | `parse_req`, `out_*`, `response_end`; `pack_command`, `send_req`, `read_res`, `print_response`, `_execute` | operators on messages |
| `Keyspace` | `do_request` and all commands, with `str2int`, `str2dbl`, `entry_set_ttl` and the TTL half of `process_timers` | composes `Wire` with the contracts of `Dict`, `Timers` and `ZSet` |
| `KeyspaceProofs` | | the theorems about `Keyspace`, and what the encoders and parsers of `Wire` return |
| `MCKeyspace` | | keys, commands and malformed messages |

A definition named `D_Fault` is `D` with a plausible bug in it.  No
specification uses it; `PROJECT.json` pairs each property with the fault that
the property detects when `D` is replaced by it.

**TtlHeap.**  `heap` is `g_data.heap` (positions from 0), `heap_idx[k]` the
field of the Entry of `k` (`NoIdx` for `(size_t)-1`), `db` the keys in the hash
table.  An item's `ref` is the key whose field the C++ pointer addresses.
Each iteration of `heap_up` and of `heap_down` is a step; `item` is the local
`t` that the loop carries and `pos` the hole it leaves in the array.
Commands and sweeps start only when no loop is running.  A sweep is
`SweepBegin` (sample the clock), `Evict` once per key, and `SweepEnd`.  Only
the clock moves while any of them is in progress.

**EventLoop.**  `pc` names the place in the turn.  `poll_args` holds the descriptors
of the snapshot that are still to be served; `revents` is chosen freely among the
events `main` asked for, and errors.  The kernel hands out the lowest free
descriptor, so descriptors are reused.  A connection keeps its three flags, its
timestamp and the number of responses not yet written; a request does to the keys
and deadlines what an action of `Timers` allows.  The idle list is the pair of link
functions of `DList`, with `Head` for `g_data.idle_list`; the links of a destroyed
connection are forgotten, because its memory is freed.  The cast to `int32_t` in
`next_timer_ms` is kept, at a width of `IntBits`.

**Connection.**  A request and a response are two tokens each, header and body;
reads and writes stop between any two.  Requests are good, malformed (rejected
by `parse_req`) or too long.  The client may shut down its side, or vanish,
which turns later writes into errors: a reset, or a broken pipe.  The error of a
broken pipe also raises SIGPIPE.  A read with an error pending returns the error or
the data that came before it; which of the two is up to the kernel.  An `early`
client reads responses as they come, a `late` one, as `benchmark.cpp`, only after it
has sent everything.

**HashTable.**  A table is a number of buckets, the chain of each bucket as a
set, and the `size` field; a table with no buckets is the null table.  Each
turn of the loop of `hm_help_rehashing` is a step, and the rest of the operation
(`Find`, or the insertion with its possible resize) follows it.  As in the
server, a key that is present is not inserted again.

**Avl and ZSet.**  A tree is one function per field of `AVLNode`, so that a
pointer that is not updated shows.  A node is named after its member.  `ZSet`
runs an operation as the code does: ZADD of a new name links the node into the
hash index, searches, attaches and rebalances (`SearchStep`, `FixStep`); a new
score detaches the node first (`StartDel`, `FixStep`, `Detached`); ZREM only
detaches; ZQUERY seeks, moves by the offset and then by one after each member it
writes (`SeekStep`, `OffsetStep`, `Output`).  `op` holds the request, `out` the
output of ZQUERY.  Names and scores are integers with their order.

**Wire.**  A message is a sequence of integers, the cells.  A tag, a length, a number
and a byte of a string take one cell each whatever their width in bytes, so a
misread length or count makes the reader take one for another, as in the
program.  The text of an error is one cell.  The readers check each length against
what is left before they use it, in the order of the code.  `print_response` calls
itself for the elements of an array, which are arrays or values in turn; the model
runs these calls one after the other (`print_value`) and carries the number of
values still to come (`left`) instead of the stack.

**Keyspace.**  One client at a time sends a message (`phase` goes from `idle`
to `sent`), the server runs it or closes the connection (`replied`, `closed`),
the client reads the reply.  Several clients need no more: the server runs their
requests one after the other.  Running a request is a step, and so is a sweep;
that their parts may be taken at their word is what the runs of the other modules
show: `HashTable` implements `Dict`, `TtlHeap` implements `Timers`, `ZSet`
answers queries exactly.  ZQUERY takes the members by their rank in the set, and
announces what its counter says (`ZQueryCount`), apart from what it writes.  KEYS
announces the number of keys, in place of `hm_size`, and lists them in any order; that
`hm_size` is that number is `SizesCount` of `HashTable`.
`str2int` reads sign and digits and accepts the empty string as 0, as `strtoll`
with `endp` does; scores are whole numbers, read the same way.  `meant`,
`promise` and `swept` are history: the items of the reply before they are
encoded, how long the last PTTL said the key would stay, and the clock at the
end of the last sweep that left nothing overdue.  `ClientReadsReply` decodes
each reply with both clients' readers.

## Runs

| Run | Instance | What it shows |
|---|---|---|
| `heap_order` | 6 keys, TTLs 0-2, clock stopped | heap order and back-pointers after every sequence of commands |
| `heap_sweep` | 4 keys, clock 0-2, batches of 2 | no ghost timer; the root is the earliest timer; sweeps are complete; `Timers` is implemented; overdue keys go |
| `loop_turns` | 2 descriptors, 2 keys, TTLs 0-2, idle timeout 1, clock 0-2 | no stale `Conn`; table and list agree, the links are sound in both directions; the list is ordered by age; poll sleeps to the next of both timers; every overdue key is evicted |
| `conn_order` | up to 5 requests of every kind, socket buffers of 4 and 3 tokens, clients that read at once or after sending everything | order and integrity of both streams; nothing left behind; every response arrives, if the client reads at once or its burst fits the buffers |
| `hash_map` | 6 nodes, 2 to 8 buckets | placement, counts, scan bounds, load; `Dict` is implemented; migrations end |
| `zset_index` | 6 members, 2 scores, 25 queries | both indexes agree; order, links, balance and counts; exact and short ZQUERY |
| `keyspace` | 2 keys, 33 commands, 342 messages of other clients, clock 0-3, batches of 1 | both ends agree on every message; failed commands leave no trace; keys live as long as PTTL said |
| `heap_batch`, `loop_wrap`, `loop_idle`, `conn_sigpipe`, `conn_burst` | | the findings below |

Why the bounds are enough.

* Six keys are the smallest heap in which removing a timer puts the last item
  under a later parent in another branch, so that it must move up.  TTLs need
  three values for an item to be earlier than, equal to or later than another.
* A batch of two with four keys gives sweeps that end because nothing is due and
  sweeps that end because the batch is used up.  The clock stops at `MaxNow`;
  liveness speaks only of deadlines before it.
* With two descriptors one can be served or closed and the other accepted (and
  reused) in the same turn, and either may be the older one in the list.  Longer
  lists are left to the theorems, which hold for any number of descriptors.
  One unwritten response (`MaxOut`) is enough for both outcomes of a write; how
  much of the output it takes is the subject of `Connection`.
* An idle timeout of 1 and TTLs of 0 to 2 put a key's timer before, at and behind
  the idle timer.  A batch of one with two keys makes a sweep leave an overdue key.
* `IntBits` scales the 32-bit argument of `poll` down: 3 bits in `loop_turns`, where
  no distance is above 3, and 4 in `loop_wrap`, where one is above 7.
* An odd buffer towards the client and reads shorter than the one towards the
  server, with messages of two tokens, cut reads and writes at every place.
* Before the server stops reading it has answered at least one token more than the
  buffer towards the client holds, and a late client can then still send what the
  other buffer holds.  So it is served if it sends no more than the two buffers and
  one token (`FitsBuffers`).  In `conn_order` four requests are exactly that much,
  and a late client with five does get stuck, so that `EveryRequestAnswered` would
  fail with a weaker condition.
* The keys of `keyspace` have seven cells and messages are limited to 19 in the
  server and 10 in `client.cpp`: KEYS is too big for the server with both keys
  and for that client with one, some commands are too long for it to send, and
  one is too long for the server.  All commands go to one key; the other is there for the size of
  KEYS, and for two keys that are overdue in a sweep that may evict one.
  Foreign messages are all those of up to four cells from 0 to 3; they meet an
  empty database, because what they are refused for does not depend on it.
* Two initial buckets, a load factor of 1 and one migrated node per call make
  six insertions cross two resizes with the first migration barely finished.
  Two nodes share a hash code and others collide in the small table only.
* Six members give all four rotations on insertion and on deletion, and the
  removal of a node whose successor is its child, is deeper, or whose
  detachment rotates the node itself.  Two scores make names decide some
  comparisons.  A removal that rotates at two levels needs twelve members and is
  out of reach.  The queries start before, inside and behind the set, and their
  offsets leave it on both sides.

Deadlock is checked except in the runs of `Connection`, where a closed
connection and an exhausted script stop the system.

## Findings

* `heap_batch`: `process_timers` compares `nworks++ >= k_max_works` after
  an eviction (`server.cpp:906`), so a call evicts 2001 keys where the comment
  says no more than 2000.
* `loop_wrap`: `next_timer_ms` cuts the distance to 32 bits
  (`server.cpp:860`).  With no client connected and a TTL of 25 days the timeout
  is negative and `poll` sleeps until somebody connects.
* `loop_idle`: `main` refreshes the timestamp of every connection in every
  turn (`server.cpp:988`), not only of those with an event.  A silent client is
  not disconnected; the model with the refresh guarded by `revents` satisfies
  the same property.
* `conn_sigpipe`: a client that closes while responses are pending ends the
  server through SIGPIPE, before the error branch of `handle_write` runs
  (`server.cpp:770`).
* `conn_burst`: the server reads nothing while it has output (`server.cpp:830`).
  A client that writes everything before it reads, as `benchmark.cpp` does, and
  writes more than the socket buffers hold, waits for the server to read while the
  server waits for it to read; the README says of this way of sending 100,000
  commands that the server processes it.  `BurstsThatFit` proves the bound below
  which this does not happen.

One divergence has no run of its own because it concerns cost only:
`hm_help_rehashing` does not count empty slots as work (`hashtable.cpp:49`), so
one call may run through a whole table where the comment says 128 turns.

## Fairness

* `TtlHeap`: a running loop or sweep goes on (weak fairness; one thread).
  `process_timers` is called in every turn that poll lets through; commands may
  come in between, hence strong fairness of `SweepBegin`.  The clock runs.
* `EventLoop`: the server takes its steps and the clock runs (weak).  An
  interrupted `poll` restarts the turn without timers, so a poll whose timeout
  is over is only assumed to return eventually if it has the opportunity again
  and again (strong): signals do not hit every poll.  Nothing is assumed of the
  clients.
* `Connection`: poll reports what is ready and `main` serves it; the client goes
  on sending while there is room, and reading when it reads at all.
* `HashTable`: operations run to their end and clients keep looking up keys.
  Migration progresses only inside operations, so without this it need not end.
* `Keyspace` states no fairness; that overdue keys go is shown by `TtlHeap`
  and `EventLoop`.
* `ZSet` states no fairness.  That its loops end is shown by
  `OffsetIsLogarithmic` and by the absence of deadlock; the other loops move along
  one path of the tree.

## Proofs

Each `...Proofs` module proves its theorems for all values of the constants that
satisfy the assumptions of the component's module.  The inductive invariants are
defined in the component's module, under their own heading, except two that TLC
could not evaluate and that are in the proof module: `Inv` of `ZSetProofs` speaks of
the set of nodes below each node, `ReplyInv` of `KeyspaceProofs` of all lists of
items.

| Module | Theorem | Statement |
|---|---|---|
| `TtlHeapProofs` | `HeapInvariant` | `Spec => []HeapInv` |
| | `TypeCorrect` | `Spec => []TypeOK` |
| | `HeapOrderCorrect` | `Spec => []HeapOrder` |
| | `BackRefsCorrect` | `Spec => []BackRefs` |
| | `NoGhostTimerCorrect` | `Spec => []NoGhostTimer` |
| | `RootIsEarliestCorrect` | `Spec => []RootIsEarliest` |
| | `SweepIsCompleteCorrect` | `Spec => SweepIsComplete` |
| | `Refinement` | `Spec => TimersRefined` |
| `HashTableProofs` | `HashInvariant` | `Spec => []HashInv` |
| | `TypeCorrect` | `Spec => []TypeOK` |
| | `NodesInPlaceCorrect` | `Spec => []NodesInPlace` |
| | `SizesCountCorrect` | `Spec => []SizesCount` |
| | `MigrateInBoundsCorrect` | `Spec => []MigrateInBounds` |
| | `LoadBoundedCorrect` | `Spec => []LoadBounded` |
| | `Refinement` | `Spec => DictRefined` |
| `ConnectionProofs` | `ConnInvariant` | `Spec => []ConnInv` |
| | `TypeCorrect` | `Spec => []TypeOK` |
| | `ResponsesInOrderCorrect` | `Spec => []ResponsesInOrder` |
| | `RunsInOrderCorrect` | `Spec => []RunsInOrder` |
| | `NothingLeftBehindCorrect` | `Spec => []NothingLeftBehind` |
| | `IntentCorrect` | `Spec => []IntentMatchesBuffers` |
| | `AnsweredCorrect` | `Spec => []AnsweredBeforeClose` |
| | `BurstsThatFit` | `Spec => [](FitsBuffers => NeverBothWait)` |
| `DListProofs` | `CycleIsList` | linked nodes in one cycle are a list of exactly those nodes |
| `EventLoopProofs` | `LoopInvariant` | `Spec => []LoopInv` |
| | `TypeCorrect` | `Spec => []TypeOK` |
| | `PolledIsLiveCorrect` | `Spec => []PolledIsLive` |
| | `TableAgreesCorrect` | `Spec => []TableAgrees` |
| | `IdleListByAgeCorrect` | `Spec => []IdleListByAge` |
| | `SleepsCorrect` | if `TimersFit`: `Spec => []SleepsToNextTimer` |
| `ZSetProofs` | `ZSetInvariant` | `Spec => []Inv` |
| | `TypeCorrect` | `Spec => []TypeOK` |
| | `LinksCorrect` | `Spec => []LinksAgree` |
| | `BalanceCorrect` | `Spec => []Balanced` |
| | `CountsCorrect` | `Spec => []CountsExact` |
| | `IndexesCorrect` | `Spec => []IndexesAgree` |
| | `OffsetCorrect` | `HSpec => []OffsetIsLogarithmic` |
| | `QueryCorrect` | `Spec => QueryIsExact` |
| `KeyspaceProofs` | `KeyInvariant` | `Spec => []KeyInv` |
| | `ReplyInvariant` | `Spec => []ReplyInv` |
| | `TypeCorrect` | `Spec => []TypeOK` |
| | `ClientReadsCorrect` | `Spec => []ClientReadsReply` |
| | `LifetimeCorrect` | `Spec => []LifetimeAsPromised` |
| | `ErrorsCorrect` | `Spec => ErrorsChangeNothing` |
| | `AcceptsCorrect` | if `CommandsFit`: `Spec => AcceptsExactlyCommands` |

**The TTL heap.**  `HeapOrder` and `BackRefs` are not inductive: in the middle of a
sift loop the array holds a stale copy at the hole `pos`, and the item carried by
the loop is in no slot.  `HeapInv` describes that situation.
`OrderAroundHole` orders every pair away from the hole; `OrderAcrossHole` orders
the hole's parent and its children, which is what allows the hole to be filled
from either side; `UpFits` and `DownFits` say on which side the carried item
already fits, for `heap_up` and for `heap_down`; `LinksAroundHole` is the
agreement of array and back-pointers except at the hole.  `SampleIsPast` ties
the clock sample of a sweep to the clock.  `SiftEntry` and `DropTimerInv` cover
the entry into a loop after `heap_upsert` and `heap_delete`, `MoveHole` a turn of
a loop, `SiftReturnInv` its end; `MinPosFacts` states what the search for the
smallest child returns.

That the root is the earliest timer (`RootFacts`) would be an induction along
the path to the root.  It is proved from the least counterexample instead: the
lowest position whose timer is earlier than the root's has a parent that is
lower still and no later, a contradiction (`LeastOf`, from the well-foundedness
of the natural numbers).  Completeness of a sweep follows from it.
For the refinement, `Deadline` reads a key's deadline through its back-pointer
or from the item the loop carries; loop steps leave it alone
(`SiftKeepsDeadlines`), and each command changes that of its own key only
(`DropTimerDeadlines`, `ExpireDeadlines`).  `Timers` also sees whether a sweep
is in progress (`Sweeping`): without that, an eviction that comes too early
would be indistinguishable from a DEL.

**The hash table.**  Both tables are sound (every node in the bucket of its code,
`size` the number of nodes), they share no node, and the buckets of `older` below
`migrate_pos` are empty; as long as `older` has a node there is therefore one at or
behind `migrate_pos`.  That migrations end in time is an amortised argument: a node
that waits in `older` counts twice, once for its place in `newer` and once for the
node whose insertion moves it, and the weight `newer.size + 2 * older.size` stays
below `newer.n * k_max_load_factor` (`LoadInv`).  A resize doubles the buckets, which
makes room for its own weight; an insertion adds one and the node that it moves
takes one off, so the limit is touched only in between.  This holds for every load
factor and every `k_rehashing_work` of at least 1; the code has 8 and 128.  For the
refinement, a step of the migration leaves the union of the tables alone, and a
lookup in two tables finds what is in the union.

**The connection.**  The requests that ran, `incoming` and the socket's receive
buffer are consecutive segments of the stream that the client has sent
(`InStream`); what the client has read, the socket's send buffer and `outgoing`
are consecutive segments of the responses to what ran (`OutStream`).  Every read,
run and write moves a border between two segments, and never a token.  `IntentInv`
ties the intents to the buffers, in the middle of `handle_read` too; `CloseInv`
says that the server leaves a client whose requests are all good only when the
client has ended its stream.  `BurstsThatFit` counts the two streams: with output left
and a full send buffer more than `TxCap` tokens of requests have run, and with a full
receive buffer `RxCap` more have been sent.

**The idle list and the event loop.**  `Linked` says that forward and backward
links undo each other and stay among the nodes, `OneCycle` that no proper part of
the nodes is closed under the links.  Neither mentions an order, so both are easy
to carry through `dlist_detach` and `dlist_insert_before` (`DetachFacts`,
`InsertFacts`).  `CycleIsList` turns them into what `TableAgrees` asks, that the
walk from the head meets every member once and comes back: the nodes of the walk
up to its first return are closed under the links, so they are all nodes.
`LinkInv` applies it to `idle_list` and `fd2conn`, `PollInv` says that what is left of
the snapshot is still open whatever was closed or accepted in between, `AgeInv`
that the list is ordered by age and no connection was active in the future.

The finding `loop_wrap` shows that `SleepsToNextTimer` fails when a TTL is too
long.  `SleepsCorrect` is the other half: if every TTL and the idle timeout fit
(`TimersFit`), the cast changes nothing and poll sleeps to exactly the next timer.

**The sorted sets.**  A statement about a tree is usually an induction over it. Here
a tree is known by a function `B` that gives the set of nodes below each node, whose
existence is part of what it means to be a tree (`IsTree` in `AvlProofs`): the node
itself and what is below its children, everything on the left before it and
everything on the right behind it.  Operations then act on sets: a rotation changes
`B` at two nodes, attaching and detaching at the nodes above, and what was an
induction is a least counterexample among the nodes.  The shape is stated about the
two functions that hold the children, so the facts about a right rotation are those
about a left one with the functions exchanged and the order reversed.

`Inv` says that the nodes that are in the tree at the moment (`Members`, which
depends on how far an operation has come) form a search tree.  Heights and counts are
exact except while `avl_fix` climbs: then (`Fixing`) every node agrees with its
children and is balanced but the one `avl_fix` is at, which leans by two at most,
and its parent, which still has the height and count from before the change; that
height is off by one at most.  A turn of the loop therefore has only the four
rotations to consider and leaves an exact node behind.  While a node with two
children is removed, its successor is detached first and put in its place
afterwards; `SwapOK` keeps what the second step needs after the rotations in
between.  During a search the place that is left is the only one where the new node
is in order (`SearchOK`).

`BalanceCorrect`, `LinksCorrect` and `CountsCorrect` follow at the end of an
operation. `IndexesCorrect` compares the tree with a recursive function over it
(`Inorder`); it has a value because the tree is finite (`WalkExists`), and it lists
the nodes below a node in order (`Lists`, `ListsConcat`).  `OffsetCorrect` needs
`TurnsOK`: `avl_offset` climbs until the target is within the subtree and then
descends, and never climbs again, so its turns are bounded by twice the
height.  `QueryCorrect` is the whole of ZQUERY: the seek narrows the candidates to
the first member that is not before the key (`Narrows`), `pos` is the distance in
rank all along the way of `avl_offset` (`OffsetTracks`), the output grows by the
member of the next rank (`AnswersGrow`), and since ranks are different for different
members (`PlaceInjective`) the answer is the expected one.

**The keyspace.**  `KeyInv` adds to `LifetimeAsPromised` the types and `PromiseInv`:
what was promised for a key is no later than its deadline.  A sweep takes only keys
whose deadline has passed, so nothing is promised for them any more.  The types need
what the loops of the program return: `parse_req`, the reading of numbers and the
encoders are recursive functions over data, and induction over them is out of the
prover's reach.  `LoopExists` and `LoopUnique` replace it, once for all of them: a
loop whose turns stay in a set has a run in that set, and whatever takes the same
turns ends in the same state; both, and the invariants of such a loop (`Stepwise`),
are proved from the least counterexample.  `ErrorsCorrect` computes the replies that
carry no error (`ResponseFacts`) and shows that the remaining ones, `0` among them,
come from commands that changed no key and no member.

`AcceptsCorrect` is the correctness of `parse_req` against `pack_command`.  In one
direction (`ParseSound`) the cells that the cursor has passed are, after every
turn, the encoding of the strings read so far (`Consumed`).  In the other
(`ParseComplete`) the cursor stands, after every turn, where the encoding of the
first strings ends, and those cells do not depend on what follows (`FlatPrefix`).
The theorem supposes that no command has more strings than `k_max_args`
(`CommandsFit`): the clients do not check that limit, and the server refuses such
a message.

`ClientReadsCorrect` is the same for the replies.  Every command writes one item, or
an array of items none of which is an array (`IsReply`); this is part of `ReplyInv`,
and for ZQUERY it needs that every position up to the size of the set has a member
(`NthMember`): `zless` is a strict total order (`MemberOrder`, down to the bytes of
names in `NameOrder`), so ranks are an injection into as many numbers, hence onto
them; and that its counter, two for each member, is the number of items written
(`ZQueryOutput`). The reader that stands at the cells of an item takes this item and no cell
more (`ReadsItem`); after every call of `print_response` it stands behind the items
read so far and expects the rest of the array (`PrintItem`), so it ends at the last
cell with nothing to come (`PrintReply`).  A reply that is too big is replaced by an
error, which fits by the assumption on `k_max_msg`.

Proving the invariant uncovered a flaw of the model: the cases of `TtlReply`
overlapped, and in TLA+ it is open which of two true cases counts.  They are now
tried in order, as in `do_ttl`.

**Assumptions.**  Besides the ranges of the parameters, the modules assume: finitely
many nodes and descriptors; strings and messages are sequences of naturals
(`KeyspaceAssumption`); `Key` has every key that a request names (`KeyAssumption`;
the program has no such limit, `Key` may be infinite); names and scores of `ZSet` are
integers; `NULL` is no connection (`NullAssumption`) and no node; and, because
the provers do not know powers, that `2^(IntBits - 1)` is a positive natural and
`2^IntBits` twice as much (`PowerAssumption`).  TLC evaluates all of them in the runs.

**Only model-checked.**  The liveness properties (`ExpiredIsEvicted` of the heap and
of the event loop, `EveryRequestAnswered`, `RehashingEnds`), because the prover does
not reason about fairness and `ENABLED`.  Every invariant and every action property
of the passing runs, and both refinements, have a theorem.

## What is not modelled

* Allocation failure, `die`, and the setup of the listening socket.
* Bytes: the width and order of integers on the wire, and the text of errors.
  In `Connection` a message is two tokens, in `Wire` a sequence of cells.
* Floating point: scores are whole numbers.  `nan`, which `str2dbl` refuses, and
  text that is no number take the same way out.  Leading blanks, which `strtoll`
  skips, and the ends of the range of `int64_t` are left out.
* `str_hash`: `HashTable` takes hash codes as a parameter.
* How `benchmark.cpp` measures time and counts the bytes it expects, and the
  methods of `aphelo.py` that only name a command.

## Plan

1. `Timers`, `TtlHeap`, their proofs; `EventLoop`; `Connection`; `Dict`,
   `HashTable`; `Avl`, `ZSet` (done).
2. `Wire`, `Keyspace`; `DList`, with which `EventLoop` keeps its list (done).
3. Theorems for `TtlHeap`, `HashTable`, `Connection`, `DList`, `EventLoop` and
   `Keyspace` (done).
4. Theorems for `Avl` and `ZSet`, and the rest of `Keyspace`: the clients read what
   the commands wrote (done).
