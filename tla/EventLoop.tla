----------------------------- MODULE EventLoop -----------------------------
(***************************************************************************)
(* The reactor of server.cpp: main's loop, handle_accept, the flag logic   *)
(* of handle_read and handle_write, conn_destroy, next_timer_ms and        *)
(* process_timers.                                                         *)
(*                                                                         *)
(* The database is the abstract one of Timers, which TtlHeap implements.   *)
(* The bytes of a connection are modelled in Connection; here a read makes *)
(* some number of requests complete and `outgoing' counts the responses    *)
(* that are not fully written yet.                                         *)
(*                                                                         *)
(* One turn of the loop is a sequence of steps, told apart by pc, between  *)
(* which only the clock can move:                                          *)
(*   build -> poll -> sleep -> accept -> conns -> ... -> idle -> ttl       *)
(*                                                                         *)
(* A definition named D_Fault is D with a fault; no specification uses it. *)
(***************************************************************************)
EXTENDS Timers, DList, FiniteSets

CONSTANTS
  Fd,                 \* descriptors the kernel can hand out
  MaxOut,             \* bound of the model: unwritten responses per connection
  k_idle_timeout_ms,
  k_max_works,
  IntBits,            \* width of the timeout argument of poll (32)
  NULL                \* the null Conn pointer

ASSUME EventLoopAssumption ==
  /\ Ttl \subseteq Nat /\ MaxNow \in Nat
  /\ Fd \subseteq Nat /\ IsFiniteSet(Fd)
  /\ MaxOut \in Nat
  /\ k_idle_timeout_ms \in Nat
  /\ k_max_works \in Nat
  /\ IntBits \in Nat \ {0}

\* The arithmetic of powers that the provers do not know.
ASSUME PowerAssumption ==
  2^(IntBits - 1) \in Nat \ {0} /\ 2^IntBits = 2 * 2^(IntBits - 1)

VARIABLES
  open,        \* descriptors of accepted sockets that the kernel holds open
  fd2conn,     \* g_data.fd2conn
  idle_list,   \* the links of g_data.idle_list and of every idle_node
  pc,
  poll_args,   \* descriptors of poll_args that main has yet to look at
  revents,     \* what poll reported for each of them
  cur,         \* the descriptor main is looking at
  timeout_ms,  \* poll's argument
  wake,        \* when poll gives up waiting, or Forever
  now_ms,      \* the clock sample of next_timer_ms, then of process_timers
  nworks       \* process_timers' eviction count

connVars == <<open, fd2conn, idle_list>>
turnVars == <<poll_args, revents, cur>>
pollVars == <<timeout_ms, wake>>
vars == <<timerVars, connVars, pc, turnVars, pollVars, now_ms, nworks>>

Conn == [want_read : BOOLEAN, want_write : BOOLEAN, want_close : BOOLEAN,
         outgoing : 0..MaxOut, last_active_ms : Nat]

ASSUME NullAssumption == NULL \notin Conn

Forever == -1
NoFd == -1
Head == -2   \* g_data.idle_list, the dummy node
Node == Fd \cup {Head}
\* The links of a node that has no Conn.
NoLinks == [n \in Node |-> NULL]

Event == {"IN", "OUT", "ERR"}

Init ==
  /\ TInit
  /\ open = {}
  /\ fd2conn = [fd \in Fd |-> NULL]
  /\ idle_list = dlist_init([prev |-> NoLinks, next |-> NoLinks], Head)
  /\ pc = "build"
  /\ poll_args = {} /\ revents = [fd \in Fd |-> {}] /\ cur = NoFd
  /\ timeout_ms = 0 /\ wake = 0
  /\ now_ms = 0 /\ nworks = 0

-----------------------------------------------------------------------------
(* Connections *)

Live == {fd \in Fd : fd2conn[fd] # NULL}

\* The links of a Conn that is freed.
Forget(l, fd) ==
  [prev |-> [l.prev EXCEPT ![fd] = NULL], next |-> [l.next EXCEPT ![fd] = NULL]]

\* The connection at the front of the list, the one longest without a turn.
Front == idle_list.next[Head]

conn_destroy(fd) ==
  /\ open' = open \ {fd}
  /\ fd2conn' = [fd2conn EXCEPT ![fd] = NULL]
  /\ idle_list' = Forget(dlist_detach(idle_list, fd), fd)

-----------------------------------------------------------------------------
(* The head of the loop *)

\* The cast (int32_t)(next_ms - now_ms), at the width of the model.
ToInt32(n) ==
  LET m == n % 2^IntBits IN IF m < 2^(IntBits - 1) THEN m ELSE m - 2^IntBits

Least(S) == CHOOSE x \in S : \A y \in S : x <= y

\* The front of the idle list and the root of the TTL heap.
IdleTimer ==
  IF dlist_empty(idle_list, Head) THEN {}
  ELSE {fd2conn[Front].last_active_ms + k_idle_timeout_ms}
TtlTimers == {expire[k] : k \in {j \in Key : expire[j] # NoTtl}}

\* Fault: only the idle list is consulted.
next_timer_ms_IdleOnly ==
  IF IdleTimer = {} THEN -1
  ELSE IF Least(IdleTimer) <= now THEN 0 ELSE ToInt32(Least(IdleTimer) - now)

next_timer_ms ==
  LET timers == IdleTimer \cup TtlTimers
  IN IF timers = {} THEN -1
     ELSE IF Least(timers) <= now THEN 0
     ELSE ToInt32(Least(timers) - now)

BuildPollArgs ==
  /\ pc = "build"
  /\ poll_args' = Live
  /\ timeout_ms' = next_timer_ms
  /\ now_ms' = now
  /\ pc' = "poll"
  /\ UNCHANGED <<timerVars, connVars, revents, cur, wake, nworks>>

\* poll starts to count when it is called, after the clock was sampled.  A
\* timeout past the end of the modelled time is over when time ends.
PollEnter ==
  /\ pc = "poll"
  /\ wake' = IF timeout_ms < 0 THEN Forever
             ELSE IF now + timeout_ms > MaxNow THEN MaxNow ELSE now + timeout_ms
  /\ pc' = "sleep"
  /\ UNCHANGED <<timerVars, connVars, turnVars, timeout_ms, now_ms, nworks>>

\* What poll may report: the events main asked for, and errors.
Reportable(fd) ==
  {e \in SUBSET Event :
     /\ "IN" \in e => fd2conn[fd].want_read
     /\ "OUT" \in e => fd2conn[fd].want_write}

TimedOut == wake # Forever /\ now >= wake

PollReturn ==
  /\ pc = "sleep"
  /\ \E ev \in [Fd -> SUBSET Event], listening \in BOOLEAN :
       /\ \A fd \in Fd : ev[fd] \in IF fd \in poll_args THEN Reportable(fd) ELSE {{}}
       /\ listening \/ (\E fd \in poll_args : ev[fd] # {}) \/ TimedOut
       /\ revents' = ev
       /\ pc' = IF listening THEN "accept" ELSE "conns"
  /\ timeout_ms' = 0 /\ wake' = 0 /\ now_ms' = 0
  /\ UNCHANGED <<timerVars, connVars, poll_args, cur, nworks>>

\* poll fails with EINTR: the turn starts again.
PollInterrupted ==
  /\ pc = "sleep"
  /\ pc' = "build"
  /\ poll_args' = {}
  /\ timeout_ms' = 0 /\ wake' = 0 /\ now_ms' = 0
  /\ UNCHANGED <<timerVars, connVars, revents, cur, nworks>>

-----------------------------------------------------------------------------
(* The listening socket *)

\* The kernel hands out the smallest descriptor that is not open.
handle_accept ==
  /\ pc = "accept"
  /\ Fd \ open # {}
  /\ LET fd == Least(Fd \ open) IN
       /\ open' = open \cup {fd}
       /\ fd2conn' = [fd2conn EXCEPT ![fd] =
            [want_read |-> TRUE, want_write |-> FALSE, want_close |-> FALSE,
             outgoing |-> 0, last_active_ms |-> now]]
       /\ idle_list' = dlist_insert_before(idle_list, Head, fd)
  /\ pc' = "conns"
  /\ UNCHANGED <<timerVars, turnVars, pollVars, now_ms, nworks>>

\* accept fails (no descriptor left, or the client is gone).
AcceptFails ==
  /\ pc = "accept"
  /\ pc' = "conns"
  /\ UNCHANGED <<timerVars, connVars, turnVars, pollVars, now_ms, nworks>>

-----------------------------------------------------------------------------
(* The connections, in the order of poll_args *)

\* Fault: more is consumed than was there.
HandleWrite_Overrun(c) ==
  {c} \cup {[c EXCEPT !.outgoing = @ - n] : n \in 1..(c.outgoing + 1)}

\* The states handle_write can leave a connection in: the kernel took
\* nothing (EAGAIN), it failed, or it took some of the output.
HandleWrite(c) ==
  {c, [c EXCEPT !.want_close = TRUE]} \cup
  {[c EXCEPT !.outgoing = @ - n,
             !.want_read = @ \/ n = c.outgoing,
             !.want_write = @ /\ n # c.outgoing] : n \in 1..c.outgoing}

\* Refresh the idle timer, then the start of handle_read when POLLIN is set:
\* EAGAIN, failure or EOF, or data to parse.
ServeConn ==
  /\ pc = "conns"
  /\ poll_args # {}
  /\ LET fd == Least(poll_args)
         c  == [fd2conn[fd] EXCEPT !.last_active_ms = now]
     IN /\ cur' = fd
        /\ idle_list' = dlist_insert_before(dlist_detach(idle_list, fd), Head, fd)
        /\ \/ /\ fd2conn' = [fd2conn EXCEPT ![fd] = c]
              /\ pc' = "finish"
           \/ /\ "IN" \in revents[fd]
              /\ fd2conn' = [fd2conn EXCEPT ![fd] = [c EXCEPT !.want_close = TRUE]]
              /\ pc' = "finish"
           \/ /\ "IN" \in revents[fd]
              /\ fd2conn' = [fd2conn EXCEPT ![fd] = c]
              /\ pc' = "parse"
  /\ UNCHANGED <<timerVars, open, poll_args, revents, pollVars, now_ms, nworks>>

\* What a request does to the keys and their deadlines.
do_request ==
  \/ \E k \in Key :
       \/ TInsert(k)
       \/ \E ttl \in Ttl : TSetTtl(k, ttl)
       \/ TPersist(k)
       \/ TDel(k)
  \/ UNCHANGED timerVars

\* One turn of `while (try_one_request(conn))'.
try_one_request ==
  /\ pc = "parse"
  /\ fd2conn[cur].outgoing < MaxOut
  /\ do_request
  /\ fd2conn' = [fd2conn EXCEPT ![cur].outgoing = @ + 1]
  /\ UNCHANGED <<open, idle_list, pc, turnVars, pollVars, now_ms, nworks>>

\* The loop ends because more data is needed or because the request is bad;
\* if there is output, handle_read goes on to write it.
ReadDone ==
  /\ pc = "parse"
  /\ \E bad \in BOOLEAN :
       LET c == [fd2conn[cur] EXCEPT !.want_close = @ \/ bad] IN
       IF c.outgoing = 0 THEN fd2conn' = [fd2conn EXCEPT ![cur] = c]
       ELSE \E d \in HandleWrite([c EXCEPT !.want_read = FALSE, !.want_write = TRUE]) :
              fd2conn' = [fd2conn EXCEPT ![cur] = d]
  /\ pc' = "finish"
  /\ UNCHANGED <<timerVars, open, idle_list, turnVars, pollVars, now_ms, nworks>>

\* handle_write when POLLOUT is set, then close what must be closed.
FinishConn ==
  /\ pc = "finish"
  /\ \E c \in IF "OUT" \in revents[cur] THEN HandleWrite(fd2conn[cur])
              ELSE {fd2conn[cur]} :
       IF "ERR" \in revents[cur] \/ c.want_close
       THEN conn_destroy(cur)
       ELSE fd2conn' = [fd2conn EXCEPT ![cur] = c] /\ UNCHANGED <<open, idle_list>>
  /\ poll_args' = poll_args \ {cur}
  /\ revents' = [revents EXCEPT ![cur] = {}]
  /\ cur' = NoFd
  /\ pc' = "conns"
  /\ UNCHANGED <<timerVars, pollVars, now_ms, nworks>>

-----------------------------------------------------------------------------
(* process_timers *)

\* Fault: process_timers is called inside the loop over the connections.
TimersBegin_InsideLoop ==
  /\ pc = "conns"
  /\ now_ms' = now
  /\ pc' = "idle"
  /\ UNCHANGED <<timerVars, connVars, turnVars, pollVars, nworks>>

TimersBegin ==
  /\ pc = "conns"
  /\ poll_args = {}
  /\ now_ms' = now
  /\ pc' = "idle"
  /\ UNCHANGED <<timerVars, connVars, turnVars, pollVars, nworks>>

FrontExpired ==
  /\ ~dlist_empty(idle_list, Head)
  /\ fd2conn[Front].last_active_ms + k_idle_timeout_ms <= now_ms

ExpireConn ==
  /\ pc = "idle"
  /\ FrontExpired
  /\ conn_destroy(Front)
  /\ UNCHANGED <<timerVars, pc, turnVars, pollVars, now_ms, nworks>>

IdleDone ==
  /\ pc = "idle"
  /\ ~FrontExpired
  /\ pc' = "ttl"
  /\ TSweepBegin
  /\ UNCHANGED <<connVars, turnVars, pollVars, now_ms, nworks>>

Due == \E t \in TtlTimers : t < now_ms

EvictKey ==
  /\ pc = "ttl"
  /\ Due /\ nworks <= k_max_works
  /\ \E k \in Key : TEvict(k)
  /\ nworks' = nworks + 1
  /\ UNCHANGED <<connVars, pc, turnVars, pollVars, now_ms>>

TimersEnd ==
  /\ pc = "ttl"
  /\ ~(Due /\ nworks <= k_max_works)
  /\ pc' = "build"
  /\ TSweepEnd
  /\ now_ms' = 0 /\ nworks' = 0
  /\ UNCHANGED <<connVars, turnVars, pollVars>>

-----------------------------------------------------------------------------
Tick == TTick /\ UNCHANGED <<connVars, pc, turnVars, pollVars, now_ms, nworks>>

\* The steps the server takes by itself once poll has returned.
Running ==
  \/ BuildPollArgs \/ PollEnter
  \/ handle_accept \/ AcceptFails
  \/ ServeConn \/ try_one_request \/ ReadDone \/ FinishConn
  \/ TimersBegin \/ ExpireConn \/ IdleDone \/ EvictKey \/ TimersEnd

Next == Running \/ PollReturn \/ PollInterrupted \/ Tick

Spec == Init /\ [][Next]_vars

\* The server runs, time passes, and a poll whose timeout is over returns
\* unless signals interrupt every one of them.
FairSpec ==
  /\ Spec
  /\ WF_vars(Running) /\ WF_vars(Tick)
  /\ SF_vars(TimedOut /\ PollReturn)

-----------------------------------------------------------------------------
(* Properties *)

\* The types of the variables.
TypeOK ==
  /\ now \in Nat /\ db \subseteq Key /\ expire \in [Key -> Nat \cup {NoTtl}]
  /\ sweeping \in BOOLEAN
  /\ open \subseteq Fd
  /\ fd2conn \in [Fd -> Conn \cup {NULL}]
  /\ idle_list \in [prev : [Node -> Node \cup {NULL}], next : [Node -> Node \cup {NULL}]]
  /\ pc \in {"build", "poll", "sleep", "accept", "conns", "parse", "finish",
             "idle", "ttl"}
  /\ poll_args \subseteq Fd
  /\ revents \in [Fd -> SUBSET Event]
  /\ cur \in Fd \cup {NoFd}
  /\ timeout_ms \in Int /\ wake \in Nat \cup {Forever}
  /\ now_ms \in Nat /\ nworks \in Nat

\* Every entry of poll_args that main has yet to look at still has its Conn:
\* `fd2conn[poll_args[i].fd]' is never a null or a stale pointer, although
\* accepting and closing change the table while the loop runs over the
\* snapshot taken before poll.
PolledIsLive == poll_args \subseteq Live

\* The table, the kernel's descriptors and the idle list name the same
\* connections, each once, and the list can be walked both ways: the
\* assertion after handle_accept holds, no connection is lost to the idle
\* timer and no link leads into a Conn that was freed.
TableAgrees ==
  /\ open = Live
  /\ IsListOf(idle_list, Head, Live, Cardinality(Live))

\* The idle list is ordered by age, which is what lets process_timers stop
\* at the first connection that has not expired.
IdleListByAge ==
  \A fd \in Live : LET next == idle_list.next[fd] IN
    next \in Live => fd2conn[fd].last_active_ms <= fd2conn[next].last_active_ms

\* poll sleeps from the sampled time to exactly the next timer, and without
\* limit only when there is no timer at all.
SleepsToNextTimer ==
  pc \in {"poll", "sleep"} =>
    LET timers == IdleTimer \cup TtlTimers IN
    IF timers = {} THEN timeout_ms < 0
    ELSE /\ timeout_ms >= 0
         /\ Least(timers) <= now_ms => timeout_ms = 0
         /\ Least(timers) > now_ms => now_ms + timeout_ms = Least(timers)

\* A key whose deadline is before the end of the modelled time does not keep
\* it, even if no client ever comes back and evictions come in batches.
ExpiredIsEvicted ==
  \A k \in Key, t \in 0..(MaxNow - 1) : expire[k] = t ~> expire[k] # t

-----------------------------------------------------------------------------
(* The inductive invariant behind EventLoopProofs *)

\* The table, the kernel's descriptors and the nodes of the list.
LinkInv ==
  /\ open = Live
  /\ Linked(idle_list, Live \cup {Head}) /\ OneCycle(idle_list, Live \cup {Head})

\* Outside the loop over poll_args none of it is left, and the descriptor
\* main is looking at is still part of it.
PollInv ==
  /\ PolledIsLive
  /\ pc \in {"build", "idle", "ttl"} => poll_args = {}
  /\ pc \in {"parse", "finish"} => cur \in poll_args

\* No connection was active in the future.
AgeInv ==
  /\ IdleListByAge
  /\ \A fd \in Live : fd2conn[fd].last_active_ms <= now

LoopInv == TypeOK /\ LinkInv /\ PollInv /\ AgeInv

\* Every timer that the clients and the idle timeout can ask for is closer
\* than the largest timeout of poll.
TimersFit == \A t \in Ttl \cup {k_idle_timeout_ms} : t < 2^(IntBits - 1)

\* What then bounds the time left of every key.
FitInv ==
  /\ \A k \in Key : expire[k] < now + 2^(IntBits - 1)
  /\ SleepsToNextTimer
=============================================================================
