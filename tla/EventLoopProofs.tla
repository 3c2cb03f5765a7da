-------------------------- MODULE EventLoopProofs --------------------------
(***************************************************************************)
(* Machine-checked proofs about EventLoop, for any set of descriptors, any *)
(* keys and any timeouts.                                                  *)
(***************************************************************************)
EXTENDS EventLoop, DListProofs

-----------------------------------------------------------------------------
(* The parts of the invariant.                                             *)

TimerType ==
  /\ now \in Nat /\ db \subseteq Key /\ expire \in [Key -> Nat \cup {NoTtl}]
  /\ sweeping \in BOOLEAN

ConnType ==
  /\ open \subseteq Fd /\ fd2conn \in [Fd -> Conn \cup {NULL}]
  /\ idle_list \in Lists(Node, Node \cup {NULL})

TurnType ==
  /\ pc \in {"build", "poll", "sleep", "accept", "conns", "parse", "finish", "idle", "ttl"}
  /\ poll_args \subseteq Fd /\ revents \in [Fd -> SUBSET Event] /\ cur \in Fd \cup {NoFd}

WaitType ==
  /\ timeout_ms \in Int /\ wake \in Nat \cup {Forever}
  /\ now_ms \in Nat /\ nworks \in Nat

\* What is said of the connections.
ConnInv == ConnType /\ LinkInv /\ AgeInv

LEMMA Parts == LoopInv => TimerType /\ ConnInv /\ TurnType /\ WaitType /\ PollInv
  BY Zenon DEF LoopInv, TypeOK, TimerType, ConnType, TurnType, WaitType, ConnInv, Lists

LEMMA NextParts == TimerType' /\ ConnInv' /\ TurnType' /\ WaitType' /\ PollInv' => LoopInv'
  BY Zenon DEF LoopInv, TypeOK, TimerType, ConnType, TurnType, WaitType, ConnInv, Lists

-----------------------------------------------------------------------------
(* Small facts.                                                            *)

LEMMA NodeFacts ==
  /\ Head \notin Fd /\ NoFd \notin Fd /\ Node = Fd \cup {Head} /\ Fd \subseteq Node
  /\ Live \subseteq Fd /\ Live \cup {Head} \subseteq Node /\ Head \notin Live
  BY EventLoopAssumption DEF Head, NoFd, Node, Live

LEMMA LeastFacts ==
  ASSUME NEW T, T \subseteq Nat, T # {}
  PROVE  Least(T) \in T /\ Least(T) \in Nat /\ \A y \in T : Least(T) <= y
  BY LeastNumber DEF Least

\* A Conn that is there is a record, and its node is linked.
LEMMA ConnFacts ==
  ASSUME ConnInv, NEW fd \in Live
  PROVE  /\ fd \in Fd /\ fd2conn[fd] \in Conn /\ fd2conn[fd].last_active_ms \in Nat
         /\ idle_list.next[fd] \in Live \cup {Head} /\ idle_list.prev[fd] \in Live \cup {Head}
  BY DEF ConnInv, ConnType, LinkInv, Linked, Live, Conn

LEMMA FrontFacts ==
  ASSUME ConnInv
  PROVE  dlist_empty(idle_list, Head) \/ Front \in Live
  BY DEF ConnInv, LinkInv, Linked, Front, dlist_empty

\* The timers that next_timer_ms looks at.
LEMMA TimerFacts ==
  ASSUME TimerType, ConnInv
  PROVE  IdleTimer \cup TtlTimers \subseteq Nat /\ next_timer_ms \in Int
  <1>1. IdleTimer \subseteq Nat
    BY FrontFacts, ConnFacts, EventLoopAssumption DEF IdleTimer
  <1>2. TtlTimers \subseteq Nat
    BY DEF TimerType, TtlTimers
  <1>3. \A n \in Int : ToInt32(n) \in Int
    BY PowerAssumption DEF ToInt32
  <1> DEFINE timers == IdleTimer \cup TtlTimers
  <1>4. timers \subseteq Nat
    BY <1>1, <1>2
  <1>5. next_timer_ms = IF timers = {} THEN -1
                        ELSE IF Least(timers) <= now THEN 0
                        ELSE ToInt32(Least(timers) - now)
    BY DEF next_timer_ms
  <1> HIDE DEF timers
  <1>6. next_timer_ms \in Int
    BY <1>3, <1>4, <1>5, LeastFacts DEF TimerType
  <1>7. QED
    BY <1>4, <1>6 DEF timers

-----------------------------------------------------------------------------
(* The timers.                                                             *)

LEMMA SameTimers == TimerType /\ UNCHANGED timerVars => TimerType' /\ now' = now
  BY Zenon DEF TimerType, timerVars

LEMMA TickTimers == TimerType /\ TTick => TimerType' /\ now' = now + 1 /\ now < MaxNow
  <1> SUFFICES ASSUME TimerType, TTick
               PROVE  TimerType' /\ now' = now + 1 /\ now < MaxNow
    OBVIOUS
  <1>1. now' = now + 1 /\ db' = db /\ expire' = expire /\ sweeping' = sweeping /\ now < MaxNow
    BY DEF TTick
  <1>2. now' \in Nat
    BY <1>1 DEF TimerType
  <1>3. QED
    BY <1>1, <1>2, Zenon DEF TimerType

LEMMA SweepTimers ==
  TimerType /\ (TSweepBegin \/ TSweepEnd) => TimerType' /\ now' = now
  BY Zenon DEF TimerType, TSweepBegin, TSweepEnd

\* The keys and deadlines after a request or an eviction.
LEMMA KeyTimers ==
  ASSUME TimerType, NEW k \in Key, NEW e \in Nat \cup {NoTtl},
         db' \subseteq db \cup {k}, now' = now, sweeping' = sweeping,
         expire' = expire \/ expire' = [expire EXCEPT ![k] = e]
  PROVE  TimerType' /\ now' = now
  <1>1. expire' \in [Key -> Nat \cup {NoTtl}] /\ db' \subseteq Key
    BY DEF TimerType
  <1>2. QED
    BY <1>1, Zenon DEF TimerType

LEMMA RequestTimers == TimerType /\ do_request => TimerType' /\ now' = now
  <1> SUFFICES ASSUME TimerType, do_request
               PROVE  TimerType' /\ now' = now
    OBVIOUS
  <1>1. NoTtl \in Nat \cup {NoTtl} /\ now \in Nat
    BY DEF TimerType
  <1>2. CASE UNCHANGED timerVars
    BY <1>2, SameTimers
  <1>3. ASSUME NEW k \in Key, TInsert(k)
        PROVE  TimerType' /\ now' = now
    BY <1>1, <1>3, KeyTimers DEF TInsert
  <1>4. ASSUME NEW k \in Key, NEW ttl \in Ttl, TSetTtl(k, ttl)
        PROVE  TimerType' /\ now' = now
    <2>1. now + ttl \in Nat \cup {NoTtl}
      BY <1>1, EventLoopAssumption
    <2>2. QED
      BY <1>4, <2>1, KeyTimers DEF TSetTtl
  <1>5. ASSUME NEW k \in Key, TPersist(k) \/ TDel(k)
        PROVE  TimerType' /\ now' = now
    BY <1>1, <1>5, KeyTimers DEF TPersist, TDel, TRemove
  <1>6. QED
    BY <1>2, <1>3, <1>4, <1>5 DEF do_request

LEMMA EvictTimers ==
  ASSUME TimerType, NEW k \in Key, TEvict(k)
  PROVE  TimerType' /\ now' = now
  BY KeyTimers DEF TEvict, TRemove

-----------------------------------------------------------------------------
(* The connections.                                                        *)

\* Steps that leave the connections alone.
LEMMA SameConns ==
  ASSUME ConnInv, TimerType, UNCHANGED connVars, now' \in Nat, now' >= now
  PROVE  ConnInv' /\ Live' = Live
  <1>1. open' = open /\ fd2conn' = fd2conn /\ idle_list' = idle_list
    BY DEF connVars
  <1>2. Live' = Live
    BY <1>1 DEF Live
  <1>3. ConnType' /\ LinkInv'
    BY <1>1, <1>2 DEF ConnInv, ConnType, LinkInv, Linked, OneCycle
  <1>4. IdleListByAge'
    BY <1>1, <1>2 DEF ConnInv, AgeInv, IdleListByAge
  <1>5. ASSUME NEW fd \in Live
        PROVE  fd2conn[fd].last_active_ms <= now'
    <2>1. fd2conn[fd].last_active_ms \in Nat /\ fd2conn[fd].last_active_ms <= now /\ now \in Nat
      BY ConnFacts DEF ConnInv, AgeInv, TimerType
    <2>2. QED
      BY <2>1
  <1>6. AgeInv'
    BY <1>1, <1>2, <1>4, <1>5 DEF AgeInv
  <1>7. QED
    BY <1>2, <1>3, <1>6 DEF ConnInv

\* Steps that change the flags and the output of one connection.
LEMMA UpdateConn ==
  ASSUME ConnInv, NEW fd \in Live, NEW c \in Conn,
         c.last_active_ms = fd2conn[fd].last_active_ms,
         fd2conn' = [fd2conn EXCEPT ![fd] = c],
         open' = open, idle_list' = idle_list, now' = now
  PROVE  ConnInv' /\ Live' = Live
  <1>1. fd \in Fd /\ fd2conn \in [Fd -> Conn \cup {NULL}] /\ c # NULL
    BY NullAssumption DEF Live, ConnInv, ConnType
  <1>2. fd2conn' \in [Fd -> Conn \cup {NULL}] /\ Live' = Live
    BY <1>1 DEF Live
  <1>3. \A y \in Live : fd2conn'[y].last_active_ms = fd2conn[y].last_active_ms
    BY <1>1 DEF Live
  <1>4. ConnType' /\ LinkInv'
    BY <1>2 DEF ConnInv, ConnType, LinkInv, Linked, OneCycle
  <1>5. IdleListByAge'
    BY <1>2, <1>3 DEF ConnInv, AgeInv, IdleListByAge
  <1>6. AgeInv'
    BY <1>2, <1>3, <1>5 DEF ConnInv, AgeInv
  <1>7. QED
    BY <1>2, <1>4, <1>6 DEF ConnInv

\* The list without fd: what main links again and what conn_destroy forgets.
LEMMA DetachConn ==
  ASSUME ConnInv, NEW fd \in Live
  PROVE  LET m == dlist_detach(idle_list, fd)
             N == (Live \ {fd}) \cup {Head}
         IN /\ m \in Lists(Node, Node \cup {NULL}) /\ Linked(m, N) /\ OneCycle(m, N)
            /\ \A y \in Live \ {fd} : m.next[y] \in Live =>
                 fd2conn[y].last_active_ms <= fd2conn[m.next[y]].last_active_ms
  <1> DEFINE m == dlist_detach(idle_list, fd)
             M == Live \cup {Head}
             N == (Live \ {fd}) \cup {Head}
             V == Node \cup {NULL}
  <1>1. /\ idle_list \in Lists(Node, V) /\ M \subseteq Node /\ fd \in M /\ Head \in M
        /\ Head # fd /\ Linked(idle_list, M) /\ OneCycle(idle_list, M) /\ N = M \ {fd}
    BY NodeFacts DEF ConnInv, ConnType, LinkInv
  <1>2. /\ m \in Lists(Node, V) /\ Linked(m, N) /\ OneCycle(m, N)
        /\ \A y \in N : m.next[y] = IF y = idle_list.prev[fd] THEN idle_list.next[fd]
                                    ELSE idle_list.next[y]
    <2> HIDE DEF M, V, N, m
    <2>1. /\ dlist_detach(idle_list, fd) \in Lists(Node, V)
          /\ Linked(dlist_detach(idle_list, fd), M \ {fd})
          /\ OneCycle(dlist_detach(idle_list, fd), M \ {fd})
          /\ \A y \in M \ {fd} :
               dlist_detach(idle_list, fd).next[y] =
                 IF y = idle_list.prev[fd] THEN idle_list.next[fd] ELSE idle_list.next[y]
      BY <1>1, DetachFacts
    <2>2. QED
      BY <1>1, <2>1 DEF m
  <1> HIDE DEF m
  <1>3. ASSUME NEW y \in Live \ {fd}, m.next[y] \in Live
        PROVE  fd2conn[y].last_active_ms <= fd2conn[m.next[y]].last_active_ms
    <2>1. IdleListByAge
      BY DEF ConnInv, AgeInv
    <2>2. CASE y # idle_list.prev[fd]
      BY <1>2, <1>3, <2>1, <2>2 DEF IdleListByAge
    <2>3. CASE y = idle_list.prev[fd]
      <3>1. idle_list.next[y] = fd /\ m.next[y] = idle_list.next[fd]
        BY <1>1, <1>2, <2>3 DEF Linked
      <3>2. /\ fd2conn[y].last_active_ms <= fd2conn[fd].last_active_ms
            /\ fd2conn[fd].last_active_ms <= fd2conn[m.next[y]].last_active_ms
        BY <1>3, <2>1, <3>1 DEF IdleListByAge
      <3>3. /\ fd2conn[y].last_active_ms \in Nat /\ fd2conn[fd].last_active_ms \in Nat
            /\ fd2conn[m.next[y]].last_active_ms \in Nat
        BY <1>3, ConnFacts
      <3>4. QED
        BY <3>2, <3>3
    <2>4. QED
      BY <2>2, <2>3
  <1>4. QED
    BY <1>2, <1>3 DEF m

LEMMA DestroyConn ==
  ASSUME ConnInv, NEW fd \in Live, conn_destroy(fd), now' = now
  PROVE  ConnInv' /\ Live' = Live \ {fd}
  <1> DEFINE m == dlist_detach(idle_list, fd)
             N == (Live \ {fd}) \cup {Head}
  <1>1. /\ open' = open \ {fd} /\ fd2conn' = [fd2conn EXCEPT ![fd] = NULL]
        /\ idle_list' = Forget(m, fd)
    BY DEF conn_destroy
  <1>2. /\ fd \in Fd /\ fd \in Node /\ open = Live /\ open \subseteq Fd /\ fd # Head
        /\ fd2conn \in [Fd -> Conn \cup {NULL}] /\ N \subseteq Node /\ fd \notin N
    BY NodeFacts DEF ConnInv, ConnType, LinkInv, Live
  <1>3. /\ m \in Lists(Node, Node \cup {NULL}) /\ Linked(m, N) /\ OneCycle(m, N)
        /\ \A y \in Live \ {fd} : m.next[y] \in Live =>
             fd2conn[y].last_active_ms <= fd2conn[m.next[y]].last_active_ms
    BY DetachConn
  <1> HIDE DEF m
  <1>4. /\ fd2conn' \in [Fd -> Conn \cup {NULL}] /\ Live' = Live \ {fd}
        /\ \A y \in Live \ {fd} : fd2conn'[y] = fd2conn[y]
    BY <1>1, <1>2 DEF Live
  <1>5. /\ idle_list' \in Lists(Node, Node \cup {NULL})
        /\ \A y \in N : idle_list'.next[y] = m.next[y] /\ idle_list'.prev[y] = m.prev[y]
    BY <1>1, <1>2, <1>3 DEF Forget, Lists
  <1>6. Linked(idle_list', N) /\ OneCycle(idle_list', N)
    BY <1>3, <1>5, FrameFacts
  <1>7. ConnType'
    BY <1>1, <1>2, <1>4, <1>5 DEF ConnType
  <1>8. LinkInv'
    <2>1. open' = Live' /\ N = Live' \cup {Head}
      BY <1>1, <1>2, <1>4
    <2>2. QED
      BY <1>6, <2>1 DEF LinkInv, Linked, OneCycle
  <1>9. IdleListByAge'
    BY <1>3, <1>4, <1>5 DEF IdleListByAge
  <1>10. AgeInv'
    BY <1>4, <1>9 DEF ConnInv, AgeInv
  <1>11. QED
    BY <1>4, <1>7, <1>8, <1>10 DEF ConnInv

\* A connection that was active just now goes to the end of the list m of
\* the connections S.
LEMMA AppendConn ==
  ASSUME ConnInv, TimerType, now' = now,
         NEW S, NEW fd \in Fd, fd \notin S, Live \cup {fd} = S \cup {fd}, S \subseteq Live,
         NEW m \in Lists(Node, Node \cup {NULL}),
         Linked(m, S \cup {Head}), OneCycle(m, S \cup {Head}),
         \A y \in S : m.next[y] \in Live =>
            fd2conn[y].last_active_ms <= fd2conn[m.next[y]].last_active_ms,
         NEW c \in Conn, c.last_active_ms = now,
         fd2conn' = [fd2conn EXCEPT ![fd] = c],
         open' = open \cup {fd},
         idle_list' = dlist_insert_before(m, Head, fd)
  PROVE  ConnInv' /\ Live' = Live \cup {fd}
  <1> DEFINE M == S \cup {Head}
             N == (Live \cup {fd}) \cup {Head}
             V == Node \cup {NULL}
  <1>1. /\ M \subseteq Node /\ Node \subseteq V /\ Head \in M /\ fd \in Node /\ fd \notin M
        /\ N = M \cup {fd} /\ fd # Head /\ Linked(m, M) /\ OneCycle(m, M) /\ Head \notin Live
    BY NodeFacts
  <1>2. /\ idle_list' \in Lists(Node, V) /\ Linked(idle_list', N) /\ OneCycle(idle_list', N)
        /\ \A y \in M : idle_list'.next[y] = IF y = m.prev[Head] THEN fd ELSE m.next[y]
        /\ idle_list'.next[fd] = Head
    <2> HIDE DEF M, N
    <2>1. m \in Lists(Node, V)
      OBVIOUS
    <2> HIDE DEF V
    <2>2. /\ dlist_insert_before(m, Head, fd) \in Lists(Node, V)
          /\ Linked(dlist_insert_before(m, Head, fd), M \cup {fd})
          /\ OneCycle(dlist_insert_before(m, Head, fd), M \cup {fd})
          /\ \A y \in M :
               dlist_insert_before(m, Head, fd).next[y] = IF y = m.prev[Head] THEN fd ELSE m.next[y]
          /\ dlist_insert_before(m, Head, fd).next[fd] = Head
      BY <1>1, <2>1, InsertFacts
    <2>3. QED
      BY <1>1, <2>2
  <1>3. /\ open = Live /\ open \subseteq Fd /\ fd2conn \in [Fd -> Conn \cup {NULL}] /\ c # NULL
        /\ now \in Nat
    BY NullAssumption DEF ConnInv, ConnType, LinkInv, TimerType
  <1>4. /\ fd2conn' \in [Fd -> Conn \cup {NULL}] /\ Live' = Live \cup {fd}
        /\ fd2conn'[fd] = c /\ \A y \in S : fd2conn'[y] = fd2conn[y]
    BY <1>3 DEF Live
  <1>5. ConnType'
    BY <1>2, <1>3, <1>4 DEF ConnType
  <1>6. LinkInv'
    <2>1. open' = Live' /\ N = Live' \cup {Head}
      BY <1>3, <1>4
    <2>2. QED
      BY <1>2, <2>1 DEF LinkInv, Linked, OneCycle
  <1>7. \A y \in S : fd2conn[y].last_active_ms <= now
    BY DEF ConnInv, AgeInv
  <1>8. IdleListByAge'
    <2> SUFFICES ASSUME NEW y \in Live', idle_list'.next[y] \in Live'
                 PROVE  fd2conn'[y].last_active_ms <= fd2conn'[idle_list'.next[y]].last_active_ms
      BY DEF IdleListByAge
    <2>1. y # fd
      BY <1>1, <1>2, <1>4
    <2>2. y \in S /\ y \in M
      BY <1>4, <2>1
    <2>3. CASE y = m.prev[Head]
      <3>1. idle_list'.next[y] = fd
        BY <1>2, <2>2, <2>3
      <3>2. QED
        BY <1>4, <1>7, <2>2, <3>1
    <2>4. CASE y # m.prev[Head]
      <3>1. idle_list'.next[y] = m.next[y] /\ m.next[y] \in M
        BY <1>1, <1>2, <2>2, <2>4 DEF Linked
      <3>2. m.next[y] \in S
        BY <1>1, <1>4, <3>1
      <3>3. QED
        BY <1>4, <2>2, <3>1, <3>2
    <2>5. QED
      BY <2>3, <2>4
  <1>9. AgeInv'
    <2>1. ASSUME NEW y \in Live'
          PROVE  fd2conn'[y].last_active_ms <= now
      <3>1. CASE y = fd
        BY <1>3, <1>4, <3>1
      <3>2. CASE y # fd
        BY <1>4, <1>7, <3>2
      <3>3. QED
        BY <3>1, <3>2
    <2>2. QED
      BY <1>8, <2>1 DEF AgeInv
  <1>10. QED
    BY <1>4, <1>5, <1>6, <1>9 DEF ConnInv

-----------------------------------------------------------------------------
(* The steps.                                                              *)

LEMMA InitInv == Init => LoopInv
  <1> SUFFICES ASSUME Init
               PROVE  LoopInv
    OBVIOUS
  <1>1. /\ now = 0 /\ db = {} /\ expire = [k \in Key |-> NoTtl] /\ sweeping = FALSE
        /\ open = {} /\ fd2conn = [fd \in Fd |-> NULL]
        /\ idle_list = dlist_init([prev |-> NoLinks, next |-> NoLinks], Head)
        /\ pc = "build" /\ poll_args = {} /\ revents = [fd \in Fd |-> {}] /\ cur = NoFd
        /\ timeout_ms = 0 /\ wake = 0 /\ now_ms = 0 /\ nworks = 0
    BY DEF Init, TInit
  <1>2. Live = {}
    BY <1>1 DEF Live
  <1>3. /\ idle_list \in [prev : [Node -> Node \cup {NULL}], next : [Node -> Node \cup {NULL}]]
        /\ idle_list.next[Head] = Head /\ idle_list.prev[Head] = Head
    BY <1>1, NodeFacts DEF dlist_init, NoLinks
  <1>4. TypeOK
    <2>1. /\ expire \in [Key -> Nat \cup {NoTtl}] /\ fd2conn \in [Fd -> Conn \cup {NULL}]
          /\ revents \in [Fd -> SUBSET Event] /\ now \in Nat /\ wake \in Nat /\ timeout_ms \in Int
          /\ now_ms \in Nat /\ nworks \in Nat
      BY <1>1
    <2>2. QED
      BY <1>1, <1>3, <2>1, Zenon DEF TypeOK
  <1>5. LinkInv
    <2>1. Live \cup {Head} = {Head}
      BY <1>2
    <2>2. Linked(idle_list, {Head}) /\ OneCycle(idle_list, {Head})
      BY <1>3, AloneFacts
    <2>3. QED
      BY <1>1, <1>2, <2>1, <2>2 DEF LinkInv
  <1>6. PollInv /\ AgeInv
    BY <1>1, <1>2 DEF PollInv, PolledIsLive, AgeInv, IdleListByAge
  <1>7. QED
    BY <1>4, <1>5, <1>6 DEF LoopInv

\* The steps that leave both the timers and the connections alone.
LEMMA QuietFacts ==
  ASSUME LoopInv, UNCHANGED timerVars, UNCHANGED connVars
  PROVE  TimerType' /\ ConnInv' /\ now' = now /\ Live' = Live
  <1>1. TimerType /\ ConnInv /\ TimerType' /\ now' = now
    BY Parts, SameTimers
  <1>2. now' \in Nat /\ now' >= now
    BY <1>1 DEF TimerType
  <1>3. QED
    BY <1>1, <1>2, SameConns

LEMMA BuildInv == LoopInv /\ BuildPollArgs => LoopInv'
  <1> SUFFICES ASSUME LoopInv, BuildPollArgs
               PROVE  LoopInv'
    OBVIOUS
  <1>1. /\ poll_args' = Live /\ timeout_ms' = next_timer_ms /\ now_ms' = now /\ pc' = "poll"
        /\ UNCHANGED timerVars /\ UNCHANGED connVars
        /\ revents' = revents /\ cur' = cur /\ wake' = wake /\ nworks' = nworks
    BY DEF BuildPollArgs
  <1>2. TimerType /\ ConnInv /\ TurnType /\ WaitType
    BY Parts
  <1>3. TimerType' /\ ConnInv' /\ Live' = Live
    BY <1>1, QuietFacts
  <1>4. TurnType' /\ WaitType' /\ PollInv'
    BY <1>1, <1>2, <1>3, TimerFacts, NodeFacts
       DEF TimerType, TurnType, WaitType, PollInv, PolledIsLive
  <1>5. QED
    BY <1>3, <1>4, NextParts

LEMMA PollEnterInv == LoopInv /\ PollEnter => LoopInv'
  <1> SUFFICES ASSUME LoopInv, PollEnter
               PROVE  LoopInv'
    OBVIOUS
  <1>1. /\ wake' = IF timeout_ms < 0 THEN Forever
                   ELSE IF now + timeout_ms > MaxNow THEN MaxNow ELSE now + timeout_ms
        /\ pc' = "sleep" /\ UNCHANGED timerVars /\ UNCHANGED connVars
        /\ poll_args' = poll_args /\ revents' = revents /\ cur' = cur
        /\ timeout_ms' = timeout_ms /\ now_ms' = now_ms /\ nworks' = nworks
    BY DEF PollEnter, turnVars
  <1>2. TimerType /\ TurnType /\ WaitType /\ PollInv
    BY Parts
  <1>3. TimerType' /\ ConnInv' /\ Live' = Live
    BY <1>1, QuietFacts
  <1>4. WaitType'
    <2>1. timeout_ms \in Int /\ now \in Nat /\ MaxNow \in Nat
      BY <1>2, EventLoopAssumption DEF WaitType, TimerType
    <2>2. wake' \in Nat \cup {Forever}
      BY <1>1, <2>1
    <2>3. QED
      BY <1>1, <1>2, <2>2 DEF WaitType
  <1>5. TurnType' /\ PollInv'
    BY <1>1, <1>2, <1>3 DEF TurnType, PollInv, PolledIsLive
  <1>6. QED
    BY <1>3, <1>4, <1>5, NextParts

LEMMA PollEndInv == LoopInv /\ (PollReturn \/ PollInterrupted) => LoopInv'
  <1> SUFFICES ASSUME LoopInv, PollReturn \/ PollInterrupted
               PROVE  LoopInv'
    OBVIOUS
  <1>1. /\ UNCHANGED timerVars /\ UNCHANGED connVars
        /\ pc' \in {"accept", "conns", "build"}
        /\ pc' = "build" => poll_args' = {}
        /\ poll_args' = poll_args \/ poll_args' = {}
        /\ revents' \in [Fd -> SUBSET Event] \/ revents' = revents
        /\ cur' = cur /\ timeout_ms' = 0 /\ wake' = 0 /\ now_ms' = 0 /\ nworks' = nworks
    BY DEF PollReturn, PollInterrupted
  <1>2. TurnType /\ WaitType /\ PollInv
    BY Parts
  <1>3. TimerType' /\ ConnInv' /\ Live' = Live
    BY <1>1, QuietFacts
  <1>4. TurnType' /\ WaitType' /\ PollInv'
    BY <1>1, <1>2, <1>3 DEF TurnType, WaitType, PollInv, PolledIsLive
  <1>5. QED
    BY <1>3, <1>4, NextParts

\* The descriptor of a new connection is not in the table, so the snapshot
\* in poll_args keeps its meaning.
LEMMA AcceptInv == LoopInv /\ (handle_accept \/ AcceptFails) => LoopInv'
  <1> SUFFICES ASSUME LoopInv, handle_accept \/ AcceptFails
               PROVE  LoopInv'
    OBVIOUS
  <1>1. /\ UNCHANGED timerVars /\ pc' = "conns"
        /\ poll_args' = poll_args /\ revents' = revents /\ cur' = cur
        /\ timeout_ms' = timeout_ms /\ wake' = wake /\ now_ms' = now_ms /\ nworks' = nworks
    BY DEF handle_accept, AcceptFails, turnVars, pollVars
  <1>2. TimerType /\ ConnInv /\ TurnType /\ WaitType /\ PollInv /\ TimerType' /\ now' = now
    BY <1>1, Parts, SameTimers
  <1>3. ConnInv' /\ Live \subseteq Live'
    <2>1. CASE AcceptFails
      BY <1>1, <2>1, QuietFacts DEF AcceptFails
    <2>2. CASE handle_accept
      <3> DEFINE fd == Least(Fd \ open)
                 c  == [want_read |-> TRUE, want_write |-> FALSE, want_close |-> FALSE,
                        outgoing |-> 0, last_active_ms |-> now]
      <3>1. /\ Fd \ open # {} /\ open' = open \cup {fd} /\ fd2conn' = [fd2conn EXCEPT ![fd] = c]
            /\ idle_list' = dlist_insert_before(idle_list, Head, fd)
        BY <2>2 DEF handle_accept
      <3>2. fd \in Fd \ open
        BY <3>1, LeastFacts, EventLoopAssumption
      <3>3. c \in Conn /\ c.last_active_ms = now
        BY <1>2, EventLoopAssumption DEF Conn, TimerType
      <3> HIDE DEF fd, c
      <3>4. /\ open = Live /\ idle_list \in Lists(Node, Node \cup {NULL})
            /\ Linked(idle_list, Live \cup {Head}) /\ OneCycle(idle_list, Live \cup {Head})
            /\ \A y \in Live : idle_list.next[y] \in Live =>
                 fd2conn[y].last_active_ms <= fd2conn[idle_list.next[y]].last_active_ms
        BY <1>2 DEF ConnInv, ConnType, LinkInv, AgeInv, IdleListByAge
      <3>5. fd \in Fd /\ fd \notin Live
        BY <3>2, <3>4
      <3>6. ConnInv' /\ Live' = Live \cup {fd}
        BY <1>2, <3>1, <3>3, <3>4, <3>5, AppendConn
      <3>7. QED
        BY <3>6
    <2>3. QED
      BY <2>1, <2>2
  <1>4. TurnType' /\ WaitType' /\ PollInv'
    BY <1>1, <1>2, <1>3 DEF TurnType, WaitType, PollInv, PolledIsLive
  <1>5. QED
    BY <1>2, <1>3, <1>4, NextParts

LEMMA ServeInv == LoopInv /\ ServeConn => LoopInv'
  <1> SUFFICES ASSUME LoopInv, ServeConn
               PROVE  LoopInv'
    OBVIOUS
  <1> DEFINE fd == Least(poll_args)
             b  == [fd2conn[fd] EXCEPT !.last_active_ms = now]
             m  == dlist_detach(idle_list, fd)
  <1>1. /\ UNCHANGED timerVars /\ pc' \in {"finish", "parse"} /\ poll_args # {}
        /\ open' = open /\ cur' = fd /\ idle_list' = dlist_insert_before(m, Head, fd)
        /\ \/ fd2conn' = [fd2conn EXCEPT ![fd] = b]
           \/ fd2conn' = [fd2conn EXCEPT ![fd] = [b EXCEPT !.want_close = TRUE]]
        /\ poll_args' = poll_args /\ revents' = revents
        /\ timeout_ms' = timeout_ms /\ wake' = wake /\ now_ms' = now_ms /\ nworks' = nworks
    BY DEF ServeConn, pollVars
  <1>2. TimerType /\ ConnInv /\ TurnType /\ WaitType /\ PollInv /\ TimerType' /\ now' = now
    BY <1>1, Parts, SameTimers
  <1>3. fd \in poll_args /\ fd \in Live
    BY <1>1, <1>2, LeastFacts, EventLoopAssumption DEF TurnType, PollInv, PolledIsLive
  <1> HIDE DEF fd
  <1>4. fd \in Fd /\ fd2conn[fd] \in Conn
    BY <1>2, <1>3, ConnFacts
  <1>5. PICK c \in Conn : c.last_active_ms = now /\ fd2conn' = [fd2conn EXCEPT ![fd] = c]
    <2>1. b \in Conn /\ b.last_active_ms = now
      BY <1>2, <1>4 DEF Conn, TimerType
    <2> HIDE DEF b
    <2>2. [b EXCEPT !.want_close = TRUE] \in Conn /\ [b EXCEPT !.want_close = TRUE].last_active_ms = now
      BY <2>1 DEF Conn
    <2>3. QED
      BY <1>1, <2>1, <2>2
  <1>6. /\ m \in Lists(Node, Node \cup {NULL})
        /\ Linked(m, (Live \ {fd}) \cup {Head}) /\ OneCycle(m, (Live \ {fd}) \cup {Head})
        /\ \A y \in Live \ {fd} : m.next[y] \in Live =>
             fd2conn[y].last_active_ms <= fd2conn[m.next[y]].last_active_ms
    BY <1>2, <1>3, DetachConn
  <1> HIDE DEF m
  <1>7. ConnInv' /\ Live' = Live
    <2> DEFINE S == Live \ {fd}
    <2>1. /\ fd \notin S /\ Live \cup {fd} = S \cup {fd} /\ S \subseteq Live
          /\ open' = open \cup {fd} /\ Live \cup {fd} = Live
      BY <1>1, <1>2, <1>3 DEF ConnInv, LinkInv
    <2>2. /\ Linked(m, S \cup {Head}) /\ OneCycle(m, S \cup {Head})
          /\ \A y \in S : m.next[y] \in Live =>
               fd2conn[y].last_active_ms <= fd2conn[m.next[y]].last_active_ms
      BY <1>6
    <2> HIDE DEF S
    <2>3. ConnInv' /\ Live' = Live \cup {fd}
      BY <1>1, <1>2, <1>4, <1>5, <1>6, <2>1, <2>2, AppendConn
    <2>4. QED
      BY <2>1, <2>3
  <1>8. TurnType' /\ WaitType' /\ PollInv'
    BY <1>1, <1>2, <1>3, <1>4, <1>7 DEF TurnType, WaitType, PollInv, PolledIsLive
  <1>9. QED
    BY <1>2, <1>7, <1>8, NextParts

\* handle_write leaves a Conn that was active when it was before.
LEMMA WriteFacts ==
  ASSUME NEW c \in Conn, NEW d \in HandleWrite(c)
  PROVE  d \in Conn /\ d.last_active_ms = c.last_active_ms
  <1>1. CASE d = c \/ d = [c EXCEPT !.want_close = TRUE]
    BY <1>1 DEF Conn
  <1>2. ASSUME NEW n \in 1..c.outgoing,
               d = [c EXCEPT !.outgoing = @ - n, !.want_read = @ \/ n = c.outgoing,
                             !.want_write = @ /\ n # c.outgoing]
        PROVE  d \in Conn /\ d.last_active_ms = c.last_active_ms
    <2>1. /\ c.outgoing \in 0..MaxOut /\ c.last_active_ms \in Nat /\ MaxOut \in Nat
          /\ c.outgoing - n \in 0..MaxOut
      BY <1>2, EventLoopAssumption DEF Conn
    <2>2. QED
      BY <1>2, <2>1 DEF Conn
  <1>3. QED
    BY <1>1, <1>2 DEF HandleWrite

\* The steps between ServeConn and FinishConn: what they leave alone, and the
\* Conn that main is looking at.
LEMMA CurFacts ==
  ASSUME LoopInv, pc \in {"parse", "finish"}
  PROVE  cur \in poll_args /\ cur \in Live /\ cur \in Fd /\ fd2conn[cur] \in Conn
  <1>1. ConnInv /\ PollInv
    BY Parts
  <1>2. cur \in poll_args /\ cur \in Live
    BY <1>1 DEF PollInv, PolledIsLive
  <1>3. QED
    BY <1>1, <1>2, ConnFacts

LEMMA TryOneInv == LoopInv /\ try_one_request => LoopInv'
  <1> SUFFICES ASSUME LoopInv, try_one_request
               PROVE  LoopInv'
    OBVIOUS
  <1> DEFINE c == [fd2conn[cur] EXCEPT !.outgoing = @ + 1]
  <1>1. /\ pc = "parse" /\ fd2conn[cur].outgoing < MaxOut /\ do_request
        /\ fd2conn' = [fd2conn EXCEPT ![cur] = c]
        /\ open' = open /\ idle_list' = idle_list /\ pc' = pc
        /\ poll_args' = poll_args /\ revents' = revents /\ cur' = cur
        /\ timeout_ms' = timeout_ms /\ wake' = wake /\ now_ms' = now_ms /\ nworks' = nworks
    BY DEF try_one_request, turnVars, pollVars
  <1>2. TimerType /\ ConnInv /\ TurnType /\ WaitType /\ PollInv /\ TimerType' /\ now' = now
    BY <1>1, Parts, RequestTimers
  <1>3. cur \in Live /\ fd2conn[cur] \in Conn
    BY <1>1, CurFacts
  <1>4. c \in Conn /\ c.last_active_ms = fd2conn[cur].last_active_ms
    BY <1>1, <1>3, EventLoopAssumption DEF Conn
  <1> HIDE DEF c
  <1>5. ConnInv' /\ Live' = Live
    BY <1>1, <1>2, <1>3, <1>4, UpdateConn
  <1>6. TurnType' /\ WaitType' /\ PollInv'
    BY <1>1, <1>2, <1>5 DEF TurnType, WaitType, PollInv, PolledIsLive
  <1>7. QED
    BY <1>2, <1>5, <1>6, NextParts

LEMMA ReadDoneInv == LoopInv /\ ReadDone => LoopInv'
  <1> SUFFICES ASSUME LoopInv, ReadDone
               PROVE  LoopInv'
    OBVIOUS
  <1>1. /\ pc = "parse" /\ UNCHANGED timerVars
        /\ open' = open /\ idle_list' = idle_list /\ pc' = "finish"
        /\ poll_args' = poll_args /\ revents' = revents /\ cur' = cur
        /\ timeout_ms' = timeout_ms /\ wake' = wake /\ now_ms' = now_ms /\ nworks' = nworks
    BY DEF ReadDone, turnVars, pollVars
  <1>2. TimerType /\ ConnInv /\ TurnType /\ WaitType /\ PollInv /\ TimerType' /\ now' = now
    BY <1>1, Parts, SameTimers
  <1>3. cur \in Live /\ fd2conn[cur] \in Conn
    BY <1>1, CurFacts
  <1>4. PICK d \in Conn : /\ d.last_active_ms = fd2conn[cur].last_active_ms
                          /\ fd2conn' = [fd2conn EXCEPT ![cur] = d]
    <2>1. PICK bad \in BOOLEAN :
            LET c == [fd2conn[cur] EXCEPT !.want_close = @ \/ bad] IN
            IF c.outgoing = 0 THEN fd2conn' = [fd2conn EXCEPT ![cur] = c]
            ELSE \E d \in HandleWrite([c EXCEPT !.want_read = FALSE, !.want_write = TRUE]) :
                   fd2conn' = [fd2conn EXCEPT ![cur] = d]
      BY DEF ReadDone
    <2> DEFINE c == [fd2conn[cur] EXCEPT !.want_close = @ \/ bad]
               e == [c EXCEPT !.want_read = FALSE, !.want_write = TRUE]
    <2>2. c \in Conn /\ c.last_active_ms = fd2conn[cur].last_active_ms
      BY <1>3 DEF Conn
    <2>3. \/ fd2conn' = [fd2conn EXCEPT ![cur] = c]
          \/ \E d \in HandleWrite(e) : fd2conn' = [fd2conn EXCEPT ![cur] = d]
      BY <2>1
    <2> HIDE DEF c
    <2>4. e \in Conn /\ e.last_active_ms = c.last_active_ms
      BY <2>2 DEF Conn
    <2> HIDE DEF e
    <2>5. QED
      BY <2>2, <2>3, <2>4, WriteFacts
  <1>5. ConnInv' /\ Live' = Live
    BY <1>1, <1>2, <1>3, <1>4, UpdateConn
  <1>6. TurnType' /\ WaitType' /\ PollInv'
    BY <1>1, <1>2, <1>5 DEF TurnType, WaitType, PollInv, PolledIsLive
  <1>7. QED
    BY <1>2, <1>5, <1>6, NextParts

\* A connection that is closed leaves poll_args in the same step.
LEMMA FinishInv == LoopInv /\ FinishConn => LoopInv'
  <1> SUFFICES ASSUME LoopInv, FinishConn
               PROVE  LoopInv'
    OBVIOUS
  <1>1. /\ pc = "finish" /\ UNCHANGED timerVars /\ pc' = "conns"
        /\ poll_args' = poll_args \ {cur} /\ revents' = [revents EXCEPT ![cur] = {}] /\ cur' = NoFd
        /\ timeout_ms' = timeout_ms /\ wake' = wake /\ now_ms' = now_ms /\ nworks' = nworks
    BY DEF FinishConn, pollVars
  <1>2. TimerType /\ ConnInv /\ TurnType /\ WaitType /\ PollInv /\ TimerType' /\ now' = now
    BY <1>1, Parts, SameTimers
  <1>3. cur \in Live /\ cur \in Fd /\ fd2conn[cur] \in Conn
    BY <1>1, CurFacts
  <1>4. PICK c \in IF "OUT" \in revents[cur] THEN HandleWrite(fd2conn[cur]) ELSE {fd2conn[cur]} :
          \/ conn_destroy(cur)
          \/ fd2conn' = [fd2conn EXCEPT ![cur] = c] /\ open' = open /\ idle_list' = idle_list
    BY DEF FinishConn
  <1>5. c \in Conn /\ c.last_active_ms = fd2conn[cur].last_active_ms
    BY <1>3, <1>4, WriteFacts
  <1>6. ConnInv' /\ Live \ {cur} \subseteq Live'
    <2>1. CASE conn_destroy(cur)
      BY <1>2, <1>3, <2>1, DestroyConn
    <2>2. CASE fd2conn' = [fd2conn EXCEPT ![cur] = c] /\ open' = open /\ idle_list' = idle_list
      BY <1>2, <1>3, <1>5, <2>2, UpdateConn
    <2>3. QED
      BY <1>4, <2>1, <2>2
  <1>7. TurnType' /\ WaitType' /\ PollInv'
    BY <1>1, <1>2, <1>3, <1>6 DEF TurnType, WaitType, PollInv, PolledIsLive
  <1>8. QED
    BY <1>2, <1>6, <1>7, NextParts

\* process_timers runs with poll_args used up.
LEMMA TimersInv ==
  LoopInv /\ (TimersBegin \/ IdleDone \/ EvictKey \/ TimersEnd) => LoopInv'
  <1> SUFFICES ASSUME LoopInv, TimersBegin \/ IdleDone \/ EvictKey \/ TimersEnd
               PROVE  LoopInv'
    OBVIOUS
  <1>1. TimerType /\ ConnInv /\ TurnType /\ WaitType /\ PollInv
    BY Parts
  <1>2. /\ UNCHANGED connVars /\ pc' \in {"build", "idle", "ttl"}
        /\ poll_args' = poll_args /\ revents' = revents /\ cur' = cur /\ poll_args = {}
        /\ timeout_ms' = timeout_ms /\ wake' = wake
    BY <1>1 DEF TimersBegin, IdleDone, EvictKey, TimersEnd, turnVars, pollVars, PollInv
  <1>3. now_ms' \in Nat /\ nworks' \in Nat
    BY <1>1 DEF TimersBegin, IdleDone, EvictKey, TimersEnd, TimerType, WaitType
  <1>4. TimerType' /\ now' = now
    BY <1>1, SameTimers, SweepTimers, EvictTimers DEF TimersBegin, IdleDone, EvictKey, TimersEnd
  <1>5. ConnInv' /\ Live' = Live
    <2>1. now' \in Nat /\ now' >= now
      BY <1>1, <1>4 DEF TimerType
    <2>2. QED
      BY <1>1, <1>2, <2>1, SameConns
  <1>6. TurnType' /\ WaitType' /\ PollInv'
    BY <1>1, <1>2, <1>3, <1>5 DEF TurnType, WaitType, PollInv, PolledIsLive
  <1>7. QED
    BY <1>4, <1>5, <1>6, NextParts

LEMMA ExpireInv == LoopInv /\ ExpireConn => LoopInv'
  <1> SUFFICES ASSUME LoopInv, ExpireConn
               PROVE  LoopInv'
    OBVIOUS
  <1>1. /\ pc = "idle" /\ ~dlist_empty(idle_list, Head) /\ conn_destroy(Front)
        /\ UNCHANGED timerVars /\ pc' = pc
        /\ poll_args' = poll_args /\ revents' = revents /\ cur' = cur
        /\ timeout_ms' = timeout_ms /\ wake' = wake /\ now_ms' = now_ms /\ nworks' = nworks
    BY DEF ExpireConn, FrontExpired, turnVars, pollVars
  <1>2. TimerType /\ ConnInv /\ TurnType /\ WaitType /\ PollInv /\ TimerType' /\ now' = now
    BY <1>1, Parts, SameTimers
  <1>3. Front \in Live
    BY <1>1, <1>2, FrontFacts
  <1>4. ConnInv'
    <2> DEFINE fd == Front
    <2>1. fd \in Live /\ conn_destroy(fd)
      BY <1>1, <1>3
    <2> HIDE DEF fd
    <2>2. QED
      BY <1>2, <2>1, DestroyConn
  <1>5. TurnType' /\ WaitType' /\ PollInv'
    BY <1>1, <1>2 DEF TurnType, WaitType, PollInv, PolledIsLive
  <1>6. QED
    BY <1>2, <1>4, <1>5, NextParts

\* Time passes, or nothing happens.
LEMMA TickInv == LoopInv /\ (Tick \/ UNCHANGED vars) => LoopInv'
  <1> SUFFICES ASSUME LoopInv, Tick \/ UNCHANGED vars
               PROVE  LoopInv'
    OBVIOUS
  <1>1. /\ TTick \/ UNCHANGED timerVars
        /\ UNCHANGED connVars /\ pc' = pc
        /\ poll_args' = poll_args /\ revents' = revents /\ cur' = cur
        /\ timeout_ms' = timeout_ms /\ wake' = wake /\ now_ms' = now_ms /\ nworks' = nworks
    BY DEF Tick, vars, turnVars, pollVars
  <1>2. TimerType /\ ConnInv /\ TurnType /\ WaitType /\ PollInv
    BY Parts
  <1>3. TimerType' /\ now' >= now
    BY <1>1, <1>2, SameTimers, TickTimers DEF TimerType
  <1>4. ConnInv' /\ Live' = Live
    BY <1>1, <1>2, <1>3, SameConns DEF TimerType
  <1>5. TurnType' /\ WaitType' /\ PollInv'
    BY <1>1, <1>2, <1>4 DEF TurnType, WaitType, PollInv, PolledIsLive
  <1>6. QED
    BY <1>3, <1>4, <1>5, NextParts

-----------------------------------------------------------------------------
(* The theorems.                                                           *)

\* The invariant of main's loop.
THEOREM LoopInvariant == Spec => []LoopInv
  <1>1. LoopInv /\ [Next]_vars => LoopInv'
    BY BuildInv, PollEnterInv, PollEndInv, AcceptInv, ServeInv, TryOneInv, ReadDoneInv,
       FinishInv, TimersInv, ExpireInv, TickInv
       DEF Next, Running
  <1>2. QED
    BY InitInv, <1>1, PTL DEF Spec

\* The variables keep their types.
THEOREM TypeCorrect == Spec => []TypeOK
  <1>1. LoopInv => TypeOK
    BY DEF LoopInv
  <1>2. QED
    BY <1>1, LoopInvariant, PTL

\* main never looks up a descriptor of poll_args whose Conn is gone.
THEOREM PolledIsLiveCorrect == Spec => []PolledIsLive
  <1>1. LoopInv => PolledIsLive
    BY DEF LoopInv, PollInv
  <1>2. QED
    BY <1>1, LoopInvariant, PTL

\* fd2conn, the open descriptors and the idle list name the same connections.
THEOREM TableAgreesCorrect == Spec => []TableAgrees
  <1>1. LoopInv => TableAgrees
    <2> SUFFICES ASSUME LoopInv
                 PROVE  TableAgrees
      OBVIOUS
    <2>1. ConnInv
      BY Parts
    <2>2. /\ open = Live /\ Linked(idle_list, Live \cup {Head})
          /\ OneCycle(idle_list, Live \cup {Head})
      BY <2>1 DEF ConnInv, LinkInv
    <2>3. Head \notin Live /\ Live \cup {Head} \subseteq DOMAIN idle_list.next
      BY <2>1, NodeFacts DEF ConnInv, ConnType, Lists
    <2>4. IsFiniteSet(Live)
      BY NodeFacts, EventLoopAssumption, FS_Subset
    <2>5. IsListOf(idle_list, Head, Live, Cardinality(Live))
      BY <2>2, <2>3, <2>4, CycleIsList
    <2>6. QED
      BY <2>2, <2>5 DEF TableAgrees
  <1>2. QED
    BY <1>1, LoopInvariant, PTL

\* The idle list is ordered by age, so process_timers may stop at the first
\* connection that has not expired.
THEOREM IdleListByAgeCorrect == Spec => []IdleListByAge
  <1>1. LoopInv => IdleListByAge
    BY DEF LoopInv, AgeInv
  <1>2. QED
    BY <1>1, LoopInvariant, PTL

-----------------------------------------------------------------------------
(* The timeout of poll, when every timer fits it.                          *)

LEMMA CastFacts ==
  ASSUME NEW n \in Nat, n < 2^(IntBits - 1)
  PROVE  ToInt32(n) = n
  <1> DEFINE h == 2^(IntBits - 1)
             m == 2^IntBits
  <1>1. h \in Nat \ {0} /\ m = 2 * h /\ n < h
    BY PowerAssumption
  <1>2. ToInt32(n) = IF n % m < h THEN n % m ELSE (n % m) - m
    BY DEF ToInt32
  <1> HIDE DEF h, m
  <1>3. n % m = n
    BY <1>1
  <1>4. QED
    BY <1>1, <1>2, <1>3

\* No timer is further away than the largest timeout.
LEMMA NearFacts ==
  ASSUME TimersFit, TimerType, ConnInv, FitInv
  PROVE  \A t \in IdleTimer \cup TtlTimers : t \in Nat /\ t < now + 2^(IntBits - 1)
  <1> DEFINE h == 2^(IntBits - 1)
  <1>1. /\ h \in Nat /\ k_idle_timeout_ms < h /\ k_idle_timeout_ms \in Nat /\ now \in Nat
        /\ \A k \in Key : expire[k] < now + h
    BY PowerAssumption, EventLoopAssumption DEF TimersFit, FitInv, TimerType
  <1> HIDE DEF h
  <1>2. ASSUME NEW t \in IdleTimer
        PROVE  t < now + h
    <2>1. ~dlist_empty(idle_list, Head) /\ t = fd2conn[Front].last_active_ms + k_idle_timeout_ms
      BY <1>2 DEF IdleTimer
    <2>2. Front \in Live
      BY <2>1, FrontFacts
    <2>3. fd2conn[Front].last_active_ms \in Nat /\ fd2conn[Front].last_active_ms <= now
      BY <2>2, ConnFacts DEF ConnInv, AgeInv
    <2>4. QED
      BY <1>1, <2>1, <2>3
  <1>3. \A t \in TtlTimers : t < now + h
    BY <1>1 DEF TtlTimers
  <1>4. QED
    BY <1>2, <1>3, TimerFacts DEF h

\* The step that samples the clock.
LEMMA BuildSleeps ==
  ASSUME TimersFit, LoopInv, FitInv, BuildPollArgs
  PROVE  SleepsToNextTimer'
  <1> DEFINE timers == IdleTimer \cup TtlTimers
  <1>1. /\ timeout_ms' = next_timer_ms /\ now_ms' = now
        /\ fd2conn' = fd2conn /\ idle_list' = idle_list /\ expire' = expire
    BY DEF BuildPollArgs, timerVars, connVars
  <1>2. IdleTimer' = IdleTimer /\ TtlTimers' = TtlTimers
    BY <1>1 DEF IdleTimer, TtlTimers, Front, dlist_empty
  <1>3. now \in Nat /\ TimerType /\ ConnInv
    BY Parts DEF TimerType
  <1>4. \A t \in timers : t \in Nat /\ t < now + 2^(IntBits - 1)
    BY <1>3, NearFacts
  <1>5. timeout_ms' = IF timers = {} THEN -1
                      ELSE IF Least(timers) <= now THEN 0
                      ELSE ToInt32(Least(timers) - now)
    BY <1>1 DEF next_timer_ms
  <1> HIDE DEF timers
  <1>6. IF timers = {} THEN timeout_ms' < 0
        ELSE /\ timeout_ms' >= 0
             /\ Least(timers) <= now => timeout_ms' = 0
             /\ Least(timers) > now => now + timeout_ms' = Least(timers)
    <2>1. CASE timers = {}
      BY <1>5, <2>1
    <2>2. CASE timers # {}
      <3>1. Least(timers) \in timers /\ Least(timers) \in Nat
        BY <1>4, <2>2, LeastFacts
      <3>2. CASE Least(timers) <= now
        BY <1>3, <1>5, <2>2, <3>1, <3>2
      <3>3. CASE Least(timers) > now
        <4> DEFINE n == Least(timers) - now
        <4>1. n \in Nat /\ n < 2^(IntBits - 1)
          BY <1>3, <1>4, <3>1, <3>3, PowerAssumption
        <4>2. ToInt32(n) = n
          <5> HIDE DEF n
          <5> QED
            BY <4>1, CastFacts
        <4>3. timeout_ms' = Least(timers) - now
          BY <1>3, <1>5, <2>2, <3>1, <3>3, <4>2
        <4>4. QED
          BY <1>3, <2>2, <3>1, <3>3, <4>3
      <3>4. QED
        BY <1>3, <3>1, <3>2, <3>3
    <2>3. QED
      BY <2>1, <2>2
  <1>7. timers = IdleTimer' \cup TtlTimers'
    BY <1>2 DEF timers
  <1>8. QED
    BY <1>1, <1>6, <1>7 DEF SleepsToNextTimer, Least

\* Between the sample and the return of poll no timer changes.
LEMMA OtherSleeps ==
  ASSUME LoopInv, FitInv, [Next]_vars, ~BuildPollArgs
  PROVE  SleepsToNextTimer'
  <1> SUFFICES ASSUME pc' \in {"poll", "sleep"}
               PROVE  SleepsToNextTimer'
    BY DEF SleepsToNextTimer
  <1>1. PollEnter \/ Tick \/ UNCHANGED vars
    <2>1. ~(PollReturn \/ PollInterrupted \/ handle_accept \/ AcceptFails \/ FinishConn)
      BY DEF PollReturn, PollInterrupted, handle_accept, AcceptFails, FinishConn
    <2>2. ~(ServeConn \/ try_one_request \/ ReadDone)
      BY DEF ServeConn, try_one_request, ReadDone
    <2>3. ~(TimersBegin \/ ExpireConn \/ IdleDone \/ EvictKey \/ TimersEnd)
      BY DEF TimersBegin, ExpireConn, IdleDone, EvictKey, TimersEnd
    <2>4. QED
      BY <2>1, <2>2, <2>3 DEF Next, Running
  <1>2. /\ pc \in {"poll", "sleep"} /\ timeout_ms' = timeout_ms /\ now_ms' = now_ms
        /\ fd2conn' = fd2conn /\ idle_list' = idle_list /\ expire' = expire
    BY <1>1 DEF PollEnter, Tick, TTick, vars, timerVars, connVars, pollVars
  <1>3. IdleTimer' = IdleTimer /\ TtlTimers' = TtlTimers
    BY <1>2 DEF IdleTimer, TtlTimers, Front, dlist_empty
  <1>4. QED
    BY <1>2, <1>3 DEF FitInv, SleepsToNextTimer, Least

LEMMA FitStep ==
  ASSUME TimersFit, LoopInv, FitInv, [Next]_vars
  PROVE  FitInv'
  <1> DEFINE h == 2^(IntBits - 1)
  <1>1. TimerType /\ now \in Nat /\ expire \in [Key -> Nat \cup {NoTtl}]
    BY Parts DEF TimerType
  <1>2. /\ h \in Nat \ {0} /\ \A k \in Key : expire[k] < now + h
        /\ \A t \in Ttl : t \in Nat /\ t < h
    BY PowerAssumption, EventLoopAssumption DEF FitInv, TimersFit
  <1> HIDE DEF h
  <1>3. TTick \/ TSweepBegin \/ TSweepEnd \/ do_request \/ (\E k \in Key : TEvict(k))
    <2>1. BuildPollArgs \/ PollEnter \/ PollReturn \/ PollInterrupted => UNCHANGED timerVars
      BY DEF BuildPollArgs, PollEnter, PollReturn, PollInterrupted
    <2>2. handle_accept \/ AcceptFails \/ ServeConn \/ ReadDone \/ FinishConn => UNCHANGED timerVars
      BY DEF handle_accept, AcceptFails, ServeConn, ReadDone, FinishConn
    <2>3. TimersBegin \/ ExpireConn => UNCHANGED timerVars
      BY DEF TimersBegin, ExpireConn
    <2>4. try_one_request => do_request
      BY DEF try_one_request
    <2>5. IdleDone => TSweepBegin
      BY DEF IdleDone
    <2>6. TimersEnd => TSweepEnd
      BY DEF TimersEnd
    <2>7. EvictKey => \E k \in Key : TEvict(k)
      BY DEF EvictKey
    <2>8. Tick => TTick
      BY DEF Tick
    <2>9. UNCHANGED vars => UNCHANGED timerVars
      BY DEF vars
    <2>10. UNCHANGED timerVars => do_request
      BY DEF do_request
    <2>11. QED
      BY <2>1, <2>2, <2>3, <2>4, <2>5, <2>6, <2>7, <2>8, <2>9, <2>10 DEF Next, Running
  <1>4. now' \in Nat /\ now' >= now
    <2>1. now' = now \/ now' = now + 1
      BY <1>1, <1>3, TickTimers, SweepTimers, RequestTimers, EvictTimers
    <2>2. QED
      BY <1>1, <2>1
  <1>5. \A k \in Key : expire'[k] < now' + h
    <2>1. \/ expire' = expire
          \/ \E k \in Key : expire' = [expire EXCEPT ![k] = NoTtl]
          \/ \E k \in Key, ttl \in Ttl : expire' = [expire EXCEPT ![k] = now + ttl]
      BY <1>3 DEF TTick, TSweepBegin, TSweepEnd, do_request, TEvict, TInsert, TSetTtl, TPersist,
                  TDel, TRemove, timerVars
    <2>2. NoTtl \in Int /\ NoTtl < now + h
      BY <1>1, <1>2 DEF NoTtl
    <2>3. \A ttl \in Ttl : now + ttl \in Int /\ now + ttl < now + h
      BY <1>1, <1>2
    <2>4. \A k \in Key : expire'[k] \in Int /\ expire'[k] < now + h
      BY <1>1, <1>2, <2>1, <2>2, <2>3
    <2>5. QED
      BY <1>1, <1>2, <1>4, <2>4
  <1>6. SleepsToNextTimer'
    BY BuildSleeps, OtherSleeps
  <1>7. QED
    BY <1>5, <1>6 DEF FitInv, h

\* If no client asks for a TTL beyond the largest timeout of poll, poll
\* sleeps to exactly the next timer: next_timer_ms goes wrong by its cast
\* and by nothing else.
THEOREM SleepsCorrect ==
  ASSUME TimersFit
  PROVE  Spec => []SleepsToNextTimer
  <1>1. Init => FitInv
    <2> SUFFICES ASSUME Init
                 PROVE  FitInv
      OBVIOUS
    <2>1. now = 0 /\ expire = [k \in Key |-> NoTtl] /\ pc = "build"
      BY DEF Init, TInit
    <2>2. QED
      BY <2>1, PowerAssumption DEF FitInv, SleepsToNextTimer, NoTtl
  <1>2. LoopInv /\ FitInv /\ [Next]_vars => FitInv'
    BY FitStep
  <1>3. FitInv => SleepsToNextTimer
    BY DEF FitInv
  <1>4. QED
    BY <1>1, <1>2, <1>3, LoopInvariant, PTL DEF Spec
=============================================================================
