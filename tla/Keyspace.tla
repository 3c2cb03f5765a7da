------------------------------ MODULE Keyspace ------------------------------
(***************************************************************************)
(* The commands of the server: do_request and the do_* functions of        *)
(* server.cpp with the types, values and deadlines of the keys, from the   *)
(* bytes of a request to the bytes of its response.                        *)
(*                                                                         *)
(* The parts below the commands are taken at their word: the hash table is *)
(* a map (Dict), the TTL heap gives each key a deadline and each sweep its *)
(* earliest keys (Timers), and a sorted set is a set of members in order   *)
(* (ZSet).  The server has one thread: a request, and a sweep, is a step.  *)
(* Clients take turns; what two of them do in the meantime is one sequence *)
(* of requests.                                                            *)
(*                                                                         *)
(* A definition named D_Fault is D with a fault; no specification uses it. *)
(***************************************************************************)
EXTENDS Wire, FiniteSets

CONSTANTS
  Key,             \* the keys, strings
  Command,         \* what clients ask for: lists of strings
  Garbage,         \* bodies of messages from clients with another protocol
  MaxNow,          \* bound of the model: the clock stops there
  k_max_works      \* evictions after which process_timers yields (2000)

ASSUME KeyspaceAssumption ==
  /\ Command \subseteq Seq(Seq(Nat)) /\ Garbage \subseteq Seq(Nat)
  /\ MaxNow \in Nat /\ k_max_works \in Nat

VARIABLES
  now,      \* get_monotonic_msec()
  entry,    \* entry[k]: the Entry of k, or Absent
  expire,   \* expire[k]: the deadline of k, or NoTtl
  phase,    \* of the exchange: "idle", "sent", "replied" or "closed"
  request,  \* the message to the server
  reply,    \* the message to the client
  meant,    \* history: the items the command wrote
  promise,  \* history: how long k stays at least, by the last answer to PTTL
  swept     \* history: when the last sweep ended that left nothing overdue

dbVars  == <<entry, expire>>
netVars == <<phase, request, reply, meant>>
vars == <<now, dbVars, netVars, promise, swept>>

NoTtl == -1
T_STR == 1
T_ZSET == 2

\* An Entry.  Only the field of its type is ever read.
Entry  == [type : {T_STR, T_ZSET}, str : Seq(Int),
           zset : SUBSET [name : Seq(Int), score : Int]]
Absent == [type |-> 0, str |-> << >>, zset |-> {}]
db     == {k \in Key : entry[k] # Absent}

Init ==
  /\ now = 0
  /\ entry = [k \in Key |-> Absent] /\ expire = [k \in Key |-> NoTtl]
  /\ phase = "idle" /\ request = << >> /\ reply = << >> /\ meant = << >>
  /\ promise = [k \in Key |-> NoTtl] /\ swept = 0

-----------------------------------------------------------------------------
(* The clients *)

\* The first strings of commands.
GET     == <<20>>
SET     == <<21>>
DEL     == <<22>>
KEYS    == <<23>>
PEXPIRE == <<24>>
PTTL    == <<25>>
ZADD    == <<26>>
ZREM    == <<27>>
ZSCORE  == <<28>>
ZQUERY  == <<29>>

Send(message) ==
  /\ phase = "idle"
  /\ phase' = "sent"
  /\ request' = message
  /\ UNCHANGED <<now, dbVars, reply, meant, promise, swept>>

\* client.cpp sends nothing if the message is above its limit; benchmark.cpp
\* and aphelo.py have no limit.
send_req == \E args \in Command : send_req_accepts(args) /\ Send(pack_command(args))
SendCommand == \E args \in Command : Send(pack_command(args))

\* Bound of the model: other messages meet an empty database only; what they
\* are refused for does not depend on it.
SendGarbage == now = 0 /\ db = {} /\ \E body \in Garbage : Send(Framed(body))

\* The client has read its reply, or the end of the stream, and is done.
ClientDone ==
  /\ phase \in {"replied", "closed"}
  /\ phase' = "idle"
  /\ reply' = << >> /\ meant' = << >>
  /\ UNCHANGED <<now, dbVars, request, promise, swept>>

-----------------------------------------------------------------------------
(* Arguments *)

Minus == 10   \* the byte '-'; 0 to 9 are the digits

\* strtoll over the whole string: sign and digits, or nothing at all, which
\* is 0.  For the strings of the model strtod does the same (the one word
\* that it knows besides, nan, str2dbl refuses).
str2int(s) ==
  LET digits == IF s # << >> /\ s[1] = Minus THEN Tail(s) ELSE s
      upTo[i \in 0..Len(digits)] == IF i = 0 THEN 0 ELSE 10 * upTo[i - 1] + digits[i]
      n == upTo[Len(digits)]
  IN [ok  |-> /\ \A i \in 1..Len(digits) : digits[i] \in 0..9
              /\ digits = << >> => s = << >>,
      val |-> IF digits = s THEN n ELSE -n]
str2dbl(s) == str2int(s)

-----------------------------------------------------------------------------
(* The server *)

Parsed == parse_req(Tail(request))
Accepted == Len(Tail(request)) <= k_max_msg /\ Parsed.ok

\* The commands do_request knows, with the number of their strings.
Signature == {<<GET, 2>>, <<SET, 3>>, <<DEL, 2>>, <<KEYS, 1>>, <<ZADD, 4>>, <<ZREM, 3>>,
              <<ZSCORE, 3>>, <<ZQUERY, 6>>, <<PEXPIRE, 3>>, <<PTTL, 2>>}

Called(cmd, name) == cmd # << >> /\ cmd[1] = name /\ <<name, Len(cmd)>> \in Signature

\* All messages of the clients.
Requests == {pack_command(args) : args \in Command} \cup {Framed(body) : body \in Garbage}

\* A key is a string, and Key has every key that a request names.
ASSUME KeyAssumption ==
  /\ Key \subseteq Seq(Nat)
  /\ \A m \in Requests :
       LET req == parse_req(Tail(m)) IN
         req.ok /\ Len(req.out) > 1 /\ Called(req.out, req.out[1]) => req.out[2] \in Key

Respond(items) ==
  /\ meant' = items
  /\ reply' = response(items)
  /\ phase' = "replied" /\ request' = << >>
  /\ UNCHANGED <<now, swept>>

\* The answer of a command that changes nothing.
Answer(items) == Respond(items) /\ UNCHANGED <<dbVars, promise>>

Put(k, e) == entry' = [entry EXCEPT ![k] = e]

do_get(cmd) ==
  /\ Called(cmd, GET)
  /\ LET e == entry[cmd[2]] IN
       Answer(CASE e = Absent     -> Nil
                [] e.type = T_STR -> Str(e.str)
                [] OTHER          -> Err(ERR_BAD_TYP))

\* An existing string keeps its deadline.
do_set(cmd) ==
  /\ Called(cmd, SET)
  /\ LET k == cmd[2] IN
       IF entry[k].type = T_ZSET THEN Answer(Err(ERR_BAD_TYP))
       ELSE /\ Put(k, [Absent EXCEPT !.type = T_STR, !.str = cmd[3]])
            /\ Respond(Nil)
            /\ UNCHANGED <<expire, promise>>

do_del(cmd) ==
  /\ Called(cmd, DEL)
  /\ LET k == cmd[2] IN
       /\ Put(k, Absent)
       /\ expire' = [expire EXCEPT ![k] = NoTtl]
       /\ promise' = [promise EXCEPT ![k] = NoTtl]
       /\ Respond(Int64(IF k \in db THEN 1 ELSE 0))

\* hm_size says how many there are; hm_foreach visits them in the order of the
\* hash table.
do_keys(cmd) ==
  /\ Called(cmd, KEYS)
  /\ \E order \in SetToSeqs(db) :
       Answer(Arr(Cardinality(db), [i \in 1..Len(order) |-> <<TAG_STR>> \o order[i]]))

\* Fault: a negative TTL is a time in the past.
entry_set_ttl_Past(k, ttl) == expire' = [expire EXCEPT ![k] = now + ttl]

\* A negative TTL removes the timer.
entry_set_ttl(k, ttl) ==
  expire' = [expire EXCEPT ![k] = IF ttl < 0 THEN NoTtl ELSE now + ttl]

do_expire(cmd) ==
  /\ Called(cmd, PEXPIRE)
  /\ LET k == cmd[2]  ttl_ms == str2int(cmd[3]) IN
       IF ~ttl_ms.ok THEN Answer(Err(ERR_BAD_ARG))
       ELSE IF k \notin db THEN Answer(Int64(0))
       ELSE /\ entry_set_ttl(k, ttl_ms.val)
            /\ promise' = [promise EXCEPT ![k] = NoTtl]
            /\ Respond(Int64(1))
            /\ UNCHANGED entry

\* What PTTL answers: no key, no timer, or the time left.
TtlReply(k) ==
  IF k \notin db THEN -2
  ELSE IF expire[k] = NoTtl THEN -1
  ELSE IF expire[k] > now THEN expire[k] - now
  ELSE 0

do_ttl(cmd) ==
  /\ Called(cmd, PTTL)
  /\ LET k == cmd[2] IN
       /\ promise' = [promise EXCEPT ![k] =
            CASE TtlReply(k) > 0  -> now + TtlReply(k)
              [] TtlReply(k) = -1 -> MaxNow
              [] OTHER            -> NoTtl]
       /\ Respond(Int64(TtlReply(k)))
  /\ UNCHANGED dbVars

\* Fault: the set is created before the score is checked.
do_zadd_CreatesFirst(cmd) ==
  /\ Called(cmd, ZADD)
  /\ LET k == cmd[2]  score == str2dbl(cmd[3])  name == cmd[4]
         others == {m \in entry[k].zset : m.name # name}
     IN IF entry[k].type = T_STR THEN Answer(Err(ERR_BAD_TYP))
        ELSE /\ Put(k, [Absent EXCEPT !.type = T_ZSET, !.zset =
                  IF score.ok THEN others \cup {[name |-> name, score |-> score.val]} ELSE @])
             /\ Respond(IF score.ok THEN Int64(1) ELSE Err(ERR_BAD_ARG))
             /\ UNCHANGED <<expire, promise>>

\* The score is checked before the set is created.
do_zadd(cmd) ==
  /\ Called(cmd, ZADD)
  /\ LET k == cmd[2]  score == str2dbl(cmd[3])  name == cmd[4]
         others == {m \in entry[k].zset : m.name # name}
     IN IF ~score.ok THEN Answer(Err(ERR_BAD_ARG))
        ELSE IF entry[k].type = T_STR THEN Answer(Err(ERR_BAD_TYP))
        ELSE /\ Put(k, [Absent EXCEPT !.type = T_ZSET,
                          !.zset = others \cup {[name |-> name, score |-> score.val]}])
             /\ Respond(Int64(IF others = entry[k].zset THEN 1 ELSE 0))
             /\ UNCHANGED <<expire, promise>>

\* A key that is not there is an empty sorted set.
expect_zset(k) == entry[k].type # T_STR

\* The last member leaves an empty sorted set behind.
do_zrem(cmd) ==
  /\ Called(cmd, ZREM)
  /\ LET k == cmd[2]
         others == {m \in entry[k].zset : m.name # cmd[3]}
     IN IF ~expect_zset(k) THEN Answer(Err(ERR_BAD_TYP))
        ELSE /\ Put(k, [entry[k] EXCEPT !.zset = others])
             /\ Respond(Int64(IF others = entry[k].zset THEN 0 ELSE 1))
             /\ UNCHANGED <<expire, promise>>

do_zscore(cmd) ==
  /\ Called(cmd, ZSCORE)
  /\ LET found == {m \in entry[cmd[2]].zset : m.name = cmd[3]} IN
       IF ~expect_zset(cmd[2]) THEN Answer(Err(ERR_BAD_TYP))
       ELSE IF found = {} THEN Answer(Nil)
       ELSE \E m \in found : Answer(Dbl(m.score))

\* memcmp over the shorter name, then the length.
NameLess(a, b) ==
  \/ IsStrictPrefix(a, b)
  \/ \E i \in 1..Len(a) : /\ i <= Len(b) /\ a[i] < b[i]
                          /\ \A j \in 1..(i - 1) : a[j] = b[j]
zless(m, n) ==
  \/ m.score < n.score
  \/ m.score = n.score /\ NameLess(m.name, n.name)

\* The members from the one `offset' places behind the first that is not
\* before `start': one in each turn of the loop, which ends at `limit'.
ZQueryMembers(zset, start, offset, limit) ==
  LET before == {m \in zset : zless(m, start)}
      total  == Cardinality(zset)
      first  == IF before = zset THEN 0 ELSE Cardinality(before) + 1 + offset
      upTo   == first + (limit + 1) \div 2 - 1
      last   == IF upTo > total THEN total ELSE upTo
      nth(i) == CHOOSE m \in zset : Cardinality({x \in zset : zless(x, m)}) = i - 1
  IN IF first < 1 THEN << >>
     ELSE [i \in 1..(last - first + 1) |-> nth(first + i - 1)]

\* What each turn writes.
ZQueryItems(found) ==
  FlattenSeq([i \in 1..Len(found) |-> Str(found[i].name) \o Dbl(found[i].score)])

\* Fault: n counts the members.
ZQueryCount_Members(found) == Len(found)

\* The counter n, which out_end_arr patches into the response.
ZQueryCount(found) == 2 * Len(found)

do_zquery(cmd) ==
  /\ Called(cmd, ZQUERY)
  /\ LET score == str2dbl(cmd[3])  offset == str2int(cmd[5])  limit == str2int(cmd[6])
         found == ZQueryMembers(entry[cmd[2]].zset, [name |-> cmd[4], score |-> score.val],
                                offset.val, limit.val)
     IN Answer(IF ~(score.ok /\ offset.ok /\ limit.ok) THEN Err(ERR_BAD_ARG)
               ELSE IF ~expect_zset(cmd[2]) THEN Err(ERR_BAD_TYP)
               ELSE IF limit.val <= 0 THEN Arr(0, << >>)
               ELSE Arr(ZQueryCount(found), ZQueryItems(found)))

do_unknown(cmd) ==
  /\ \A s \in Signature : ~Called(cmd, s[1])
  /\ Answer(Err(ERR_UNKNOWN))

\* A message that is too long or cannot be parsed ends the connection.
BadRequest ==
  /\ phase = "sent" /\ ~Accepted
  /\ phase' = "closed" /\ request' = << >>
  /\ UNCHANGED <<now, dbVars, reply, meant, promise, swept>>

-----------------------------------------------------------------------------
(* process_timers and the clock *)

\* Fault: a key is due at its deadline.
Due_AtDeadline == {k \in Key : expire[k] # NoTtl /\ expire[k] <= now}

Due == {k \in Key : expire[k] # NoTtl /\ expire[k] < now}

\* The keys of one sweep: all that are due, or a full batch of the earliest.
Batch ==
  {V \in SUBSET Due :
     /\ \A k \in V, j \in Due \ V : expire[k] <= expire[j]
     /\ V = Due \/ Cardinality(V) = k_max_works + 1
     /\ Cardinality(V) <= k_max_works + 1}

process_timers ==
  \E V \in Batch :
    /\ entry' = [k \in Key |-> IF k \in V THEN Absent ELSE entry[k]]
    /\ expire' = [k \in Key |-> IF k \in V THEN NoTtl ELSE expire[k]]
    /\ swept' = IF V = Due THEN now ELSE swept
    /\ UNCHANGED <<now, netVars, promise>>

Tick ==
  /\ now < MaxNow
  /\ now' = now + 1
  /\ UNCHANGED <<dbVars, netVars, promise, swept>>

-----------------------------------------------------------------------------
do_request(cmd) ==
  \/ do_get(cmd) \/ do_set(cmd) \/ do_del(cmd) \/ do_keys(cmd)
  \/ do_expire(cmd) \/ do_ttl(cmd)
  \/ do_zadd(cmd) \/ do_zrem(cmd) \/ do_zscore(cmd) \/ do_zquery(cmd)
  \/ do_unknown(cmd)

\* try_one_request: the message is parsed, run and answered.
try_one_request == phase = "sent" /\ Accepted /\ \E cmd \in {Parsed.out} : do_request(cmd)

Client == send_req \/ SendCommand \/ SendGarbage \/ ClientDone

Next == Client \/ try_one_request \/ BadRequest \/ process_timers \/ Tick

Spec == Init /\ [][Next]_vars

-----------------------------------------------------------------------------
(* Properties *)

\* The types of the variables.
TypeOK ==
  /\ now \in Nat /\ swept \in 0..now
  /\ entry \in [Key -> Entry \cup {Absent}]
  /\ expire \in [Key -> Nat \cup {NoTtl}] /\ promise \in [Key -> Nat \cup {NoTtl}]
  /\ phase \in {"idle", "sent", "replied", "closed"}
  /\ request \in Seq(Int) /\ reply \in Seq(Int) /\ meant \in Seq(Seq(Int))

\* What the command wrote is what a client reads: client.cpp prints exactly
\* these items and finds nothing behind them, or the error that stands for a
\* response above the server's limit; it complains only of a message above
\* its own limit.  aphelo.py returns the same value, if it is no array.
ClientReadsReply ==
  phase = "replied" =>
    LET items == IF Len(Body(meant)) > k_max_msg THEN Err(ERR_TOO_BIG) ELSE meant
        printed == read_res(reply)
    IN /\ reply[1] = Len(reply) - 1 /\ reply[1] <= k_max_msg
       /\ printed.ok <=> reply[1] <= client_k_max_msg
       /\ printed.ok => printed.items = items
       /\ items[1][1] # TAG_ARR => execute(reply) = items[1]

\* parse_req accepts exactly the messages that encode a list of strings: what
\* it accepts encodes back to the same bytes, and what a client encodes is
\* not refused, up to the limit on messages.
AcceptsExactlyCommands ==
  [][phase = "sent" /\ phase' # "sent" =>
       IF phase' = "replied" THEN request = pack_command(Parsed.out)
       ELSE Len(Tail(request)) > k_max_msg \/ \A args \in Command : request # pack_command(args)]_vars

\* An error means that the command did nothing, and 0 that it added and
\* removed neither a key nor a member: no check fails after the first
\* change, and a response that is replaced as too big hides no change.
Population == {<<k, entry[k].type, {m.name : m \in entry[k].zset}>> : k \in db}
ErrorsChangeNothing ==
  [][phase' = "replied" /\ phase = "sent" =>
       /\ reply'[2] = TAG_ERR => UNCHANGED dbVars
       /\ Tail(reply') = <<TAG_INT, 0>> => Population' = Population]_vars

\* A key lives as long as its client was told and not much longer.  Until the
\* key is deleted or given another TTL, it is there for the whole time left
\* that PTTL answered, and for good if the answer was that it has no TTL.
\* Although the commands do not look at deadlines, no key answers that was
\* overdue when the last complete sweep ended.
LifetimeAsPromised ==
  \A k \in Key :
    /\ promise[k] >= now => k \in db
    /\ expire[k] # NoTtl => expire[k] >= swept /\ k \in db

-----------------------------------------------------------------------------
(* The inductive invariant behind KeyspaceProofs *)

\* Cells behind their number.
IsMessage(m) == m \in Seq(Nat) /\ m # << >> /\ Head(m) = Len(Tail(m))

\* The types of what the commands work on.
DbType ==
  /\ now \in Nat /\ swept \in 0..now
  /\ entry \in [Key -> Entry \cup {Absent}]
  /\ expire \in [Key -> Nat \cup {NoTtl}] /\ promise \in [Key -> Nat \cup {NoTtl}]
  /\ phase = "sent" => IsMessage(request)

\* What was promised for a key is not more than its deadline allows.
PromiseInv ==
  \A k \in Key : promise[k] >= now => expire[k] = NoTtl \/ promise[k] <= expire[k]

KeyInv == DbType /\ PromiseInv /\ LifetimeAsPromised

\* No command has more strings than a request may have.
CommandsFit == \A args \in Command : Len(args) <= k_max_args
=============================================================================
