----------------------------- MODULE MCKeyspace -----------------------------
(***************************************************************************)
(* The instance of Keyspace for TLC.  The keys are long: the response to   *)
(* KEYS with both of them is above the server's limit, with one of them    *)
(* above the client's.                                                     *)
(***************************************************************************)
EXTENDS Keyspace

k1 == [i \in 1..7 |-> 1]
k2 == [i \in 1..7 |-> 2]
MCKey == {k1, k2}

zero == << >>
one  == <<1>>
neg  == <<Minus, 2>>
back == <<Minus, 1>>
nan  == <<Minus>>
a    == << >>
b    == <<5>>

\* All commands on k1; on k2 enough to make it a string or a sorted set with
\* and without a deadline.  ZQUERY starts before, at and behind members, with
\* offsets in both directions to a member or off the set, and limits above, at
\* and below 0.  The last command is one cell above k_max_msg.
MCCommand ==
  {<<KEYS>>, <<GET>>}
  \cup {<<c, k1>> : c \in {GET, DEL, PTTL}} \cup {<<GET, k2>>, <<DEL, k2>>}
  \cup {<<SET, k, b>> : k \in {k1, k2}}
  \cup {<<PEXPIRE, k1, w>> : w \in {zero, one, neg, nan}} \cup {<<PEXPIRE, k2, one>>}
  \cup {<<ZADD, k1, w, n>> : w \in {zero, one}, n \in {a, b}}
  \cup {<<ZADD, k1, nan, a>>, <<ZADD, k2, one, a>>}
  \cup {<<c, k1, n>> : c \in {ZREM, ZSCORE}, n \in {a, b}}
  \cup {<<ZQUERY, k1, zero, n, zero, <<3>>>> : n \in {a, b}}
  \cup {<<ZQUERY, k1, one, b, zero, one>>, <<ZQUERY, k1, zero, b, back, one>>}
  \cup {<<ZQUERY, k1, zero, a, w, one>> : w \in {one, nan}}
  \cup {<<ZQUERY, k1, zero, a, zero, w>> : w \in {zero, neg}}
  \cup {<<ZQUERY, k1, one, b, back, one>>}

\* Every body of up to four small cells: counts and lengths that are too
\* small, too large, or those of the strings that follow; and more strings
\* than k_max_args.
MCGarbage == UNION {[1..n -> 0..3] : n \in 0..4} \cup {<<7, 0, 0, 0, 0, 0, 0, 0>>}
=============================================================================
