-------------------------------- MODULE Wire --------------------------------
(***************************************************************************)
(* The wire format: how the clients (client.cpp, benchmark.cpp, aphelo.py) *)
(* write a request, how the server reads it (parse_req), how the server    *)
(* writes a response (out_*, response_end), and how the clients read it    *)
(* (read_res with print_response, and _execute).                           *)
(*                                                                         *)
(* A message is a sequence of cells, each an integer.  A tag, a length, a  *)
(* count, a number and one byte of a string take one cell each, so nothing *)
(* on the wire tells them apart.  A string is the sequence of its bytes.   *)
(*                                                                         *)
(* A reply is a sequence of items, one for each call of out_*.  An item is *)
(* its tag and its value: <<TAG_STR>> \o s, <<TAG_INT, n>>, <<TAG_ERR, c>>; *)
(* <<TAG_ARR, n>> announces that the next n items are its elements.        *)
(*                                                                         *)
(* A definition named D_Fault is D with a fault; no specification uses it. *)
(***************************************************************************)
EXTENDS Integers, Sequences, SequencesExt

CONSTANTS
  k_max_args,       \* strings in a request (200000)
  k_max_msg,        \* size of a message, in the server (32 MiB)
  client_k_max_msg  \* the same constant of client.cpp (4096)

ASSUME WireAssumption ==
  /\ k_max_args \in Nat
  /\ k_max_msg \in Nat /\ k_max_msg >= 4   \* the error of response_end fits
  /\ client_k_max_msg \in Nat

TAG_NIL == 0
TAG_ERR == 1
TAG_STR == 2
TAG_INT == 3
TAG_DBL == 4
TAG_ARR == 5

ERR_UNKNOWN == 1
ERR_TOO_BIG == 2
ERR_BAD_TYP == 3
ERR_BAD_ARG == 4

\* A message is preceded by its length.
Framed(body) == <<Len(body)>> \o body

-----------------------------------------------------------------------------
(* Requests *)

pack_command(args) ==
  Framed(<<Len(args)>> \o
         FlattenSeq([i \in 1..Len(args) |-> <<Len(args[i])>> \o args[i]]))

\* send_req writes the same bytes, but no message above the client's limit.
send_req_accepts(cmd) == Len(Tail(pack_command(cmd))) <= client_k_max_msg

Failed == [ok |-> FALSE, cur |-> 0, out |-> << >>]

\* One turn of the loop of parse_req on the `size' cells of data, with c.cur
\* of them consumed: a length, then as many bytes.
read_str(data, c) ==
  LET n == data[c.cur + 1] IN
  IF ~c.ok \/ c.cur + 1 > Len(data) \/ c.cur + 1 + n > Len(data) THEN Failed
  ELSE [ok |-> TRUE, cur |-> c.cur + 1 + n,
        out |-> Append(c.out, SubSeq(data, c.cur + 2, c.cur + 1 + n))]

\* The cursor behind the strings that data announces.
ReadStrings(data) ==
  LET turn[i \in 0..data[1]] ==
        IF i = 0 THEN [ok |-> TRUE, cur |-> 1, out |-> << >>]
        ELSE read_str(data, turn[i - 1])
  IN turn[data[1]]

\* Fault: what follows the last string is ignored.
parse_req_IgnoresRest(data) ==
  IF data = << >> \/ data[1] > k_max_args THEN Failed ELSE ReadStrings(data)

parse_req(data) ==
  IF data = << >> \/ data[1] > k_max_args THEN Failed
  ELSE LET end == ReadStrings(data)
       IN IF end.cur = Len(data) THEN end ELSE Failed

-----------------------------------------------------------------------------
(* Responses *)

Nil        == << <<TAG_NIL>> >>
Int64(n)   == << <<TAG_INT, n>> >>
Dbl(x)     == << <<TAG_DBL, x>> >>
Str(s)     == << <<TAG_STR>> \o s >>
Err(code)  == << <<TAG_ERR, code>> >>

\* out_arr before the elements, or out_begin_arr and out_end_arr around them:
\* the caller says how many there are, and writes them.
Arr(n, elements) == << <<TAG_ARR, n>> >> \o elements

\* The bytes of an item.  The text of an error is one cell.
out_item(item) ==
  CASE item[1] = TAG_STR -> <<TAG_STR, Len(item) - 1>> \o Tail(item)
    [] item[1] = TAG_ERR -> item \o <<1, 0>>
    [] OTHER             -> item

Body(items) == FlattenSeq([i \in 1..Len(items) |-> out_item(items[i])])

\* What replaces a response that is too big: everything behind its header.
Limited(items) == IF Len(Body(items)) > k_max_msg THEN Err(ERR_TOO_BIG) ELSE items

\* response_begin, the items, response_end: the message for `items'.
response(items) == Framed(Body(Limited(items)))

-----------------------------------------------------------------------------
(* The clients' side *)

BadResponse == [ok |-> FALSE, next |-> 0, left |-> 0, items |-> << >>]

\* Cells behind the tag at p that belong to it, if they are there.
ValueSize(data, p) ==
  CASE data[p] = TAG_NIL              -> 0
    [] data[p] = TAG_ERR              -> IF p + 2 > Len(data) THEN 2 ELSE 2 + data[p + 2]
    [] data[p] = TAG_STR              -> IF p + 1 > Len(data) THEN 1 ELSE 1 + data[p + 1]
    [] data[p] \in {TAG_INT, TAG_DBL, TAG_ARR} -> 1
    [] OTHER                          -> Len(data)

\* The item at p as it is printed.
ItemAt(data, p) ==
  CASE data[p] = TAG_NIL -> <<TAG_NIL>>
    [] data[p] = TAG_STR -> <<TAG_STR>> \o SubSeq(data, p + 2, p + 1 + data[p + 1])
    [] OTHER             -> <<data[p], data[p + 1]>>

\* One call of print_response, up to its calls for the elements of an array:
\* the value at cell c.next is printed, and c.left values are still to come.
print_value(data, c) ==
  LET p == c.next IN
  IF c.left = 0 THEN c
  ELSE IF p > Len(data) THEN BadResponse
  ELSE IF p + ValueSize(data, p) > Len(data) THEN BadResponse
  ELSE [ok |-> TRUE, next |-> p + 1 + ValueSize(data, p),
        left |-> c.left - 1 + (IF data[p] = TAG_ARR THEN data[p + 1] ELSE 0),
        items |-> Append(c.items, ItemAt(data, p))]

\* print_response with all its calls, one after the other: the items printed
\* and the cell behind them.  A call takes a cell or fails, so these are enough.
print_response(data) ==
  LET call[i \in 0..(Len(data) + 1)] ==
        IF i = 0 THEN [ok |-> TRUE, next |-> 1, left |-> 1, items |-> << >>]
        ELSE print_value(data, call[i - 1])
  IN call[Len(data) + 1]

\* client.cpp: the items printed for a message, or a complaint.
read_res(message) ==
  LET rv == print_response(Tail(message)) IN
  IF message[1] > client_k_max_msg THEN BadResponse
  ELSE IF rv.ok /\ rv.next # Len(message) THEN BadResponse
  ELSE rv

\* aphelo.py: the value of a message, which trusts the lengths inside it and
\* knows no arrays.
execute(message) ==
  LET payload == Tail(message) IN
  IF payload[1] \in {TAG_NIL, TAG_ERR, TAG_STR, TAG_INT, TAG_DBL}
  THEN ItemAt(payload, 1) ELSE << >>
=============================================================================
