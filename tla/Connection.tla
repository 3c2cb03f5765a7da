----------------------------- MODULE Connection -----------------------------
(***************************************************************************)
(* One client connection: handle_read, try_one_request, handle_write and   *)
(* the intents want_read, want_write and want_close of server.cpp, with    *)
(* the socket buffers of the kernel and a client at the other end.         *)
(*                                                                         *)
(* Bytes are tokens.  A request is two tokens on the wire, its length      *)
(* header and its body, and so is a response; reads and writes may stop    *)
(* between any two tokens.  The client pipelines the requests of `script'; *)
(* a "bad" request is one that parse_req rejects, a "long" one announces   *)
(* more than k_max_msg bytes.                                              *)
(*                                                                         *)
(* A definition named D_Fault is D with a fault; no specification uses it. *)
(***************************************************************************)
EXTENDS Integers, Sequences

CONSTANTS
  MaxReq,      \* bound of the model: requests the client sends
  RxCap,       \* capacity of the socket buffer towards the server
  TxCap,       \* capacity of the socket buffer towards the client
  ReadMax,     \* size of handle_read's stack buffer (64 KiB)
  Manners,     \* the clients there are: "early" ones read responses as they
               \* come, "late" ones only after they have sent everything
  MayVanish    \* the client may close its socket at any time

ASSUME ConnectionAssumption ==
  /\ MaxReq \in Nat /\ ReadMax \in Nat \ {0}
  /\ RxCap \in Nat \ {0} /\ TxCap \in Nat \ {0}
  /\ Manners \subseteq {"early", "late"} /\ MayVanish \in BOOLEAN

VARIABLES
  script,      \* the kinds of the requests the client sends
  manner,      \* when the client reads: one of Manners
  sent,        \* number of tokens the client has sent
  received,    \* tokens of responses the client has read
  peer,        \* "open", "shut" (the client sent FIN), "gone" (it closed)
  rx, tx,      \* the socket buffers
  sockerr,     \* the socket's pending error: "none", "reset" or "pipe"
  want_read, want_write, want_close,
  incoming, outgoing,
  done,        \* requests do_request was called for, in order
  pc           \* "poll", "parse", "closed", or "killed" by SIGPIPE

clientVars == <<script, manner, sent, received, peer>>
sockVars   == <<rx, tx, sockerr>>
connVars   == <<want_read, want_write, want_close, incoming, outgoing, done>>
vars == <<clientVars, sockVars, connVars, pc>>

Kind  == {"ok", "bad", "long"}
Token == [req : 1..MaxReq, part : {"header", "body"}]

\* The n-th token of a stream of messages.
TokenAt(n) == [req |-> (n + 1) \div 2, part |-> IF n % 2 = 1 THEN "header" ELSE "body"]
Total == 2 * Len(script)

Init ==
  /\ script \in UNION {[1..n -> Kind] : n \in 1..MaxReq}
  /\ manner \in Manners
  /\ sent = 0 /\ received = << >> /\ peer = "open"
  /\ rx = << >> /\ tx = << >> /\ sockerr = "none"
  /\ want_read = TRUE /\ want_write = FALSE /\ want_close = FALSE
  /\ incoming = << >> /\ outgoing = << >> /\ done = << >>
  /\ pc = "poll"

-----------------------------------------------------------------------------
(* The client and the network *)

ClientSend ==
  /\ peer = "open"
  /\ sent < Total /\ Len(rx) < RxCap
  /\ sent' = sent + 1
  /\ rx' = Append(rx, TokenAt(sent + 1))
  /\ UNCHANGED <<script, manner, received, peer, tx, sockerr, connVars, pc>>

ClientRecv ==
  /\ peer # "gone"
  /\ manner = "early" \/ sent = Total \/ peer = "shut"
  /\ tx # << >>
  /\ received' = Append(received, Head(tx))
  /\ tx' = Tail(tx)
  /\ UNCHANGED <<script, manner, sent, peer, rx, sockerr, connVars, pc>>

\* The client will send no more but still reads.
ClientShutdown ==
  /\ peer = "open"
  /\ peer' = "shut"
  /\ UNCHANGED <<script, manner, sent, received, sockVars, connVars, pc>>

\* Closing a socket with unread input resets the connection.  Otherwise the
\* client sends FIN, and its kernel answers the segments in flight, or the
\* next one that arrives, with a reset: a broken pipe.
ClientClose ==
  /\ MayVanish
  /\ peer # "gone" /\ pc \in {"poll", "parse"}
  /\ peer' = "gone"
  /\ sockerr' \in IF tx = << >> THEN {"none"} ELSE {"reset", "pipe"}
  /\ tx' = << >>
  /\ UNCHANGED <<script, manner, sent, received, rx, connVars, pc>>

-----------------------------------------------------------------------------
(* The server *)

\* Fault: one byte too many is consumed.
buf_consume_OffByOne(buf, n) == SubSeq(buf, n + 2, Len(buf))

buf_consume(buf, n) == SubSeq(buf, n + 1, Len(buf))
AtMost(m, n) == IF m < n THEN m ELSE n

\* Fault: the response is filed under the request behind it.
response_ForNext(i) == << [req |-> i + 1, part |-> "header"], [req |-> i + 1, part |-> "body"] >>

response(i) == << [req |-> i, part |-> "header"], [req |-> i, part |-> "body"] >>

\* After a handler returns, main destroys the connection if it must close.
Finish(close) == pc' = IF close THEN "closed" ELSE "poll"

\* Fault: handle_write does not notice that everything is written.
AllWritten_Never(n, out) == FALSE

AllWritten(n, out) == n = Len(out)

\* handle_write of the output `out'.  The kernel takes what it has room for;
\* nothing is EAGAIN.  A write to a socket with a pending error fails, and
\* the error of a broken pipe also raises SIGPIPE, which main leaves at its
\* default action.
handle_write(out, close) ==
  \/ /\ sockerr = "none"
     /\ LET n == AtMost(TxCap - Len(tx), Len(out))
        IN /\ outgoing' = buf_consume(out, n)
           /\ want_read' = AllWritten(n, out)
           /\ want_write' = ~AllWritten(n, out)
           /\ tx' = IF peer = "gone" THEN tx ELSE tx \o SubSeq(out, 1, n)
           /\ sockerr' = IF peer = "gone" THEN "pipe" ELSE sockerr
     /\ want_close' = close
     /\ Finish(close)
  \/ /\ sockerr # "none"
     /\ outgoing' = out /\ want_read' = FALSE /\ want_write' = TRUE
     /\ want_close' = TRUE
     /\ IF sockerr = "pipe" THEN pc' = "killed" ELSE Finish(TRUE)
     /\ UNCHANGED <<tx, sockerr>>

\* POLLIN: the data that has arrived, up to the size of the stack buffer.  With
\* an error pending the kernel may still hand out what came before it.
HandleReadData ==
  /\ pc = "poll" /\ want_read
  /\ rx # << >>
  /\ LET n == AtMost(Len(rx), ReadMax) IN
       /\ incoming' = incoming \o SubSeq(rx, 1, n)
       /\ rx' = buf_consume(rx, n)
  /\ pc' = "parse"
  /\ UNCHANGED <<clientVars, tx, sockerr, want_read, want_write, want_close,
                 outgoing, done>>

\* Fault: the client's FIN ends the connection although data is unread.
AtEof_Eager == peer # "open"

AtEof == rx = << >> /\ peer # "open"

\* POLLIN: end of file, or the pending error.
HandleReadEnd ==
  /\ pc = "poll" /\ want_read
  /\ sockerr # "none" \/ AtEof
  /\ want_close' = TRUE
  /\ Finish(TRUE)
  /\ UNCHANGED <<clientVars, sockVars, want_read, want_write, incoming, outgoing, done>>

\* The request at the front of incoming: what try_one_request makes of it.
HasHeader == Len(incoming) >= 1
Front     == script[Head(incoming).req]
TooLong   == HasHeader /\ Front = "long"
Complete  == HasHeader /\ Len(incoming) >= 2
Malformed == Complete /\ Front = "bad"

\* Fault: the body is not waited for.
Runnable_HeaderOnly == HasHeader /\ Front = "ok"

Runnable == Complete /\ Front = "ok"

\* Fault: try_one_request is called once and not in a loop.
LoopEnds_Once == TRUE

LoopEnds == ~Runnable

\* One turn of `while (try_one_request(conn))' that returns true.
try_one_request ==
  /\ pc = "parse"
  /\ Runnable
  /\ LET i == Head(incoming).req IN
       /\ done' = Append(done, i)
       /\ outgoing' = outgoing \o response(i)
  /\ incoming' = buf_consume(incoming, 2)
  /\ UNCHANGED <<clientVars, sockVars, want_read, want_write, want_close, pc>>

\* It returns false; handle_read writes the responses without waiting for
\* the next turn of the loop.
HandleReadReturn ==
  /\ pc = "parse"
  /\ LoopEnds
  /\ LET close == want_close \/ TooLong \/ Malformed IN
       IF outgoing # << >>
       THEN handle_write(outgoing, close)
       ELSE /\ want_close' = close
            /\ Finish(close)
            /\ UNCHANGED <<want_read, want_write, outgoing, tx, sockerr>>
  /\ UNCHANGED <<clientVars, rx, incoming, done>>

\* POLLOUT: there is room, or the error that the write will meet.
HandleWritable ==
  /\ pc = "poll" /\ want_write
  /\ Len(tx) < TxCap \/ peer = "gone"
  /\ handle_write(outgoing, want_close)
  /\ UNCHANGED <<clientVars, rx, incoming, done>>

-----------------------------------------------------------------------------
Client == ClientSend \/ ClientRecv \/ ClientShutdown \/ ClientClose
Server == \/ HandleReadData \/ HandleReadEnd \/ try_one_request
          \/ HandleReadReturn \/ HandleWritable

Next == Client \/ Server

Spec == Init /\ [][Next]_vars

\* main's loop serves what poll reports, and the client keeps sending and
\* keeps reading.
FairSpec == Spec /\ WF_vars(Server) /\ WF_vars(ClientSend) /\ WF_vars(ClientRecv)

-----------------------------------------------------------------------------
(* Properties *)

\* The types of the variables.
TypeOK ==
  /\ script \in Seq(Kind) /\ manner \in Manners /\ sent \in 0..Total
  /\ received \in Seq(Token) /\ rx \in Seq(Token) /\ tx \in Seq(Token)
  /\ incoming \in Seq(Token) /\ outgoing \in Seq(Token)
  /\ done \in Seq(1..MaxReq)
  /\ peer \in {"open", "shut", "gone"} /\ sockerr \in {"none", "reset", "pipe"}
  /\ {want_read, want_write, want_close} \subseteq BOOLEAN
  /\ pc \in {"poll", "parse", "closed", "killed"}

\* Every request that ran has exactly one response, in the order of the
\* requests, in one piece: what the client has read, what is in flight and
\* what waits in outgoing are one stream, however reads and writes were cut.
ResponsesInOrder ==
  peer # "gone" =>
    LET stream == received \o tx \o outgoing IN
      /\ Len(stream) = 2 * Len(done)
      /\ \A n \in 1..Len(stream) : stream[n] = TokenAt(n)

\* Requests run in the order they were sent, none twice, none skipped, and
\* nothing runs at or behind a bad request.
RunsInOrder ==
  \A n \in 1..Len(done) : done[n] = n /\ script[n] = "ok" /\ 2 * n <= sent

\* When the server goes back to poll no complete request is left behind in
\* incoming: it would wait there until the client sends something else.
NothingLeftBehind == pc = "poll" => ~Complete /\ ~TooLong

\* While responses wait to be written the server polls for room and reads
\* nothing; with nothing to write it polls for requests.
IntentMatchesBuffers ==
  pc = "poll" => /\ want_write <=> outgoing # << >>
                 /\ want_read # want_write
                 /\ ~want_close

\* The client's shutdown does not cost it a response: the server closes a
\* connection in good order only when every complete request has run and
\* its response has been handed to the kernel.
AnsweredBeforeClose ==
  pc = "closed" /\ peer # "gone" /\ (\A i \in 1..Len(script) : script[i] = "ok") =>
    outgoing = << >> /\ rx = << >> /\ Len(done) = sent \div 2

\* Everything the client sends fits: before the server stops reading it has
\* answered TxCap + 1 tokens or more, and RxCap tokens can be sent after that.
FitsBuffers == Total <= RxCap + TxCap + 1

\* The requests that are complete, of a client that sends no bad one and either
\* reads while it sends or sends no more than the socket buffers can hold.
Promised ==
  {i \in 1..(sent \div 2) :
     /\ \A j \in 1..Len(script) : script[j] = "ok"
     /\ manner = "early" \/ FitsBuffers}

\* A client that reads while it sends gets the response to each request it has
\* completed.  So does one that like benchmark.cpp reads nothing before it has
\* written everything, if what it writes fits the socket buffers; for longer
\* bursts see NeverBothWait.
EveryRequestAnswered ==
  \A i \in 1..MaxReq :
    (i \in Promised) ~> (Len(received) >= 2 * i \/ peer = "gone")

\* The server waits for room in a tx that only the client can empty, and has
\* stopped reading meanwhile.
ServerWaits == pc = "poll" /\ want_write /\ Len(tx) = TxCap

\* The client waits for room in an rx that only the server can empty, and
\* reads nothing before it has sent everything.
ClientWaits ==
  manner = "late" /\ peer = "open" /\ sent < Total /\ Len(rx) = RxCap

\* README.md: pipelined commands in high volume are processed.  The server and
\* a client that pipelines without reading never wait for each other.
NeverBothWait == ~(ServerWaits /\ ClientWaits)

\* handle_write: a failing write is reported and sets want_close, "error
\* handling" for this connection only; the server goes on.
WriteErrorIsHandled == pc # "killed"

-----------------------------------------------------------------------------
(* The inductive invariant behind ConnectionProofs *)

\* s is the part of the stream of messages behind its first n tokens.
Segment(s, n) == \A i \in 1..Len(s) : s[i] = TokenAt(n + i)

\* The requests that ran, incoming and rx are what the client has sent.
InStream ==
  /\ Len(script) <= MaxReq
  /\ 2 * Len(done) + Len(incoming) + Len(rx) = sent
  /\ Segment(incoming, 2 * Len(done))
  /\ Segment(rx, 2 * Len(done) + Len(incoming))

\* What the client has read, tx and outgoing are the responses, and tx is not
\* filled beyond its capacity.
OutStream ==
  /\ Len(tx) <= TxCap
  /\ peer # "gone" =>
       /\ Len(received) + Len(tx) + Len(outgoing) = 2 * Len(done)
       /\ Segment(received, 0)
       /\ Segment(tx, Len(received))
       /\ Segment(outgoing, Len(received) + Len(tx))

\* handle_read runs only with nothing to write and no wish to close, and the
\* socket has no error before the client is gone.
IntentInv ==
  /\ IntentMatchesBuffers
  /\ pc = "parse" => want_read /\ ~want_write /\ ~want_close
  /\ sockerr # "none" => peer = "gone"

\* Only the end of its stream makes the server leave a client that is still
\* there and sends no bad request.
CloseInv ==
  /\ AnsweredBeforeClose
  /\ pc = "closed" /\ (\A i \in 1..Len(script) : script[i] = "ok") => peer # "open"

ConnInv ==
  /\ TypeOK /\ InStream /\ OutStream /\ RunsInOrder
  /\ NothingLeftBehind /\ IntentInv /\ CloseInv
=============================================================================
