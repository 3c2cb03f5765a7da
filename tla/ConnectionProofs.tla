-------------------------- MODULE ConnectionProofs --------------------------
(***************************************************************************)
(* Machine-checked proofs about Connection, for any number of requests,    *)
(* any capacities of the buffers and any client.                           *)
(***************************************************************************)
EXTENDS Connection, SequenceTheorems, TLAPS

-----------------------------------------------------------------------------
(* Streams and their segments.                                             *)

LEMMA TokenFacts ==
  /\ \A n \in 1..(2 * MaxReq) : TokenAt(n) \in Token
  /\ \A d \in Nat : /\ TokenAt(2 * d + 1) = [req |-> d + 1, part |-> "header"]
                    /\ TokenAt(2 * d + 2) = [req |-> d + 1, part |-> "body"]
  <1>1. MaxReq \in Nat
    BY ConnectionAssumption
  <1>2. ASSUME NEW n \in 1..(2 * MaxReq)
        PROVE  TokenAt(n) \in Token
    BY <1>1 DEF TokenAt, Token
  <1>3. ASSUME NEW d \in Nat
        PROVE  /\ TokenAt(2 * d + 1) = [req |-> d + 1, part |-> "header"]
               /\ TokenAt(2 * d + 2) = [req |-> d + 1, part |-> "body"]
    <2>1. /\ (2 * d + 1 + 1) \div 2 = d + 1 /\ (2 * d + 1) % 2 = 1
          /\ (2 * d + 2 + 1) \div 2 = d + 1 /\ (2 * d + 2) % 2 = 0
      OBVIOUS
    <2>2. QED
      BY <2>1 DEF TokenAt
  <1>4. QED
    BY <1>2, <1>3

\* The front and the rest of a segment, as reads and writes cut it.
LEMMA CutFacts ==
  ASSUME NEW s \in Seq(Token), NEW n \in 0..Len(s)
  PROVE  /\ SubSeq(s, 1, n) \in Seq(Token) /\ Len(SubSeq(s, 1, n)) = n
         /\ buf_consume(s, n) \in Seq(Token) /\ Len(buf_consume(s, n)) = Len(s) - n
         /\ \A f \in Nat : Segment(s, f) =>
              Segment(SubSeq(s, 1, n), f) /\ Segment(buf_consume(s, n), f + n)
  <1>1. /\ Len(s) \in Nat
        /\ \A i \in 1..Len(s) : s[i] \in Token
    BY LenProperties, ElementOfSeq
  <1>2. /\ SubSeq(s, 1, n) \in Seq(Token) /\ Len(SubSeq(s, 1, n)) = n
        /\ \A i \in 1..n : SubSeq(s, 1, n)[i] = s[i]
    BY <1>1, SubSeqProperties
  <1>3. /\ buf_consume(s, n) \in Seq(Token) /\ Len(buf_consume(s, n)) = Len(s) - n
        /\ \A i \in 1..(Len(s) - n) : buf_consume(s, n)[i] = s[n + i]
    <2> DEFINE u == SubSeq(s, n + 1, Len(s))
    <2>1. \A i \in (n + 1)..Len(s) : s[i] \in Token
      BY <1>1
    <2>2. /\ u \in Seq(Token)
          /\ Len(u) = IF n + 1 <= Len(s) THEN Len(s) - (n + 1) + 1 ELSE 0
          /\ \A i \in 1..(Len(s) - (n + 1) + 1) : u[i] = s[n + 1 + i - 1]
      BY <1>1, <2>1, SubSeqProperties
    <2> HIDE DEF u
    <2>3. /\ Len(u) = Len(s) - n
          /\ \A i \in 1..(Len(s) - n) : u[i] = s[n + i]
      BY <1>1, <2>2
    <2>4. QED
      BY <2>2, <2>3 DEF buf_consume, u
  <1>4. ASSUME NEW f \in Nat, Segment(s, f)
        PROVE  Segment(SubSeq(s, 1, n), f) /\ Segment(buf_consume(s, n), f + n)
    <2>1. Segment(SubSeq(s, 1, n), f)
      BY <1>1, <1>2, <1>4 DEF Segment
    <2>2. ASSUME NEW i \in 1..(Len(s) - n)
          PROVE  buf_consume(s, n)[i] = TokenAt(f + n + i)
      <3>1. n + i \in 1..Len(s) /\ f + (n + i) = f + n + i
        BY <1>1
      <3>2. s[n + i] = TokenAt(f + (n + i))
        BY <1>4, <3>1 DEF Segment
      <3>3. QED
        BY <1>3, <3>1, <3>2
    <2>3. QED
      BY <1>3, <2>1, <2>2 DEF Segment
  <1>5. QED
    BY <1>2, <1>3, <1>4

\* A segment that continues another.
LEMMA JoinFacts ==
  ASSUME NEW s \in Seq(Token), NEW t \in Seq(Token)
  PROVE  /\ s \o t \in Seq(Token) /\ Len(s \o t) = Len(s) + Len(t)
         /\ \A f \in Nat : Segment(s, f) /\ Segment(t, f + Len(s)) => Segment(s \o t, f)
  <1>1. Len(s) \in Nat /\ Len(t) \in Nat
    BY LenProperties
  <1>2. /\ s \o t \in Seq(Token) /\ Len(s \o t) = Len(s) + Len(t)
        /\ \A i \in 1..(Len(s) + Len(t)) :
             (s \o t)[i] = IF i <= Len(s) THEN s[i] ELSE t[i - Len(s)]
    BY ConcatProperties
  <1>3. ASSUME NEW f \in Nat, Segment(s, f), Segment(t, f + Len(s)),
               NEW i \in 1..(Len(s) + Len(t))
        PROVE  (s \o t)[i] = TokenAt(f + i)
    <2>1. CASE i <= Len(s)
      BY <1>1, <1>2, <1>3, <2>1 DEF Segment
    <2>2. CASE ~(i <= Len(s))
      <3>1. i - Len(s) \in 1..Len(t) /\ f + Len(s) + (i - Len(s)) = f + i
        BY <1>1, <2>2
      <3>2. t[i - Len(s)] = TokenAt(f + Len(s) + (i - Len(s)))
        BY <1>3, <3>1 DEF Segment
      <3>3. QED
        BY <1>2, <2>2, <3>1, <3>2
    <2>3. QED
      BY <2>1, <2>2
  <1>4. QED
    BY <1>2, <1>3 DEF Segment

LEMMA AppendFacts ==
  ASSUME NEW s \in Seq(Token), NEW e \in Token
  PROVE  /\ Append(s, e) \in Seq(Token) /\ Len(Append(s, e)) = Len(s) + 1
         /\ \A f \in Nat : Segment(s, f) /\ e = TokenAt(f + Len(s) + 1) =>
              Segment(Append(s, e), f)
  <1>1. Len(s) \in Nat
    BY LenProperties
  <1>2. /\ Append(s, e) \in Seq(Token) /\ Len(Append(s, e)) = Len(s) + 1
        /\ \A i \in 1..Len(s) : Append(s, e)[i] = s[i]
        /\ Append(s, e)[Len(s) + 1] = e
    BY AppendProperties
  <1>3. ASSUME NEW f \in Nat, Segment(s, f), e = TokenAt(f + Len(s) + 1),
               NEW i \in 1..(Len(s) + 1)
        PROVE  Append(s, e)[i] = TokenAt(f + i)
    <2>1. CASE i = Len(s) + 1
      <3>1. f + i = f + Len(s) + 1
        BY <1>1, <2>1
      <3>2. QED
        BY <1>2, <1>3, <2>1, <3>1
    <2>2. CASE i # Len(s) + 1
      BY <1>1, <1>2, <1>3, <2>2 DEF Segment
    <2>3. QED
      BY <2>1, <2>2
  <1>4. QED
    BY <1>2, <1>3 DEF Segment

LEMMA HeadTailFacts ==
  ASSUME NEW s \in Seq(Token), s # << >>
  PROVE  /\ Head(s) \in Token /\ Head(s) = s[1]
         /\ Tail(s) \in Seq(Token) /\ Len(Tail(s)) = Len(s) - 1 /\ Len(s) >= 1
         /\ \A f \in Nat : Segment(s, f) =>
              Head(s) = TokenAt(f + 1) /\ Segment(Tail(s), f + 1)
  <1>1. Len(s) \in Nat /\ Len(s) >= 1
    BY EmptySeq
  <1>2. /\ Head(s) \in Token /\ Head(s) = s[1] /\ Tail(s) \in Seq(Token)
        /\ Len(Tail(s)) = Len(s) - 1
        /\ \A i \in 1..(Len(s) - 1) : Tail(s)[i] = s[i + 1]
    BY HeadTailProperties
  <1>3. ASSUME NEW f \in Nat, Segment(s, f)
        PROVE  Head(s) = TokenAt(f + 1) /\ Segment(Tail(s), f + 1)
    <2>1. ASSUME NEW i \in 1..(Len(s) - 1)
          PROVE  Tail(s)[i] = TokenAt(f + 1 + i)
      <3>1. i + 1 \in 1..Len(s) /\ f + (i + 1) = f + 1 + i
        BY <1>1
      <3>2. s[i + 1] = TokenAt(f + (i + 1))
        BY <1>3, <3>1 DEF Segment
      <3>3. QED
        BY <1>2, <3>1, <3>2
    <2>2. QED
      BY <1>1, <1>2, <1>3, <2>1 DEF Segment
  <1>4. QED
    BY <1>1, <1>2, <1>3

-----------------------------------------------------------------------------
(* The invariant.                                                          *)

\* The types, each by itself.
Typed ==
  /\ script \in Seq(Kind) /\ manner \in Manners /\ sent \in 0..(2 * Len(script))
  /\ received \in Seq(Token) /\ rx \in Seq(Token) /\ tx \in Seq(Token)
  /\ incoming \in Seq(Token) /\ outgoing \in Seq(Token) /\ done \in Seq(1..MaxReq)
  /\ peer \in {"open", "shut", "gone"} /\ sockerr \in {"none", "reset", "pipe"}
  /\ want_read \in BOOLEAN /\ want_write \in BOOLEAN /\ want_close \in BOOLEAN
  /\ pc \in {"poll", "parse", "closed", "killed"}

LEMMA TypedFacts == TypeOK <=> Typed
  BY Zenon DEF TypeOK, Typed, Total

LEMMA Lengths ==
  ASSUME TypeOK
  PROVE  /\ Len(script) \in Nat /\ Len(received) \in Nat /\ Len(rx) \in Nat /\ Len(tx) \in Nat
         /\ Len(incoming) \in Nat /\ Len(outgoing) \in Nat /\ Len(done) \in Nat
         /\ sent \in Nat /\ sent <= 2 * Len(script)
         /\ MaxReq \in Nat /\ TxCap \in Nat \ {0} /\ ReadMax \in Nat \ {0}
         /\ (incoming = << >> <=> Len(incoming) = 0)
         /\ (outgoing = << >> <=> Len(outgoing) = 0)
         /\ (rx = << >> <=> Len(rx) = 0)
  <1>1. Typed
    BY TypedFacts
  <1>2. /\ Len(script) \in Nat /\ Len(received) \in Nat /\ Len(rx) \in Nat /\ Len(tx) \in Nat
        /\ Len(incoming) \in Nat /\ Len(outgoing) \in Nat /\ Len(done) \in Nat
    BY <1>1, LenProperties DEF Typed
  <1>3. /\ (incoming = << >> <=> Len(incoming) = 0)
        /\ (outgoing = << >> <=> Len(outgoing) = 0)
        /\ (rx = << >> <=> Len(rx) = 0)
    BY <1>1, EmptySeq DEF Typed
  <1>4. QED
    BY <1>1, <1>2, <1>3, ConnectionAssumption DEF Typed

LEMMA InitInv == Init => ConnInv
  <1> SUFFICES ASSUME Init
               PROVE  ConnInv
    OBVIOUS
  <1>1. PICK n \in 1..MaxReq : script \in [1..n -> Kind]
    BY DEF Init
  <1>2. n \in Nat /\ MaxReq \in Nat /\ TxCap \in Nat
    BY ConnectionAssumption
  <1>3. script \in Seq(Kind) /\ Len(script) = n
    BY <1>1, <1>2
  <1>4. /\ manner \in Manners /\ sent = 0 /\ received = << >> /\ peer = "open"
        /\ rx = << >> /\ tx = << >> /\ sockerr = "none"
        /\ want_read = TRUE /\ want_write = FALSE /\ want_close = FALSE
        /\ incoming = << >> /\ outgoing = << >> /\ done = << >> /\ pc = "poll"
    BY DEF Init
  <1>5. Len(<< >>) = 0 /\ << >> \in Seq(Token) /\ << >> \in Seq(1..MaxReq)
    BY EmptySeq
  <1>6. TypeOK
    <2>1. sent \in 0..(2 * Len(script))
      BY <1>2, <1>3, <1>4
    <2>2. Typed
      BY <1>3, <1>4, <1>5, <2>1, Zenon DEF Typed
    <2>3. QED
      BY <2>2, TypedFacts
  <1>7. InStream /\ OutStream
    BY <1>2, <1>3, <1>4, <1>5 DEF InStream, OutStream, Segment
  <1>8. RunsInOrder /\ NothingLeftBehind
    BY <1>4, <1>5 DEF RunsInOrder, NothingLeftBehind, Complete, TooLong, HasHeader
  <1>9. IntentInv /\ CloseInv
    BY <1>4 DEF IntentInv, IntentMatchesBuffers, CloseInv, AnsweredBeforeClose
  <1>10. QED
    BY <1>6, <1>7, <1>8, <1>9 DEF ConnInv

\* The streams of the next state.
LEMMA NextStreams ==
  /\ /\ Len(script') <= MaxReq /\ 2 * Len(done') + Len(incoming') + Len(rx') = sent'
     /\ Segment(incoming', 2 * Len(done')) /\ Segment(rx', 2 * Len(done') + Len(incoming'))
     => InStream'
  /\ /\ Len(tx') <= TxCap
     /\ peer' # "gone" =>
          /\ Len(received') + Len(tx') + Len(outgoing') = 2 * Len(done')
          /\ Segment(received', 0) /\ Segment(tx', Len(received'))
          /\ Segment(outgoing', Len(received') + Len(tx'))
     => OutStream'
  BY Zenon DEF InStream, OutStream, Segment

\* The client and the network.

LEMMA ClientSendInv == ConnInv /\ ClientSend => ConnInv'
  <1> SUFFICES ASSUME ConnInv, ClientSend
               PROVE  ConnInv'
    OBVIOUS
  <1>1. /\ peer = "open" /\ sent < 2 * Len(script) /\ sent' = sent + 1
        /\ rx' = Append(rx, TokenAt(sent + 1))
        /\ script' = script /\ manner' = manner /\ received' = received /\ peer' = peer
        /\ tx' = tx /\ sockerr' = sockerr /\ want_read' = want_read
        /\ want_write' = want_write /\ want_close' = want_close /\ incoming' = incoming
        /\ outgoing' = outgoing /\ done' = done /\ pc' = pc
    BY DEF ClientSend, connVars, Total
  <1>2. /\ TypeOK /\ Typed /\ InStream /\ OutStream /\ RunsInOrder
        /\ NothingLeftBehind /\ IntentInv /\ CloseInv
    BY TypedFacts DEF ConnInv
  <1>3. TokenAt(sent + 1) \in Token
    <2>1. /\ Len(script) <= MaxReq /\ MaxReq \in Nat /\ Len(script) \in Nat
          /\ sent \in Nat
      BY <1>2, Lengths DEF InStream
    <2>2. sent + 1 \in 1..(2 * MaxReq)
      BY <1>1, <2>1
    <2>3. QED
      BY <2>2, TokenFacts
  <1>4. /\ rx' \in Seq(Token) /\ Len(rx') = Len(rx) + 1
        /\ Segment(rx', 2 * Len(done) + Len(incoming))
    <2>1. rx \in Seq(Token) /\ 2 * Len(done) + Len(incoming) \in Nat
      BY <1>2, Lengths DEF Typed
    <2>2. sent + 1 = (2 * Len(done) + Len(incoming)) + Len(rx) + 1
      BY <1>2, Lengths DEF InStream
    <2>3. QED
      BY <1>1, <1>2, <1>3, <2>1, <2>2, AppendFacts DEF InStream
  <1>5. Typed' /\ TypeOK'
    <2>1. Typed'
      BY <1>1, <1>2, <1>4, Lengths DEF Typed
    <2>2. QED
      BY <2>1 DEF TypeOK, Typed, Total
  <1>6. InStream'
    <2>1. 2 * Len(done) + Len(incoming) + (Len(rx) + 1) = sent + 1
      BY <1>2, Lengths DEF InStream
    <2>2. QED
      BY <1>1, <1>2, <1>4, <2>1, NextStreams DEF InStream
  <1>7. OutStream'
    BY <1>1, <1>2, NextStreams DEF OutStream
  <1>8. RunsInOrder'
    BY <1>1, <1>2, Lengths DEF RunsInOrder
  <1>9. NothingLeftBehind'
    BY <1>1, <1>2 DEF NothingLeftBehind, Complete, TooLong, HasHeader, Front
  <1>10. IntentInv' /\ CloseInv'
    BY <1>1, <1>2 DEF IntentInv, IntentMatchesBuffers, CloseInv, AnsweredBeforeClose
  <1>11. QED
    BY <1>5, <1>6, <1>7, <1>8, <1>9, <1>10 DEF ConnInv

LEMMA ClientRecvInv == ConnInv /\ ClientRecv => ConnInv'
  <1> SUFFICES ASSUME ConnInv, ClientRecv
               PROVE  ConnInv'
    OBVIOUS
  <1>1. /\ peer # "gone" /\ tx # << >>
        /\ received' = Append(received, Head(tx)) /\ tx' = Tail(tx)
        /\ script' = script /\ manner' = manner /\ sent' = sent /\ peer' = peer
        /\ rx' = rx /\ sockerr' = sockerr /\ want_read' = want_read
        /\ want_write' = want_write /\ want_close' = want_close /\ incoming' = incoming
        /\ outgoing' = outgoing /\ done' = done /\ pc' = pc
    BY DEF ClientRecv, connVars
  <1>2. /\ TypeOK /\ Typed /\ InStream /\ OutStream /\ RunsInOrder
        /\ NothingLeftBehind /\ IntentInv /\ CloseInv
    BY TypedFacts DEF ConnInv
  <1>3. /\ received \in Seq(Token) /\ tx \in Seq(Token) /\ Len(received) \in Nat
        /\ Len(tx) \in Nat /\ Len(outgoing) \in Nat /\ Len(done) \in Nat /\ TxCap \in Nat
    BY <1>2, Lengths DEF Typed
  <1>4. /\ Len(received) + Len(tx) + Len(outgoing) = 2 * Len(done)
        /\ Segment(received, 0) /\ Segment(tx, Len(received)) /\ Len(tx) <= TxCap
        /\ Segment(outgoing, Len(received) + Len(tx))
    BY <1>1, <1>2 DEF OutStream
  <1>5. /\ Head(tx) \in Token /\ Head(tx) = TokenAt(Len(received) + 1)
        /\ tx' \in Seq(Token) /\ Len(tx') = Len(tx) - 1 /\ Segment(tx', Len(received) + 1)
    BY <1>1, <1>3, <1>4, HeadTailFacts
  <1>6. /\ received' \in Seq(Token) /\ Len(received') = Len(received) + 1
        /\ Segment(received', 0)
    <2>1. 0 + Len(received) + 1 = Len(received) + 1
      BY <1>3
    <2>2. QED
      BY <1>1, <1>3, <1>4, <1>5, <2>1, AppendFacts
  <1>7. Typed' /\ TypeOK'
    <2>1. Typed'
      BY <1>1, <1>2, <1>5, <1>6, Zenon DEF Typed
    <2>2. QED
      BY <2>1 DEF TypeOK, Typed, Total
  <1>8. InStream'
    BY <1>1, <1>2, NextStreams DEF InStream
  <1>9. OutStream'
    <2>1. /\ (Len(received) + 1) + (Len(tx) - 1) + Len(outgoing) = 2 * Len(done)
          /\ (Len(received) + 1) + (Len(tx) - 1) = Len(received) + Len(tx)
          /\ Len(tx) - 1 <= TxCap
      BY <1>3, <1>4
    <2>2. QED
      BY <1>1, <1>4, <1>5, <1>6, <2>1, NextStreams
  <1>10. RunsInOrder'
    BY <1>1, <1>2 DEF RunsInOrder
  <1>11. NothingLeftBehind'
    BY <1>1, <1>2 DEF NothingLeftBehind, Complete, TooLong, HasHeader, Front
  <1>12. IntentInv' /\ CloseInv'
    BY <1>1, <1>2 DEF IntentInv, IntentMatchesBuffers, CloseInv, AnsweredBeforeClose
  <1>13. QED
    BY <1>7, <1>8, <1>9, <1>10, <1>11, <1>12 DEF ConnInv

\* The client shuts down its side or closes its socket.
LEMMA ClientEndInv == ConnInv /\ (ClientShutdown \/ ClientClose) => ConnInv'
  <1> SUFFICES ASSUME ConnInv, ClientShutdown \/ ClientClose
               PROVE  ConnInv'
    OBVIOUS
  <1>1. /\ script' = script /\ manner' = manner /\ sent' = sent /\ received' = received
        /\ rx' = rx /\ want_read' = want_read
        /\ want_write' = want_write /\ want_close' = want_close /\ incoming' = incoming
        /\ outgoing' = outgoing /\ done' = done /\ pc' = pc
    BY DEF ClientShutdown, ClientClose, connVars, sockVars
  <1>2. \/ peer = "open" /\ peer' = "shut" /\ tx' = tx /\ sockerr' = sockerr
        \/ /\ peer' = "gone" /\ tx' = << >> /\ sockerr' \in {"none", "reset", "pipe"}
           /\ pc \in {"poll", "parse"}
    BY DEF ClientShutdown, ClientClose, sockVars
  <1>3. /\ TypeOK /\ Typed /\ InStream /\ OutStream /\ RunsInOrder
        /\ NothingLeftBehind /\ IntentInv /\ CloseInv
    BY TypedFacts DEF ConnInv
  <1>4. << >> \in Seq(Token) /\ Len(<< >>) = 0 /\ TxCap \in Nat
    BY EmptySeq, ConnectionAssumption
  <1>5. Typed' /\ TypeOK'
    <2>1. Typed'
      BY <1>1, <1>2, <1>3, <1>4, Zenon DEF Typed
    <2>2. QED
      BY <2>1 DEF TypeOK, Typed, Total
  <1>6. InStream'
    BY <1>1, <1>3, NextStreams DEF InStream
  <1>7. OutStream'
    BY <1>1, <1>2, <1>3, <1>4, NextStreams DEF OutStream
  <1>8. RunsInOrder'
    BY <1>1, <1>3 DEF RunsInOrder
  <1>9. NothingLeftBehind'
    BY <1>1, <1>3 DEF NothingLeftBehind, Complete, TooLong, HasHeader, Front
  <1>10. IntentInv' /\ CloseInv'
    BY <1>1, <1>2, <1>3 DEF IntentInv, IntentMatchesBuffers, CloseInv, AnsweredBeforeClose
  <1>11. QED
    BY <1>5, <1>6, <1>7, <1>8, <1>9, <1>10 DEF ConnInv

-----------------------------------------------------------------------------
(* The server.                                                             *)

\* The request at the front of incoming is the first that has not run.
LEMMA FrontFacts ==
  ASSUME ConnInv, incoming # << >>
  PROVE  /\ Head(incoming).req = Len(done) + 1 /\ Len(done) + 1 \in 1..Len(script)
         /\ Front = script[Len(done) + 1] /\ Front \in Kind
         /\ Len(incoming) >= 2 => 2 * (Len(done) + 1) <= sent
  <1>1. TypeOK /\ Typed /\ InStream
    BY TypedFacts DEF ConnInv
  <1>2. /\ incoming \in Seq(Token) /\ Len(done) \in Nat /\ Len(incoming) \in Nat
        /\ Len(rx) \in Nat /\ Len(script) \in Nat /\ sent \in Nat /\ script \in Seq(Kind)
        /\ sent <= 2 * Len(script) /\ Len(incoming) >= 1
    BY <1>1, Lengths DEF Typed
  <1>3. 2 * Len(done) \in Nat /\ Segment(incoming, 2 * Len(done))
    BY <1>1, <1>2 DEF InStream
  <1>4. Head(incoming) = TokenAt(2 * Len(done) + 1)
    BY <1>2, <1>3, HeadTailFacts
  <1>5. Head(incoming).req = Len(done) + 1
    <2>1. TokenAt(2 * Len(done) + 1) = [req |-> Len(done) + 1, part |-> "header"]
      BY <1>2, TokenFacts
    <2>2. QED
      BY <1>4, <2>1
  <1>6. 2 * Len(done) + Len(incoming) + Len(rx) = sent
    BY <1>1 DEF InStream
  <1>7. Len(done) + 1 \in 1..Len(script)
    BY <1>2, <1>6
  <1>8. Front = script[Len(done) + 1]
    BY <1>5 DEF Front
  <1>9. Front \in Kind
    BY <1>2, <1>7, <1>8, ElementOfSeq
  <1>10. QED
    BY <1>2, <1>5, <1>6, <1>7, <1>8, <1>9

LEMMA HandleReadDataInv == ConnInv /\ HandleReadData => ConnInv'
  <1> SUFFICES ASSUME ConnInv, HandleReadData
               PROVE  ConnInv'
    OBVIOUS
  <1> DEFINE n == AtMost(Len(rx), ReadMax)
  <1>1. /\ pc = "poll" /\ want_read /\ rx # << >>
        /\ incoming' = incoming \o SubSeq(rx, 1, n) /\ rx' = buf_consume(rx, n)
        /\ pc' = "parse"
        /\ script' = script /\ manner' = manner /\ sent' = sent /\ received' = received
        /\ peer' = peer /\ tx' = tx /\ sockerr' = sockerr /\ want_read' = want_read
        /\ want_write' = want_write /\ want_close' = want_close
        /\ outgoing' = outgoing /\ done' = done
    BY DEF HandleReadData, clientVars
  <1>2. /\ TypeOK /\ Typed /\ InStream /\ OutStream /\ RunsInOrder
        /\ NothingLeftBehind /\ IntentInv /\ CloseInv
    BY TypedFacts DEF ConnInv
  <1>3. /\ rx \in Seq(Token) /\ incoming \in Seq(Token) /\ Len(rx) \in Nat
        /\ Len(incoming) \in Nat /\ Len(done) \in Nat /\ sent \in Nat
        /\ ReadMax \in Nat \ {0}
    BY <1>2, Lengths DEF Typed
  <1>4. n \in 0..Len(rx)
    BY <1>3 DEF AtMost
  <1> HIDE DEF n
  <1>5. /\ 2 * Len(done) + Len(incoming) + Len(rx) = sent /\ Len(script) <= MaxReq
        /\ Segment(incoming, 2 * Len(done)) /\ Segment(rx, 2 * Len(done) + Len(incoming))
    BY <1>2 DEF InStream
  <1>6. 2 * Len(done) \in Nat /\ 2 * Len(done) + Len(incoming) \in Nat
    BY <1>3
  <1>7. /\ SubSeq(rx, 1, n) \in Seq(Token) /\ Len(SubSeq(rx, 1, n)) = n
        /\ rx' \in Seq(Token) /\ Len(rx') = Len(rx) - n
        /\ Segment(SubSeq(rx, 1, n), 2 * Len(done) + Len(incoming))
        /\ Segment(rx', 2 * Len(done) + Len(incoming) + n)
    BY <1>1, <1>3, <1>4, <1>5, <1>6, CutFacts
  <1>8. /\ incoming' \in Seq(Token) /\ Len(incoming') = Len(incoming) + n
        /\ Segment(incoming', 2 * Len(done))
    <2> DEFINE u == SubSeq(rx, 1, n)
    <2>1. /\ u \in Seq(Token) /\ Len(u) = n /\ incoming' = incoming \o u
          /\ Segment(u, 2 * Len(done) + Len(incoming))
      BY <1>1, <1>7
    <2> HIDE DEF u
    <2>2. QED
      BY <1>3, <1>5, <1>6, <2>1, JoinFacts
  <1>9. Typed' /\ TypeOK'
    <2>1. Typed'
      BY <1>1, <1>2, <1>7, <1>8, Zenon DEF Typed
    <2>2. QED
      BY <2>1 DEF TypeOK, Typed, Total
  <1>10. InStream'
    <2>1. /\ 2 * Len(done) + (Len(incoming) + n) + (Len(rx) - n) = sent
          /\ 2 * Len(done) + Len(incoming) + n = 2 * Len(done) + (Len(incoming) + n)
      BY <1>3, <1>4, <1>5
    <2>2. QED
      BY <1>1, <1>5, <1>7, <1>8, <2>1, NextStreams
  <1>11. OutStream'
    BY <1>1, <1>2, NextStreams DEF OutStream
  <1>12. RunsInOrder' /\ NothingLeftBehind'
    BY <1>1, <1>2 DEF RunsInOrder, NothingLeftBehind
  <1>13. IntentInv' /\ CloseInv'
    BY <1>1, <1>2 DEF IntentInv, IntentMatchesBuffers, CloseInv, AnsweredBeforeClose, Typed
  <1>14. QED
    BY <1>9, <1>10, <1>11, <1>12, <1>13 DEF ConnInv

\* The end of the stream: poll let handle_read run, so nothing waits to be
\* written and at most half a request is in incoming.
LEMMA HandleReadEndInv == ConnInv /\ HandleReadEnd => ConnInv'
  <1> SUFFICES ASSUME ConnInv, HandleReadEnd
               PROVE  ConnInv'
    OBVIOUS
  <1>1. /\ pc = "poll" /\ want_read /\ (sockerr # "none" \/ (rx = << >> /\ peer # "open"))
        /\ want_close' = TRUE /\ pc' = "closed"
        /\ script' = script /\ manner' = manner /\ sent' = sent /\ received' = received
        /\ peer' = peer /\ rx' = rx /\ tx' = tx /\ sockerr' = sockerr
        /\ want_read' = want_read /\ want_write' = want_write
        /\ incoming' = incoming /\ outgoing' = outgoing /\ done' = done
    BY DEF HandleReadEnd, clientVars, sockVars, Finish, AtEof
  <1>2. /\ TypeOK /\ Typed /\ InStream /\ OutStream /\ RunsInOrder
        /\ NothingLeftBehind /\ IntentInv /\ CloseInv
    BY TypedFacts DEF ConnInv
  <1>3. Typed' /\ TypeOK'
    <2>1. Typed'
      BY <1>1, <1>2, Zenon DEF Typed
    <2>2. QED
      BY <2>1 DEF TypeOK, Typed, Total
  <1>4. InStream' /\ OutStream'
    BY <1>1, <1>2, NextStreams DEF InStream, OutStream
  <1>5. RunsInOrder' /\ NothingLeftBehind' /\ IntentInv'
    BY <1>1, <1>2 DEF RunsInOrder, NothingLeftBehind, IntentInv, IntentMatchesBuffers
  <1>6. peer # "open" /\ (peer # "gone" => rx = << >>)
    BY <1>1, <1>2 DEF IntentInv, Typed
  <1>7. outgoing = << >>
    BY <1>1, <1>2 DEF IntentInv, IntentMatchesBuffers, Typed
  <1>8. rx = << >> => Len(done) = sent \div 2
    <2>1. ~Complete
      BY <1>1, <1>2 DEF NothingLeftBehind
    <2>2. Len(incoming) < 2
      BY <1>2, <2>1, Lengths DEF Complete, HasHeader
    <2>3. rx = << >> => sent = 2 * Len(done) + Len(incoming)
      BY <1>2, Lengths DEF InStream
    <2>4. Len(done) \in Nat /\ Len(incoming) \in Nat
      BY <1>2, Lengths
    <2>5. QED
      BY <2>2, <2>3, <2>4
  <1>9. CloseInv'
    BY <1>1, <1>6, <1>7, <1>8 DEF CloseInv, AnsweredBeforeClose
  <1>10. QED
    BY <1>3, <1>4, <1>5, <1>9 DEF ConnInv

\* One request runs: its tokens leave incoming and those of its response join
\* the stream to the client.
LEMMA TryOneRequestInv == ConnInv /\ try_one_request => ConnInv'
  <1> SUFFICES ASSUME ConnInv, try_one_request
               PROVE  ConnInv'
    OBVIOUS
  <1> DEFINE d == Len(done) + 1
  <1>1. /\ pc = "parse" /\ Runnable
        /\ done' = Append(done, Head(incoming).req)
        /\ outgoing' = outgoing \o response(Head(incoming).req)
        /\ incoming' = buf_consume(incoming, 2)
        /\ script' = script /\ manner' = manner /\ sent' = sent /\ received' = received
        /\ peer' = peer /\ rx' = rx /\ tx' = tx /\ sockerr' = sockerr
        /\ want_read' = want_read /\ want_write' = want_write
        /\ want_close' = want_close /\ pc' = pc
    BY DEF try_one_request, clientVars, sockVars
  <1>2. /\ TypeOK /\ Typed /\ InStream /\ OutStream /\ RunsInOrder
        /\ NothingLeftBehind /\ IntentInv /\ CloseInv
    BY TypedFacts DEF ConnInv
  <1>3. /\ rx \in Seq(Token) /\ incoming \in Seq(Token) /\ outgoing \in Seq(Token)
        /\ done \in Seq(1..MaxReq)
        /\ Len(rx) \in Nat /\ Len(incoming) \in Nat /\ Len(done) \in Nat /\ sent \in Nat
        /\ Len(received) \in Nat /\ Len(tx) \in Nat /\ Len(outgoing) \in Nat
        /\ Len(script) \in Nat /\ MaxReq \in Nat
    BY <1>2, Lengths DEF Typed
  <1>4. Len(incoming) >= 2 /\ incoming # << >> /\ Front = "ok"
    BY <1>1, <1>2, <1>3, Lengths DEF Runnable, Complete, HasHeader
  <1>5. /\ Head(incoming).req = d /\ d \in 1..Len(script) /\ script[d] = "ok"
        /\ 2 * d <= sent
    BY <1>4, FrontFacts
  <1>6. /\ 2 * Len(done) + Len(incoming) + Len(rx) = sent /\ Len(script) <= MaxReq
        /\ Segment(incoming, 2 * Len(done)) /\ Segment(rx, 2 * Len(done) + Len(incoming))
        /\ 2 * Len(done) \in Nat
    BY <1>2, <1>3 DEF InStream
  <1>7. d \in 1..MaxReq /\ d \in Nat /\ 2 * d = 2 * Len(done) + 2
    BY <1>3, <1>5, <1>6
  <1>8. /\ done' = Append(done, d) /\ done' \in Seq(1..MaxReq) /\ Len(done') = d
        /\ \A n \in 1..Len(done) : done'[n] = done[n]
        /\ done'[d] = d
    <2>1. done' = Append(done, d)
      BY <1>1, <1>5
    <2>2. /\ Append(done, d) \in Seq(1..MaxReq) /\ Len(Append(done, d)) = Len(done) + 1
          /\ \A n \in 1..Len(done) : Append(done, d)[n] = done[n]
          /\ Append(done, d)[Len(done) + 1] = d
      <3> HIDE DEF d
      <3> QED
        BY <1>3, <1>7, AppendProperties
    <2>3. QED
      BY <2>1, <2>2
  <1>9. /\ incoming' \in Seq(Token) /\ Len(incoming') = Len(incoming) - 2
        /\ Segment(incoming', 2 * Len(done) + 2)
    <2>1. 2 \in 0..Len(incoming)
      BY <1>3, <1>4
    <2>2. /\ buf_consume(incoming, 2) \in Seq(Token)
          /\ Len(buf_consume(incoming, 2)) = Len(incoming) - 2
          /\ \A f \in Nat : Segment(incoming, f) => Segment(buf_consume(incoming, 2), f + 2)
      BY <1>3, <2>1, CutFacts
    <2>3. QED
      BY <1>1, <1>6, <2>2
  <1>10. /\ response(d) \in Seq(Token) /\ Len(response(d)) = 2
         /\ Segment(response(d), 2 * Len(done))
    <2>1. response(d) = << [req |-> d, part |-> "header"], [req |-> d, part |-> "body"] >>
      BY DEF response
    <2>2. /\ TokenAt(2 * Len(done) + 1) = [req |-> d, part |-> "header"]
          /\ TokenAt(2 * Len(done) + 2) = [req |-> d, part |-> "body"]
      BY <1>3, TokenFacts
    <2>3. [req |-> d, part |-> "header"] \in Token /\ [req |-> d, part |-> "body"] \in Token
      BY <1>7 DEF Token
    <2> HIDE DEF d
    <2>4. response(d) \in Seq(Token) /\ Len(response(d)) = 2
      BY <2>1, <2>3
    <2>5. Segment(response(d), 2 * Len(done))
      <3> SUFFICES ASSUME NEW i \in 1..2
                   PROVE  response(d)[i] = TokenAt(2 * Len(done) + i)
        BY <2>4 DEF Segment
      <3>1. i = 1 \/ i = 2
        OBVIOUS
      <3>2. /\ response(d)[1] = [req |-> d, part |-> "header"]
            /\ response(d)[2] = [req |-> d, part |-> "body"]
        BY <2>1
      <3>3. QED
        BY <2>2, <3>1, <3>2
    <2>6. QED
      BY <2>4, <2>5
  <1>11. /\ outgoing' \in Seq(Token) /\ Len(outgoing') = Len(outgoing) + 2
         /\ \A f \in Nat : Segment(outgoing, f) /\ Segment(response(d), f + Len(outgoing)) =>
                            Segment(outgoing', f)
    <2>1. outgoing' = outgoing \o response(d)
      BY <1>1, <1>5
    <2> HIDE DEF d
    <2>2. QED
      BY <1>3, <1>10, <2>1, JoinFacts
  <1>12. Typed' /\ TypeOK'
    <2>1. Typed'
      BY <1>1, <1>2, <1>8, <1>9, <1>11, Zenon DEF Typed
    <2>2. QED
      BY <2>1 DEF TypeOK, Typed, Total
  <1>13. InStream'
    <2>1. /\ 2 * d + (Len(incoming) - 2) + Len(rx) = sent
          /\ 2 * d + (Len(incoming) - 2) = 2 * Len(done) + Len(incoming)
      <3>1. /\ 2 * Len(done) + 2 + (Len(incoming) - 2) + Len(rx) = sent
            /\ 2 * Len(done) + 2 + (Len(incoming) - 2) = 2 * Len(done) + Len(incoming)
        <4>1. /\ Len(done) \in Nat /\ Len(incoming) \in Nat /\ Len(rx) \in Nat /\ sent \in Nat
              /\ 2 * Len(done) + Len(incoming) + Len(rx) = sent
          BY <1>3, <1>6
        <4>2. QED
          BY <4>1
      <3> HIDE DEF d
      <3>2. QED
        BY <1>7, <3>1
    <2>2. QED
      BY <1>1, <1>6, <1>7, <1>8, <1>9, <2>1, NextStreams
  <1>14. OutStream'
    <2>1. CASE peer = "gone"
      BY <1>1, <1>2, <2>1, NextStreams DEF OutStream
    <2>2. CASE peer # "gone"
      <3>1. /\ Len(received) + Len(tx) + Len(outgoing) = 2 * Len(done)
            /\ Segment(received, 0) /\ Segment(tx, Len(received)) /\ Len(tx) <= TxCap
            /\ Segment(outgoing, Len(received) + Len(tx))
        BY <1>2, <2>2 DEF OutStream
      <3>2. /\ Len(received) + Len(tx) \in Nat
            /\ Len(received) + Len(tx) + (Len(outgoing) + 2) = 2 * d
        <4>1. /\ Len(received) + Len(tx) \in Nat
              /\ Len(received) + Len(tx) + (Len(outgoing) + 2) = 2 * Len(done) + 2
          <5>1. /\ Len(done) \in Nat /\ Len(received) \in Nat /\ Len(tx) \in Nat
                /\ Len(outgoing) \in Nat
                /\ Len(received) + Len(tx) + Len(outgoing) = 2 * Len(done)
            BY <1>3, <3>1
          <5>2. QED
            BY <5>1
        <4> HIDE DEF d
        <4>2. QED
          BY <1>7, <4>1
      <3>3. Segment(outgoing', Len(received) + Len(tx))
        BY <1>10, <1>11, <3>1, <3>2
      <3>4. QED
        BY <1>1, <1>8, <1>11, <3>1, <3>2, <3>3, NextStreams
    <2>3. QED
      BY <2>1, <2>2
  <1>15. RunsInOrder'
    <2> SUFFICES ASSUME NEW n \in 1..Len(done')
                 PROVE  done'[n] = n /\ script'[n] = "ok" /\ 2 * n <= sent'
      BY DEF RunsInOrder
    <2>1. CASE n = d
      BY <1>1, <1>5, <1>8, <2>1
    <2>2. CASE n # d
      <3>1. n \in 1..Len(done)
        BY <1>3, <1>8, <2>2
      <3>2. QED
        BY <1>1, <1>2, <1>8, <3>1 DEF RunsInOrder
    <2>3. QED
      BY <2>1, <2>2
  <1>16. NothingLeftBehind'
    BY <1>1 DEF NothingLeftBehind
  <1>17. IntentInv' /\ CloseInv'
    BY <1>1, <1>2 DEF IntentInv, IntentMatchesBuffers, CloseInv, AnsweredBeforeClose
  <1>18. QED
    BY <1>12, <1>13, <1>14, <1>15, <1>16, <1>17 DEF ConnInv

\* handle_write moves the front of outgoing into the socket buffer, or fails
\* because the client is gone.  The caller wants to close only after a bad
\* request and otherwise leaves no complete request behind.
LEMMA HandleWriteInv ==
  ASSUME ConnInv, NEW close \in BOOLEAN, handle_write(outgoing, close),
         UNCHANGED <<clientVars, rx, incoming, done>>,
         ~close => ~Complete /\ ~TooLong,
         close => \E i \in 1..Len(script) : script[i] # "ok"
  PROVE  ConnInv'
  <1> DEFINE n == AtMost(TxCap - Len(tx), Len(outgoing))
  <1>1. /\ script' = script /\ manner' = manner /\ sent' = sent /\ received' = received
        /\ peer' = peer /\ rx' = rx /\ incoming' = incoming /\ done' = done
    BY DEF clientVars
  <1>2. /\ TypeOK /\ Typed /\ InStream /\ OutStream /\ RunsInOrder
        /\ NothingLeftBehind /\ IntentInv /\ CloseInv
    BY TypedFacts DEF ConnInv
  <1>3. /\ tx \in Seq(Token) /\ outgoing \in Seq(Token) /\ Len(tx) \in Nat
        /\ Len(outgoing) \in Nat /\ Len(received) \in Nat /\ Len(done) \in Nat
        /\ TxCap \in Nat /\ Len(tx) <= TxCap
    BY <1>2, Lengths DEF Typed, OutStream
  <1>4. InStream' /\ RunsInOrder'
    BY <1>1, <1>2, NextStreams DEF InStream, RunsInOrder
  <1>5. CASE sockerr = "none"
    <2>1. /\ outgoing' = buf_consume(outgoing, n)
          /\ want_read' = (n = Len(outgoing)) /\ want_write' = ~(n = Len(outgoing))
          /\ tx' = IF peer = "gone" THEN tx ELSE tx \o SubSeq(outgoing, 1, n)
          /\ sockerr' = IF peer = "gone" THEN "pipe" ELSE sockerr
          /\ want_close' = close /\ pc' = IF close THEN "closed" ELSE "poll"
      BY <1>5 DEF handle_write, Finish, AllWritten
    <2>2. n \in 0..Len(outgoing) /\ n <= TxCap - Len(tx)
      BY <1>3 DEF AtMost
    <2> HIDE DEF n
    <2> DEFINE u == SubSeq(outgoing, 1, n)
    <2>3. /\ u \in Seq(Token) /\ Len(u) = n
          /\ outgoing' \in Seq(Token) /\ Len(outgoing') = Len(outgoing) - n
          /\ \A f \in Nat : Segment(outgoing, f) => Segment(u, f) /\ Segment(outgoing', f + n)
      BY <1>3, <2>1, <2>2, CutFacts
    <2>4. tx' = IF peer = "gone" THEN tx ELSE tx \o u
      BY <2>1
    <2> HIDE DEF u
    <2>5. /\ tx' \in Seq(Token) /\ Len(tx') <= TxCap
          /\ peer # "gone" => Len(tx') = Len(tx) + n
          /\ peer # "gone" => \A f \in Nat : Segment(tx, f) /\ Segment(u, f + Len(tx)) =>
                                             Segment(tx', f)
      <3>1. CASE peer = "gone"
        BY <1>3, <2>4, <3>1
      <3>2. CASE peer # "gone"
        <4>1. tx' = tx \o u
          BY <2>4, <3>2
        <4>2. /\ tx \o u \in Seq(Token) /\ Len(tx \o u) = Len(tx) + Len(u)
              /\ \A f \in Nat : Segment(tx, f) /\ Segment(u, f + Len(tx)) => Segment(tx \o u, f)
          BY <1>3, <2>3, JoinFacts
        <4>3. n \in Nat /\ Len(tx) + n <= TxCap
          BY <1>3, <2>2
        <4>4. QED
          BY <2>3, <4>1, <4>2, <4>3
      <3>3. QED
        BY <3>1, <3>2
    <2>6. Typed' /\ TypeOK'
      <3>1. /\ sockerr' \in {"none", "reset", "pipe"}
            /\ pc' \in {"poll", "parse", "closed", "killed"}
        BY <1>5, <2>1
      <3>2. want_read' \in BOOLEAN /\ want_write' \in BOOLEAN /\ want_close' \in BOOLEAN
        BY <2>1
      <3>3. Typed'
        BY <1>1, <1>2, <2>3, <2>5, <3>1, <3>2, Zenon DEF Typed
      <3>4. QED
        BY <3>3 DEF TypeOK, Typed, Total
    <2>7. OutStream'
      <3>1. CASE peer = "gone"
        BY <1>1, <2>5, <3>1, NextStreams
      <3>2. CASE peer # "gone"
        <4>1. /\ Len(received) + Len(tx) + Len(outgoing) = 2 * Len(done)
              /\ Segment(received, 0) /\ Segment(tx, Len(received))
              /\ Segment(outgoing, Len(received) + Len(tx))
          BY <1>2, <3>2 DEF OutStream
        <4>2. /\ Len(received) + Len(tx) \in Nat
              /\ Len(received) + (Len(tx) + n) + (Len(outgoing) - n) = 2 * Len(done)
              /\ Len(received) + (Len(tx) + n) = Len(received) + Len(tx) + n
          BY <1>3, <2>2, <4>1
        <4>3. /\ Segment(u, Len(received) + Len(tx))
              /\ Segment(outgoing', Len(received) + Len(tx) + n)
          BY <2>3, <4>1, <4>2
        <4>4. Segment(tx', Len(received))
          BY <1>3, <2>5, <3>2, <4>1, <4>3
        <4>5. QED
          BY <1>1, <2>3, <2>5, <3>2, <4>1, <4>2, <4>3, <4>4, NextStreams
      <3>3. QED
        BY <3>1, <3>2
    <2>8. NothingLeftBehind'
      BY <1>1, <2>1 DEF NothingLeftBehind, Complete, TooLong, HasHeader, Front
    <2>9. outgoing' = << >> <=> n = Len(outgoing)
      BY <1>3, <2>2, <2>3, EmptySeq
    <2>10. IntentInv'
      BY <1>1, <1>5, <2>1, <2>9 DEF IntentInv, IntentMatchesBuffers
    <2>11. CloseInv'
      BY <1>1, <2>1 DEF CloseInv, AnsweredBeforeClose
    <2>12. QED
      BY <1>4, <2>6, <2>7, <2>8, <2>10, <2>11 DEF ConnInv
  <1>6. CASE sockerr # "none"
    <2>1. /\ outgoing' = outgoing /\ want_read' = FALSE /\ want_write' = TRUE
          /\ want_close' = TRUE /\ pc' \in {"closed", "killed"} /\ tx' = tx
          /\ sockerr' = sockerr
      BY <1>6 DEF handle_write, Finish
    <2>2. peer = "gone"
      BY <1>2, <1>6 DEF IntentInv
    <2>3. Typed' /\ TypeOK'
      <3>1. Typed'
        BY <1>1, <1>2, <2>1, Zenon DEF Typed
      <3>2. QED
        BY <3>1 DEF TypeOK, Typed, Total
    <2>4. OutStream'
      BY <1>1, <1>3, <2>1, <2>2, NextStreams
    <2>5. NothingLeftBehind' /\ IntentInv' /\ CloseInv'
      BY <1>1, <2>1, <2>2
         DEF NothingLeftBehind, IntentInv, IntentMatchesBuffers, CloseInv, AnsweredBeforeClose
    <2>6. QED
      BY <1>4, <2>3, <2>4, <2>5 DEF ConnInv
  <1>7. QED
    BY <1>5, <1>6

\* handle_read after its loop.
LEMMA HandleReadReturnInv == ConnInv /\ HandleReadReturn => ConnInv'
  <1> SUFFICES ASSUME ConnInv, HandleReadReturn
               PROVE  ConnInv'
    OBVIOUS
  <1> DEFINE close == want_close \/ TooLong \/ Malformed
  <1>1. /\ pc = "parse" /\ ~Runnable
        /\ UNCHANGED <<clientVars, rx, incoming, done>>
    BY DEF HandleReadReturn, LoopEnds
  <1>2. /\ TypeOK /\ Typed /\ InStream /\ OutStream /\ RunsInOrder
        /\ NothingLeftBehind /\ IntentInv /\ CloseInv
    BY TypedFacts DEF ConnInv
  <1>3. close \in BOOLEAN /\ ~want_close
    BY <1>1, <1>2 DEF IntentInv
  <1>4. HasHeader => incoming # << >>
    BY <1>2, Lengths DEF HasHeader
  <1>5. ~close => ~Complete /\ ~TooLong
    <2>1. HasHeader => Front \in Kind
      BY <1>4, FrontFacts
    <2>2. QED
      BY <1>1, <2>1 DEF TooLong, Malformed, Runnable, Complete, Kind
  <1>6. close => \E i \in 1..Len(script) : script[i] # "ok"
    BY <1>3, <1>4, FrontFacts DEF TooLong, Malformed, Complete
  <1>7. CASE outgoing # << >>
    <2>1. handle_write(outgoing, close)
      BY <1>7 DEF HandleReadReturn
    <2> HIDE DEF close
    <2>2. QED
      BY <1>1, <1>3, <1>5, <1>6, <2>1, HandleWriteInv
  <1>8. CASE outgoing = << >>
    <2>1. /\ want_close' = close /\ pc' = IF close THEN "closed" ELSE "poll"
          /\ script' = script /\ manner' = manner /\ sent' = sent /\ received' = received
          /\ peer' = peer /\ rx' = rx /\ tx' = tx /\ sockerr' = sockerr
          /\ want_read' = want_read /\ want_write' = want_write
          /\ incoming' = incoming /\ outgoing' = outgoing /\ done' = done
      BY <1>8 DEF HandleReadReturn, Finish, clientVars
    <2> HIDE DEF close
    <2>2. Typed' /\ TypeOK'
      <3>1. pc' \in {"poll", "parse", "closed", "killed"}
        BY <2>1
      <3>2. Typed'
        BY <1>2, <1>3, <2>1, <3>1, Zenon DEF Typed
      <3>3. QED
        BY <3>2 DEF TypeOK, Typed, Total
    <2>3. InStream' /\ OutStream'
      BY <1>2, <2>1, NextStreams DEF InStream, OutStream
    <2>4. RunsInOrder'
      BY <1>2, <2>1 DEF RunsInOrder
    <2>5. NothingLeftBehind'
      BY <1>5, <2>1 DEF NothingLeftBehind, Complete, TooLong, HasHeader, Front
    <2>6. IntentInv'
      BY <1>1, <1>2, <1>3, <1>8, <2>1 DEF IntentInv, IntentMatchesBuffers, Typed
    <2>7. CloseInv'
      BY <1>3, <1>6, <2>1 DEF CloseInv, AnsweredBeforeClose
    <2>8. QED
      BY <2>2, <2>3, <2>4, <2>5, <2>6, <2>7 DEF ConnInv
  <1>9. QED
    BY <1>7, <1>8

LEMMA HandleWritableInv == ConnInv /\ HandleWritable => ConnInv'
  <1> SUFFICES ASSUME ConnInv, HandleWritable
               PROVE  ConnInv'
    OBVIOUS
  <1>1. /\ pc = "poll" /\ handle_write(outgoing, want_close)
        /\ UNCHANGED <<clientVars, rx, incoming, done>>
    BY DEF HandleWritable
  <1>2. want_close \in BOOLEAN /\ ~want_close /\ ~Complete /\ ~TooLong
    BY <1>1, TypedFacts
       DEF ConnInv, IntentInv, IntentMatchesBuffers, NothingLeftBehind, Typed
  <1>3. QED
    BY <1>1, <1>2, HandleWriteInv

\* A step that changes nothing.
LEMMA StutterInv == ConnInv /\ UNCHANGED vars => ConnInv'
  <1> SUFFICES ASSUME ConnInv, UNCHANGED vars
               PROVE  ConnInv'
    OBVIOUS
  <1>1. /\ script' = script /\ manner' = manner /\ sent' = sent /\ received' = received
        /\ peer' = peer /\ rx' = rx /\ tx' = tx /\ sockerr' = sockerr
        /\ want_read' = want_read /\ want_write' = want_write /\ want_close' = want_close
        /\ incoming' = incoming /\ outgoing' = outgoing /\ done' = done /\ pc' = pc
    BY DEF vars, clientVars, sockVars, connVars
  <1>2. TypeOK' /\ InStream' /\ OutStream'
    BY <1>1 DEF ConnInv, TypeOK, Total, InStream, OutStream, Segment
  <1>3. RunsInOrder' /\ NothingLeftBehind'
    BY <1>1 DEF ConnInv, RunsInOrder, NothingLeftBehind, Complete, TooLong, HasHeader, Front
  <1>4. IntentInv' /\ CloseInv'
    BY <1>1 DEF ConnInv, IntentInv, IntentMatchesBuffers, CloseInv, AnsweredBeforeClose
  <1>5. QED
    BY <1>2, <1>3, <1>4 DEF ConnInv

-----------------------------------------------------------------------------
(* The theorems.                                                           *)

\* However the reads and writes of the two ends are cut and interleaved, the
\* invariant holds of handle_read, try_one_request and handle_write.
THEOREM ConnInvariant == Spec => []ConnInv
  <1>1. ConnInv /\ [Next]_vars => ConnInv'
    BY ClientSendInv, ClientRecvInv, ClientEndInv, HandleReadDataInv, HandleReadEndInv,
       TryOneRequestInv, HandleReadReturnInv, HandleWritableInv, StutterInv
       DEF Next, Client, Server
  <1>2. QED
    BY InitInv, <1>1, PTL DEF Spec

\* The variables keep their types.
THEOREM TypeCorrect == Spec => []TypeOK
  <1>1. ConnInv => TypeOK
    BY DEF ConnInv
  <1>2. QED
    BY <1>1, ConnInvariant, PTL

\* One response per request that ran, in order and in one piece, however
\* handle_write's partial writes cut the stream.
THEOREM ResponsesInOrderCorrect == Spec => []ResponsesInOrder
  <1>1. ConnInv => ResponsesInOrder
    <2> SUFFICES ASSUME ConnInv, peer # "gone"
                 PROVE  LET stream == received \o tx \o outgoing IN
                          /\ Len(stream) = 2 * Len(done)
                          /\ \A n \in 1..Len(stream) : stream[n] = TokenAt(n)
      BY DEF ResponsesInOrder
    <2> DEFINE front == received \o tx
    <2>1. /\ TypeOK /\ received \in Seq(Token) /\ tx \in Seq(Token) /\ outgoing \in Seq(Token)
          /\ Len(received) + Len(tx) + Len(outgoing) = 2 * Len(done)
          /\ Segment(received, 0) /\ Segment(tx, Len(received))
          /\ Segment(outgoing, Len(received) + Len(tx))
      BY TypedFacts DEF ConnInv, Typed, OutStream
    <2>2. Len(received) \in Nat /\ Len(tx) \in Nat /\ 0 + Len(received) = Len(received)
      BY <2>1, Lengths
    <2>3. /\ front \in Seq(Token) /\ Len(front) = Len(received) + Len(tx)
          /\ Segment(front, 0)
      BY <2>1, <2>2, JoinFacts
    <2> HIDE DEF front
    <2>4. 0 + Len(front) = Len(received) + Len(tx)
      BY <2>2, <2>3
    <2>5. /\ Len(front \o outgoing) = Len(front) + Len(outgoing)
          /\ Segment(front \o outgoing, 0)
      BY <2>1, <2>3, <2>4, JoinFacts
    <2>6. Len(front \o outgoing) = 2 * Len(done)
      BY <2>1, <2>3, <2>5
    <2>7. ASSUME NEW n \in 1..Len(front \o outgoing)
          PROVE  (front \o outgoing)[n] = TokenAt(n)
      <3>1. 0 + n = n
        OBVIOUS
      <3>2. QED
        BY <2>5, <3>1 DEF Segment
    <2>8. QED
      BY <2>6, <2>7 DEF front
  <1>2. QED
    BY <1>1, ConnInvariant, PTL

\* Requests run in the order they were sent, none twice and none skipped.
THEOREM RunsInOrderCorrect == Spec => []RunsInOrder
  <1>1. ConnInv => RunsInOrder
    BY DEF ConnInv
  <1>2. QED
    BY <1>1, ConnInvariant, PTL

\* handle_read's loop leaves no complete request in incoming for poll.
THEOREM NothingLeftBehindCorrect == Spec => []NothingLeftBehind
  <1>1. ConnInv => NothingLeftBehind
    BY DEF ConnInv
  <1>2. QED
    BY <1>1, ConnInvariant, PTL

\* The intents poll is called with agree with what is left to write.
THEOREM IntentCorrect == Spec => []IntentMatchesBuffers
  <1>1. ConnInv => IntentMatchesBuffers
    BY DEF ConnInv, IntentInv
  <1>2. QED
    BY <1>1, ConnInvariant, PTL

\* A client that shuts down its side is answered before the server closes.
THEOREM AnsweredCorrect == Spec => []AnsweredBeforeClose
  <1>1. ConnInv => AnsweredBeforeClose
    BY DEF ConnInv, CloseInv
  <1>2. QED
    BY <1>1, ConnInvariant, PTL
\* handle_read stops reading only with more responses than tx holds: it has
\* answered enough by then that a burst of RxCap + TxCap + 1 tokens or fewer
\* is already on its way, and the two ends do not wait for each other.
THEOREM BurstsThatFit == Spec => [](FitsBuffers => NeverBothWait)
  <1>1. ConnInv => (FitsBuffers => NeverBothWait)
    <2> SUFFICES ASSUME ConnInv, FitsBuffers, ServerWaits, ClientWaits
                 PROVE  FALSE
      BY DEF NeverBothWait
    <2>1. Len(outgoing) # 0
      BY Lengths DEF ConnInv, IntentInv, IntentMatchesBuffers, ServerWaits
    <2>2. Len(received) + TxCap + Len(outgoing) = 2 * Len(done)
      BY DEF ConnInv, OutStream, ServerWaits, ClientWaits
    <2>3. 2 * Len(done) + Len(incoming) + RxCap = sent
      BY DEF ConnInv, InStream, ClientWaits
    <2>4. sent < 2 * Len(script) /\ 2 * Len(script) <= RxCap + TxCap + 1
      BY DEF FitsBuffers, ClientWaits, Total
    <2>5. QED
      BY <2>1, <2>2, <2>3, <2>4, Lengths, ConnectionAssumption DEF ConnInv
  <1>2. QED
    BY <1>1, ConnInvariant, PTL
=============================================================================
