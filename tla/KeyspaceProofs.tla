--------------------------- MODULE KeyspaceProofs ---------------------------
(***************************************************************************)
(* Machine-checked proofs about Keyspace, for any keys, any commands, any  *)
(* messages from other programs and any limits.                            *)
(***************************************************************************)
EXTENDS Keyspace, SequenceTheorems, FiniteSetTheorems, NaturalsInduction,
        WellFoundedInduction, TLAPS

-----------------------------------------------------------------------------
(* Loops.                                                                  *)

\* A non-empty set of naturals has a least element.
LEMMA LeastNumber ==
  ASSUME NEW T, T \subseteq Nat, T # {}
  PROVE  \E x \in T : \A y \in T : x <= y
  <1>1. PICK x \in T : \A y \in T : ~(<<y, x>> \in OpToRel(<, Nat))
    BY WFMin, NatLessThanWellFounded, Zenon
  <1>2. \A y \in T : ~(y < x)
    BY <1>1 DEF OpToRel
  <1>3. QED
    BY <1>2

\* f holds the states x of a loop whose i-th turn is the function turn[i].
IsLoop(X, x, turn, n, f) ==
  /\ f \in [0..n -> X] /\ f[0] = x
  /\ \A i \in 1..n : f[i] = turn[i][f[i - 1]]

\* A loop can be run as far as it has turns.
LEMMA LoopExists ==
  ASSUME NEW X, NEW x \in X, NEW n \in Nat, NEW turn \in [1..n -> [X -> X]]
  PROVE  \E f : IsLoop(X, x, turn, n, f)
  <1> DEFINE T == {m \in 0..n : ~ \E f : IsLoop(X, x, turn, m, f)}
  <1>1. SUFFICES ASSUME T # {}
                 PROVE  FALSE
    <2>1. n \in 0..n
      OBVIOUS
    <2>2. QED
      BY <1>1, <2>1
  <1>2. T \subseteq Nat
    OBVIOUS
  <1>3. PICK m \in T : \A k \in T : m <= k
    <2> HIDE DEF T
    <2> QED
      BY <1>1, <1>2, LeastNumber
  <1>4. m \in 0..n /\ ~ \E f : IsLoop(X, x, turn, m, f)
    BY <1>3
  <1>5. m # 0
    <2>1. IsLoop(X, x, turn, 0, [i \in 0..0 |-> x])
      BY DEF IsLoop
    <2>2. QED
      BY <1>4, <2>1
  <1>6. m - 1 \in 0..n /\ m - 1 \notin T
    BY <1>3, <1>4, <1>5
  <1>7. PICK g : IsLoop(X, x, turn, m - 1, g)
    BY <1>6
  <1> DEFINE f == [i \in 0..m |-> IF i = m THEN turn[m][g[m - 1]] ELSE g[i]]
  <1>8. IsLoop(X, x, turn, m, f)
    <2>1. /\ g \in [0..(m - 1) -> X] /\ g[0] = x
          /\ \A i \in 1..(m - 1) : g[i] = turn[i][g[i - 1]]
      BY <1>7 DEF IsLoop
    <2>2. m \in 1..n /\ turn[m] \in [X -> X] /\ turn[m][g[m - 1]] \in X
      BY <1>4, <1>5, <1>6, <2>1
    <2>3. f \in [0..m -> X] /\ f[0] = x
      BY <1>4, <1>5, <1>6, <2>1, <2>2
    <2>4. ASSUME NEW i \in 1..m
          PROVE  f[i] = turn[i][f[i - 1]]
      BY <1>4, <1>6, <2>1
    <2>5. QED
      BY <2>3, <2>4 DEF IsLoop
  <1>9. QED
    BY <1>4, <1>8

\* g takes the same turns, for as long as its states are in X.
TakesTurns(X, x, turn, n, g) ==
  g[0] = x /\ \A i \in 1..n : g[i - 1] \in X => g[i] = turn[i][g[i - 1]]

\* Whatever takes the same turns ends in the same state.
LEMMA LoopUnique ==
  ASSUME NEW X, NEW x, NEW n \in Nat, NEW turn, NEW f, IsLoop(X, x, turn, n, f),
         NEW g, TakesTurns(X, x, turn, n, g)
  PROVE  g[n] = f[n]
  <1> DEFINE T == {i \in 0..n : g[i] # f[i]}
  <1>1. SUFFICES ASSUME T # {}
                 PROVE  FALSE
    <2>1. n \in 0..n
      OBVIOUS
    <2>2. QED
      BY <1>1, <2>1
  <1>2. /\ f \in [0..n -> X] /\ f[0] = x /\ g[0] = x
        /\ \A i \in 1..n : f[i] = turn[i][f[i - 1]]
        /\ \A i \in 1..n : g[i - 1] \in X => g[i] = turn[i][g[i - 1]]
    BY DEF IsLoop, TakesTurns
  <1>3. T \subseteq Nat
    OBVIOUS
  <1>4. PICK i \in T : \A k \in T : i <= k
    <2> HIDE DEF T
    <2> QED
      BY <1>1, <1>3, LeastNumber
  <1>5. i \in 1..n /\ i - 1 \in 0..n /\ i - 1 \notin T
    BY <1>2, <1>4
  <1>6. g[i - 1] = f[i - 1] /\ f[i - 1] \in X
    BY <1>2, <1>5
  <1>7. QED
    BY <1>2, <1>4, <1>5, <1>6

\* A loop that goes from P[i - 1] to P[i] in turn i stays in P.
LEMMA Stepwise ==
  ASSUME NEW n \in Nat, NEW f, NEW P, f[0] \in P[0],
         \A i \in 1..n : f[i - 1] \in P[i - 1] => f[i] \in P[i]
  PROVE  \A i \in 0..n : f[i] \in P[i]
  <1> DEFINE T == {i \in 0..n : f[i] \notin P[i]}
  <1>1. SUFFICES ASSUME T # {}
                 PROVE  FALSE
    BY <1>1
  <1>2. T \subseteq Nat
    OBVIOUS
  <1>3. PICK i \in T : \A k \in T : i <= k
    <2> HIDE DEF T
    <2> QED
      BY <1>1, <1>2, LeastNumber
  <1>4. i \in 1..n /\ i - 1 \in 0..n /\ i - 1 \notin T
    BY <1>3
  <1>5. QED
    BY <1>3, <1>4

-----------------------------------------------------------------------------
(* The wire format.                                                        *)

\* f[i] is the concatenation of the first i sequences of ss.
IsFlat(E, ss, f) ==
  /\ f \in [0..Len(ss) -> Seq(E)] /\ f[0] = << >>
  /\ \A i \in 1..Len(ss) : f[i] = f[i - 1] \o ss[i]

\* FlattenSeq is that concatenation, whatever f is.
LEMMA FlatUnique ==
  ASSUME NEW E, NEW ss \in Seq(Seq(E)), NEW f, IsFlat(E, ss, f)
  PROVE  FlattenSeq(ss) = f[Len(ss)]
  <1> DEFINE n == Len(ss)
             X == Seq(E)
             turn == [i \in 1..n |-> [s \in X |-> s \o ss[i]]]
             Eq(g) == [i \in 1..Len(ss) |-> IF i = 1 THEN ss[i] ELSE g[i - 1] \o ss[i]]
  <1>1. n \in Nat /\ \A i \in 1..n : ss[i] \in X /\ << >> \o ss[i] = ss[i]
    BY LenProperties, ElementOfSeq, ConcatEmptySeq
  <1>2. f \in [0..n -> X] /\ f[0] = << >> /\ \A i \in 1..n : f[i] = f[i - 1] \o ss[i]
    BY DEF IsFlat
  <1>3. CASE n = 0
    <2>1. ss = << >>
      BY <1>3, EmptySeq
    <2>2. FlattenSeq(ss) = << >>
      BY <2>1 DEF FlattenSeq
    <2>3. QED
      BY <1>2, <1>3, <2>2
  <1>4. CASE n # 0
    <2>1. IsLoop(X, << >>, turn, n, f)
      <3>1. ASSUME NEW i \in 1..n
            PROVE  f[i] = turn[i][f[i - 1]]
        <4>1. i - 1 \in 0..n
          <5> HIDE DEF n
          <5> QED
            BY <1>1
        <4>2. f[i - 1] \in X
          BY <1>2, <4>1, Zenon
        <4>3. QED
          BY <1>2, <4>2
      <3>2. QED
        BY <1>2, <3>1 DEF IsLoop
    <2> DEFINE h == [i \in 1..Len(ss) |-> f[i]]
    <2>2. h = Eq(h)
      <3>1. ASSUME NEW i \in 1..Len(ss)
            PROVE  h[i] = Eq(h)[i]
        <4>1. CASE i = 1
          BY <1>1, <1>2, <4>1
        <4>2. CASE i # 1
          <5>1. i - 1 \in 1..Len(ss)
            BY <1>1, <4>2
          <5>2. QED
            BY <1>2, <4>2, <5>1
        <4>3. QED
          BY <4>1, <4>2
      <3>2. QED
        BY <3>1
    <2> HIDE DEF h
    <2>3. PICK g : g = Eq(g) /\ FlattenSeq(ss) = g[Len(ss)]
      <3>1. Len(ss) # 0
        BY <1>4
      <3> HIDE DEF Eq
      <3>2. QED
        BY <2>2, <3>1 DEF FlattenSeq, Eq
    <2> DEFINE k == [i \in 0..n |-> IF i = 0 THEN << >> ELSE g[i]]
    <2>4. k[0] = << >>
      BY <1>1
    <2>5. ASSUME NEW i \in 1..n, k[i - 1] \in X
          PROVE  k[i] = turn[i][k[i - 1]]
      <3>1. i \in 1..Len(ss) /\ i - 1 \in 0..n /\ i \in 0..n /\ i # 0
        BY <1>1
      <3>2. g[i] = IF i = 1 THEN ss[i] ELSE g[i - 1] \o ss[i]
        BY <2>3, <3>1
      <3>3. k[i] = k[i - 1] \o ss[i]
        <4>1. CASE i = 1
          BY <1>1, <3>1, <3>2, <4>1
        <4>2. CASE i # 1
          <5>1. i - 1 # 0
            BY <4>2
          <5>2. QED
            BY <3>1, <3>2, <4>2, <5>1
        <4>3. QED
          BY <4>1, <4>2
      <3> HIDE DEF k
      <3>4. QED
        BY <2>5, <3>3
    <2>6. k[n] = f[n]
      <3> HIDE DEF k, X, turn, n, Eq
      <3>1. TakesTurns(X, << >>, turn, n, k)
        BY <2>4, <2>5 DEF TakesTurns
      <3>2. QED
        BY <1>1, <2>1, <3>1, LoopUnique
    <2>7. k[n] = g[Len(ss)]
      BY <1>1, <1>4
    <2>8. QED
      BY <2>3, <2>6, <2>7
  <1>5. QED
    BY <1>3, <1>4

LEMMA FlatExists ==
  ASSUME NEW E, NEW ss \in Seq(Seq(E))
  PROVE  \E f : IsFlat(E, ss, f) /\ FlattenSeq(ss) = f[Len(ss)]
  <1> DEFINE n == Len(ss)
             X == Seq(E)
             turn == [i \in 1..n |-> [s \in X |-> s \o ss[i]]]
  <1>1. n \in Nat /\ \A i \in 1..n : ss[i] \in X
    BY LenProperties, ElementOfSeq
  <1>2. turn \in [1..n -> [X -> X]] /\ << >> \in X
    <2>1. \A i \in 1..n, s \in X : s \o ss[i] \in X
      BY <1>1, ConcatProperties
    <2>2. QED
      BY <2>1, EmptySeq
  <1>3. PICK f : IsLoop(X, << >>, turn, n, f)
    <2> HIDE DEF X, turn, n
    <2> QED
      BY <1>1, <1>2, LoopExists
  <1>4. f \in [0..n -> X] /\ f[0] = << >> /\ \A i \in 1..n : f[i] = turn[i][f[i - 1]]
    BY <1>3 DEF IsLoop
  <1>5. ASSUME NEW i \in 1..n
        PROVE  f[i] = f[i - 1] \o ss[i]
    <2>1. i - 1 \in 0..n
      <3> HIDE DEF n
      <3> QED
        BY <1>1
    <2>2. f[i - 1] \in X
      BY <1>4, <2>1, Zenon
    <2>3. QED
      BY <1>4, <2>2
  <1>6. IsFlat(E, ss, f)
    BY <1>4, <1>5 DEF IsFlat
  <1>7. QED
    BY <1>6, FlatUnique

LEMMA FlattenType ==
  ASSUME NEW E, NEW ss \in Seq(Seq(E))
  PROVE  FlattenSeq(ss) \in Seq(E)
  <1>1. PICK f : IsFlat(E, ss, f) /\ FlattenSeq(ss) = f[Len(ss)]
    BY FlatExists
  <1>2. Len(ss) \in 0..Len(ss)
    BY LenProperties
  <1>3. QED
    BY <1>1, <1>2 DEF IsFlat

\* Pairs, one behind the other, have two elements for each pair.
LEMMA FlattenPairs ==
  ASSUME NEW E, NEW ss \in Seq(Seq(E)), \A i \in 1..Len(ss) : Len(ss[i]) = 2
  PROVE  Len(FlattenSeq(ss)) = 2 * Len(ss)
  <1> DEFINE n == Len(ss)
             P == [i \in 0..n |-> {s \in Seq(E) : Len(s) = 2 * i}]
  <1>1. PICK f : IsFlat(E, ss, f) /\ FlattenSeq(ss) = f[n]
    BY FlatExists
  <1>2. n \in Nat /\ n \in 0..n /\ \A i \in 1..n : ss[i] \in Seq(E) /\ Len(ss[i]) = 2
    BY LenProperties, ElementOfSeq
  <1>3. /\ f[0] = << >> /\ f[0] \in Seq(E)
        /\ \A i \in 1..n : f[i] = f[i - 1] \o ss[i]
    BY <1>1, EmptySeq DEF IsFlat
  <1> HIDE DEF n
  <1>4. f[0] \in P[0]
    BY <1>2, <1>3
  <1>5. ASSUME NEW i \in 1..n, f[i - 1] \in P[i - 1]
        PROVE  f[i] \in P[i]
    <2>1. i - 1 \in 0..n /\ i \in 0..n
      BY <1>2
    <2>2. f[i - 1] \in Seq(E) /\ Len(f[i - 1]) = 2 * (i - 1)
      BY <1>5, <2>1
    <2>3. f[i] \in Seq(E) /\ Len(f[i]) = Len(f[i - 1]) + 2
      <3>1. f[i] = f[i - 1] \o ss[i] /\ ss[i] \in Seq(E) /\ Len(ss[i]) = 2
        BY <1>2, <1>3
      <3>2. /\ f[i - 1] \o ss[i] \in Seq(E)
            /\ Len(f[i - 1] \o ss[i]) = Len(f[i - 1]) + Len(ss[i])
        BY <2>2, <3>1, ConcatProperties, Zenon
      <3>3. QED
        BY <3>1, <3>2
    <2>4. QED
      BY <2>1, <2>2, <2>3
  <1> HIDE DEF P
  <1>6. f[n] \in P[n]
    BY <1>2, <1>4, <1>5, Stepwise
  <1>7. QED
    BY <1>1, <1>2, <1>6 DEF P, n

\* One more sequence.
LEMMA FlattenAppend ==
  ASSUME NEW E, NEW ss \in Seq(Seq(E)), NEW x \in Seq(E)
  PROVE  FlattenSeq(Append(ss, x)) = FlattenSeq(ss) \o x
  <1> DEFINE n == Len(ss)
             ts == Append(ss, x)
  <1>1. PICK f : IsFlat(E, ss, f) /\ FlattenSeq(ss) = f[n]
    BY FlatExists
  <1>2. /\ n \in Nat /\ ts \in Seq(Seq(E)) /\ Len(ts) = n + 1
        /\ ts[n + 1] = x /\ \A i \in 1..n : ts[i] = ss[i]
    BY AppendProperties, LenProperties
  <1>3. f \in [0..n -> Seq(E)] /\ f[0] = << >> /\ \A i \in 1..n : f[i] = f[i - 1] \o ss[i]
    BY <1>1 DEF IsFlat
  <1> HIDE DEF n, ts
  <1>4. f[n] \in Seq(E) /\ f[n] \o x \in Seq(E)
    BY <1>2, <1>3, ConcatProperties
  <1> DEFINE g == [i \in 0..(n + 1) |-> IF i = n + 1 THEN f[n] \o x ELSE f[i]]
  <1>5. g \in [0..(n + 1) -> Seq(E)] /\ g[0] = << >>
    BY <1>2, <1>3, <1>4
  <1>6. ASSUME NEW i \in 1..(n + 1)
        PROVE  g[i] = g[i - 1] \o ts[i]
    <2>1. CASE i = n + 1
      <3>1. i \in 0..(n + 1) /\ i - 1 \in 0..(n + 1) /\ i - 1 # n + 1 /\ i - 1 = n
        BY <1>2, <2>1
      <3>2. g[i] = f[n] \o x /\ g[i - 1] = f[i - 1]
        BY <2>1, <3>1
      <3> HIDE DEF g
      <3>3. QED
        BY <1>2, <2>1, <3>1, <3>2
    <2>2. CASE i # n + 1
      <3>1. i \in 1..n /\ i - 1 \in 0..(n + 1) /\ i - 1 # n + 1 /\ i \in 0..(n + 1)
        BY <1>2, <2>2
      <3>2. g[i] = f[i] /\ g[i - 1] = f[i - 1]
        BY <2>2, <3>1
      <3>3. QED
        BY <1>2, <1>3, <3>1, <3>2
    <2>3. QED
      BY <2>1, <2>2
  <1>7. g[n + 1] = f[n] \o x
    BY <1>2
  <1> HIDE DEF g
  <1>8. IsFlat(E, ts, g)
    BY <1>2, <1>5, <1>6 DEF IsFlat
  <1>9. FlattenSeq(ts) = g[n + 1]
    BY <1>2, <1>8, FlatUnique
  <1>10. QED
    BY <1>1, <1>7, <1>9 DEF ts

\* A sequence behind its length.
LEMMA FramedType ==
  ASSUME NEW S, Nat \subseteq S, NEW body \in Seq(S)
  PROVE  /\ Framed(body) \in Seq(S) /\ Framed(body) # << >>
         /\ Tail(Framed(body)) = body /\ Head(Framed(body)) = Len(body)
         /\ body # << >> => Framed(body)[2] = body[1]
  <1>1. Len(body) \in Nat /\ <<Len(body)>> \in Seq(S) /\ Len(<<Len(body)>>) = 1
    BY LenProperties
  <1>2. /\ Framed(body) \in Seq(S) /\ Len(Framed(body)) = 1 + Len(body)
        /\ \A i \in 1..(1 + Len(body)) :
             Framed(body)[i] = IF i <= 1 THEN <<Len(body)>>[i] ELSE body[i - 1]
    BY <1>1, ConcatProperties DEF Framed
  <1>3. Framed(body) # << >>
    BY <1>1, <1>2, EmptySeq
  <1>4. /\ Tail(Framed(body)) \in Seq(S) /\ Len(Tail(Framed(body))) = Len(body)
        /\ \A i \in 1..Len(body) : Tail(Framed(body))[i] = Framed(body)[i + 1]
        /\ Head(Framed(body)) = Framed(body)[1]
    <2> DEFINE s == Framed(body)
    <2>1. s \in Seq(S) /\ s # << >> /\ Len(s) - 1 = Len(body)
      BY <1>1, <1>2, <1>3
    <2> HIDE DEF s
    <2>2. /\ Tail(s) \in Seq(S) /\ Len(Tail(s)) = Len(s) - 1 /\ Head(s) = s[1]
          /\ \A i \in 1..(Len(s) - 1) : Tail(s)[i] = s[i + 1]
      BY <2>1, HeadTailProperties
    <2>3. QED
      BY <2>1, <2>2 DEF s
  <1>5. \A i \in 1..Len(body) : Tail(Framed(body))[i] = body[i]
    <2> SUFFICES ASSUME NEW i \in 1..Len(body)
                 PROVE  Tail(Framed(body))[i] = body[i]
      OBVIOUS
    <2>1. i + 1 \in 1..(1 + Len(body)) /\ ~(i + 1 <= 1) /\ (i + 1) - 1 = i
      BY <1>1
    <2>2. QED
      BY <1>2, <1>4, <2>1
  <1>6. Tail(Framed(body)) = body
    BY <1>4, <1>5, SeqEqual
  <1>7. Head(Framed(body)) = Len(body)
    BY <1>1, <1>2, <1>4
  <1>8. body # << >> => Framed(body)[2] = body[1]
    <2>1. body # << >> => Len(body) \in Nat \ {0}
      BY EmptySeq
    <2>2. QED
      BY <1>2, <2>1
  <1>9. QED
    BY <1>2, <1>3, <1>6, <1>7, <1>8

\* What a client sends for a command is a message.
LEMMA PackType ==
  ASSUME NEW args \in Seq(Seq(Nat))
  PROVE  IsMessage(pack_command(args))
  <1> DEFINE ss == [i \in 1..Len(args) |-> <<Len(args[i])>> \o args[i]]
  <1>1. Len(args) \in Nat /\ <<Len(args)>> \in Seq(Nat)
    BY LenProperties
  <1>2. ss \in Seq(Seq(Nat))
    <2>1. ASSUME NEW i \in 1..Len(args)
          PROVE  <<Len(args[i])>> \o args[i] \in Seq(Nat)
      <3>1. args[i] \in Seq(Nat)
        BY ElementOfSeq
      <3>2. Framed(args[i]) \in Seq(Nat)
        BY <3>1, FramedType
      <3>3. QED
        BY <3>2 DEF Framed
    <2>2. QED
      BY <1>1, <2>1
  <1> HIDE DEF ss
  <1>3. FlattenSeq(ss) \in Seq(Nat)
    BY <1>2, FlattenType
  <1>4. <<Len(args)>> \o FlattenSeq(ss) \in Seq(Nat)
    BY <1>1, <1>3, ConcatProperties
  <1>5. IsMessage(Framed(<<Len(args)>> \o FlattenSeq(ss)))
    BY <1>4, FramedType DEF IsMessage
  <1>6. QED
    BY <1>5 DEF pack_command, ss

Cursor == [ok : BOOLEAN, cur : Nat, out : Seq(Seq(Nat))]

LEMMA ReadStrType ==
  ASSUME NEW data \in Seq(Nat), NEW c \in Cursor
  PROVE  read_str(data, c) \in Cursor
  <1>1. Len(data) \in Nat /\ \A i \in 1..Len(data) : data[i] \in Nat
    BY LenProperties, ElementOfSeq
  <1>2. c.cur \in Nat /\ c.out \in Seq(Seq(Nat))
    BY DEF Cursor
  <1>3. Failed \in Cursor
    BY EmptySeq DEF Failed, Cursor
  <1> DEFINE n == data[c.cur + 1]
  <1>4. CASE ~c.ok \/ c.cur + 1 > Len(data) \/ c.cur + 1 + n > Len(data)
    BY <1>3, <1>4 DEF read_str
  <1>5. CASE ~(~c.ok \/ c.cur + 1 > Len(data) \/ c.cur + 1 + n > Len(data))
    <2>1. n \in Nat /\ c.cur + 1 + n \in Nat
      BY <1>1, <1>2, <1>5
    <2> DEFINE s == SubSeq(data, c.cur + 2, c.cur + 1 + n)
    <2>2. s \in Seq(Nat)
      <3>1. \A i \in (c.cur + 2)..(c.cur + 1 + n) : data[i] \in Nat
        BY <1>1, <1>2, <1>5, <2>1
      <3>2. QED
        BY <1>2, <2>1, <3>1, SubSeqProperties
    <2> HIDE DEF s
    <2>3. Append(c.out, s) \in Seq(Seq(Nat))
      BY <1>2, <2>2, AppendProperties
    <2>4. read_str(data, c) = [ok |-> TRUE, cur |-> c.cur + 1 + n, out |-> Append(c.out, s)]
      BY <1>5 DEF read_str, s
    <2> HIDE DEF n
    <2>5. QED
      BY <2>1, <2>3, <2>4 DEF Cursor
  <1>6. QED
    BY <1>4, <1>5

Start == [ok |-> TRUE, cur |-> 1, out |-> << >>]

\* f[i] is the cursor behind i strings of data.
IsRead(data, f) ==
  /\ f \in [0..data[1] -> Cursor] /\ f[0] = Start
  /\ \A i \in 1..data[1] : f[i] = read_str(data, f[i - 1])

LEMMA ReadExists ==
  ASSUME NEW data \in Seq(Nat), data # << >>
  PROVE  /\ data[1] \in Nat
         /\ \E f : IsRead(data, f) /\ ReadStrings(data) = f[data[1]]
  <1> DEFINE n == data[1]
             start == [ok |-> TRUE, cur |-> 1, out |-> << >>]
             turn == [i \in 1..n |-> [c \in Cursor |-> read_str(data, c)]]
             Eq(g) == [i \in 0..n |-> IF i = 0 THEN start ELSE read_str(data, g[i - 1])]
  <1>3. n \in Nat
    BY EmptySeq, ElementOfSeq, LenProperties
  <1>4. start \in Cursor /\ turn \in [1..n -> [Cursor -> Cursor]]
    BY ReadStrType, EmptySeq DEF Cursor
  <1>5. PICK f : IsLoop(Cursor, start, turn, n, f)
    <2> HIDE DEF start, turn, n
    <2> QED
      BY <1>3, <1>4, LoopExists
  <1>6. /\ f \in [0..n -> Cursor] /\ f[0] = start
        /\ \A i \in 1..n : f[i] = read_str(data, f[i - 1])
    <2>1. /\ f \in [0..n -> Cursor] /\ f[0] = start
          /\ \A i \in 1..n : f[i] = turn[i][f[i - 1]]
      BY <1>5 DEF IsLoop
    <2> HIDE DEF start
    <2>2. ASSUME NEW i \in 1..n
          PROVE  f[i] = read_str(data, f[i - 1])
      <3>1. f[i - 1] \in Cursor
        BY <1>3, <2>1
      <3>2. QED
        BY <2>1, <3>1
    <2>3. QED
      BY <2>1, <2>2
  <1>7. f = Eq(f)
    <2> HIDE DEF start
    <2>1. \A i \in 0..n : f[i] = Eq(f)[i]
      BY <1>3, <1>6
    <2>2. QED
      BY <1>6, <2>1
  <1>8. PICK g : g = Eq(g) /\ ReadStrings(data) = g[n]
    <2> HIDE DEF Eq
    <2> QED
      BY <1>7 DEF ReadStrings, Eq
  <1>9. g[0] = start /\ \A i \in 1..n : g[i] = read_str(data, g[i - 1])
    <2> HIDE DEF start
    <2> QED
      BY <1>3, <1>8
  <1>10. \A i \in 1..n : g[i - 1] \in Cursor => g[i] = turn[i][g[i - 1]]
    BY <1>9
  <1>11. g[n] = f[n]
    <2> HIDE DEF start, turn, n, Eq
    <2>1. TakesTurns(Cursor, start, turn, n, g)
      BY <1>9, <1>10 DEF TakesTurns
    <2>2. QED
      BY <1>3, <1>5, <2>1, LoopUnique
  <1>12. IsRead(data, f)
    BY <1>6 DEF IsRead, Start
  <1>13. QED
    BY <1>3, <1>8, <1>11, <1>12

\* What parse_req accepts.
LEMMA ParseAccepts ==
  ASSUME NEW data \in Seq(Nat)
  PROVE  parse_req(data).ok <=>
           /\ data # << >> /\ data[1] <= k_max_args
           /\ ReadStrings(data).ok /\ ReadStrings(data).cur = Len(data)
  <1>1. data # << >> => data[1] \in Nat
    BY EmptySeq, ElementOfSeq
  <1>2. ~Failed.ok
    BY DEF Failed
  <1>3. QED
    BY <1>1, <1>2, WireAssumption DEF parse_req

\* What parse_req accepts is a list of strings.
LEMMA ParseType ==
  ASSUME NEW data \in Seq(Nat), parse_req(data).ok
  PROVE  parse_req(data).out \in Seq(Seq(Nat)) /\ parse_req(data) = ReadStrings(data)
  <1>1. data # << >> /\ parse_req(data) = ReadStrings(data)
    BY DEF parse_req, Failed
  <1>2. PICK f : IsRead(data, f) /\ ReadStrings(data) = f[data[1]]
    BY <1>1, ReadExists
  <1>3. data[1] \in 0..data[1]
    BY <1>1, ReadExists
  <1>4. f[data[1]] \in Cursor
    BY <1>2, <1>3 DEF IsRead
  <1>5. QED
    BY <1>1, <1>2, <1>4 DEF Cursor

\* The strings of a message, each behind its length, and how they follow each
\* other in the message.
Frames(args) == [i \in 1..Len(args) |-> Framed(args[i])]
Packed(args) == FlattenSeq(Frames(args))

LEMMA PackedType ==
  ASSUME NEW args \in Seq(Seq(Nat))
  PROVE  /\ Frames(args) \in Seq(Seq(Nat)) /\ Len(Frames(args)) = Len(args)
         /\ \A i \in 1..Len(args) : /\ args[i] \in Seq(Nat)
                                    /\ Frames(args)[i] = Framed(args[i])
         /\ Packed(args) \in Seq(Nat)
         /\ pack_command(args) = Framed(<<Len(args)>> \o Packed(args))
  <1>1. Len(args) \in Nat /\ \A i \in 1..Len(args) : args[i] \in Seq(Nat)
    BY LenProperties, ElementOfSeq
  <1>2. \A i \in 1..Len(args) : Framed(args[i]) \in Seq(Nat)
    BY <1>1, FramedType
  <1>3. /\ Frames(args) \in Seq(Seq(Nat)) /\ Len(Frames(args)) = Len(args)
        /\ \A i \in 1..Len(args) : Frames(args)[i] = Framed(args[i])
    BY <1>1, <1>2 DEF Frames
  <1>4. Packed(args) \in Seq(Nat)
    BY <1>3, FlattenType DEF Packed
  <1>5. pack_command(args) = Framed(<<Len(args)>> \o Packed(args))
    BY DEF pack_command, Packed, Frames, Framed
  <1>6. QED
    BY <1>1, <1>3, <1>4, <1>5

LEMMA PackedAppend ==
  ASSUME NEW args \in Seq(Seq(Nat)), NEW s \in Seq(Nat)
  PROVE  Packed(Append(args, s)) = Packed(args) \o Framed(s)
  <1> DEFINE n == Len(args)
             more == Append(args, s)
  <1>1. /\ n \in Nat /\ more \in Seq(Seq(Nat)) /\ Len(more) = n + 1
        /\ more[n + 1] = s /\ \A i \in 1..n : more[i] = args[i]
    BY AppendProperties, LenProperties
  <1> HIDE DEF more
  <1>2. /\ Frames(args) \in Seq(Seq(Nat)) /\ Len(Frames(args)) = n
        /\ \A i \in 1..n : Frames(args)[i] = Framed(args[i])
    BY PackedType
  <1>3. /\ Frames(more) \in Seq(Seq(Nat)) /\ Len(Frames(more)) = n + 1
        /\ \A i \in 1..(n + 1) : Frames(more)[i] = Framed(more[i])
    BY <1>1, PackedType
  <1>4. Framed(s) \in Seq(Nat)
    BY FramedType
  <1>5. /\ Append(Frames(args), Framed(s)) \in Seq(Seq(Nat))
        /\ Len(Append(Frames(args), Framed(s))) = n + 1
        /\ Append(Frames(args), Framed(s))[n + 1] = Framed(s)
        /\ \A i \in 1..n : Append(Frames(args), Framed(s))[i] = Frames(args)[i]
    BY <1>2, <1>4, AppendProperties
  <1> HIDE DEF n
  <1>6. ASSUME NEW i \in 1..(n + 1)
        PROVE  Frames(more)[i] = Append(Frames(args), Framed(s))[i]
    <2>1. CASE i = n + 1
      BY <1>1, <1>3, <1>5, <2>1
    <2>2. CASE i # n + 1
      <3>1. i \in 1..n
        BY <1>1, <2>2
      <3>2. QED
        BY <1>1, <1>2, <1>3, <1>5, <3>1
    <2>3. QED
      BY <2>1, <2>2
  <1>7. Frames(more) = Append(Frames(args), Framed(s))
    BY <1>3, <1>5, <1>6, SeqEqual
  <1>8. QED
    BY <1>2, <1>4, <1>7, FlattenAppend DEF Packed, more

\* The cells that c has consumed are the count and the strings it has read.
Consumed(data, c) ==
  /\ c.cur \in 1..Len(data) /\ Len(Packed(c.out)) = c.cur - 1
  /\ \A j \in 1..(c.cur - 1) : Packed(c.out)[j] = data[j + 1]

LEMMA ReadStrConsumes ==
  ASSUME NEW data \in Seq(Nat), NEW c \in Cursor, Consumed(data, c), read_str(data, c).ok
  PROVE  /\ Consumed(data, read_str(data, c))
         /\ Len(read_str(data, c).out) = Len(c.out) + 1
  <1> DEFINE cur == c.cur
             n == data[cur + 1]
             s == SubSeq(data, cur + 2, cur + 1 + n)
             d == read_str(data, c)
  <1>1. Len(data) \in Nat /\ \A i \in 1..Len(data) : data[i] \in Nat
    BY LenProperties, ElementOfSeq
  <1>2. cur \in Nat /\ c.out \in Seq(Seq(Nat))
    BY DEF Cursor
  <1>3. /\ ~(cur + 1 > Len(data)) /\ ~(cur + 1 + n > Len(data))
        /\ d = [ok |-> TRUE, cur |-> cur + 1 + n, out |-> Append(c.out, s)]
    BY DEF read_str, Failed
  <1>4. n \in Nat
    <2> HIDE DEF n, cur
    <2>1. cur + 1 \in 1..Len(data)
      BY <1>1, <1>2, <1>3
    <2>2. QED
      BY <1>1, <2>1 DEF n
  <1>5. /\ cur \in 1..Len(data) /\ Len(Packed(c.out)) = cur - 1
        /\ \A j \in 1..(cur - 1) : Packed(c.out)[j] = data[j + 1]
    BY DEF Consumed
  <1> HIDE DEF n, cur
  <1>6. s \in Seq(Nat) /\ Len(s) = n /\ \A i \in 1..n : s[i] = data[cur + 1 + i]
    <2>1. cur + 2 \in Int /\ cur + 1 + n \in Int
      BY <1>2, <1>4
    <2>2. \A i \in (cur + 2)..(cur + 1 + n) : data[i] \in Nat
      BY <1>1, <1>2, <1>3, <1>4
    <2>3. /\ s \in Seq(Nat)
          /\ Len(s) = IF cur + 2 <= cur + 1 + n THEN (cur + 1 + n) - (cur + 2) + 1 ELSE 0
          /\ \A i \in 1..((cur + 1 + n) - (cur + 2) + 1) : s[i] = data[cur + 2 + i - 1]
      BY <2>1, <2>2, SubSeqProperties
    <2>4. (cur + 1 + n) - (cur + 2) + 1 = n
      BY <1>2, <1>4
    <2>5. Len(s) = n
      BY <1>2, <1>4, <2>3
    <2>6. ASSUME NEW i \in 1..n
          PROVE  s[i] = data[cur + 1 + i]
      <3>1. cur + 2 + i - 1 = cur + 1 + i
        BY <1>2, <1>4
      <3>2. QED
        BY <2>3, <2>4, <3>1
    <2>7. QED
      BY <2>3, <2>5, <2>6
  <1> HIDE DEF s
  <1>7. /\ Append(c.out, s) \in Seq(Seq(Nat)) /\ Len(Append(c.out, s)) = Len(c.out) + 1
        /\ Packed(Append(c.out, s)) = Packed(c.out) \o Framed(s)
    BY <1>2, <1>6, AppendProperties, PackedAppend
  <1>8. Packed(c.out) \in Seq(Nat)
    BY <1>2, PackedType
  <1>9. /\ Framed(s) \in Seq(Nat) /\ Len(Framed(s)) = 1 + n
        /\ \A i \in 1..(1 + n) : Framed(s)[i] = IF i = 1 THEN n ELSE s[i - 1]
    <2>1. <<Len(s)>> \in Seq(Nat) /\ Len(<<Len(s)>>) = 1 /\ <<Len(s)>>[1] = n
      BY <1>4, <1>6
    <2>2. /\ Framed(s) \in Seq(Nat) /\ Len(Framed(s)) = 1 + n
          /\ \A i \in 1..(1 + n) : Framed(s)[i] = IF i <= 1 THEN <<Len(s)>>[i] ELSE s[i - 1]
      BY <1>6, <2>1, ConcatProperties DEF Framed
    <2>3. QED
      BY <1>4, <2>1, <2>2
  <1> DEFINE P == Packed(c.out)  Q == Framed(s)  R == P \o Q
  <1>10. /\ Len(R) = (cur - 1) + (1 + n)
         /\ \A j \in 1..((cur - 1) + (1 + n)) :
              R[j] = IF j <= cur - 1 THEN P[j] ELSE Q[j - (cur - 1)]
    BY <1>5, <1>8, <1>9, ConcatProperties
  <1>11. ASSUME NEW j \in 1..(cur + n)
         PROVE  R[j] = data[j + 1]
    <2>1. j \in 1..((cur - 1) + (1 + n))
      BY <1>2, <1>4
    <2> HIDE DEF R, P, Q
    <2>2. CASE j <= cur - 1
      <3>1. j \in 1..(cur - 1)
        BY <1>2, <2>2
      <3>2. QED
        BY <1>5, <1>10, <2>1, <2>2, <3>1 DEF P
    <2>3. CASE j = cur
      <3>1. j - (cur - 1) = 1 /\ ~(j <= cur - 1) /\ 1 \in 1..(1 + n)
        BY <1>2, <1>4, <2>3
      <3>2. R[j] = Q[1] /\ Q[1] = n
        BY <1>9, <1>10, <2>1, <3>1 DEF Q
      <3>3. QED
        BY <2>3, <3>2 DEF n
    <2>4. CASE j > cur
      <3>1. /\ j - (cur - 1) \in 1..(1 + n) /\ j - (cur - 1) # 1 /\ ~(j <= cur - 1)
            /\ (j - (cur - 1)) - 1 = j - cur /\ j - cur \in 1..n /\ cur + 1 + (j - cur) = j + 1
        BY <1>2, <1>4, <2>4
      <3>2. R[j] = Q[j - (cur - 1)]
        BY <1>10, <2>1, <3>1
      <3>3. Q[j - (cur - 1)] = s[j - cur]
        BY <1>9, <3>1 DEF Q
      <3>4. s[j - cur] = data[j + 1]
        BY <1>6, <3>1
      <3>5. QED
        BY <3>2, <3>3, <3>4
    <2>5. QED
      BY <1>2, <2>2, <2>3, <2>4
  <1>12. d.cur = cur + 1 + n /\ d.out = Append(c.out, s) /\ Packed(d.out) = R
    BY <1>3, <1>7
  <1> HIDE DEF R, d
  <1>13. d.cur \in 1..Len(data) /\ d.cur - 1 = cur + n /\ Len(R) = d.cur - 1
    BY <1>1, <1>2, <1>3, <1>4, <1>10, <1>12
  <1>14. Consumed(data, d)
    BY <1>11, <1>12, <1>13 DEF Consumed
  <1>15. QED
    BY <1>7, <1>12, <1>14 DEF d

\* What parse_req accepts encodes back to the same cells.
LEMMA ParseSound ==
  ASSUME NEW data \in Seq(Nat), parse_req(data).ok
  PROVE  data = <<Len(parse_req(data).out)>> \o Packed(parse_req(data).out)
  <1> DEFINE n == data[1]
             P == [i \in 0..n |-> {c \in Cursor : c.ok => Consumed(data, c) /\ Len(c.out) = i}]
  <1>1. /\ data # << >> /\ ReadStrings(data).ok /\ ReadStrings(data).cur = Len(data)
        /\ parse_req(data) = ReadStrings(data) /\ parse_req(data).out \in Seq(Seq(Nat))
    BY ParseAccepts, ParseType
  <1>2. n \in Nat /\ Len(data) \in Nat \ {0}
    BY <1>1, ReadExists, EmptySeq
  <1>3. PICK f : IsRead(data, f) /\ ReadStrings(data) = f[n]
    BY <1>1, ReadExists
  <1>4. /\ f \in [0..n -> Cursor] /\ f[0] = Start
        /\ \A i \in 1..n : f[i] = read_str(data, f[i - 1])
    BY <1>3 DEF IsRead
  <1> HIDE DEF n
  <1>5. f[0] \in P[0]
    <2>1. Start.cur = 1 /\ Start.out = << >> /\ Start \in Cursor
      BY EmptySeq DEF Start, Cursor
    <2>2. << >> \in Seq(Seq(Nat)) /\ Len(<< >>) = 0
      BY EmptySeq
    <2>3. Frames(<< >>) = << >>
      BY DEF Frames
    <2>4. Packed(<< >>) = << >>
      BY <2>3 DEF Packed, FlattenSeq
    <2>5. Consumed(data, Start)
      BY <1>2, <2>1, <2>2, <2>4 DEF Consumed
    <2>6. QED
      BY <1>2, <1>4, <2>1, <2>2, <2>5
  <1>6. ASSUME NEW i \in 1..n, f[i - 1] \in P[i - 1]
        PROVE  f[i] \in P[i]
    <2>1. i - 1 \in 0..n /\ i \in 0..n /\ (i - 1) + 1 = i
      BY <1>2
    <2> DEFINE c == f[i - 1]
    <2>2. c \in Cursor /\ f[i] \in Cursor /\ f[i] = read_str(data, c)
      BY <1>4, <2>1
    <2>3. c.ok => Consumed(data, c) /\ Len(c.out) = i - 1
      BY <1>6, <2>1
    <2> HIDE DEF c
    <2>4. f[i].ok => c.ok
      BY <2>2 DEF read_str, Failed
    <2>5. f[i].ok => Consumed(data, f[i]) /\ Len(f[i].out) = Len(c.out) + 1
      BY <2>2, <2>3, <2>4, ReadStrConsumes
    <2>6. f[i].ok => Consumed(data, f[i]) /\ Len(f[i].out) = i
      BY <2>1, <2>3, <2>4, <2>5
    <2>7. QED
      BY <2>1, <2>2, <2>6
  <1> HIDE DEF P
  <1>7. f[n] \in P[n] /\ n \in 0..n
    <2>1. \A i \in 0..n : f[i] \in P[i]
      BY <1>2, <1>5, <1>6, Stepwise
    <2>2. QED
      BY <1>2, <2>1
  <1> DEFINE c == f[n]
             R == <<Len(c.out)>> \o Packed(c.out)
  <1>8. /\ Consumed(data, c) /\ Len(c.out) = n /\ c.cur = Len(data)
        /\ c.out \in Seq(Seq(Nat)) /\ parse_req(data) = c
    BY <1>1, <1>3, <1>7 DEF P
  <1> HIDE DEF c
  <1>9. Packed(c.out) \in Seq(Nat) /\ Len(Packed(c.out)) = Len(data) - 1
        /\ \A j \in 1..(Len(data) - 1) : Packed(c.out)[j] = data[j + 1]
    BY <1>8, PackedType DEF Consumed
  <1>10. <<n>> \in Seq(Nat) /\ Len(<<n>>) = 1 /\ <<n>>[1] = n
    BY <1>2
  <1>11. /\ R \in Seq(Nat) /\ Len(R) = 1 + (Len(data) - 1)
         /\ \A j \in 1..(1 + (Len(data) - 1)) :
              R[j] = IF j <= 1 THEN <<n>>[j] ELSE Packed(c.out)[j - 1]
    BY <1>8, <1>9, <1>10, ConcatProperties
  <1> HIDE DEF R
  <1>12. ASSUME NEW j \in 1..Len(data)
         PROVE  R[j] = data[j]
    <2>1. j \in 1..(1 + (Len(data) - 1))
      BY <1>2
    <2>2. CASE j = 1
      BY <1>10, <1>11, <2>1, <2>2 DEF n
    <2>3. CASE j # 1
      <3>1. ~(j <= 1) /\ j - 1 \in 1..(Len(data) - 1) /\ (j - 1) + 1 = j
        BY <1>2, <2>3
      <3>2. QED
        BY <1>9, <1>11, <2>1, <3>1
    <2>4. QED
      BY <2>2, <2>3
  <1>13. Len(R) = Len(data)
    BY <1>2, <1>11
  <1>14. data = R
    BY <1>11, <1>12, <1>13, SeqEqual
  <1>15. QED
    BY <1>8, <1>14 DEF R

\* The first sequences of a concatenation are where they would be without the
\* others.
LEMMA FlatPrefix ==
  ASSUME NEW E, NEW ss \in Seq(Seq(E)), NEW f, IsFlat(E, ss, f), NEW i \in 0..Len(ss)
  PROVE  /\ Len(f[i]) <= Len(f[Len(ss)])
         /\ \A j \in 1..Len(f[i]) : f[Len(ss)][j] = f[i][j]
  <1> DEFINE n == Len(ss)
             Ok(k) == Len(f[k]) <= Len(f[n]) /\ \A j \in 1..Len(f[k]) : f[n][j] = f[k][j]
             T == {d \in 0..n : ~Ok(n - d)}
  <1>1. n \in Nat /\ \A k \in 1..n : ss[k] \in Seq(E)
    BY LenProperties, ElementOfSeq
  <1>2. /\ f \in [0..n -> Seq(E)]
        /\ \A k \in 1..n : f[k] = f[k - 1] \o ss[k]
    BY DEF IsFlat
  <1>3. SUFFICES ASSUME T # {}
                 PROVE  FALSE
    <2>1. n - i \in 0..n /\ n - (n - i) = i
      BY <1>1
    <2>2. n - i \notin T
      BY <1>3
    <2>3. QED
      BY <2>1, <2>2
  <1>4. T \subseteq Nat
    BY <1>1
  <1>5. PICK d \in T : \A e \in T : d <= e
    <2> HIDE DEF T
    <2> QED
      BY <1>3, <1>4, LeastNumber
  <1> HIDE DEF n
  <1>6. d \in 0..n /\ ~Ok(n - d)
    BY <1>5
  <1>7. d # 0
    <2>1. n \in 0..n /\ n - 0 = n
      BY <1>1
    <2>2. f[n] \in Seq(E)
      BY <1>2, <2>1
    <2>3. Len(f[n]) \in Nat
      BY <2>2, LenProperties
    <2>4. Ok(n)
      BY <2>3
    <2> HIDE DEF Ok
    <2>5. QED
      BY <1>6, <2>1, <2>4
  <1> DEFINE k == n - d
  <1>8. /\ d - 1 \in 0..n /\ n - (d - 1) = k + 1 /\ k + 1 \in 1..n /\ (k + 1) - 1 = k
        /\ k \in 0..n /\ k + 1 \in 0..n /\ ~(d <= d - 1)
    BY <1>1, <1>6, <1>7
  <1>9. Ok(k + 1)
    <2>1. d - 1 \notin T
      BY <1>5, <1>8
    <2> HIDE DEF Ok, k
    <2>2. QED
      BY <1>8, <2>1
  <1>10. ~Ok(k)
    BY <1>6
  <1> HIDE DEF k
  <1>11. /\ f[k] \in Seq(E) /\ f[n] \in Seq(E) /\ ss[k + 1] \in Seq(E)
         /\ f[k + 1] = f[k] \o ss[k + 1]
    <2>1. n \in 0..n
      BY <1>1
    <2>2. QED
      BY <1>1, <1>2, <1>8, <2>1
  <1> DEFINE a == f[k]  b == ss[k + 1]  w == f[k + 1]  z == f[n]
             la == Len(a)  lb == Len(b)  lz == Len(z)
  <1>12. a \in Seq(E) /\ b \in Seq(E) /\ z \in Seq(E) /\ w = a \o b
    BY <1>11
  <1>13. Len(w) <= lz /\ \A j \in 1..Len(w) : z[j] = w[j]
    BY <1>9
  <1> HIDE DEF a, b, w, z, Ok
  <1>14. la \in Nat /\ lb \in Nat /\ lz \in Nat
    BY <1>12, LenProperties
  <1>15. /\ Len(w) = la + lb
         /\ \A j \in 1..(la + lb) : w[j] = IF j <= la THEN a[j] ELSE b[j - la]
    BY <1>12, ConcatProperties
  <1> HIDE DEF la, lb, lz
  <1>16. la <= lz
    BY <1>13, <1>14, <1>15
  <1>17. ASSUME NEW j \in 1..la
         PROVE  z[j] = a[j]
    <2>1. j \in 1..(la + lb) /\ j <= la
      BY <1>14
    <2>2. QED
      BY <1>13, <1>15, <2>1
  <1>18. Ok(k)
    BY <1>16, <1>17 DEF Ok, a, z, la, lz
  <1>19. QED
    BY <1>10, <1>18

\* A turn of parse_req when the whole string is there.
LEMMA ReadStrNext ==
  ASSUME NEW data \in Seq(Nat), NEW c \in Cursor, c.ok,
         c.cur + 1 <= Len(data), c.cur + 1 + data[c.cur + 1] <= Len(data)
  PROVE  read_str(data, c).ok /\ read_str(data, c).cur = c.cur + 1 + data[c.cur + 1]
  <1>1. c.cur \in Nat /\ Len(data) \in Nat
    BY LenProperties DEF Cursor
  <1>2. data[c.cur + 1] \in Nat
    <2>1. c.cur + 1 \in 1..Len(data)
      BY <1>1
    <2>2. QED
      BY <2>1, ElementOfSeq
  <1>3. ~(c.cur + 1 > Len(data)) /\ ~(c.cur + 1 + data[c.cur + 1] > Len(data))
    BY <1>1, <1>2
  <1>4. QED
    BY <1>3 DEF read_str

\* What a client encodes is not refused.
LEMMA ParseComplete ==
  ASSUME NEW args \in Seq(Seq(Nat)), Len(args) <= k_max_args
  PROVE  parse_req(<<Len(args)>> \o Packed(args)).ok
  <1> DEFINE n == Len(args)
             all == Packed(args)
             data == <<n>> \o all
             la == Len(all)
  <1>1. n \in Nat /\ <<n>> \in Seq(Nat) /\ Len(<<n>>) = 1 /\ <<n>>[1] = n
    BY LenProperties
  <1>2. /\ Frames(args) \in Seq(Seq(Nat)) /\ Len(Frames(args)) = n /\ all \in Seq(Nat)
        /\ \A i \in 1..n : args[i] \in Seq(Nat) /\ Frames(args)[i] = Framed(args[i])
    BY PackedType
  <1>3. la \in Nat
    BY <1>2, LenProperties
  <1>4. PICK f : IsFlat(Nat, Frames(args), f) /\ all = f[n]
    BY <1>2, FlatExists DEF Packed
  <1> HIDE DEF n, all
  <1>5. /\ data \in Seq(Nat) /\ Len(data) = 1 + la
        /\ \A j \in 1..(1 + la) : data[j] = IF j <= 1 THEN <<n>>[j] ELSE all[j - 1]
    BY <1>1, <1>2, ConcatProperties
  <1>6. data[1] = n /\ \A j \in 1..la : data[j + 1] = all[j]
    <2> HIDE DEF data, la
    <2>1. data[1] = n
      BY <1>1, <1>3, <1>5
    <2>2. ASSUME NEW j \in 1..la
          PROVE  data[j + 1] = all[j]
      <3>1. j + 1 \in 1..(1 + la) /\ ~(j + 1 <= 1) /\ (j + 1) - 1 = j
        BY <1>3
      <3>2. QED
        BY <1>5, <3>1
    <2>3. QED
      BY <2>1, <2>2
  <1> HIDE DEF data, la
  <1>7. data # << >>
    BY <1>3, <1>5, EmptySeq
  <1>8. PICK g : IsRead(data, g) /\ ReadStrings(data) = g[n]
    BY <1>5, <1>6, <1>7, ReadExists
  <1>9. /\ g \in [0..n -> Cursor] /\ g[0] = Start
        /\ \A i \in 1..n : g[i] = read_str(data, g[i - 1])
    BY <1>6, <1>8 DEF IsRead
  <1>10. /\ f \in [0..n -> Seq(Nat)] /\ f[0] = << >>
         /\ \A i \in 1..n : f[i] = f[i - 1] \o Framed(args[i])
    BY <1>2, <1>4 DEF IsFlat
  <1> DEFINE P == [i \in 0..n |-> {c \in Cursor : c.ok /\ c.cur = 1 + Len(f[i])}]
  <1>11. g[0] \in P[0]
    <2>1. Len(f[0]) = 0 /\ Start \in Cursor /\ Start.ok /\ Start.cur = 1 /\ 0 \in 0..n
      BY <1>1, <1>10, EmptySeq DEF Start, Cursor
    <2>2. QED
      BY <1>9, <2>1
  <1>12. ASSUME NEW i \in 1..n, g[i - 1] \in P[i - 1]
         PROVE  g[i] \in P[i]
    <2>1. i - 1 \in 0..n /\ i \in 0..n
      BY <1>1
    <2> DEFINE c == g[i - 1]
               s == args[i]
               b == Framed(s)
               w == f[i - 1]
               lw == Len(w)
               m == Len(s)
    <2>2. c \in Cursor /\ c.ok /\ c.cur = 1 + lw /\ g[i] = read_str(data, c) /\ g[i] \in Cursor
      BY <1>9, <1>12, <2>1
    <2>3. s \in Seq(Nat) /\ w \in Seq(Nat) /\ f[i] \in Seq(Nat) /\ f[i] = w \o b
      BY <1>2, <1>10, <2>1
    <2> HIDE DEF s, w, c
    <2>4. b \in Seq(Nat) /\ b # << >> /\ Tail(b) = s /\ Head(b) = m
      BY <2>3, FramedType
    <2>5. lw \in Nat /\ m \in Nat /\ Len(b) = 1 + m /\ b[1] = m
      <3>1. lw \in Nat /\ m \in Nat /\ Len(b) \in Nat
        BY <2>3, <2>4, LenProperties
      <3> HIDE DEF b
      <3>2. Len(Tail(b)) = Len(b) - 1 /\ Head(b) = b[1]
        BY <2>4, HeadTailProperties
      <3>3. Len(Tail(b)) = m
        BY <2>4
      <3> HIDE DEF m, lw
      <3>4. m = Len(b) - 1
        BY <3>2, <3>3, Zenon
      <3>5. Len(b) = 1 + m
        BY <3>1, <3>4
      <3>6. QED
        BY <2>4, <3>1, <3>2, <3>5
    <2> HIDE DEF b
    <2>6. /\ Len(f[i]) = lw + (1 + m)
          /\ \A j \in 1..(lw + (1 + m)) : f[i][j] = IF j <= lw THEN w[j] ELSE b[j - lw]
      <3>1. /\ Len(w \o b) = Len(w) + Len(b)
            /\ \A j \in 1..(Len(w) + Len(b)) :
                 (w \o b)[j] = IF j <= Len(w) THEN w[j] ELSE b[j - Len(w)]
        BY <2>3, <2>4, ConcatProperties
      <3>2. QED
        BY <2>3, <2>5, <3>1
    <2>7. lw + (1 + m) <= la /\ \A j \in 1..(lw + (1 + m)) : all[j] = f[i][j]
      <3>1. Len(f[i]) <= Len(f[n]) /\ \A j \in 1..Len(f[i]) : f[n][j] = f[i][j]
        <4> DEFINE ss == Frames(args)
        <4>1. ss \in Seq(Seq(Nat)) /\ IsFlat(Nat, ss, f) /\ i \in 0..Len(ss) /\ Len(ss) = n
          BY <1>2, <1>4, <2>1
        <4> HIDE DEF ss
        <4>2. /\ Len(f[i]) <= Len(f[Len(ss)])
              /\ \A j \in 1..Len(f[i]) : f[Len(ss)][j] = f[i][j]
          BY <4>1, FlatPrefix
        <4>3. QED
          BY <4>1, <4>2
      <3>2. QED
        BY <1>4, <2>6, <3>1 DEF la
    <2> HIDE DEF lw, m
    <2>8. data[c.cur + 1] = m
      <3>1. /\ lw + 1 \in 1..(lw + (1 + m)) /\ lw + 1 \in 1..la /\ ~(lw + 1 <= lw)
            /\ (lw + 1) - lw = 1 /\ c.cur + 1 = (lw + 1) + 1
        BY <1>3, <2>2, <2>5, <2>7
      <3>2. f[i][lw + 1] = b[1]
        BY <2>6, <3>1
      <3>3. data[(lw + 1) + 1] = all[lw + 1] /\ all[lw + 1] = f[i][lw + 1]
        BY <1>6, <2>7, <3>1
      <3>4. QED
        BY <2>5, <3>1, <3>2, <3>3
    <2>9. c.cur + 1 <= Len(data) /\ c.cur + 1 + m <= Len(data) /\ c.cur + 1 + m = 1 + Len(f[i])
      BY <1>3, <1>5, <2>2, <2>5, <2>6, <2>7
    <2>10. g[i].ok /\ g[i].cur = 1 + Len(f[i])
      BY <1>5, <2>2, <2>8, <2>9, ReadStrNext
    <2>11. QED
      BY <2>1, <2>2, <2>10
  <1> HIDE DEF P
  <1>13. g[n] \in P[n] /\ n \in 0..n
    <2>1. \A i \in 0..n : g[i] \in P[i]
      BY <1>1, <1>11, <1>12, Stepwise
    <2>2. QED
      BY <1>1, <2>1
  <1>14. g[n].ok /\ g[n].cur = 1 + la
    BY <1>4, <1>13 DEF P, la
  <1>15. parse_req(data).ok
    BY <1>5, <1>6, <1>7, <1>8, <1>14, ParseAccepts DEF n
  <1>16. QED
    BY <1>15 DEF data, all, n

\* The value of a string of digits with or without a sign.
LEMMA NumberType ==
  ASSUME NEW s \in Seq(Nat), str2int(s).ok
  PROVE  str2int(s).val \in Int
  <1> DEFINE digits == IF s # << >> /\ s[1] = Minus THEN Tail(s) ELSE s
             n == Len(digits)
             Eq(g) == [i \in 0..Len(digits) |-> IF i = 0 THEN 0 ELSE 10 * g[i - 1] + digits[i]]
             turn == [i \in 1..n |-> [x \in Int |-> 10 * x + digits[i]]]
  <1>1. digits \in Seq(Nat)
    BY HeadTailProperties
  <1>2. n \in Nat /\ \A i \in 1..n : digits[i] \in Nat
    <2> HIDE DEF digits
    <2> QED
      BY <1>1, LenProperties, ElementOfSeq
  <1>3. str2int(s).val = LET upTo[i \in 0..Len(digits)] ==
                               IF i = 0 THEN 0 ELSE 10 * upTo[i - 1] + digits[i]
                         IN IF digits = s THEN upTo[n] ELSE -upTo[n]
    BY DEF str2int
  <1> HIDE DEF digits
  <1>4. turn \in [1..n -> [Int -> Int]] /\ 0 \in Int
    BY <1>2
  <1>5. PICK f : IsLoop(Int, 0, turn, n, f)
    <2> HIDE DEF turn, n
    <2> QED
      BY <1>2, <1>4, LoopExists
  <1>6. /\ f \in [0..n -> Int] /\ f[0] = 0
        /\ \A i \in 1..n : f[i] = 10 * f[i - 1] + digits[i]
    <2>1. /\ f \in [0..n -> Int] /\ f[0] = 0
          /\ \A i \in 1..n : f[i] = turn[i][f[i - 1]]
      BY <1>5 DEF IsLoop
    <2>2. ASSUME NEW i \in 1..n
          PROVE  f[i] = 10 * f[i - 1] + digits[i]
      <3>1. i - 1 \in 0..n
        <4> HIDE DEF n
        <4> QED
          BY <1>2
      <3>2. f[i - 1] \in Int
        BY <2>1, <3>1, Zenon
      <3>3. QED
        BY <2>1, <3>2
    <2>3. QED
      BY <2>1, <2>2
  <1>7. f = Eq(f)
    <2>1. \A i \in 0..n : f[i] = Eq(f)[i]
      BY <1>2, <1>6
    <2>2. QED
      BY <1>6, <2>1
  <1>8. PICK g : g = Eq(g) /\ str2int(s).val = IF digits = s THEN g[n] ELSE -g[n]
    <2> HIDE DEF Eq
    <2> QED
      BY <1>3, <1>7 DEF Eq
  <1>9. g[0] = 0
    BY <1>2, <1>8
  <1>10. \A i \in 1..n : g[i - 1] \in Int => g[i] = turn[i][g[i - 1]]
    <2> SUFFICES ASSUME NEW i \in 1..n, g[i - 1] \in Int
                 PROVE  g[i] = turn[i][g[i - 1]]
      OBVIOUS
    <2>1. i \in 0..Len(digits) /\ i # 0
      BY <1>2
    <2>2. g[i] = 10 * g[i - 1] + digits[i]
      BY <1>8, <2>1
    <2>3. QED
      BY <2>2
  <1>11. g[n] = f[n]
    <2> HIDE DEF turn, n, Eq
    <2>1. n \in Nat
      BY <1>2
    <2>2. TakesTurns(Int, 0, turn, n, g)
      BY <1>9, <1>10 DEF TakesTurns
    <2>3. QED
      BY <1>5, <2>1, <2>2, LoopUnique
  <1>12. f[n] \in Int
    BY <1>2, <1>6
  <1>13. QED
    BY <1>8, <1>11, <1>12

-----------------------------------------------------------------------------
(* What reaches a command.                                                 *)

\* What the server has parsed is a list of strings.
LEMMA ParsedType ==
  ASSUME KeyInv, phase = "sent", Accepted
  PROVE  Parsed.out \in Seq(Seq(Nat))
  <1>1. request \in Seq(Nat) /\ request # << >>
    BY DEF KeyInv, DbType, IsMessage
  <1>2. Tail(request) \in Seq(Nat)
    BY <1>1, HeadTailProperties
  <1>3. QED
    BY <1>2, ParseType DEF Accepted, Parsed

\* A command has as many strings as its signature says.
LEMMA CallFacts ==
  ASSUME NEW cmd
  PROVE  /\ Called(cmd, SET) => Len(cmd) = 3
         /\ Called(cmd, DEL) => Len(cmd) = 2
         /\ Called(cmd, PEXPIRE) => Len(cmd) = 3
         /\ Called(cmd, PTTL) => Len(cmd) = 2
         /\ Called(cmd, ZADD) => Len(cmd) = 4
         /\ Called(cmd, ZREM) => Len(cmd) = 3
         /\ Called(cmd, GET) => Len(cmd) = 2
         /\ Called(cmd, ZSCORE) => Len(cmd) = 3
         /\ Called(cmd, ZQUERY) => Len(cmd) = 6
  BY DEF Called, Signature, GET, SET, DEL, KEYS, PEXPIRE, PTTL, ZADD, ZREM, ZSCORE, ZQUERY

LEMMA ArgType ==
  ASSUME NEW cmd \in Seq(Seq(Nat)), NEW i \in 1..Len(cmd)
  PROVE  cmd[i] \in Seq(Nat) /\ cmd[i] \in Seq(Int)
  <1>1. cmd[i] \in Seq(Nat)
    BY ElementOfSeq
  <1>2. Nat \subseteq Int
    OBVIOUS
  <1>3. QED
    BY <1>1, <1>2, SeqMonotonic

-----------------------------------------------------------------------------
(* The invariant of the keyspace.                                          *)

\* What the invariant says of one key.
KeyFacts(e, x, p) ==
  /\ p >= now => e # Absent /\ (x = NoTtl \/ p <= x)
  /\ x # NoTtl => x >= swept /\ e # Absent

LEMMA KeyInvFacts ==
  ASSUME KeyInv
  PROVE  \A k \in Key : KeyFacts(entry[k], expire[k], promise[k])
  BY DEF KeyInv, PromiseInv, LifetimeAsPromised, KeyFacts, db

\* A command that leaves every key in order keeps the invariant.
LEMMA NextKeyInv ==
  ASSUME KeyInv, now' = now, swept' = swept, phase' # "sent",
         entry' \in [Key -> Entry \cup {Absent}],
         expire' \in [Key -> Nat \cup {NoTtl}], promise' \in [Key -> Nat \cup {NoTtl}],
         \A k \in Key : KeyFacts(entry'[k], expire'[k], promise'[k])
  PROVE  KeyInv'
  <1>1. DbType'
    BY DEF KeyInv, DbType
  <1>2. PromiseInv' /\ LifetimeAsPromised'
    BY DEF PromiseInv, LifetimeAsPromised, KeyFacts, db, NoTtl
  <1>3. QED
    BY <1>1, <1>2 DEF KeyInv

LEMMA AnswerKeyInv ==
  ASSUME KeyInv, NEW items, Answer(items)
  PROVE  KeyInv'
  <1>1. /\ now' = now /\ swept' = swept /\ phase' # "sent"
        /\ entry' = entry /\ expire' = expire /\ promise' = promise
    BY DEF Answer, Respond, dbVars
  <1>2. /\ entry \in [Key -> Entry \cup {Absent}]
        /\ expire \in [Key -> Nat \cup {NoTtl}] /\ promise \in [Key -> Nat \cup {NoTtl}]
    BY DEF KeyInv, DbType
  <1>3. QED
    BY <1>1, <1>2, KeyInvFacts, NextKeyInv

\* Writing an entry over one whose expiry stays needs a value in its place.
LEMMA PutKeyInv ==
  ASSUME KeyInv, NEW k, NEW e, k \in Key => e \in Entry \/ e = entry[k], Put(k, e),
         now' = now, swept' = swept, phase' # "sent", expire' = expire, promise' = promise
  PROVE  KeyInv'
  <1>1. /\ entry \in [Key -> Entry \cup {Absent}]
        /\ expire \in [Key -> Nat \cup {NoTtl}] /\ promise \in [Key -> Nat \cup {NoTtl}]
    BY DEF KeyInv, DbType
  <1>2. entry' = [entry EXCEPT ![k] = e]
    BY DEF Put
  <1>3. k \in Key => e \in Entry \cup {Absent}
    BY <1>1
  <1>4. entry' \in [Key -> Entry \cup {Absent}]
    BY <1>1, <1>2, <1>3
  <1>5. \A j \in Entry : j # Absent
    BY DEF Entry, Absent, T_STR, T_ZSET
  <1>6. ASSUME NEW j \in Key
        PROVE  KeyFacts(entry'[j], expire'[j], promise'[j])
    <2>1. KeyFacts(entry[j], expire[j], promise[j])
      BY KeyInvFacts
    <2>2. entry'[j] = entry[j] \/ entry'[j] # Absent
      BY <1>1, <1>2, <1>5
    <2>3. QED
      BY <2>1, <2>2 DEF KeyFacts
  <1>7. QED
    BY <1>1, <1>4, <1>6, NextKeyInv

LEMMA SetKeyInv ==
  ASSUME KeyInv, NEW cmd \in Seq(Seq(Nat)), do_set(cmd)
  PROVE  KeyInv'
  <1> DEFINE k == cmd[2]
             e == [Absent EXCEPT !.type = T_STR, !.str = cmd[3]]
  <1>1. CASE entry[k].type = T_ZSET
    BY <1>1, AnswerKeyInv DEF do_set
  <1>2. CASE entry[k].type # T_ZSET
    <2>1. Called(cmd, SET) /\ Put(k, e) /\ Respond(Nil) /\ expire' = expire /\ promise' = promise
      BY <1>2 DEF do_set
    <2>2. cmd[3] \in Seq(Int)
      BY <2>1, CallFacts, ArgType
    <2>3. e \in Entry
      BY <2>2 DEF Absent, Entry, T_STR, T_ZSET
    <2>4. now' = now /\ swept' = swept /\ phase' # "sent"
      BY <2>1 DEF Respond
    <2> HIDE DEF k, e
    <2>5. QED
      BY <2>1, <2>3, <2>4, PutKeyInv
  <1>3. QED
    BY <1>1, <1>2

LEMMA DelKeyInv ==
  ASSUME KeyInv, NEW cmd, do_del(cmd)
  PROVE  KeyInv'
  <1> DEFINE k == cmd[2]
  <1>1. /\ entry' = [entry EXCEPT ![k] = Absent] /\ expire' = [expire EXCEPT ![k] = NoTtl]
        /\ promise' = [promise EXCEPT ![k] = NoTtl]
        /\ now' = now /\ swept' = swept /\ phase' # "sent"
    BY DEF do_del, Put, Respond
  <1> HIDE DEF k
  <1>2. /\ entry \in [Key -> Entry \cup {Absent}] /\ now \in Nat
        /\ expire \in [Key -> Nat \cup {NoTtl}] /\ promise \in [Key -> Nat \cup {NoTtl}]
    BY DEF KeyInv, DbType
  <1>3. /\ entry' \in [Key -> Entry \cup {Absent}]
        /\ expire' \in [Key -> Nat \cup {NoTtl}] /\ promise' \in [Key -> Nat \cup {NoTtl}]
    BY <1>1, <1>2
  <1>4. ASSUME NEW j \in Key
        PROVE  KeyFacts(entry'[j], expire'[j], promise'[j])
    <2>1. KeyFacts(entry[j], expire[j], promise[j])
      BY KeyInvFacts
    <2>2. CASE j = k
      BY <1>1, <1>2, <2>2 DEF KeyFacts, NoTtl
    <2>3. CASE j # k
      BY <1>1, <1>2, <2>1, <2>3
    <2>4. QED
      BY <2>2, <2>3
  <1>5. QED
    BY <1>1, <1>3, <1>4, NextKeyInv

LEMMA ExpireKeyInv ==
  ASSUME KeyInv, NEW cmd \in Seq(Seq(Nat)), do_expire(cmd)
  PROVE  KeyInv'
  <1> DEFINE k == cmd[2]  ttl_ms == str2int(cmd[3])
             d == IF ttl_ms.val < 0 THEN NoTtl ELSE now + ttl_ms.val
  <1>1. CASE ~ttl_ms.ok
    BY <1>1, AnswerKeyInv DEF do_expire
  <1>2. CASE ttl_ms.ok /\ k \notin db
    BY <1>2, AnswerKeyInv DEF do_expire
  <1>3. CASE ttl_ms.ok /\ k \in db
    <2>1. /\ Called(cmd, PEXPIRE)
          /\ entry' = entry /\ expire' = [expire EXCEPT ![k] = d]
          /\ promise' = [promise EXCEPT ![k] = NoTtl]
          /\ now' = now /\ swept' = swept /\ phase' # "sent"
      BY <1>3 DEF do_expire, entry_set_ttl, Respond
    <2>2. ttl_ms.val \in Int
      <3>1. cmd[3] \in Seq(Nat)
        BY <2>1, CallFacts, ArgType
      <3>2. QED
        BY <1>3, <3>1, NumberType
    <2>3. /\ entry \in [Key -> Entry \cup {Absent}] /\ now \in Nat /\ swept \in 0..now
          /\ expire \in [Key -> Nat \cup {NoTtl}] /\ promise \in [Key -> Nat \cup {NoTtl}]
      BY DEF KeyInv, DbType
    <2>4. d \in Nat \cup {NoTtl} /\ (d # NoTtl => d >= swept)
      <3> HIDE DEF ttl_ms
      <3> QED
        BY <2>2, <2>3
    <2>5. k \in Key /\ entry[k] # Absent
      BY <1>3 DEF db
    <2> HIDE DEF k, d
    <2>6. expire' \in [Key -> Nat \cup {NoTtl}] /\ promise' \in [Key -> Nat \cup {NoTtl}]
      BY <2>1, <2>3, <2>4
    <2>7. ASSUME NEW j \in Key
          PROVE  KeyFacts(entry'[j], expire'[j], promise'[j])
      <3>1. KeyFacts(entry[j], expire[j], promise[j])
        BY KeyInvFacts
      <3>2. CASE j = k
        BY <2>1, <2>3, <2>4, <2>5, <3>2 DEF KeyFacts, NoTtl
      <3>3. CASE j # k
        BY <2>1, <2>3, <3>1, <3>3
      <3>4. QED
        BY <3>2, <3>3
    <2>8. QED
      BY <2>1, <2>3, <2>6, <2>7, NextKeyInv
  <1>4. QED
    BY <1>1, <1>2, <1>3

LEMMA TtlKeyInv ==
  ASSUME KeyInv, NEW cmd, do_ttl(cmd)
  PROVE  KeyInv'
  <1> DEFINE k == cmd[2]
             p == CASE TtlReply(k) > 0  -> now + TtlReply(k)
                    [] TtlReply(k) = -1 -> MaxNow
                    [] OTHER            -> NoTtl
  <1>1. /\ entry' = entry /\ expire' = expire /\ promise' = [promise EXCEPT ![k] = p]
        /\ now' = now /\ swept' = swept /\ phase' # "sent"
    BY DEF do_ttl, Respond, dbVars
  <1>2. /\ entry \in [Key -> Entry \cup {Absent}] /\ now \in Nat
        /\ expire \in [Key -> Nat \cup {NoTtl}] /\ promise \in [Key -> Nat \cup {NoTtl}]
    BY DEF KeyInv, DbType
  <1>3. /\ p \in Nat \cup {NoTtl}
        /\ k \in Key /\ p # NoTtl => entry[k] # Absent /\ (expire[k] = NoTtl \/ p = expire[k])
    <2>1. CASE k \notin db
      <3>1. TtlReply(k) = -2
        BY <2>1 DEF TtlReply
      <3>2. p = NoTtl
        BY <3>1
      <3>3. QED
        BY <3>2
    <2>2. CASE k \in db
      <3>1. k \in Key /\ entry[k] # Absent /\ expire[k] \in Nat \cup {NoTtl}
        BY <1>2, <2>2 DEF db
      <3>2. CASE expire[k] = NoTtl
        <4>1. TtlReply(k) = -1
          BY <2>2, <3>2 DEF TtlReply
        <4>2. p = MaxNow
          BY <4>1
        <4>3. QED
          BY <3>1, <3>2, <4>2, KeyspaceAssumption
      <3>3. CASE expire[k] # NoTtl /\ expire[k] > now
        <4>1. TtlReply(k) = expire[k] - now
          BY <2>2, <3>3 DEF TtlReply
        <4>2. expire[k] \in Nat
          BY <3>1, <3>3
        <4>3. p = expire[k]
          BY <1>2, <3>3, <4>1, <4>2
        <4>4. QED
          BY <3>1, <4>2, <4>3
      <3>4. CASE expire[k] # NoTtl /\ ~(expire[k] > now)
        <4>1. TtlReply(k) = 0
          BY <2>2, <3>4 DEF TtlReply
        <4>2. p = NoTtl
          BY <4>1
        <4>3. QED
          BY <4>2
      <3>5. QED
        BY <3>2, <3>3, <3>4
    <2>3. QED
      BY <2>1, <2>2
  <1> HIDE DEF k, p
  <1>4. promise' \in [Key -> Nat \cup {NoTtl}]
    BY <1>1, <1>2, <1>3
  <1>5. ASSUME NEW j \in Key
        PROVE  KeyFacts(entry'[j], expire'[j], promise'[j])
    <2>1. KeyFacts(entry[j], expire[j], promise[j])
      BY KeyInvFacts
    <2>2. CASE j = k
      BY <1>1, <1>2, <1>3, <2>1, <2>2 DEF KeyFacts, NoTtl
    <2>3. CASE j # k
      BY <1>1, <1>2, <2>1, <2>3
    <2>4. QED
      BY <2>2, <2>3
  <1>6. QED
    BY <1>1, <1>2, <1>4, <1>5, NextKeyInv

LEMMA ZsetEntry ==
  ASSUME NEW z, z \subseteq [name : Seq(Int), score : Int]
  PROVE  [Absent EXCEPT !.type = T_ZSET, !.zset = z] \in Entry
  <1> DEFINE M == [name : Seq(Int), score : Int]
  <1>1. z \in SUBSET M /\ << >> \in Seq(Int)
    OBVIOUS
  <1> HIDE DEF M
  <1>2. QED
    BY <1>1 DEF Absent, Entry, T_STR, T_ZSET, M

LEMMA ZaddKeyInv ==
  ASSUME KeyInv, NEW cmd \in Seq(Seq(Nat)), do_zadd(cmd)
  PROVE  KeyInv'
  <1> DEFINE k == cmd[2]  score == str2dbl(cmd[3])  name == cmd[4]
             others == {m \in entry[k].zset : m.name # name}
             zset == others \cup {[name |-> name, score |-> score.val]}
             e == [Absent EXCEPT !.type = T_ZSET, !.zset = zset]
  <1>1. CASE ~score.ok \/ entry[k].type = T_STR
    BY <1>1, AnswerKeyInv DEF do_zadd
  <1>2. CASE score.ok /\ entry[k].type # T_STR
    <2>1. /\ Called(cmd, ZADD) /\ Put(k, e) /\ expire' = expire /\ promise' = promise
          /\ now' = now /\ swept' = swept /\ phase' # "sent"
      BY <1>2 DEF do_zadd, Respond
    <2>2. cmd[3] \in Seq(Nat) /\ name \in Seq(Int)
      BY <2>1, CallFacts, ArgType
    <2>3. score.val \in Int
      BY <1>2, <2>2, NumberType DEF str2dbl
    <2>4. ASSUME k \in Key
          PROVE  e \in Entry
      <3>1. entry[k] \in Entry \cup {Absent}
        BY <2>4 DEF KeyInv, DbType
      <3>2. entry[k].zset \subseteq [name : Seq(Int), score : Int]
        BY <3>1 DEF Entry, Absent
      <3> HIDE DEF k, score, name
      <3>3. zset \subseteq [name : Seq(Int), score : Int]
        BY <2>2, <2>3, <3>2
      <3> HIDE DEF zset
      <3>4. QED
        BY <3>3, ZsetEntry
    <2> HIDE DEF k, e
    <2>5. QED
      BY <2>1, <2>4, PutKeyInv
  <1>3. QED
    BY <1>1, <1>2

LEMMA ZremKeyInv ==
  ASSUME KeyInv, NEW cmd, do_zrem(cmd)
  PROVE  KeyInv'
  <1> DEFINE k == cmd[2]
             others == {m \in entry[k].zset : m.name # cmd[3]}
             e == [entry[k] EXCEPT !.zset = others]
  <1>1. CASE ~expect_zset(k)
    BY <1>1, AnswerKeyInv DEF do_zrem
  <1>2. CASE expect_zset(k)
    <2>1. /\ Put(k, e) /\ expire' = expire /\ promise' = promise
          /\ now' = now /\ swept' = swept /\ phase' # "sent"
      BY <1>2 DEF do_zrem, Respond
    <2>2. ASSUME k \in Key
          PROVE  e \in Entry \/ e = entry[k]
      <3>1. entry[k] \in Entry \/ entry[k] = Absent
        BY <2>2 DEF KeyInv, DbType
      <3>2. CASE entry[k] = Absent
        <4>1. others = {}
          BY <3>2 DEF Absent
        <4> HIDE DEF others, k
        <4>2. QED
          BY <3>2, <4>1 DEF Absent
      <3>3. CASE entry[k] \in Entry
        <4>1. others \subseteq entry[k].zset
          OBVIOUS
        <4> HIDE DEF others, k
        <4>2. QED
          BY <3>3, <4>1 DEF Entry
      <3>4. QED
        BY <3>1, <3>2, <3>3
    <2> HIDE DEF k, e
    <2>3. QED
      BY <2>1, <2>2, PutKeyInv
  <1>3. QED
    BY <1>1, <1>2

LEMMA RequestKeyInv ==
  ASSUME KeyInv, try_one_request
  PROVE  KeyInv'
  <1> DEFINE cmd == Parsed.out
  <1>1. cmd \in Seq(Seq(Nat)) /\ do_request(cmd)
    BY ParsedType DEF try_one_request
  <1> HIDE DEF cmd
  <1>2. CASE do_get(cmd) \/ do_keys(cmd) \/ do_zscore(cmd) \/ do_zquery(cmd) \/ do_unknown(cmd)
    <2>1. \E items : Answer(items)
      <3>1. CASE do_get(cmd)
        BY <3>1 DEF do_get
      <3>2. CASE do_keys(cmd)
        BY <3>2 DEF do_keys
      <3>3. CASE do_zscore(cmd)
        BY <3>3 DEF do_zscore
      <3>4. CASE do_zquery(cmd)
        BY <3>4 DEF do_zquery
      <3>5. CASE do_unknown(cmd)
        BY <3>5 DEF do_unknown
      <3>6. QED
        BY <1>2, <3>1, <3>2, <3>3, <3>4, <3>5
    <2>2. QED
      BY <2>1, AnswerKeyInv
  <1>3. QED
    BY <1>1, <1>2, SetKeyInv, DelKeyInv, ExpireKeyInv, TtlKeyInv, ZaddKeyInv, ZremKeyInv
       DEF do_request

\* The keys of a sweep were overdue, so nothing is promised for them.
LEMMA TimersKeyInv ==
  ASSUME KeyInv, process_timers
  PROVE  KeyInv'
  <1>1. PICK V \in Batch :
          /\ entry' = [k \in Key |-> IF k \in V THEN Absent ELSE entry[k]]
          /\ expire' = [k \in Key |-> IF k \in V THEN NoTtl ELSE expire[k]]
          /\ swept' = IF V = Due THEN now ELSE swept
          /\ now' = now /\ phase' = phase /\ request' = request /\ promise' = promise
    BY DEF process_timers, netVars
  <1>2. V \subseteq Due
    BY DEF Batch
  <1>3. /\ entry \in [Key -> Entry \cup {Absent}] /\ now \in Nat /\ swept \in 0..now
        /\ expire \in [Key -> Nat \cup {NoTtl}] /\ promise \in [Key -> Nat \cup {NoTtl}]
        /\ phase = "sent" => IsMessage(request)
    BY DEF KeyInv, DbType
  <1>4. swept' \in 0..now
    BY <1>1, <1>3
  <1>5. DbType'
    BY <1>1, <1>3, <1>4 DEF DbType
  <1>6. ASSUME NEW k \in Key
        PROVE  /\ promise'[k] >= now => entry'[k] # Absent
                                        /\ (expire'[k] = NoTtl \/ promise'[k] <= expire'[k])
               /\ expire'[k] # NoTtl => expire'[k] >= swept' /\ entry'[k] # Absent
    <2>1. KeyFacts(entry[k], expire[k], promise[k])
      BY KeyInvFacts
    <2>2. CASE k \in V
      <3>1. expire[k] # NoTtl /\ expire[k] < now /\ expire[k] \in Nat
        BY <1>2, <1>3, <2>2 DEF Due
      <3>2. ~(promise[k] >= now)
        BY <1>3, <2>1, <3>1 DEF KeyFacts, NoTtl
      <3>3. expire'[k] = NoTtl /\ promise' = promise
        BY <1>1, <2>2
      <3>4. QED
        BY <3>2, <3>3
    <2>3. CASE k \notin V
      <3>1. expire'[k] = expire[k] /\ entry'[k] = entry[k] /\ promise' = promise
        BY <1>1, <2>3
      <3>2. expire[k] # NoTtl => expire[k] >= swept'
        <4>1. CASE V = Due
          BY <1>1, <1>3, <2>3, <4>1 DEF Due
        <4>2. CASE V # Due
          BY <1>1, <2>1, <4>2 DEF KeyFacts
        <4>3. QED
          BY <4>1, <4>2
      <3>3. QED
        BY <2>1, <3>1, <3>2 DEF KeyFacts
    <2>4. QED
      BY <2>2, <2>3
  <1>7. PromiseInv' /\ LifetimeAsPromised'
    BY <1>1, <1>6 DEF PromiseInv, LifetimeAsPromised, db
  <1>8. QED
    BY <1>5, <1>7 DEF KeyInv

LEMMA TickKeyInv ==
  ASSUME KeyInv, Tick
  PROVE  KeyInv'
  <1>1. /\ now' = now + 1 /\ swept' = swept /\ phase' = phase /\ request' = request
        /\ entry' = entry /\ expire' = expire /\ promise' = promise
    BY DEF Tick, dbVars, netVars
  <1>2. now \in Nat /\ swept \in 0..now /\ promise \in [Key -> Nat \cup {NoTtl}]
    BY DEF KeyInv, DbType
  <1>3. DbType'
    BY <1>1 DEF KeyInv, DbType
  <1>4. \A k \in Key : promise[k] >= now + 1 => promise[k] >= now
    BY <1>2 DEF NoTtl
  <1>5. PromiseInv' /\ LifetimeAsPromised'
    BY <1>1, <1>4 DEF KeyInv, PromiseInv, LifetimeAsPromised, db
  <1>6. QED
    BY <1>3, <1>5 DEF KeyInv

\* A step that only moves the exchange on.
LEMMA ExchangeKeyInv ==
  ASSUME KeyInv, UNCHANGED <<now, dbVars, promise, swept>>,
         phase' = "sent" => IsMessage(request')
  PROVE  KeyInv'
  BY DEF dbVars, KeyInv, DbType, PromiseInv, LifetimeAsPromised, db

LEMMA ClientKeyInv ==
  ASSUME KeyInv, Client
  PROVE  KeyInv'
  <1>1. ASSUME NEW message, IsMessage(message), Send(message)
        PROVE  KeyInv'
    BY <1>1, ExchangeKeyInv DEF Send
  <1>2. CASE send_req \/ SendCommand
    <2>1. PICK args \in Command : Send(pack_command(args))
      BY <1>2 DEF send_req, SendCommand
    <2>2. args \in Seq(Seq(Nat))
      BY KeyspaceAssumption
    <2>3. QED
      BY <1>1, <2>1, <2>2, PackType
  <1>3. CASE SendGarbage
    <2>1. PICK body \in Garbage : Send(Framed(body))
      BY <1>3 DEF SendGarbage
    <2>2. body \in Seq(Nat)
      BY KeyspaceAssumption
    <2>3. IsMessage(Framed(body))
      BY <2>2, FramedType DEF IsMessage
    <2>4. QED
      BY <1>1, <2>1, <2>3
  <1>4. CASE ClientDone
    BY <1>4, ExchangeKeyInv DEF ClientDone
  <1>5. QED
    BY <1>2, <1>3, <1>4 DEF Client

\* The invariant of the keyspace: the types, the deadlines and the promises.
THEOREM KeyInvariant == Spec => []KeyInv
  <1>1. Init => KeyInv
    <2> SUFFICES ASSUME Init
                 PROVE  KeyInv
      OBVIOUS
    <2>1. DbType
      BY DEF Init, DbType, NoTtl
    <2>2. PromiseInv /\ LifetimeAsPromised
      BY DEF Init, PromiseInv, LifetimeAsPromised, NoTtl, db
    <2>3. QED
      BY <2>1, <2>2 DEF KeyInv
  <1>2. KeyInv /\ [Next]_vars => KeyInv'
    <2> SUFFICES ASSUME KeyInv, [Next]_vars
                 PROVE  KeyInv'
      OBVIOUS
    <2>1. CASE BadRequest
      BY <2>1, ExchangeKeyInv DEF BadRequest
    <2>2. CASE UNCHANGED vars
      BY <2>2, ExchangeKeyInv DEF vars, netVars, KeyInv, DbType
    <2>3. QED
      BY <2>1, <2>2, ClientKeyInv, RequestKeyInv, TimersKeyInv, TickKeyInv DEF Next
  <1>3. QED
    BY <1>1, <1>2, PTL DEF Spec

\* A key lives as long as its client was told and not much longer.
THEOREM LifetimeCorrect == Spec => []LifetimeAsPromised
  <1>1. KeyInv => LifetimeAsPromised
    BY DEF KeyInv
  <1>2. QED
    BY <1>1, KeyInvariant, PTL

-----------------------------------------------------------------------------
(* What an answer says of the change.                                      *)

LEMMA OneItem ==
  ASSUME NEW item, NEW n \in 1..2, Len(item) = n, item[1] # TAG_STR, item[1] # TAG_ERR
  PROVE  response(<<item>>) = Framed(item)
  <1>1. out_item(item) = item
    BY DEF out_item
  <1>2. [i \in 1..Len(<<item>>) |-> out_item(<<item>>[i])] = <<item>>
    BY <1>1
  <1>3. Body(<<item>>) = item
    BY <1>2 DEF Body, FlattenSeq
  <1>4. Limited(<<item>>) = <<item>>
    BY <1>3, WireAssumption DEF Limited
  <1>5. QED
    BY <1>3, <1>4 DEF response

LEMMA ResponseFacts ==
  /\ response(Nil)[2] # TAG_ERR /\ Tail(response(Nil)) # <<TAG_INT, 0>>
  /\ \A n : /\ response(Int64(n))[2] # TAG_ERR
            /\ Tail(response(Int64(n))) = <<TAG_INT, 0>> => n = 0
  <1>1. response(Nil)[2] = TAG_NIL /\ Tail(response(Nil)) = <<TAG_NIL>>
    <2>1. response(Nil) = Framed(<<TAG_NIL>>)
      BY OneItem DEF Nil, TAG_NIL, TAG_STR, TAG_ERR
    <2>2. <<TAG_NIL>> \in Seq(Nat) /\ <<TAG_NIL>> # << >>
      BY DEF TAG_NIL
    <2>3. Framed(<<TAG_NIL>>)[2] = <<TAG_NIL>>[1] /\ Tail(Framed(<<TAG_NIL>>)) = <<TAG_NIL>>
      BY <2>2, FramedType
    <2>4. QED
      BY <2>1, <2>3
  <1>2. ASSUME NEW n
        PROVE  /\ response(Int64(n))[2] = TAG_INT
               /\ Tail(response(Int64(n))) = <<TAG_INT, n>>
    <2> DEFINE S == Nat \cup {n}
               body == <<TAG_INT, n>>
    <2>1. response(Int64(n)) = Framed(body)
      BY OneItem DEF Int64, TAG_INT, TAG_STR, TAG_ERR
    <2>2. Nat \subseteq S /\ body \in Seq(S) /\ body # << >> /\ body[1] = TAG_INT
      BY DEF TAG_INT
    <2>3. Framed(body)[2] = body[1] /\ Tail(Framed(body)) = body
      <3> HIDE DEF S, body
      <3> QED
        BY <2>2, FramedType
    <2>4. QED
      BY <2>1, <2>2, <2>3
  <1>3. response(Nil)[2] # TAG_ERR /\ Tail(response(Nil)) # <<TAG_INT, 0>>
    BY <1>1 DEF TAG_NIL, TAG_ERR, TAG_INT
  <1>4. ASSUME NEW n
        PROVE  /\ response(Int64(n))[2] # TAG_ERR
               /\ Tail(response(Int64(n))) = <<TAG_INT, 0>> => n = 0
    BY <1>2 DEF TAG_INT, TAG_ERR
  <1>5. QED
    BY <1>3, <1>4

\* What ErrorsChangeNothing says of one step.
Honest ==
  /\ reply'[2] = TAG_ERR => UNCHANGED dbVars
  /\ Tail(reply') = <<TAG_INT, 0>> => Population' = Population

LEMMA AnswerHonest ==
  ASSUME NEW items, Answer(items)
  PROVE  Honest
  BY DEF Answer, dbVars, Honest, Population, db

\* Replacing an entry by one of the same type with the same names.
LEMMA SamePopulation ==
  ASSUME KeyInv, NEW k, NEW e, Put(k, e),
         k \in Key => /\ e # Absent <=> entry[k] # Absent
                      /\ e.type = entry[k].type
                      /\ {m.name : m \in e.zset} = {m.name : m \in entry[k].zset}
  PROVE  Population' = Population
  <1>1. entry \in [Key -> Entry \cup {Absent}] /\ entry' = [entry EXCEPT ![k] = e]
    BY DEF KeyInv, DbType, Put
  <1> DEFINE Part(x) == <<x, entry[x].type, {m.name : m \in entry[x].zset}>>
             NewPart(x) == <<x, entry'[x].type, {m.name : m \in entry'[x].zset}>>
  <1>2. ASSUME NEW x \in Key
        PROVE  (entry'[x] # Absent <=> entry[x] # Absent) /\ NewPart(x) = Part(x)
    <2>1. CASE x = k
      <3>1. entry'[x] = e
        BY <1>1, <2>1
      <3>2. QED
        BY <2>1, <3>1
    <2>2. CASE x # k
      <3>1. entry'[x] = entry[x]
        BY <1>1, <2>2
      <3>2. QED
        BY <3>1
    <2>3. QED
      BY <2>1, <2>2
  <1>3. db' = db
    BY <1>2 DEF db
  <1>4. Population = {Part(x) : x \in db} /\ Population' = {NewPart(x) : x \in db}
    BY <1>3 DEF Population
  <1>5. \A x \in db : x \in Key
    BY DEF db
  <1> HIDE DEF Part, NewPart
  <1>6. \A x \in db : NewPart(x) = Part(x)
    BY <1>2, <1>5
  <1>7. {NewPart(x) : x \in db} = {Part(x) : x \in db}
    BY <1>6
  <1>8. QED
    BY <1>4, <1>7

LEMMA SetHonest ==
  ASSUME NEW cmd, do_set(cmd)
  PROVE  Honest
  <1>1. CASE entry[cmd[2]].type = T_ZSET
    BY <1>1, AnswerHonest DEF do_set
  <1>2. CASE entry[cmd[2]].type # T_ZSET
    <2>1. reply' = response(Nil)
      BY <1>2 DEF do_set, Respond
    <2>2. QED
      BY <2>1, ResponseFacts DEF Honest
  <1>3. QED
    BY <1>1, <1>2

LEMMA DelHonest ==
  ASSUME KeyInv, NEW cmd, do_del(cmd)
  PROVE  Honest
  <1> DEFINE k == cmd[2]
             x == IF k \in db THEN 1 ELSE 0
  <1>1. reply' = response(Int64(x)) /\ Put(k, Absent)
    BY DEF do_del, Respond
  <1>2. reply'[2] # TAG_ERR /\ (Tail(reply') = <<TAG_INT, 0>> => x = 0)
    <2> HIDE DEF x
    <2> QED
      BY <1>1, ResponseFacts
  <1>3. ASSUME x = 0
        PROVE  Population' = Population
    <2>1. k \in Key => entry[k] = Absent
      BY <1>3 DEF db
    <2> HIDE DEF k
    <2>2. QED
      BY <1>1, <2>1, SamePopulation
  <1>4. QED
    BY <1>2, <1>3 DEF Honest

LEMMA ExpireHonest ==
  ASSUME NEW cmd, do_expire(cmd)
  PROVE  Honest
  <1> DEFINE k == cmd[2]  ttl_ms == str2int(cmd[3])
  <1>1. CASE ~ttl_ms.ok
    BY <1>1, AnswerHonest DEF do_expire
  <1>2. CASE ttl_ms.ok /\ k \notin db
    BY <1>2, AnswerHonest DEF do_expire
  <1>3. CASE ttl_ms.ok /\ k \in db
    <2>1. reply' = response(Int64(1)) /\ entry' = entry
      BY <1>3 DEF do_expire, Respond
    <2>2. reply'[2] # TAG_ERR
      BY <2>1, ResponseFacts
    <2>3. Population' = Population
      BY <2>1 DEF Population, db
    <2>4. QED
      BY <2>2, <2>3 DEF Honest
  <1>4. QED
    BY <1>1, <1>2, <1>3

LEMMA ZsetFields ==
  ASSUME NEW z
  PROVE  /\ [Absent EXCEPT !.type = T_ZSET, !.zset = z].type = T_ZSET
         /\ [Absent EXCEPT !.type = T_ZSET, !.zset = z].zset = z
         /\ [Absent EXCEPT !.type = T_ZSET, !.zset = z] # Absent
  <1>1. Absent.type # T_ZSET
    BY DEF Absent, T_ZSET
  <1>2. /\ [Absent EXCEPT !.type = T_ZSET, !.zset = z].type = T_ZSET
        /\ [Absent EXCEPT !.type = T_ZSET, !.zset = z].zset = z
    BY DEF Absent
  <1>3. QED
    BY <1>1, <1>2

LEMMA ZaddHonest ==
  ASSUME KeyInv, NEW cmd, do_zadd(cmd)
  PROVE  Honest
  <1> DEFINE k == cmd[2]  score == str2dbl(cmd[3])  name == cmd[4]
             others == {m \in entry[k].zset : m.name # name}
             zset == others \cup {[name |-> name, score |-> score.val]}
             e == [Absent EXCEPT !.type = T_ZSET, !.zset = zset]
             x == IF others = entry[k].zset THEN 1 ELSE 0
  <1>1. CASE ~score.ok \/ entry[k].type = T_STR
    BY <1>1, AnswerHonest DEF do_zadd
  <1>2. CASE score.ok /\ entry[k].type # T_STR
    <2>1. reply' = response(Int64(x)) /\ Put(k, e)
      BY <1>2 DEF do_zadd, Respond
    <2>2. reply'[2] # TAG_ERR /\ (Tail(reply') = <<TAG_INT, 0>> => x = 0)
      <3> HIDE DEF x
      <3> QED
        BY <2>1, ResponseFacts
    <2>3. ASSUME x = 0
          PROVE  Population' = Population
      <3>1. PICK m \in entry[k].zset : m.name = name
        BY <2>3
      <3>2. e.type = T_ZSET /\ e.zset = zset /\ e # Absent
        <4> HIDE DEF zset
        <4> QED
          BY ZsetFields
      <3>3. ASSUME k \in Key
            PROVE  entry[k] # Absent /\ entry[k].type = T_ZSET
        <4>1. entry[k] \in Entry \/ entry[k] = Absent
          BY <3>3 DEF KeyInv, DbType
        <4>2. entry[k] # Absent
          BY <3>1 DEF Absent
        <4>3. QED
          BY <1>2, <4>1, <4>2 DEF Entry
      <3>4. {n.name : n \in zset} = {n.name : n \in entry[k].zset}
        <4> HIDE DEF name, score, k
        <4>1. \A n \in zset : \E o \in entry[k].zset : o.name = n.name
          BY <3>1
        <4>2. ASSUME NEW o \in entry[k].zset
              PROVE  \E n \in zset : o.name = n.name
          <5>1. CASE o.name = name
            <6>1. [name |-> name, score |-> score.val] \in zset
              OBVIOUS
            <6>2. [name |-> name, score |-> score.val].name = name
              OBVIOUS
            <6> HIDE DEF zset
            <6>3. QED
              BY <5>1, <6>1, <6>2
          <5>2. CASE o.name # name
            <6>1. o \in zset
              BY <5>2
            <6> HIDE DEF zset
            <6>2. QED
              BY <6>1
          <5>3. QED
            BY <5>1, <5>2
        <4> HIDE DEF zset
        <4>3. QED
          BY <4>1, <4>2
      <3> HIDE DEF e, k, zset
      <3>5. QED
        BY <2>1, <3>2, <3>3, <3>4, SamePopulation
    <2>4. QED
      BY <2>2, <2>3 DEF Honest
  <1>3. QED
    BY <1>1, <1>2

LEMMA ZremHonest ==
  ASSUME KeyInv, NEW cmd, do_zrem(cmd)
  PROVE  Honest
  <1> DEFINE k == cmd[2]
             others == {m \in entry[k].zset : m.name # cmd[3]}
             e == [entry[k] EXCEPT !.zset = others]
             x == IF others = entry[k].zset THEN 0 ELSE 1
  <1>1. CASE ~expect_zset(k)
    BY <1>1, AnswerHonest DEF do_zrem
  <1>2. CASE expect_zset(k)
    <2>1. reply' = response(Int64(x)) /\ Put(k, e)
      BY <1>2 DEF do_zrem, Respond
    <2>2. reply'[2] # TAG_ERR /\ (Tail(reply') = <<TAG_INT, 0>> => x = 0)
      <3> HIDE DEF x
      <3> QED
        BY <2>1, ResponseFacts
    <2>3. ASSUME x = 0
          PROVE  Population' = Population
      <3>1. others = entry[k].zset
        BY <2>3
      <3> HIDE DEF others, k
      <3>2. k \in Key => e = entry[k]
        BY <3>1 DEF KeyInv, DbType, Entry, Absent
      <3> HIDE DEF e
      <3>3. QED
        BY <2>1, <3>2, SamePopulation
    <2>4. QED
      BY <2>2, <2>3 DEF Honest
  <1>3. QED
    BY <1>1, <1>2

\* An error means that the command did nothing, and 0 that it added and
\* removed neither a key nor a member.
THEOREM ErrorsCorrect == Spec => ErrorsChangeNothing
  <1>1. KeyInv /\ [Next]_vars =>
          [phase' = "replied" /\ phase = "sent" =>
             /\ reply'[2] = TAG_ERR => UNCHANGED dbVars
             /\ Tail(reply') = <<TAG_INT, 0>> => Population' = Population]_vars
    <2> SUFFICES ASSUME KeyInv, Next, phase' = "replied", phase = "sent"
                 PROVE  Honest
      BY DEF Honest
    <2>1. try_one_request
      BY DEF Next, Client, send_req, SendCommand, SendGarbage, Send, ClientDone, BadRequest,
             process_timers, Tick, netVars
    <2> DEFINE cmd == Parsed.out
    <2>2. do_request(cmd)
      BY <2>1 DEF try_one_request
    <2> HIDE DEF cmd
    <2>3. (\E items : Answer(items)) => Honest
      BY AnswerHonest
    <2>4. CASE do_get(cmd)
      BY <2>3, <2>4 DEF do_get
    <2>5. CASE do_keys(cmd)
      BY <2>3, <2>5 DEF do_keys
    <2>6. CASE do_ttl(cmd)
      BY <2>6 DEF do_ttl, dbVars, Honest, Population, db
    <2>7. CASE do_zscore(cmd)
      BY <2>3, <2>7 DEF do_zscore
    <2>8. CASE do_zquery(cmd)
      BY <2>3, <2>8 DEF do_zquery
    <2>9. CASE do_unknown(cmd)
      BY <2>3, <2>9 DEF do_unknown
    <2>10. QED
      BY <2>2, <2>4, <2>5, <2>6, <2>7, <2>8, <2>9,
         SetHonest, DelHonest, ExpireHonest, ZaddHonest, ZremHonest DEF do_request
  <1>2. QED
    BY <1>1, KeyInvariant, PTL DEF Spec, ErrorsChangeNothing

-----------------------------------------------------------------------------
(* What the server accepts.                                                *)

\* A message is its length and the rest.
LEMMA MessageIsFramed ==
  ASSUME NEW m, IsMessage(m)
  PROVE  m = Framed(Tail(m))
  <1> DEFINE t == Tail(m)
             n == Len(t)
  <1>1. m \in Seq(Nat) /\ m # << >> /\ Head(m) = n
    BY DEF IsMessage
  <1>2. /\ t \in Seq(Nat) /\ n = Len(m) - 1 /\ Head(m) = m[1]
        /\ \A i \in 1..(Len(m) - 1) : t[i] = m[i + 1]
    BY <1>1, HeadTailProperties
  <1>3. n \in Nat /\ Len(m) \in Nat
    BY <1>1, <1>2, LenProperties
  <1> HIDE DEF t
  <1>4. <<n>> \in Seq(Nat) /\ Len(<<n>>) = 1 /\ <<n>>[1] = n
    BY <1>3
  <1>5. /\ Framed(t) \in Seq(Nat) /\ Len(Framed(t)) = 1 + n
        /\ \A i \in 1..(1 + n) : Framed(t)[i] = IF i <= 1 THEN <<n>>[i] ELSE t[i - 1]
    BY <1>2, <1>4, ConcatProperties DEF Framed
  <1> HIDE DEF n
  <1>6. Len(m) = 1 + n
    BY <1>2, <1>3
  <1>7. ASSUME NEW i \in 1..Len(m)
        PROVE  Framed(t)[i] = m[i]
    <2>1. CASE i = 1
      BY <1>1, <1>2, <1>3, <1>4, <1>5, <1>6, <2>1
    <2>2. CASE i # 1
      <3>1. ~(i <= 1) /\ i - 1 \in 1..(Len(m) - 1) /\ (i - 1) + 1 = i /\ i \in 1..(1 + n)
        BY <1>3, <1>6, <2>2
      <3>2. QED
        BY <1>2, <1>5, <3>1
    <2>3. QED
      BY <2>1, <2>2
  <1>8. Len(Framed(t)) = Len(m)
    BY <1>5, <1>6
  <1>9. m = Framed(t)
    BY <1>1, <1>5, <1>7, <1>8, SeqEqual
  <1>10. QED
    BY <1>9 DEF t

\* If no command has more strings than k_max_args, parse_req accepts exactly
\* the messages that encode a list of strings, up to the limit on messages.
THEOREM AcceptsCorrect ==
  ASSUME CommandsFit
  PROVE  Spec => AcceptsExactlyCommands
  <1> DEFINE Exact == IF phase' = "replied" THEN request = pack_command(Parsed.out)
                      ELSE \/ Len(Tail(request)) > k_max_msg
                           \/ \A args \in Command : request # pack_command(args)
  <1>1. KeyInv /\ [Next]_vars =>
          [phase = "sent" /\ phase' # "sent" =>
             IF phase' = "replied" THEN request = pack_command(Parsed.out)
             ELSE Len(Tail(request)) > k_max_msg
                  \/ \A args \in Command : request # pack_command(args)]_vars
    <2> SUFFICES ASSUME KeyInv, Next, phase = "sent", phase' # "sent"
                 PROVE  Exact
      OBVIOUS
    <2> DEFINE data == Tail(request)
    <2>1. IsMessage(request) /\ data \in Seq(Nat) /\ request = Framed(data)
      <3>1. IsMessage(request)
        BY DEF KeyInv, DbType
      <3>2. request \in Seq(Nat) /\ request # << >>
        BY <3>1 DEF IsMessage
      <3>3. QED
        BY <3>1, <3>2, HeadTailProperties, MessageIsFramed
    <2>2. try_one_request \/ BadRequest
      BY DEF Next, Client, send_req, SendCommand, SendGarbage, Send, ClientDone,
             process_timers, Tick, netVars
    <2>3. CASE try_one_request
      <3>1. phase' = "replied"
        BY <2>3 DEF try_one_request, do_request, do_get, do_set, do_del, do_keys, do_expire,
             do_ttl, do_zadd, do_zrem, do_zscore, do_zquery, do_unknown, Answer, Respond
      <3>2. Parsed = parse_req(data) /\ parse_req(data).ok
        BY <2>3 DEF try_one_request, Accepted, Parsed
      <3> DEFINE out == Parsed.out
      <3>3. out \in Seq(Seq(Nat)) /\ data = <<Len(out)>> \o Packed(out)
        <4> HIDE DEF data
        <4> QED
          BY <2>1, <3>2, ParseType, ParseSound
      <3>4. pack_command(out) = Framed(data)
        <4> HIDE DEF data, out
        <4> QED
          BY <3>3, PackedType
      <3>5. QED
        BY <2>1, <3>1, <3>4
    <2>4. CASE BadRequest
      <3>1. phase' # "replied" /\ ~Accepted
        BY <2>4 DEF BadRequest
      <3>2. ASSUME ~(Len(data) > k_max_msg), NEW args \in Command, request = pack_command(args)
            PROVE  FALSE
        <4>1. args \in Seq(Seq(Nat)) /\ Len(args) <= k_max_args
          BY KeyspaceAssumption DEF CommandsFit
        <4> DEFINE body == <<Len(args)>> \o Packed(args)
        <4>2. request = Framed(body) /\ body \in Seq(Nat)
          <5>1. pack_command(args) = Framed(body) /\ Packed(args) \in Seq(Nat)
            BY <4>1, PackedType
          <5>2. <<Len(args)>> \in Seq(Nat)
            BY <4>1, LenProperties
          <5>3. QED
            BY <3>2, <5>1, <5>2, ConcatProperties
        <4>3. parse_req(body).ok
          BY <4>1, ParseComplete
        <4> HIDE DEF body
        <4>4. data = body
          BY <4>2, FramedType
        <4>5. Len(data) \in Nat
          BY <2>1, LenProperties
        <4>6. Accepted
          <5>1. Len(data) <= k_max_msg
            <6> HIDE DEF data
            <6> QED
              BY <3>2, <4>5, WireAssumption
          <5>2. parse_req(data).ok
            BY <4>3, <4>4
          <5>3. QED
            BY <5>1, <5>2 DEF Accepted, Parsed
        <4>7. QED
          BY <3>1, <4>6
      <3>3. QED
        BY <3>1, <3>2
    <2>5. QED
      BY <2>2, <2>3, <2>4
  <1>2. QED
    BY <1>1, KeyInvariant, PTL DEF Spec, AcceptsExactlyCommands

-----------------------------------------------------------------------------
(* The order of the members of a sorted set.                               *)

\* The first byte at which a differs from b, or behind a, is smaller.
LessAt(a, b, i) ==
  /\ i <= Len(b) /\ (i <= Len(a) => a[i] < b[i])
  /\ \A j \in 1..(i - 1) : a[j] = b[j]

LEMMA NameLessAt ==
  ASSUME NEW a \in Seq(Int), NEW b \in Seq(Int)
  PROVE  NameLess(a, b) <=> \E i \in 1..(Len(a) + 1) : LessAt(a, b, i)
  <1>1. Len(a) \in Nat /\ Len(b) \in Nat
    BY LenProperties
  <1>2. ASSUME Len(a) <= Len(b)
        PROVE  SubSeq(a, 1, Len(a)) = SubSeq(b, 1, Len(a)) <=> \A j \in 1..Len(a) : a[j] = b[j]
    <2>1. /\ \A j \in 1..Len(a) : a[j] \in Int
          /\ \A j \in 1..Len(a) : b[j] \in Int
      BY <1>1, <1>2, ElementOfSeq
    <2> DEFINE s == SubSeq(a, 1, Len(a))
               t == SubSeq(b, 1, Len(a))
    <2>2. /\ s \in Seq(Int) /\ t \in Seq(Int) /\ Len(s) = Len(a) /\ Len(t) = Len(a)
          /\ \A j \in 1..Len(a) : s[j] = a[j] /\ t[j] = b[j]
      BY <1>1, <2>1, SubSeqProperties
    <2> HIDE DEF s, t
    <2>3. (\A j \in 1..Len(a) : a[j] = b[j]) => s = t
      BY <2>2, SeqEqual
    <2>4. s = t => \A j \in 1..Len(a) : a[j] = b[j]
      BY <2>2
    <2>5. s = t <=> \A j \in 1..Len(a) : a[j] = b[j]
      BY <2>3, <2>4
    <2>6. QED
      BY <2>5 DEF s, t
  <1>3. IsStrictPrefix(a, b) <=> LessAt(a, b, Len(a) + 1)
    <2>1. CASE Len(a) <= Len(b)
      <3>1. Len(a) = Len(b) /\ (\A j \in 1..Len(a) : a[j] = b[j]) => a = b
        BY SeqEqual
      <3>2. (Len(a) + 1) - 1 = Len(a) /\ (Len(a) + 1 <= Len(b) <=> Len(a) # Len(b))
            /\ ~(Len(a) + 1 <= Len(a))
        BY <1>1, <2>1
      <3>3. QED
        BY <1>2, <2>1, <3>1, <3>2 DEF LessAt, IsStrictPrefix, IsPrefix
    <2>2. CASE ~(Len(a) <= Len(b))
      BY <1>1, <2>2 DEF LessAt, IsStrictPrefix, IsPrefix
    <2>3. QED
      BY <2>1, <2>2
  <1>4. \A i \in 1..Len(a) :
          LessAt(a, b, i) <=> i <= Len(b) /\ a[i] < b[i] /\ \A j \in 1..(i - 1) : a[j] = b[j]
    BY <1>1 DEF LessAt
  <1>5. 1..(Len(a) + 1) = 1..Len(a) \cup {Len(a) + 1}
    BY <1>1
  <1>6. QED
    BY <1>3, <1>4, <1>5 DEF NameLess

LEMMA NameOrder ==
  /\ \A a \in Seq(Int) : ~NameLess(a, a)
  /\ \A a, b, c \in Seq(Int) : NameLess(a, b) /\ NameLess(b, c) => NameLess(a, c)
  /\ \A a, b \in Seq(Int) : a = b \/ NameLess(a, b) \/ NameLess(b, a)
  <1>1. ASSUME NEW a \in Seq(Int), NameLess(a, a) PROVE FALSE
    <2>1. PICK i \in 1..(Len(a) + 1) : LessAt(a, a, i)
      BY <1>1, NameLessAt
    <2>2. Len(a) \in Nat /\ i <= Len(a) /\ a[i] < a[i]
      BY <2>1, LenProperties DEF LessAt
    <2>3. a[i] \in Int
      BY <2>2, ElementOfSeq
    <2>4. QED
      BY <2>2, <2>3
  <1>2. ASSUME NEW a \in Seq(Int), NEW b \in Seq(Int), NEW c \in Seq(Int),
               NameLess(a, b), NameLess(b, c)
        PROVE  NameLess(a, c)
    <2>1. PICK i \in 1..(Len(a) + 1) : LessAt(a, b, i)
      BY <1>2, NameLessAt
    <2>2. PICK k \in 1..(Len(b) + 1) : LessAt(b, c, k)
      BY <1>2, NameLessAt
    <2>3. /\ Len(a) \in Nat /\ Len(b) \in Nat /\ Len(c) \in Nat
          /\ \A j \in 1..Len(a) : a[j] \in Int
          /\ \A j \in 1..Len(b) : b[j] \in Int
          /\ \A j \in 1..Len(c) : c[j] \in Int
      BY LenProperties, ElementOfSeq
    <2>4. /\ i <= Len(b) /\ (i <= Len(a) => a[i] < b[i]) /\ \A j \in 1..(i - 1) : a[j] = b[j]
          /\ k <= Len(c) /\ (k <= Len(b) => b[k] < c[k]) /\ \A j \in 1..(k - 1) : b[j] = c[j]
      BY <2>1, <2>2 DEF LessAt
    <2>5. CASE i < k
      <3>1. LessAt(a, c, i)
        <4>1. i \in 1..(k - 1) /\ i <= Len(c) /\ b[i] = c[i]
          BY <2>3, <2>4, <2>5
        <4>2. \A j \in 1..(i - 1) : j \in 1..(k - 1)
          BY <2>5
        <4>3. QED
          BY <2>4, <4>1, <4>2 DEF LessAt
      <3>2. QED
        BY <3>1, NameLessAt
    <2>6. CASE i = k
      <3>1. b[i] < c[i] /\ i \in 1..Len(b) /\ i \in 1..Len(c)
        BY <2>3, <2>4, <2>6
      <3>2. i <= Len(a) => a[i] < c[i]
        <4>1. b[i] \in Int /\ c[i] \in Int /\ (i <= Len(a) => a[i] \in Int /\ a[i] < b[i])
          BY <2>3, <2>4, <3>1
        <4>2. QED
          BY <3>1, <4>1
      <3>3. LessAt(a, c, i)
        BY <2>4, <2>6, <3>2 DEF LessAt
      <3>4. QED
        BY <3>3, NameLessAt
    <2>7. CASE i > k
      <3>1. /\ k \in 1..(i - 1) /\ k \in 1..(Len(a) + 1) /\ k <= Len(b)
            /\ a[k] = b[k] /\ b[k] < c[k]
        <4>1. k \in 1..(i - 1) /\ k \in 1..(Len(a) + 1) /\ k <= Len(b)
          BY <2>3, <2>4, <2>7
        <4>2. QED
          BY <2>4, <4>1
      <3>2. \A j \in 1..(k - 1) : j \in 1..(i - 1)
        BY <2>7
      <3>3. LessAt(a, c, k)
        BY <2>4, <3>1, <3>2 DEF LessAt
      <3>4. QED
        BY <3>1, <3>3, NameLessAt
    <2>8. QED
      BY <2>5, <2>6, <2>7
  <1>3. ASSUME NEW a \in Seq(Int), NEW b \in Seq(Int), a # b
        PROVE  NameLess(a, b) \/ NameLess(b, a)
    <2>1. Len(a) \in Nat /\ Len(b) \in Nat
      BY LenProperties
    <2> DEFINE T == {i \in Nat : i >= 1 /\ i <= Len(a) /\ i <= Len(b) /\ a[i] # b[i]}
    <2>2. CASE T = {}
      <3>1. \A j \in Nat : j >= 1 /\ j <= Len(a) /\ j <= Len(b) => a[j] = b[j]
        BY <2>2
      <3>2. Len(a) # Len(b)
        <4>1. SUFFICES ASSUME Len(a) = Len(b) PROVE FALSE
          OBVIOUS
        <4>2. \A j \in 1..Len(a) : a[j] = b[j]
          BY <2>1, <3>1, <4>1
        <4>3. QED
          BY <1>3, <4>1, <4>2, SeqEqual
      <3>3. CASE Len(a) < Len(b)
        <4>1. LessAt(a, b, Len(a) + 1)
          BY <2>1, <3>1, <3>3 DEF LessAt
        <4>2. QED
          BY <2>1, <4>1, NameLessAt
      <3>4. CASE Len(b) < Len(a)
        <4>1. LessAt(b, a, Len(b) + 1)
          BY <2>1, <3>1, <3>4 DEF LessAt
        <4>2. QED
          BY <2>1, <4>1, NameLessAt
      <3>5. QED
        BY <2>1, <3>2, <3>3, <3>4
    <2>3. CASE T # {}
      <3>1. T \subseteq Nat
        OBVIOUS
      <3>2. PICK i \in T : \A j \in T : i <= j
        <4> HIDE DEF T
        <4> QED
          BY <2>3, <3>1, LeastNumber
      <3>3. i \in 1..Len(a) /\ i \in 1..Len(b) /\ a[i] # b[i]
        BY <2>1, <3>2
      <3>4. ASSUME NEW j \in 1..(i - 1)
            PROVE  a[j] = b[j]
        <4>1. j \in Nat /\ j >= 1 /\ j <= Len(a) /\ j <= Len(b) /\ ~(i <= j)
          BY <2>1, <3>3
        <4>2. j \notin T
          BY <3>2, <4>1
        <4>3. QED
          BY <4>1, <4>2
      <3>5. a[i] \in Int /\ b[i] \in Int
        BY <3>3, ElementOfSeq
      <3> HIDE DEF T
      <3>6. LessAt(a, b, i) \/ LessAt(b, a, i)
        BY <2>1, <3>3, <3>4, <3>5 DEF LessAt
      <3>7. i \in 1..(Len(a) + 1) /\ i \in 1..(Len(b) + 1)
        BY <2>1, <3>3
      <3>8. QED
        BY <3>6, <3>7, NameLessAt
    <2>4. QED
      BY <2>2, <2>3
  <1>4. QED
    BY <1>1, <1>2, <1>3

Member == [name : Seq(Int), score : Int]

LEMMA MemberOrder ==
  /\ \A m \in Member : ~zless(m, m)
  /\ \A l, m, n \in Member : zless(l, m) /\ zless(m, n) => zless(l, n)
  /\ \A m, n \in Member : m = n \/ zless(m, n) \/ zless(n, m)
  <1>1. \A m \in Member : m.name \in Seq(Int) /\ m.score \in Int
    BY DEF Member
  <1>2. ASSUME NEW m \in Member PROVE ~zless(m, m)
    BY <1>1, NameOrder DEF zless
  <1>3. ASSUME NEW l \in Member, NEW m \in Member, NEW n \in Member, zless(l, m), zless(m, n)
        PROVE  zless(l, n)
    <2>1. /\ l.name \in Seq(Int) /\ m.name \in Seq(Int) /\ n.name \in Seq(Int)
          /\ l.score \in Int /\ m.score \in Int /\ n.score \in Int
      BY <1>1
    <2>2. NameLess(l.name, m.name) /\ NameLess(m.name, n.name) => NameLess(l.name, n.name)
      BY <2>1, NameOrder
    <2>3. /\ l.score < m.score \/ (l.score = m.score /\ NameLess(l.name, m.name))
          /\ m.score < n.score \/ (m.score = n.score /\ NameLess(m.name, n.name))
      BY <1>3 DEF zless
    <2>4. l.score < n.score \/ (l.score = n.score /\ NameLess(l.name, n.name))
      BY <2>1, <2>2, <2>3
    <2>5. QED
      BY <2>4 DEF zless
  <1>4. ASSUME NEW m \in Member, NEW n \in Member, m # n
        PROVE  zless(m, n) \/ zless(n, m)
    <2>1. /\ m.name \in Seq(Int) /\ n.name \in Seq(Int) /\ m.score \in Int /\ n.score \in Int
      BY <1>1
    <2>2. m.score = n.score => m.name # n.name
      BY <1>4 DEF Member
    <2>3. m.name # n.name => NameLess(m.name, n.name) \/ NameLess(n.name, m.name)
      BY <2>1, NameOrder
    <2>4. QED
      BY <2>1, <2>2, <2>3 DEF zless
  <1>5. QED
    BY <1>2, <1>3, <1>4

\* Every position of a sorted set has a member: positions differ, and there are
\* as many as members.
LEMMA NthMember ==
  ASSUME NEW S, S \subseteq Member, IsFiniteSet(S), NEW r \in 0..(Cardinality(S) - 1)
  PROVE  \E m \in S : Cardinality({x \in S : zless(x, m)}) = r
  <1> DEFINE F(m) == {x \in S : zless(x, m)}
             n == Cardinality(S)
             f == [m \in S |-> Cardinality(F(m))]
             T == 0..(n - 1)
  <1>1. n \in Nat
    BY FS_CardinalityType
  <1>2. ASSUME NEW m \in S
        PROVE  IsFiniteSet(F(m)) /\ Cardinality(F(m)) \in T
    <2>1. F(m) \subseteq S /\ m \notin F(m)
      BY MemberOrder
    <2>2. /\ IsFiniteSet(F(m)) /\ Cardinality(F(m)) <= n
          /\ n = Cardinality(F(m)) => S = F(m)
      BY <2>1, FS_Subset
    <2>3. Cardinality(F(m)) \in Nat
      BY <2>2, FS_CardinalityType
    <2> HIDE DEF F, n
    <2>4. n # Cardinality(F(m))
      BY <2>1, <2>2
    <2>5. QED
      BY <1>1, <2>2, <2>3, <2>4
  <1>3. ASSUME NEW a \in S, NEW b \in S, zless(a, b)
        PROVE  Cardinality(F(a)) # Cardinality(F(b))
    <2>1. F(a) \subseteq F(b)
      <3>1. ASSUME NEW x \in F(a) PROVE x \in F(b)
        <4>1. x \in Member /\ a \in Member /\ b \in Member /\ zless(x, a)
          BY <3>1
        <4>2. zless(x, b)
          BY <1>3, <4>1, MemberOrder
        <4>3. QED
          BY <4>2
      <3>2. QED
        BY <3>1
    <2>2. a \in F(b) /\ a \notin F(a)
      BY <1>3, MemberOrder
    <2>3. IsFiniteSet(F(b))
      BY <1>2
    <2> HIDE DEF F
    <2>4. Cardinality(F(b)) = Cardinality(F(a)) => F(b) = F(a)
      BY <2>1, <2>3, FS_Subset
    <2>5. QED
      BY <2>2, <2>4
  <1>4. ASSUME NEW a \in S, NEW b \in S, a # b
        PROVE  Cardinality(F(a)) # Cardinality(F(b))
    <2>1. a \in Member /\ b \in Member
      OBVIOUS
    <2>2. zless(a, b) \/ zless(b, a)
      BY <1>4, <2>1, MemberOrder
    <2> HIDE DEF F
    <2>3. QED
      BY <1>3, <2>2
  <1> HIDE DEF F
  <1>5. f \in [S -> T] /\ \A m \in S : f[m] = Cardinality(F(m))
    <2> HIDE DEF T
    <2>1. QED
      BY <1>2
  <1> HIDE DEF f
  <1>6. f \in Injection(S, T)
    <2>1. \A a, b \in S : f[a] = f[b] => a = b
      BY <1>4, <1>5
    <2>2. QED
      BY <1>5, <2>1 DEF Injection, IsInjective
  <1>7. IsFiniteSet(T) /\ Cardinality(T) = n
    <2>1. 0 \in Int /\ n - 1 \in Int
      BY <1>1
    <2>2. IsFiniteSet(0..(n - 1)) /\ Cardinality(0..(n - 1)) = IF 0 > n - 1 THEN 0 ELSE (n - 1) - 0 + 1
      BY <2>1, FS_Interval
    <2> HIDE DEF n
    <2>3. QED
      BY <1>1, <2>2
  <1>8. f \in Surjection(S, T)
    BY <1>6, <1>7, FS_Injection
  <1>9. r \in T
    OBVIOUS
  <1>10. \E m \in S : f[m] = r
    BY <1>8, <1>9 DEF Surjection
  <1>11. QED
    BY <1>5, <1>10 DEF F

-----------------------------------------------------------------------------
(* The items of a reply.                                                   *)

\* What out_nil, out_str, out_int, out_dbl and out_err write.
PlainItem ==
  {item \in Seq(Int) :
     \/ item = <<TAG_NIL>>
     \/ Len(item) = 2 /\ item[1] \in {TAG_ERR, TAG_INT, TAG_DBL}
     \/ item # << >> /\ item[1] = TAG_STR}

\* One of them, or an array of them.
IsReply(items) ==
  \/ \E item \in PlainItem : items = <<item>>
  \/ \E elements \in Seq(PlainItem) : items = Arr(Len(elements), elements)

LEMMA StrItem ==
  ASSUME NEW s \in Seq(Int)
  PROVE  <<TAG_STR>> \o s \in PlainItem
  <1>1. <<TAG_STR>> \in Seq(Int) /\ Len(<<TAG_STR>>) = 1 /\ <<TAG_STR>>[1] = TAG_STR
    BY DEF TAG_STR
  <1>2. Len(s) \in Nat
    BY LenProperties
  <1> DEFINE w == <<TAG_STR>> \o s
  <1>3. /\ w \in Seq(Int) /\ Len(w) = 1 + Len(s)
        /\ \A i \in 1..(1 + Len(s)) : w[i] = IF i <= 1 THEN <<TAG_STR>>[i] ELSE s[i - 1]
    BY <1>1, ConcatProperties
  <1> HIDE DEF w
  <1>4. w[1] = TAG_STR /\ w # << >>
    <2>1. 1 \in 1..(1 + Len(s))
      BY <1>2
    <2>2. w[1] = TAG_STR
      BY <1>1, <1>3, <2>1
    <2>3. Len(w) # 0
      BY <1>2, <1>3
    <2>4. QED
      BY <2>2, <2>3
  <1>5. w \in PlainItem
    BY <1>3, <1>4 DEF PlainItem
  <1>6. QED
    BY <1>5 DEF w

LEMMA NumberItem ==
  /\ <<TAG_NIL>> \in PlainItem
  /\ \A x \in Int : <<TAG_INT, x>> \in PlainItem /\ <<TAG_DBL, x>> \in PlainItem
                    /\ <<TAG_ERR, x>> \in PlainItem
  BY DEF PlainItem, TAG_NIL, TAG_INT, TAG_DBL, TAG_ERR

LEMMA ReplyItems ==
  /\ IsReply(Nil)
  /\ \A x \in Int : IsReply(Int64(x)) /\ IsReply(Dbl(x)) /\ IsReply(Err(x))
  /\ \A s \in Seq(Int) : IsReply(Str(s))
  BY StrItem, NumberItem DEF IsReply, Nil, Int64, Dbl, Err, Str

LEMMA ArrReply ==
  ASSUME NEW elements \in Seq(PlainItem)
  PROVE  IsReply(Arr(Len(elements), elements))
  BY DEF IsReply

\* The members that ZQUERY finds.
LEMMA ZQueryFound ==
  ASSUME NEW zset, zset \subseteq Member, IsFiniteSet(zset), NEW start,
         NEW offset \in Int, NEW limit \in Int
  PROVE  ZQueryMembers(zset, start, offset, limit) \in Seq(Member)
  <1> DEFINE before == {m \in zset : zless(m, start)}
             total  == Cardinality(zset)
             first  == IF before = zset THEN 0 ELSE Cardinality(before) + 1 + offset
             upTo   == first + (limit + 1) \div 2 - 1
             last   == IF upTo > total THEN total ELSE upTo
             nth(i) == CHOOSE m \in zset : Cardinality({x \in zset : zless(x, m)}) = i - 1
             n == last - first + 1
             ms == [i \in 1..n |-> nth(first + i - 1)]
  <1>1. total \in Nat /\ Cardinality(before) \in Nat
    BY FS_CardinalityType, FS_Subset
  <1>2. first \in Int
    <2> HIDE DEF before
    <2>1. QED
      BY <1>1
  <1>3. upTo \in Int /\ last \in Int /\ last <= total
    <2> HIDE DEF first, total
    <2>1. (limit + 1) \div 2 \in Int
      OBVIOUS
    <2> DEFINE h == (limit + 1) \div 2
    <2> HIDE DEF h
    <2>2. h \in Int
      BY <2>1 DEF h
    <2>3. upTo = first + h - 1
      BY DEF h
    <2> HIDE DEF upTo
    <2>4. QED
      BY <1>1, <1>2, <2>2, <2>3
  <1>4. CASE first < 1
    <2>1. ZQueryMembers(zset, start, offset, limit) = << >>
      BY <1>4 DEF ZQueryMembers
    <2>2. QED
      BY <2>1, EmptySeq
  <1>5. CASE ~(first < 1)
    <2>1. ZQueryMembers(zset, start, offset, limit) = ms
      BY <1>5 DEF ZQueryMembers
    <2>2. ASSUME NEW i \in 1..n
          PROVE  nth(first + i - 1) \in Member
      <3>1. (first + i - 1) - 1 \in 0..(total - 1)
        <4> HIDE DEF first, last, total
        <4>1. QED
          BY <1>1, <1>2, <1>3, <1>5
      <3> DEFINE r == (first + i - 1) - 1
      <3> HIDE DEF first, last, n
      <3>2. \E m \in zset : Cardinality({x \in zset : zless(x, m)}) = r
        BY <3>1, NthMember
      <3>3. nth(first + i - 1) \in zset
        BY <3>2
      <3>4. QED
        BY <3>3
    <2> HIDE DEF nth
    <2>3. ms \in Seq(Member)
      <3> DEFINE k == IF n < 0 THEN 0 ELSE n
      <3>1. n \in Int
        <4> HIDE DEF first, last
        <4>1. QED
          BY <1>2, <1>3
      <3> HIDE DEF n
      <3>2. k \in Nat /\ 1..n = 1..k
        BY <3>1
      <3>3. \A i \in 1..k : nth(first + i - 1) \in Member
        BY <2>2, <3>2
      <3> HIDE DEF k, first
      <3>4. [i \in 1..k |-> nth(first + i - 1)] \in Seq(Member)
        BY <3>2, <3>3, IsASeq
      <3>5. QED
        BY <3>2, <3>4
    <2>4. QED
      BY <2>1, <2>3
  <1>6. QED
    BY <1>4, <1>5

\* The output of ZQUERY, and that its counter is right.
LEMMA ZQueryOutput ==
  ASSUME NEW found \in Seq(Member)
  PROVE  /\ ZQueryItems(found) \in Seq(PlainItem)
         /\ ZQueryCount(found) = Len(ZQueryItems(found))
  <1> DEFINE pair(m) == Str(m.name) \o Dbl(m.score)
             n == Len(found)
             ss == [i \in 1..n |-> pair(found[i])]
  <1>1. ASSUME NEW m \in Member
        PROVE  pair(m) \in Seq(PlainItem) /\ Len(pair(m)) = 2
    <2>1. m.name \in Seq(Int) /\ m.score \in Int
      BY DEF Member
    <2>2. <<TAG_STR>> \o m.name \in PlainItem /\ <<TAG_DBL, m.score>> \in PlainItem
      BY <2>1, StrItem, NumberItem
    <2>3. \A x \in PlainItem : <<x>> \in Seq(PlainItem) /\ Len(<<x>>) = 1
      OBVIOUS
    <2>4. /\ Str(m.name) \in Seq(PlainItem) /\ Len(Str(m.name)) = 1
          /\ Dbl(m.score) \in Seq(PlainItem) /\ Len(Dbl(m.score)) = 1
      BY <2>2, <2>3 DEF Str, Dbl
    <2>5. QED
      BY <2>4, ConcatProperties
  <1>2. n \in Nat /\ \A i \in 1..n : found[i] \in Member
    BY LenProperties, ElementOfSeq
  <1> HIDE DEF pair
  <1>3. ss \in Seq(Seq(PlainItem))
    <2> HIDE DEF n
    <2>1. \A i \in 1..n : pair(found[i]) \in Seq(PlainItem)
      BY <1>1, <1>2
    <2>2. QED
      BY <1>2, <2>1, IsASeq
  <1>4. Len(ss) = n /\ \A i \in 1..Len(ss) : Len(ss[i]) = 2
    <2> HIDE DEF n
    <2>1. Len(ss) = n
      BY <1>2
    <2>2. QED
      BY <1>1, <1>2, <2>1
  <1>5. ZQueryItems(found) = FlattenSeq(ss) /\ ZQueryCount(found) = 2 * n
    BY DEF ZQueryItems, ZQueryCount, pair
  <1> HIDE DEF ss, n
  <1>6. QED
    BY <1>3, <1>4, <1>5, FlattenType, FlattenPairs

-----------------------------------------------------------------------------
(* What the clients read.                                                  *)

\* An item that may begin a reply.
FirstItem == PlainItem \cup {<<TAG_ARR, n>> : n \in Nat}

\* The cells of an item are at the place p of data.
CellsAt(data, p, w) ==
  p + Len(w) - 1 <= Len(data) /\ \A j \in 1..Len(w) : data[p - 1 + j] = w[j]

\* A reader that stands on an item sees it, and the cell behind it.
Reads(data, p, item) ==
  /\ out_item(item) \in Seq(Int) /\ Len(out_item(item)) >= 1
  /\ CellsAt(data, p, out_item(item)) =>
       /\ p <= Len(data) /\ data[p] = item[1] /\ ItemAt(data, p) = item
       /\ ValueSize(data, p) = Len(out_item(item)) - 1
       /\ item[1] = TAG_ARR => data[p + 1] = item[2]

LEMMA TagsDiffer ==
  /\ TAG_NIL # TAG_STR /\ TAG_NIL # TAG_ERR /\ TAG_STR # TAG_ERR
  /\ TAG_NIL # TAG_ARR /\ TAG_STR # TAG_ARR /\ TAG_ERR # TAG_ARR
  /\ TAG_NIL \in Int /\ TAG_ERR \in Int /\ TAG_STR \in Int
  BY DEF TAG_NIL, TAG_STR, TAG_ERR, TAG_ARR

\* What the reader does on a tag.
LEMMA ReaderCases ==
  ASSUME NEW data, NEW p
  PROVE  /\ data[p] = TAG_NIL => ItemAt(data, p) = <<TAG_NIL>> /\ ValueSize(data, p) = 0
         /\ data[p] = TAG_ERR /\ ~(p + 2 > Len(data)) =>
              ItemAt(data, p) = <<data[p], data[p + 1]>> /\ ValueSize(data, p) = 2 + data[p + 2]
         /\ data[p] = TAG_STR /\ ~(p + 1 > Len(data)) =>
              /\ ItemAt(data, p) = <<TAG_STR>> \o SubSeq(data, p + 2, p + 1 + data[p + 1])
              /\ ValueSize(data, p) = 1 + data[p + 1]
  <1>1. ASSUME data[p] = TAG_NIL
        PROVE  ItemAt(data, p) = <<TAG_NIL>> /\ ValueSize(data, p) = 0
    <2>1. data[p] # TAG_STR /\ data[p] # TAG_ERR /\ data[p] \notin {TAG_INT, TAG_DBL, TAG_ARR}
      BY <1>1 DEF TAG_NIL, TAG_STR, TAG_ERR, TAG_INT, TAG_DBL, TAG_ARR
    <2>2. ItemAt(data, p) = <<TAG_NIL>>
      BY <1>1, <2>1, SMT DEF ItemAt
    <2>3. ValueSize(data, p) = 0
      BY <1>1, <2>1, SMT DEF ValueSize
    <2>4. QED
      BY <2>2, <2>3
  <1>2. ASSUME data[p] = TAG_ERR, ~(p + 2 > Len(data))
        PROVE  ItemAt(data, p) = <<data[p], data[p + 1]>> /\ ValueSize(data, p) = 2 + data[p + 2]
    <2>1. data[p] # TAG_NIL /\ data[p] # TAG_STR
      BY <1>2, TagsDiffer
    <2>2. ItemAt(data, p) = <<data[p], data[p + 1]>>
      BY <2>1, Zenon DEF ItemAt
    <2>3. ValueSize(data, p) = 2 + data[p + 2]
      BY <1>2, <2>1, SMT DEF ValueSize, TAG_NIL, TAG_STR, TAG_ERR, TAG_INT, TAG_DBL, TAG_ARR
    <2>4. QED
      BY <2>2, <2>3
  <1>3. ASSUME data[p] = TAG_STR, ~(p + 1 > Len(data))
        PROVE  /\ ItemAt(data, p) = <<TAG_STR>> \o SubSeq(data, p + 2, p + 1 + data[p + 1])
               /\ ValueSize(data, p) = 1 + data[p + 1]
    <2>1. data[p] # TAG_NIL /\ data[p] # TAG_ERR
      BY <1>3, TagsDiffer
    <2>2. ItemAt(data, p) = <<TAG_STR>> \o SubSeq(data, p + 2, p + 1 + data[p + 1])
      BY <1>3, <2>1, Zenon DEF ItemAt
    <2>3. ValueSize(data, p) = 1 + data[p + 1]
      BY <1>3, <2>1, SMT DEF ValueSize, TAG_NIL, TAG_STR, TAG_ERR, TAG_INT, TAG_DBL, TAG_ARR
    <2>4. QED
      BY <2>2, <2>3
  <1>4. QED
    BY <1>1, <1>2, <1>3, Zenon

LEMMA ReadsNil ==
  ASSUME NEW data \in Seq(Int), NEW p \in Nat \ {0}
  PROVE  Reads(data, p, <<TAG_NIL>>)
  <1> DEFINE w == <<0>>
  <1>1. out_item(<<TAG_NIL>>) = <<0>> /\ Len(data) \in Nat
    BY LenProperties DEF out_item, TAG_NIL, TAG_STR, TAG_ERR
  <1>2. ASSUME CellsAt(data, p, w)
        PROVE  p <= Len(data) /\ data[p] = 0
    <2>1. p + 1 - 1 <= Len(data) /\ \A j \in 1..1 : data[p - 1 + j] = <<0>>[j]
      BY <1>2 DEF CellsAt
    <2>2. data[p - 1 + 1] = 0 /\ p - 1 + 1 = p /\ p + 1 - 1 = p
      BY <2>1
    <2>3. QED
      BY <2>1, <2>2
  <1> DEFINE item == <<TAG_NIL>>
  <1>3. item[1] = 0 /\ TAG_NIL = 0 /\ item = <<0>> /\ <<0>> \in Seq(Int) /\ Len(<<0>>) = 1 /\ TAG_ARR # 0
    BY DEF TAG_NIL, TAG_ARR
  <1>4. CellsAt(data, p, w) => ItemAt(data, p) = item /\ ValueSize(data, p) = 0
    BY <1>2, <1>3, ReaderCases
  <1> HIDE DEF item
  <1>5. Reads(data, p, item)
    <2>1. out_item(item) = <<0>>
      BY <1>1 DEF item
    <2>2. QED
      <3>1. out_item(item) \in Seq(Int) /\ Len(out_item(item)) >= 1 /\ Len(out_item(item)) - 1 = 0
        <4>1. out_item(item) \in Seq(Int) /\ Len(out_item(item)) = 1
          BY <1>3, <2>1, Zenon
        <4>2. 1 >= 1 /\ 1 - 1 = 0
          OBVIOUS
        <4>3. QED
          BY <4>1, <4>2, Zenon
      <3>2. CellsAt(data, p, out_item(item)) =>
              p <= Len(data) /\ data[p] = item[1] /\ ItemAt(data, p) = item /\ ValueSize(data, p) = 0
        BY <1>2, <1>3, <1>4, <2>1, Zenon
      <3>3. item[1] # TAG_ARR
        BY <1>3
      <3>4. QED
        BY <3>1, <3>2, <3>3, Zenon DEF Reads
  <1>6. QED
    BY <1>5 DEF item

LEMMA ReadsNumber ==
  ASSUME NEW data \in Seq(Int), NEW p \in Nat \ {0}, NEW tag \in {TAG_INT, TAG_DBL, TAG_ARR}, NEW x \in Int
  PROVE  Reads(data, p, <<tag, x>>)
  <1> DEFINE item == <<tag, x>>
  <1>1. /\ out_item(item) = item /\ Len(data) \in Nat /\ item \in Seq(Int) /\ Len(item) = 2
        /\ item[1] = tag /\ item[2] = x
    BY LenProperties DEF out_item, TAG_INT, TAG_DBL, TAG_ARR, TAG_STR, TAG_ERR
  <1> HIDE DEF item
  <1>2. ASSUME CellsAt(data, p, item)
        PROVE  p <= Len(data) /\ data[p] = tag /\ data[p + 1] = x
    <2>1. p + 2 - 1 <= Len(data) /\ \A j \in 1..2 : data[p - 1 + j] = item[j]
      BY <1>1, <1>2 DEF CellsAt
    <2>2. data[p - 1 + 1] = tag /\ data[p - 1 + 2] = x /\ p - 1 + 1 = p /\ p - 1 + 2 = p + 1
      BY <1>1, <2>1
    <2>3. QED
      BY <1>1, <2>1, <2>2
  <1>3. CellsAt(data, p, item) => ItemAt(data, p) = item /\ ValueSize(data, p) = 1
    BY <1>2 DEF ItemAt, ValueSize, TAG_NIL, TAG_STR, TAG_ERR, TAG_INT, TAG_DBL, TAG_ARR, item
  <1>4. Reads(data, p, item)
    BY <1>1, <1>2, <1>3 DEF Reads
  <1>5. QED
    BY <1>4 DEF item

LEMMA ReadsErr ==
  ASSUME NEW data \in Seq(Int), NEW p \in Nat \ {0}, NEW x \in Int
  PROVE  Reads(data, p, <<TAG_ERR, x>>)
  <1> DEFINE item == <<TAG_ERR, x>>
             w == <<TAG_ERR, x, 1, 0>>
  <1>1. /\ out_item(item) = item \o <<1, 0>> /\ Len(data) \in Nat
        /\ item[1] = TAG_ERR
    BY LenProperties DEF out_item, TAG_STR, TAG_ERR
  <1>2. item \o <<1, 0>> = w /\ w \in Seq(Int) /\ Len(w) = 4
        /\ w[1] = TAG_ERR /\ w[2] = x /\ w[3] = 1
    <2> DEFINE z == <<1, 0>>
               v == item \o z
    <2>1. /\ item \in Seq(Int) /\ Len(item) = 2 /\ item[1] = TAG_ERR /\ item[2] = x
          /\ z \in Seq(Int) /\ Len(z) = 2 /\ z[1] = 1 /\ z[2] = 0
      BY TagsDiffer
    <2>2. /\ w \in Seq(Int) /\ Len(w) = 4
          /\ w[1] = TAG_ERR /\ w[2] = x /\ w[3] = 1 /\ w[4] = 0
      BY TagsDiffer
    <2> HIDE DEF item, z, w
    <2>3. /\ v \in Seq(Int) /\ Len(v) = Len(item) + Len(z)
          /\ \A i \in 1..(Len(item) + Len(z)) : v[i] = IF i <= Len(item) THEN item[i] ELSE z[i - Len(item)]
      BY <2>1, ConcatProperties, Zenon
    <2> HIDE DEF v
    <2>4. v[1] = TAG_ERR /\ v[2] = x /\ v[3] = 1 /\ v[4] = 0
      BY <2>1, <2>3
    <2>5. \A i \in 1..4 : v[i] = w[i]
      <3>1. \A i \in 1..4 : i = 1 \/ i = 2 \/ i = 3 \/ i = 4
        OBVIOUS
      <3>2. QED
        BY <2>2, <2>4, <3>1, Zenon
    <2>6. v = w
      <3>1. Len(v) = 4
        BY <2>1, <2>3
      <3>2. QED
        BY <2>2, <2>3, <2>5, <3>1, SeqEqual
    <2>7. QED
      BY <2>2, <2>6 DEF v, z
  <1> HIDE DEF w
  <1>3. ASSUME CellsAt(data, p, w)
        PROVE  p + 2 <= Len(data) /\ data[p] = TAG_ERR /\ data[p + 1] = x /\ data[p + 2] = 1
    <2>1. p + 4 - 1 <= Len(data) /\ \A j \in 1..4 : data[p - 1 + j] = w[j]
      BY <1>2, <1>3 DEF CellsAt
    <2>2. /\ data[p - 1 + 1] = TAG_ERR /\ data[p - 1 + 2] = x /\ data[p - 1 + 3] = 1
          /\ p - 1 + 1 = p /\ p - 1 + 2 = p + 1 /\ p - 1 + 3 = p + 2
      BY <1>2, <2>1
    <2>3. QED
      BY <1>1, <2>1, <2>2
  <1>4. CellsAt(data, p, w) => ItemAt(data, p) = item /\ ValueSize(data, p) = 3
    <2>1. SUFFICES ASSUME CellsAt(data, p, w)
                   PROVE  ItemAt(data, p) = item /\ ValueSize(data, p) = 3
      OBVIOUS
    <2>2. data[p] = TAG_ERR /\ data[p + 1] = x /\ data[p + 2] = 1 /\ ~(p + 2 > Len(data))
      BY <1>1, <1>3, <2>1
    <2>3. QED
      BY <2>2, ReaderCases
  <1> HIDE DEF item
  <1>5. Reads(data, p, item)
    <2>1. TAG_ERR # TAG_ARR
      BY DEF TAG_ERR, TAG_ARR
    <2>2. CellsAt(data, p, w) => p <= Len(data) /\ data[p] = TAG_ERR
      BY <1>1, <1>3
    <2>3. QED
      <3>1. out_item(item) = w
        BY <1>1, <1>2
      <3>2. out_item(item) \in Seq(Int) /\ Len(out_item(item)) >= 1 /\ Len(out_item(item)) - 1 = 3
        <4>1. out_item(item) \in Seq(Int) /\ Len(out_item(item)) = 4
          BY <1>2, <3>1, Zenon
        <4>2. 4 >= 1 /\ 4 - 1 = 3
          OBVIOUS
        <4>3. QED
          BY <4>1, <4>2, Zenon
      <3>3. CellsAt(data, p, out_item(item)) =>
              p <= Len(data) /\ data[p] = item[1] /\ ItemAt(data, p) = item /\ ValueSize(data, p) = 3
        BY <1>1, <1>4, <2>2, <3>1, Zenon
      <3>4. QED
        BY <1>1, <2>1, <3>2, <3>3, Zenon DEF Reads
  <1>6. QED
    BY <1>5 DEF item

LEMMA ReadsStr ==
  ASSUME NEW data \in Seq(Int), NEW p \in Nat \ {0}, NEW item \in Seq(Int), item # << >>, item[1] = TAG_STR
  PROVE  Reads(data, p, item)
  <1> DEFINE t == Tail(item)
             n == Len(t)
             w == <<TAG_STR, n>> \o t
  <1>1. /\ t \in Seq(Int) /\ n = Len(item) - 1 /\ \A j \in 1..n : t[j] = item[j + 1]
        /\ Len(data) \in Nat /\ n \in Nat /\ Len(item) \in Nat
    BY HeadTailProperties, LenProperties
  <1>2. out_item(item) = w
    <2>1. out_item(item) = <<TAG_STR, Len(item) - 1>> \o Tail(item)
      BY TagsDiffer, SMT DEF out_item
    <2>2. n = Len(item) - 1
      BY <1>1
    <2>3. QED
      BY <2>1, <2>2, Zenon
  <1> HIDE DEF t
  <1>3. <<TAG_STR, n>> \in Seq(Int) /\ Len(<<TAG_STR, n>>) = 2
    BY <1>1 DEF TAG_STR
  <1>4. /\ w \in Seq(Int) /\ Len(w) = 2 + n
        /\ \A j \in 1..(2 + n) : w[j] = IF j <= 2 THEN <<TAG_STR, n>>[j] ELSE t[j - 2]
    BY <1>1, <1>3, ConcatProperties
  <1> HIDE DEF n, w
  <1>5. w[1] = TAG_STR /\ w[2] = n /\ \A j \in 1..n : w[j + 2] = t[j]
    <2>1. 1 \in 1..(2 + n) /\ 2 \in 1..(2 + n)
      BY <1>1
    <2>2. \A j \in 1..n : j + 2 \in 1..(2 + n) /\ ~(j + 2 <= 2) /\ (j + 2) - 2 = j
      BY <1>1
    <2>3. QED
      BY <1>4, <2>1, <2>2
  <1>6. ASSUME CellsAt(data, p, w)
        PROVE  /\ p + 1 + n <= Len(data) /\ data[p] = TAG_STR /\ data[p + 1] = n
               /\ \A j \in 1..n : data[p + 1 + j] = t[j]
    <2>1. p + (2 + n) - 1 <= Len(data) /\ \A j \in 1..(2 + n) : data[p - 1 + j] = w[j]
      BY <1>4, <1>6 DEF CellsAt
    <2>2. 1 \in 1..(2 + n) /\ 2 \in 1..(2 + n) /\ p - 1 + 1 = p /\ p - 1 + 2 = p + 1
      BY <1>1
    <2>3. data[p] = TAG_STR /\ data[p + 1] = n
      BY <1>5, <2>1, <2>2
    <2>4. \A j \in 1..n : j + 2 \in 1..(2 + n) /\ p - 1 + (j + 2) = p + 1 + j
      BY <1>1
    <2>5. \A j \in 1..n : data[p + 1 + j] = t[j]
      BY <1>5, <2>1, <2>4
    <2>6. QED
      BY <1>1, <2>1, <2>3, <2>5
  <1>7. ASSUME CellsAt(data, p, w)
        PROVE  <<TAG_STR>> \o SubSeq(data, p + 2, p + 1 + n) = item
    <2> DEFINE u == SubSeq(data, p + 2, p + 1 + n)
    <2>1. \A i \in (p + 2)..(p + 1 + n) : data[i] \in Int
      <3>1. \A i \in (p + 2)..(p + 1 + n) : i \in 1..Len(data)
        BY <1>1, <1>6, <1>7
      <3>2. QED
        BY <3>1, ElementOfSeq
    <2>2. /\ u \in Seq(Int)
          /\ Len(u) = IF p + 2 <= p + 1 + n THEN (p + 1 + n) - (p + 2) + 1 ELSE 0
          /\ \A i \in 1..((p + 1 + n) - (p + 2) + 1) : u[i] = data[(p + 2) + i - 1]
      <3>1. p + 2 \in Int /\ p + 1 + n \in Int
        BY <1>1
      <3>2. QED
        BY <2>1, <3>1, SubSeqProperties
    <2> HIDE DEF u
    <2>3. Len(u) = n /\ \A i \in 1..n : u[i] = data[p + 1 + i]
      <3>1. (p + 1 + n) - (p + 2) + 1 = n /\ \A i \in 1..n : (p + 2) + i - 1 = p + 1 + i
        BY <1>1
      <3>2. Len(u) = n
        BY <1>1, <2>2
      <3>3. QED
        BY <2>2, <3>1, <3>2
    <2>4. u = t
      <3>1. \A i \in 1..n : u[i] = t[i]
        BY <1>6, <1>7, <2>3
      <3>2. Len(t) = n
        BY DEF n
      <3>3. QED
        BY <1>1, <2>2, <2>3, <3>1, <3>2, SeqEqual
    <2>5. <<TAG_STR>> \o t = item
      <3> DEFINE v == <<TAG_STR>> \o t
      <3>1. <<TAG_STR>> \in Seq(Int) /\ Len(<<TAG_STR>>) = 1 /\ <<TAG_STR>>[1] = TAG_STR
        BY DEF TAG_STR
      <3>2. /\ v \in Seq(Int) /\ Len(v) = 1 + n
            /\ \A j \in 1..(1 + n) : v[j] = IF j <= 1 THEN <<TAG_STR>>[j] ELSE t[j - 1]
        BY <1>1, <3>1, ConcatProperties DEF n
      <3> HIDE DEF v
      <3>3. ASSUME NEW j \in 1..(1 + n)
            PROVE  v[j] = item[j]
        <4>1. CASE j = 1
          BY <3>1, <3>2, <4>1
        <4>2. CASE j # 1
          <5>1. ~(j <= 1) /\ j - 1 \in 1..n /\ (j - 1) + 1 = j
            BY <1>1, <4>2
          <5>2. QED
            BY <1>1, <3>2, <5>1
        <4>3. QED
          BY <4>1, <4>2
      <3>4. Len(item) = 1 + n
        BY <1>1
      <3>5. v = item
        BY <3>2, <3>3, <3>4, SeqEqual
      <3>6. QED
        BY <3>5 DEF v
    <2>6. QED
      BY <2>4, <2>5 DEF u
  <1>8. ASSUME CellsAt(data, p, w)
        PROVE  /\ p <= Len(data) /\ data[p] = TAG_STR /\ ItemAt(data, p) = item
               /\ ValueSize(data, p) = (2 + n) - 1
    <2>1. /\ p + 1 + n <= Len(data) /\ data[p] = TAG_STR /\ data[p + 1] = n
          /\ <<TAG_STR>> \o SubSeq(data, p + 2, p + 1 + n) = item
      BY <1>6, <1>7, <1>8
    <2>2. p <= Len(data) /\ ~(p + 1 > Len(data)) /\ 1 + n = (2 + n) - 1
      <3>1. p \in Nat /\ n \in Nat /\ Len(data) \in Nat /\ p + 1 + n <= Len(data)
        BY <1>1, <2>1
      <3>2. QED
        BY <3>1
    <2>3. /\ ItemAt(data, p) = <<TAG_STR>> \o SubSeq(data, p + 2, p + 1 + data[p + 1])
          /\ ValueSize(data, p) = 1 + data[p + 1]
      BY <2>1, <2>2, ReaderCases, Zenon
    <2>4. ItemAt(data, p) = item /\ ValueSize(data, p) = 1 + n
      BY <2>1, <2>3, Zenon
    <2>5. QED
      BY <2>1, <2>2, <2>4, Zenon
  <1>9. QED
    <2>1. TAG_STR # TAG_ARR
      BY DEF TAG_STR, TAG_ARR
    <2>2. Len(w) >= 1
      BY <1>1, <1>4
    <2>3. QED
      BY <1>2, <1>4, <1>8, <2>1, <2>2 DEF Reads
LEMMA ReadsItem ==
  ASSUME NEW data \in Seq(Int), NEW p \in Nat \ {0}, NEW item \in FirstItem
  PROVE  Reads(data, p, item)
  <1>1. CASE \E n \in Nat : item = <<TAG_ARR, n>>
    BY <1>1, ReadsNumber
  <1>2. CASE item = <<TAG_NIL>>
    BY <1>2, ReadsNil
  <1>3. CASE item \in Seq(Int) /\ Len(item) = 2 /\ item[1] \in {TAG_ERR, TAG_INT, TAG_DBL}
    <2>1. item[2] \in Int
      <3>1. 2 \in 1..Len(item)
        BY <1>3
      <3>2. QED
        BY <1>3, <3>1, ElementOfSeq
    <2>2. item = <<item[1], item[2]>>
      BY <1>3
    <2>3. QED
      BY <1>3, <2>1, <2>2, ReadsNumber, ReadsErr
  <1>4. CASE item \in Seq(Int) /\ item # << >> /\ item[1] = TAG_STR
    BY <1>4, ReadsStr
  <1>5. QED
    BY <1>1, <1>2, <1>3, <1>4 DEF FirstItem, PlainItem

\* What print_response knows between two of its calls.
Reader(next, left, items) == [ok |-> TRUE, next |-> next, left |-> left, items |-> items]

\* When it has read i items, whose cells are those of f[i].
AtItem(items, f, i) ==
  Reader(Len(f[i]) + 1, IF i = 0 THEN 1 ELSE Len(items) - i, SubSeq(items, 1, i))

LEMMA ReplyType ==
  ASSUME NEW items, IsReply(items)
  PROVE  /\ items \in Seq(FirstItem) /\ Len(items) >= 1
         /\ items[1][1] = TAG_ARR => items[1][2] = Len(items) - 1
         /\ items[1][1] # TAG_ARR => Len(items) = 1
         /\ \A i \in 2..Len(items) : items[i] \in PlainItem
  <1>0. \A item \in PlainItem : item[1] # TAG_ARR
    BY DEF PlainItem, TAG_NIL, TAG_STR, TAG_ERR, TAG_INT, TAG_DBL, TAG_ARR
  <1>1. CASE \E item \in PlainItem : items = <<item>>
    <2>1. PICK item \in PlainItem : items = <<item>>
      BY <1>1
    <2>2. items \in Seq(FirstItem) /\ Len(items) = 1 /\ items[1] = item
      BY <2>1 DEF FirstItem
    <2>3. QED
      BY <1>0, <2>1, <2>2
  <1>2. CASE \E elements \in Seq(PlainItem) : items = Arr(Len(elements), elements)
    <2>1. PICK elements \in Seq(PlainItem) : items = Arr(Len(elements), elements)
      BY <1>2
    <2> DEFINE n == Len(elements)
               h == << <<TAG_ARR, n>> >>
    <2>2. n \in Nat
      BY LenProperties
    <2>3. elements \in Seq(FirstItem)
      BY ElementOfSeq, SeqDef DEF FirstItem
    <2>4. h \in Seq(FirstItem) /\ Len(h) = 1 /\ h[1] = <<TAG_ARR, n>> /\ items = h \o elements
      BY <2>1, <2>2 DEF Arr, FirstItem
    <2> HIDE DEF h
    <2>5. /\ items \in Seq(FirstItem) /\ Len(items) = Len(h) + Len(elements)
          /\ \A i \in 1..(Len(h) + Len(elements)) :
               items[i] = IF i <= Len(h) THEN h[i] ELSE elements[i - Len(h)]
      BY <2>3, <2>4, ConcatProperties
    <2>6. Len(items) = 1 + n /\ 1 \in 1..(Len(h) + Len(elements)) /\ 1 <= Len(h)
      BY <2>2, <2>4, <2>5
    <2>7. items[1] = <<TAG_ARR, n>>
      BY <2>4, <2>5, <2>6
    <2>8. items[1][1] = TAG_ARR /\ items[1][2] = n
      BY <2>7
    <2>9. ASSUME NEW i \in 2..Len(items)
          PROVE  items[i] \in PlainItem
      <3>1. i \in 1..(Len(h) + Len(elements)) /\ ~(i <= Len(h)) /\ i - Len(h) \in 1..Len(elements)
        BY <2>2, <2>4, <2>6
      <3>2. items[i] = elements[i - Len(h)]
        BY <2>5, <3>1
      <3>3. QED
        BY <3>1, <3>2, ElementOfSeq
    <2>10. QED
      BY <2>2, <2>5, <2>6, <2>8, <2>9
  <1>3. QED
    BY <1>1, <1>2 DEF IsReply
\* The cells of each item.
Cells(items) == [i \in 1..Len(items) |-> out_item(items[i])]

LEMMA CellsType ==
  ASSUME NEW items \in Seq(FirstItem)
  PROVE  /\ Cells(items) \in Seq(Seq(Int)) /\ Len(Cells(items)) = Len(items)
         /\ Body(items) = FlattenSeq(Cells(items))
         /\ \A i \in 1..Len(items) : /\ Cells(items)[i] = out_item(items[i])
                                     /\ items[i] \in FirstItem
                                     /\ out_item(items[i]) \in Seq(Int)
                                     /\ Len(out_item(items[i])) >= 1
  <1>1. Len(items) \in Nat
    BY LenProperties
  <1>2. ASSUME NEW i \in 1..Len(items)
        PROVE  /\ items[i] \in FirstItem /\ out_item(items[i]) \in Seq(Int)
               /\ Len(out_item(items[i])) >= 1
    <2>1. items[i] \in FirstItem
      BY ElementOfSeq
    <2>2. << >> \in Seq(Int) /\ 1 \in Nat \ {0}
      BY EmptySeq
    <2>3. Reads(<< >>, 1, items[i])
      BY <2>1, <2>2, ReadsItem
    <2>4. QED
      BY <2>1, <2>3 DEF Reads
  <1> DEFINE w(i) == out_item(items[i])
             n == Len(items)
             c == [i \in 1..n |-> w(i)]
  <1>3. \A i \in 1..n : w(i) \in Seq(Int)
    BY <1>2
  <1> HIDE DEF w, n
  <1>4. c \in Seq(Seq(Int)) /\ Len(c) = n /\ \A i \in 1..n : c[i] = w(i)
    <2>1. n \in Nat
      BY <1>1 DEF n
    <2>2. c \in Seq(Seq(Int))
      BY <1>3, <2>1, IsASeq
    <2>3. QED
      BY <2>1, <2>2
  <1>5. c = Cells(items)
    BY DEF Cells, n, w
  <1>6. Body(items) = FlattenSeq(Cells(items))
    BY DEF Body, Cells
  <1> HIDE DEF c
  <1>7. QED
    BY <1>2, <1>4, <1>5, <1>6 DEF n, w

LEMMA PrintValue ==
  ASSUME NEW data, NEW p, NEW left, NEW items, left # 0, ~(p > Len(data)),
         ~(p + ValueSize(data, p) > Len(data))
  PROVE  print_value(data, Reader(p, left, items)) =
           Reader(p + 1 + ValueSize(data, p),
                  left - 1 + (IF data[p] = TAG_ARR THEN data[p + 1] ELSE 0),
                  Append(items, ItemAt(data, p)))
  <1>1. Reader(p, left, items).next = p /\ Reader(p, left, items).left = left
        /\ Reader(p, left, items).items = items
    BY DEF Reader
  <1>2. QED
    BY <1>1, Zenon DEF print_value, Reader

LEMMA PrintItem ==
  ASSUME NEW items, IsReply(items), NEW f, IsFlat(Int, Cells(items), f), NEW i \in 1..Len(items)
  PROVE  print_value(f[Len(items)], AtItem(items, f, i - 1)) = AtItem(items, f, i)
  <1> DEFINE n == Len(items)
             data == f[n]
             w == out_item(items[i])
             p == Len(f[i - 1]) + 1
  <1>1. /\ items \in Seq(FirstItem) /\ n >= 1
        /\ items[1][1] = TAG_ARR => items[1][2] = n - 1
        /\ items[1][1] # TAG_ARR => n = 1
        /\ \A j \in 2..n : items[j] \in PlainItem
    BY ReplyType
  <1>2. /\ Cells(items) \in Seq(Seq(Int)) /\ Len(Cells(items)) = n
        /\ Cells(items)[i] = w /\ items[i] \in FirstItem
    BY <1>1, CellsType
  <1>3. n \in Nat /\ i - 1 \in 0..n /\ i \in 0..n /\ n \in 0..n
    <2>1. n \in Nat
      BY <1>1, LenProperties
    <2> HIDE DEF n
    <2>2. i \in 1..n
      BY DEF n
    <2>3. QED
      BY <2>1, <2>2
  <1>4. /\ f \in [0..n -> Seq(Int)] /\ f[i] = f[i - 1] \o w
    BY <1>2 DEF IsFlat
  <1>5. f[i] \in Seq(Int) /\ f[i - 1] \in Seq(Int) /\ data \in Seq(Int)
    <2> HIDE DEF n
    <2> QED
      BY <1>3, <1>4
  <1>6. Len(f[i - 1]) \in Nat /\ p \in Nat \ {0} /\ Len(data) \in Nat /\ Len(f[i]) \in Nat
    BY <1>5, LenProperties
  <1>7. Reads(data, p, items[i])
    BY <1>2, <1>5, <1>6, ReadsItem
  <1>8. w \in Seq(Int) /\ Len(w) >= 1 /\ Len(w) \in Nat
    BY <1>7, LenProperties DEF Reads
  <1> HIDE DEF w, n, data
  <1>9. /\ Len(f[i]) = Len(f[i - 1]) + Len(w)
        /\ \A j \in 1..Len(w) : f[i][Len(f[i - 1]) + j] = w[j]
    <2>1. /\ Len(f[i]) = Len(f[i - 1]) + Len(w)
          /\ \A j \in 1..(Len(f[i - 1]) + Len(w)) :
               f[i][j] = IF j <= Len(f[i - 1]) THEN f[i - 1][j] ELSE w[j - Len(f[i - 1])]
      BY <1>4, <1>5, <1>8, ConcatProperties
    <2> DEFINE q == Len(f[i - 1])
    <2> HIDE DEF q
    <2>2. q \in Nat
      BY <1>6 DEF q
    <2>3. \A j \in 1..Len(w) : q + j \in 1..(q + Len(w)) /\ ~(q + j <= q) /\ (q + j) - q = j
      BY <1>8, <2>2
    <2>4. \A j \in 1..(q + Len(w)) : f[i][j] = IF j <= q THEN f[i - 1][j] ELSE w[j - q]
      BY <2>1 DEF q
    <2>5. \A j \in 1..Len(w) : f[i][q + j] = w[j]
      BY <2>3, <2>4
    <2>6. QED
      BY <2>1, <2>5 DEF q
  <1>10. /\ Len(f[i]) <= Len(data)
         /\ \A j \in 1..Len(f[i]) : data[j] = f[i][j]
    <2>1. i \in 0..Len(Cells(items)) /\ data = f[Len(Cells(items))]
      BY <1>2, <1>3 DEF data
    <2>2. QED
      BY <1>2, <2>1, FlatPrefix
  <1>11. CellsAt(data, p, w)
    <2>1. p + Len(w) - 1 = Len(f[i])
      BY <1>6, <1>8, <1>9
    <2>2. ASSUME NEW j \in 1..Len(w)
          PROVE  data[p - 1 + j] = w[j]
      <3>1. p - 1 + j = Len(f[i - 1]) + j /\ Len(f[i - 1]) + j \in 1..Len(f[i])
        BY <1>6, <1>8, <1>9
      <3>2. QED
        BY <1>9, <1>10, <3>1
    <2> HIDE DEF p
    <2>3. QED
      BY <1>10, <2>1, <2>2 DEF CellsAt
  <1>12. /\ p <= Len(data) /\ data[p] = items[i][1] /\ ItemAt(data, p) = items[i]
         /\ ValueSize(data, p) = Len(w) - 1
         /\ items[i][1] = TAG_ARR => data[p + 1] = items[i][2]
    BY <1>7, <1>11 DEF Reads, w
  <1> DEFINE left == IF i - 1 = 0 THEN 1 ELSE n - (i - 1)
             more == IF data[p] = TAG_ARR THEN data[p + 1] ELSE 0
  <1>13. left # 0 /\ left - 1 + more = (IF i = 0 THEN 1 ELSE n - i)
    <2>0. i \in Nat /\ i >= 1 /\ i <= n
      BY <1>3 DEF n
    <2>1. CASE i = 1
      <3>1. more = n - 1
        BY <1>1, <1>12, <2>1
      <3> HIDE DEF more
      <3>2. QED
        BY <1>3, <2>1, <3>1
    <2>2. CASE i # 1
      <3>1. i \in 2..n
        BY <1>3, <2>0, <2>2
      <3>2. items[i] \in PlainItem
        BY <1>1, <3>1
      <3>3. items[i][1] # TAG_ARR
        BY <3>2 DEF PlainItem, TAG_NIL, TAG_STR, TAG_ERR, TAG_INT, TAG_DBL, TAG_ARR
      <3>4. more = 0
        BY <1>12, <3>3
      <3> HIDE DEF more
      <3>5. QED
        BY <1>3, <2>0, <2>2, <3>4
    <2>3. QED
      BY <2>1, <2>2
  <1>14. /\ ~(p > Len(data)) /\ ~(p + ValueSize(data, p) > Len(data))
         /\ p + 1 + ValueSize(data, p) = Len(f[i]) + 1
    <2> DEFINE v == ValueSize(data, p)
               q == Len(f[i - 1])
    <2>1. v = Len(w) - 1 /\ q \in Nat /\ Len(f[i]) = q + Len(w) /\ p = q + 1
      BY <1>6, <1>9, <1>12
    <2> HIDE DEF v, q, p
    <2>2. ~(p > Len(data)) /\ ~(p + v > Len(data)) /\ p + 1 + v = Len(f[i]) + 1
      BY <1>6, <1>8, <1>10, <1>12, <2>1
    <2>3. QED
      BY <2>2 DEF v
  <1>15. Append(SubSeq(items, 1, i - 1), items[i]) = SubSeq(items, 1, i)
    <2> DEFINE a == SubSeq(items, 1, i - 1)
               b == SubSeq(items, 1, i)
               x == items[i]
    <2>0. i \in Nat /\ i >= 1 /\ i <= n
      BY <1>3 DEF n
    <2>1. \A j \in 1..n : items[j] \in FirstItem
      BY <1>1, ElementOfSeq DEF n
    <2>2. /\ a \in Seq(FirstItem) /\ Len(a) = i - 1 /\ \A j \in 1..(i - 1) : a[j] = items[j]
      <3>1. \A j \in 1..(i - 1) : items[j] \in FirstItem
        BY <1>3, <2>0, <2>1
      <3>2. 1 \in Int /\ i - 1 \in Int
        BY <2>0
      <3>3. /\ a \in Seq(FirstItem)
            /\ Len(a) = IF 1 <= i - 1 THEN (i - 1) - 1 + 1 ELSE 0
            /\ \A j \in 1..((i - 1) - 1 + 1) : a[j] = items[1 + j - 1]
        BY <3>1, <3>2, SubSeqProperties
      <3> HIDE DEF a
      <3>4. Len(a) = i - 1 /\ (i - 1) - 1 + 1 = i - 1 /\ \A j \in 1..(i - 1) : 1 + j - 1 = j
        BY <2>0, <3>3
      <3>5. QED
        BY <3>3, <3>4
    <2>3. /\ b \in Seq(FirstItem) /\ Len(b) = i /\ \A j \in 1..i : b[j] = items[j]
      <3>1. \A j \in 1..i : items[j] \in FirstItem
        BY <1>3, <2>0, <2>1
      <3>2. 1 \in Int /\ i \in Int
        BY <2>0
      <3>3. /\ b \in Seq(FirstItem)
            /\ Len(b) = IF 1 <= i THEN i - 1 + 1 ELSE 0
            /\ \A j \in 1..(i - 1 + 1) : b[j] = items[1 + j - 1]
        BY <3>1, <3>2, SubSeqProperties
      <3> HIDE DEF b
      <3>4. Len(b) = i /\ i - 1 + 1 = i /\ \A j \in 1..i : 1 + j - 1 = j
        BY <2>0, <3>3
      <3>5. QED
        BY <3>3, <3>4
    <2> HIDE DEF a, b
    <2>4. /\ Append(a, x) \in Seq(FirstItem) /\ Len(Append(a, x)) = i
          /\ \A j \in 1..i : Append(a, x)[j] = items[j]
      <3>1. /\ Append(a, x) \in Seq(FirstItem) /\ Len(Append(a, x)) = Len(a) + 1
            /\ \A j \in 1..Len(a) : Append(a, x)[j] = a[j]
            /\ Append(a, x)[Len(a) + 1] = x
        BY <1>2, <2>2, AppendProperties
      <3>2. Len(a) + 1 = i
        BY <2>0, <2>2
      <3>3. \A j \in 1..i : j \in 1..(i - 1) \/ j = i
        BY <2>0
      <3>4. QED
        BY <2>2, <3>1, <3>2, <3>3
    <2>5. Append(a, x) = b
      BY <2>3, <2>4, SeqEqual
    <2>6. QED
      BY <2>5 DEF a, b
  <1>16. AtItem(items, f, i - 1) = Reader(p, left, SubSeq(items, 1, i - 1))
    BY DEF AtItem, n
  <1>17. print_value(data, Reader(p, left, SubSeq(items, 1, i - 1))) =
           Reader(p + 1 + ValueSize(data, p), left - 1 + more,
                  Append(SubSeq(items, 1, i - 1), ItemAt(data, p)))
    <2>1. left # 0
      BY <1>13
    <2> HIDE DEF left, p
    <2>2. QED
      BY <1>14, <2>1, PrintValue, Zenon
  <1> HIDE DEF left, more, p
  <1>18. print_value(data, AtItem(items, f, i - 1)) =
           Reader(Len(f[i]) + 1, IF i = 0 THEN 1 ELSE n - i, SubSeq(items, 1, i))
    BY <1>12, <1>13, <1>14, <1>15, <1>16, <1>17, Zenon
  <1>19. QED
    BY <1>18, Zenon DEF AtItem, n, data
\* client.cpp reads the items of a reply and nothing else, and aphelo.py its
\* first item.
LEMMA PrintReply ==
  ASSUME NEW items, IsReply(items)
  PROVE  /\ Body(items) \in Seq(Int) /\ Len(Body(items)) >= 1
         /\ print_response(Body(items)) = Reader(Len(Body(items)) + 1, 0, items)
         /\ Body(items)[1] = items[1][1] /\ ItemAt(Body(items), 1) = items[1]
  <1> DEFINE L == Len(items)
             data == Body(items)
             N == Len(data) + 1
  <1>1. items \in Seq(FirstItem) /\ L >= 1 /\ L \in Nat
    BY ReplyType, LenProperties
  <1>2. /\ Cells(items) \in Seq(Seq(Int)) /\ Len(Cells(items)) = L
        /\ data = FlattenSeq(Cells(items))
        /\ \A i \in 1..L : /\ Cells(items)[i] = out_item(items[i])
                           /\ out_item(items[i]) \in Seq(Int)
                           /\ Len(out_item(items[i])) >= 1
    BY <1>1, CellsType
  <1>3. PICK f : IsFlat(Int, Cells(items), f) /\ data = f[L]
    BY <1>2, FlatExists
  <1>4. /\ f \in [0..L -> Seq(Int)] /\ f[0] = << >>
        /\ \A i \in 1..L : f[i] = f[i - 1] \o out_item(items[i])
    BY <1>2, <1>3 DEF IsFlat
  <1> HIDE DEF L, data
  <1>5. data \in Seq(Int) /\ Len(data) \in Nat
    BY <1>1, <1>3, <1>4, LenProperties
  <1>6. Len(data) >= L
    <2> DEFINE P == [i \in 0..L |-> {x \in Seq(Int) : Len(x) >= i}]
    <2>1. f[0] \in P[0]
      BY <1>1, <1>4
    <2>2. ASSUME NEW i \in 1..L, f[i - 1] \in P[i - 1]
          PROVE  f[i] \in P[i]
      <3>1. i - 1 \in 0..L /\ i \in 0..L
        BY <1>1
      <3>2. f[i - 1] \in Seq(Int) /\ Len(f[i - 1]) >= i - 1
        BY <2>2, <3>1
      <3> DEFINE w == out_item(items[i])
      <3>3. w \in Seq(Int) /\ Len(w) >= 1
        BY <1>2
      <3>4. f[i] = f[i - 1] \o w
        BY <1>4
      <3> HIDE DEF w
      <3>5. f[i] \in Seq(Int) /\ Len(f[i]) = Len(f[i - 1]) + Len(w)
        BY <3>2, <3>3, <3>4, ConcatProperties
      <3>6. Len(f[i]) >= i
        <4>1. Len(f[i - 1]) \in Nat /\ Len(w) \in Nat
          BY <3>2, <3>3, LenProperties
        <4>2. QED
          BY <3>2, <3>3, <3>5, <4>1
      <3>7. QED
        BY <3>1, <3>5, <3>6
    <2> HIDE DEF P
    <2>3. \A i \in 0..L : f[i] \in P[i]
      BY <1>1, <2>1, <2>2, Stepwise
    <2>4. f[L] \in P[L] /\ L \in 0..L
      BY <1>1, <2>3
    <2>5. QED
      BY <1>3, <2>4 DEF P
  <1>7. N \in Nat /\ L <= N /\ 0 <= N
    BY <1>1, <1>5, <1>6
  <1> DEFINE at(i) == IF i <= L THEN i ELSE L
             c == [i \in 0..N |-> AtItem(items, f, at(i))]
             start == [ok |-> TRUE, next |-> 1, left |-> 1, items |-> << >>]
             Eq(g) == [i \in 0..(Len(data) + 1) |->
                         IF i = 0 THEN start ELSE print_value(data, g[i - 1])]
  <1> HIDE DEF N
  <1>8. AtItem(items, f, 0) = start
    <2>1. SubSeq(items, 1, 0) = << >>
      <3>1. Len(SubSeq(items, 1, 0)) = 0 /\ SubSeq(items, 1, 0) \in Seq(FirstItem)
        BY <1>1, SubSeqProperties
      <3>2. QED
        BY <3>1, EmptySeq
    <2>2. Len(f[0]) + 1 = 1
      BY <1>4
    <2>3. QED
      BY <2>1, <2>2 DEF AtItem, Reader
  <1>9. print_value(data, AtItem(items, f, L)) = AtItem(items, f, L)
    <2>1. AtItem(items, f, L).left = IF L = 0 THEN 1 ELSE L - L
      BY DEF AtItem, Reader, L
    <2>2. AtItem(items, f, L).left = 0
      BY <1>1, <2>1
    <2>3. QED
      BY <2>2, Zenon DEF print_value
  <1>10. ASSUME NEW i \in 1..N
         PROVE  i - 1 \in 0..N /\ i # 0 /\ c[i] = print_value(data, c[i - 1])
    <2>1. i - 1 \in 0..N /\ i # 0 /\ i \in 0..N
      BY <1>7
    <2>2. c[i] = AtItem(items, f, at(i)) /\ c[i - 1] = AtItem(items, f, at(i - 1))
      BY <2>1
    <2>3. CASE i <= L
      <3>1. at(i) = i /\ at(i - 1) = i - 1 /\ i \in 1..L
        BY <1>1, <1>7, <2>3
      <3> HIDE DEF at, c
      <3>2. print_value(f[L], AtItem(items, f, i - 1)) = AtItem(items, f, i)
        BY <1>3, <3>1, PrintItem DEF L
      <3>3. QED
        BY <1>3, <2>1, <2>2, <3>1, <3>2
    <2>4. CASE ~(i <= L)
      <3>1. at(i) = L /\ at(i - 1) = L
        BY <1>1, <1>7, <2>4
      <3> HIDE DEF at, c
      <3>2. QED
        BY <1>9, <2>1, <2>2, <3>1
    <2>5. QED
      BY <2>3, <2>4
  <1>11. c[0] = start
    <2>1. at(0) = 0 /\ 0 \in 0..N
      BY <1>1, <1>7
    <2> HIDE DEF at, start
    <2>2. QED
      BY <1>8, <2>1
  <1> HIDE DEF at, start
  <1>12. c = Eq(c)
    <2>1. ASSUME NEW i \in 0..N
          PROVE  c[i] = IF i = 0 THEN start ELSE print_value(data, c[i - 1])
      <3>1. i = 0 \/ i \in 1..N
        BY <1>7
      <3> HIDE DEF c
      <3>2. QED
        BY <1>10, <1>11, <3>1
    <2>2. N = Len(data) + 1
      BY DEF N
    <2>3. c = [i \in 0..N |-> c[i]]
      OBVIOUS
    <2> HIDE DEF c
    <2>4. [i \in 0..N |-> c[i]] = [i \in 0..N |-> IF i = 0 THEN start ELSE print_value(data, c[i - 1])]
      BY <2>1
    <2>5. QED
      BY <2>2, <2>3, <2>4
  <1> HIDE DEF c
  <1>13. PICK g : g = Eq(g) /\ print_response(data) = g[N]
    <2> HIDE DEF Eq
    <2>1. QED
      BY <1>12 DEF print_response, Eq, start, N
  <1>14. g[N] = c[N]
    <2> DEFINE P == [i \in 0..N |-> {c[i]}]
    <2>1. ASSUME NEW i \in 0..N
          PROVE  P[i] = {c[i]} /\ g[i] = IF i = 0 THEN start ELSE print_value(data, g[i - 1])
      <3>1. i \in 0..(Len(data) + 1)
        BY DEF N
      <3>2. Eq(g)[i] = IF i = 0 THEN start ELSE print_value(data, g[i - 1])
        BY <3>1
      <3> HIDE DEF Eq
      <3>3. QED
        BY <1>13, <3>2
    <2> HIDE DEF P, Eq
    <2>2. g[0] \in P[0]
      <3>1. 0 \in 0..N
        BY <1>7
      <3>2. QED
        BY <1>11, <2>1, <3>1
    <2>3. ASSUME NEW i \in 1..N, g[i - 1] \in P[i - 1]
          PROVE  g[i] \in P[i]
      <3>1. i \in 0..N /\ i - 1 \in 0..N /\ i # 0 /\ c[i] = print_value(data, c[i - 1])
        <4>1. i \in 0..N
          BY <1>7
        <4>2. QED
          BY <1>10, <4>1
      <3>2. g[i - 1] = c[i - 1] /\ g[i] = print_value(data, g[i - 1])
        BY <2>1, <2>3, <3>1
      <3>3. QED
        BY <2>1, <3>1, <3>2
    <2>4. \A i \in 0..N : g[i] \in P[i]
      BY <1>7, <2>2, <2>3, Stepwise
    <2>5. N \in 0..N
      BY <1>7
    <2>6. QED
      BY <2>1, <2>4, <2>5
  <1>15. c[N] = AtItem(items, f, L)
    <2>1. at(N) = L /\ N \in 0..N
      BY <1>1, <1>7 DEF at
    <2>2. QED
      BY <2>1 DEF c
  <1>16. AtItem(items, f, L) = Reader(Len(data) + 1, 0, items)
    <2>1. (IF L = 0 THEN 1 ELSE L - L) = 0
      BY <1>1
    <2>2. SubSeq(items, 1, L) = items
      <3> DEFINE b == SubSeq(items, 1, L)
      <3>0. \A j \in 1..L : items[j] \in FirstItem
        BY <1>1, ElementOfSeq DEF L
      <3>1. /\ b \in Seq(FirstItem)
            /\ Len(b) = IF 1 <= L THEN L - 1 + 1 ELSE 0
            /\ \A j \in 1..(L - 1 + 1) : b[j] = items[1 + j - 1]
        BY <1>1, <3>0, SubSeqProperties
      <3> HIDE DEF b
      <3>2. Len(b) = L /\ L - 1 + 1 = L /\ \A j \in 1..L : 1 + j - 1 = j
        BY <1>1, <3>1
      <3>3. \A j \in 1..L : b[j] = items[j]
        BY <3>1, <3>2
      <3>4. b = items
        BY <1>1, <3>1, <3>2, <3>3, SeqEqual DEF L
      <3>5. QED
        BY <3>4 DEF b
    <2>3. QED
      BY <1>3, <2>1, <2>2, Zenon DEF AtItem, L
  <1>17. print_response(data) = Reader(Len(data) + 1, 0, items)
    BY <1>13, <1>14, <1>15, <1>16, Zenon
  <1>18. data[1] = items[1][1] /\ ItemAt(data, 1) = items[1]
    <2> DEFINE w == out_item(items[1])
    <2>1. 1 \in 1..L /\ 0 \in 0..L /\ 1 \in 0..L /\ 1 - 1 = 0
      BY <1>1
    <2>2. f[1] = << >> \o w /\ w \in Seq(Int) /\ Len(w) >= 1
      BY <1>2, <1>4, <2>1
    <2>3. f[1] = w
      BY <2>2, ConcatEmptySeq
    <2>4. Len(w) <= Len(data) /\ \A j \in 1..Len(w) : data[j] = w[j]
      <3>1. 1 \in 0..Len(Cells(items)) /\ data = f[Len(Cells(items))]
        BY <1>2, <1>3, <2>1
      <3>2. QED
        BY <1>2, <1>3, <2>3, <3>1, FlatPrefix
    <2>5. items[1] \in FirstItem
      BY <1>1, <2>1, ElementOfSeq DEF L
    <2>6. Reads(data, 1, items[1])
      BY <1>5, <2>5, ReadsItem
    <2> HIDE DEF w
    <2>7. CellsAt(data, 1, w)
      <3>1. Len(w) \in Nat
        BY <2>2, LenProperties
      <3>2. 1 + Len(w) - 1 <= Len(data)
        BY <1>5, <2>4, <3>1
      <3>3. \A j \in 1..Len(w) : 1 - 1 + j = j
        BY <3>1
      <3>4. QED
        BY <2>4, <3>2, <3>3 DEF CellsAt
    <2>8. QED
      BY <2>6, <2>7 DEF Reads, w
  <1>19. Len(data) >= 1
    BY <1>1, <1>5, <1>6
  <1>20. QED
    BY <1>5, <1>17, <1>18, <1>19 DEF data
LEMMA ErrSize ==
  ASSUME NEW x \in Int
  PROVE  Len(Body(Err(x))) = 4
  <1> DEFINE item == <<TAG_ERR, x>>
             z == <<1, 0>>
             w == item \o z
  <1>1. item \in Seq(Int) /\ Len(item) = 2 /\ item[1] = TAG_ERR /\ z \in Seq(Int) /\ Len(z) = 2
    BY TagsDiffer
  <1>2. out_item(item) = w
    <2>1. item[1] # TAG_STR
      BY <1>1, TagsDiffer
    <2> HIDE DEF item
    <2>2. QED
      BY <1>1, <2>1 DEF out_item
  <1> HIDE DEF item, z
  <1>3. Len(w) = Len(item) + Len(z)
    BY <1>1, ConcatProperties, Zenon
  <1>4. Len(w) = 4
    <2> HIDE DEF w
    <2> QED
      BY <1>1, <1>3
  <1> HIDE DEF w
  <1>5. [i \in 1..Len(<<item>>) |-> out_item(<<item>>[i])] = <<w>>
    BY <1>2
  <1>6. Body(<<item>>) = w
    BY <1>5 DEF Body, FlattenSeq
  <1>7. QED
    BY <1>4, <1>6 DEF Err, item

\* What ClientReadsReply says of the message for some items.
ReadsBack(items, message) ==
  LET printed == read_res(message)
  IN /\ message[1] = Len(message) - 1 /\ message[1] <= k_max_msg
     /\ printed.ok <=> message[1] <= client_k_max_msg
     /\ printed.ok => printed.items = items
     /\ items[1][1] # TAG_ARR => execute(message) = items[1]

LEMMA ReplyReadsBack ==
  ASSUME NEW meantItems, IsReply(meantItems)
  PROVE  /\ response(meantItems) \in Seq(Int)
         /\ ReadsBack(Limited(meantItems), response(meantItems))
  <1> DEFINE items == Limited(meantItems)
             body == Body(items)
             message == response(meantItems)
  <1>1. IsReply(items) /\ Len(body) <= k_max_msg
    <2>1. CASE Len(Body(meantItems)) > k_max_msg
      <3>1. items = Err(ERR_TOO_BIG) /\ ERR_TOO_BIG \in Int
        BY <2>1 DEF Limited, ERR_TOO_BIG
      <3>2. Len(body) = 4
        BY <3>1, ErrSize
      <3>3. IsReply(items)
        BY <3>1, ReplyItems
      <3> HIDE DEF body, items
      <3>4. QED
        BY <3>2, <3>3, WireAssumption
    <2>2. CASE ~(Len(Body(meantItems)) > k_max_msg)
      <3>1. items = meantItems
        BY <2>2 DEF Limited
      <3>2. Len(Body(meantItems)) \in Nat
        BY PrintReply, LenProperties
      <3> HIDE DEF items
      <3>3. Len(Body(meantItems)) <= k_max_msg
        BY <2>2, <3>2, WireAssumption
      <3>4. QED
        BY <3>1, <3>3
    <2>3. QED
      BY <2>1, <2>2
  <1>2. message = Framed(body)
    BY DEF response
  <1> HIDE DEF items, message
  <1>3. /\ body \in Seq(Int) /\ Len(body) >= 1
        /\ print_response(body) = Reader(Len(body) + 1, 0, items)
        /\ body[1] = items[1][1] /\ ItemAt(body, 1) = items[1]
    BY <1>1, PrintReply
  <1> HIDE DEF body
  <1>4. message \in Seq(Int) /\ message # << >> /\ Tail(message) = body /\ Head(message) = Len(body)
    <2>1. Nat \subseteq Int
      OBVIOUS
    <2>2. QED
      BY <1>2, <1>3, <2>1, FramedType
  <1>5. message[1] = Len(body) /\ Len(message) = Len(body) + 1 /\ Len(body) \in Nat
    <2>1. Len(Tail(message)) = Len(message) - 1
      BY <1>4, HeadTailProperties
    <2>2. Len(message) \in Nat /\ Len(body) \in Nat
      BY <1>3, <1>4, LenProperties
    <2>3. Head(message) = message[1]
      BY <1>4
    <2>4. Len(body) = Len(message) - 1
      BY <1>4, <2>1
    <2>5. QED
      BY <1>4, <2>2, <2>3, <2>4
  <1> DEFINE rv == Reader(Len(body) + 1, 0, items)
  <1>6. rv.ok = TRUE /\ rv.next = Len(message) /\ rv.items = items
    BY <1>5 DEF Reader
  <1>7. read_res(message) = IF Len(body) > client_k_max_msg THEN BadResponse ELSE rv
    <2>1. print_response(Tail(message)) = rv
      BY <1>3, <1>4
    <2> HIDE DEF rv
    <2>2. QED
      BY <1>5, <1>6, <2>1 DEF read_res
  <1> HIDE DEF rv
  <1>8. /\ read_res(message).ok <=> message[1] <= client_k_max_msg
        /\ read_res(message).ok => read_res(message).items = items
    <2>1. CASE Len(body) > client_k_max_msg
      <3>1. read_res(message).ok = FALSE
        BY <1>7, <2>1 DEF BadResponse
      <3>2. ~(message[1] <= client_k_max_msg)
        BY <1>5, <2>1, WireAssumption
      <3>3. QED
        BY <3>1, <3>2
    <2>2. CASE ~(Len(body) > client_k_max_msg)
      <3>1. read_res(message).ok = TRUE /\ read_res(message).items = items
        BY <1>6, <1>7, <2>2
      <3>2. message[1] <= client_k_max_msg
        BY <1>5, <2>2, WireAssumption
      <3>3. QED
        BY <3>1, <3>2
    <2>3. QED
      BY <2>1, <2>2
  <1>9. ASSUME items[1][1] # TAG_ARR PROVE execute(message) = items[1]
    <2>1. items[1] \in FirstItem
      <3>1. items \in Seq(FirstItem) /\ Len(items) >= 1 /\ Len(items) \in Nat
        BY <1>1, ReplyType, LenProperties
      <3>2. 1 \in 1..Len(items)
        BY <3>1
      <3>3. QED
        BY <3>1, <3>2, ElementOfSeq
    <2>2. items[1] \in PlainItem
      BY <1>9, <2>1 DEF FirstItem
    <2>3. items[1][1] \in {TAG_NIL, TAG_ERR, TAG_STR, TAG_INT, TAG_DBL}
      BY <2>2 DEF PlainItem
    <2>4. QED
      BY <1>3, <1>4, <2>3, Zenon DEF execute
  <1>10. message[1] = Len(message) - 1 /\ message[1] <= k_max_msg
    <2>1. Len(body) <= k_max_msg
      BY <1>1 DEF body
    <2>2. QED
      BY <1>5, <2>1
  <1>11. ReadsBack(items, message)
    BY <1>8, <1>9, <1>10, Zenon DEF ReadsBack
  <1>12. QED
    BY <1>4, <1>11 DEF items, message
-----------------------------------------------------------------------------
(* The invariant of the exchange.                                          *)

\* Keys and members are finitely many.
FiniteDb == IsFiniteSet(db) /\ \A k \in Key : IsFiniteSet(entry[k].zset)

\* What the server is asked comes from a client, and what it answers is a reply.
ReplyInv ==
  /\ phase \in {"idle", "sent", "replied", "closed"}
  /\ request \in Seq(Int) /\ reply \in Seq(Int) /\ meant \in Seq(Seq(Int))
  /\ phase = "sent" => request \in Requests
  /\ phase = "replied" => IsReply(meant) /\ reply = response(meant)
  /\ FiniteDb

\* A command that the server is about to run.
Ready(cmd) ==
  /\ KeyInv /\ ReplyInv /\ cmd \in Seq(Seq(Nat))
  /\ Len(cmd) > 1 /\ Called(cmd, cmd[1]) => cmd[2] \in Key

LEMMA CommandReady ==
  ASSUME KeyInv, ReplyInv, phase = "sent", Accepted
  PROVE  Ready(Parsed.out)
  <1>1. Parsed.out \in Seq(Seq(Nat))
    BY ParsedType
  <1>2. request \in Requests /\ Parsed.ok /\ Parsed = parse_req(Tail(request))
    BY DEF ReplyInv, Accepted, Parsed
  <1>3. Len(Parsed.out) > 1 /\ Called(Parsed.out, Parsed.out[1]) => Parsed.out[2] \in Key
    BY <1>2, KeyAssumption, Zenon
  <1>4. QED
    BY <1>1, <1>3 DEF Ready

LEMMA KeyArgument ==
  ASSUME NEW cmd, Ready(cmd), NEW name, Called(cmd, name), Len(cmd) > 1
  PROVE  /\ cmd[2] \in Key
         /\ entry[cmd[2]] \in Entry \cup {Absent}
         /\ entry[cmd[2]].str \in Seq(Int) /\ entry[cmd[2]].zset \subseteq Member
         /\ IsFiniteSet(entry[cmd[2]].zset)
  <1>1. Called(cmd, cmd[1])
    BY DEF Called
  <1>2. cmd[2] \in Key
    BY <1>1 DEF Ready
  <1>3. entry[cmd[2]] \in Entry \cup {Absent}
    BY <1>2 DEF Ready, KeyInv, DbType
  <1>4. entry[cmd[2]].str \in Seq(Int) /\ entry[cmd[2]].zset \subseteq Member
    <2> DEFINE e == entry[cmd[2]]
    <2> HIDE DEF e
    <2>1. ASSUME e \in Entry PROVE e.str \in Seq(Int) /\ e.zset \subseteq Member
      <3>1. e.str \in Seq(Int) /\ e.zset \in SUBSET [name : Seq(Int), score : Int]
        BY <2>1 DEF Entry
      <3>2. QED
        BY <3>1 DEF Member
    <2>2. ASSUME e = Absent PROVE e.str \in Seq(Int) /\ e.zset \subseteq Member
      <3>1. e.str = << >> /\ e.zset = {}
        BY <2>2 DEF Absent
      <3>2. QED
        BY <3>1, EmptySeq
    <2>3. e.str \in Seq(Int) /\ e.zset \subseteq Member
      BY <1>3, <2>1, <2>2 DEF e
    <2>4. QED
      BY <2>3 DEF e
  <1>5. QED
    BY <1>2, <1>3, <1>4 DEF Ready, ReplyInv, FiniteDb

LEMMA RespondReply ==
  ASSUME NEW items, IsReply(items), Respond(items), FiniteDb'
  PROVE  ReplyInv'
  <1>1. response(items) \in Seq(Int)
    BY ReplyReadsBack
  <1>2. items \in Seq(Seq(Int))
    <2>1. items \in Seq(FirstItem)
      BY ReplyType
    <2>2. FirstItem \subseteq Seq(Int)
      <3>1. PlainItem \subseteq Seq(Int)
        BY DEF PlainItem
      <3>2. \A n \in Nat : <<TAG_ARR, n>> \in Seq(Int)
        BY DEF TAG_ARR
      <3>3. QED
        BY <3>1, <3>2 DEF FirstItem
    <2>3. QED
      BY <2>1, <2>2, SeqMonotonic
  <1>3. phase' = "replied" /\ request' = << >> /\ meant' = items /\ reply' = response(items)
    BY DEF Respond
  <1>4. << >> \in Seq(Int)
    BY EmptySeq
  <1>5. QED
    BY <1>1, <1>2, <1>3, <1>4 DEF ReplyInv

LEMMA SameFinite ==
  ASSUME FiniteDb, entry' = entry
  PROVE  FiniteDb'
  <1>1. db' = db
    BY DEF db
  <1>2. QED
    BY <1>1 DEF FiniteDb

LEMMA AnswerReply ==
  ASSUME NEW items, IsReply(items), Answer(items), FiniteDb
  PROVE  ReplyInv'
  <1>1. Respond(items) /\ entry' = entry
    BY DEF Answer, dbVars
  <1>2. FiniteDb'
    BY <1>1, SameFinite
  <1>3. QED
    BY <1>1, <1>2, RespondReply

LEMMA PutFinite ==
  ASSUME KeyInv, FiniteDb, NEW k \in Key, NEW e, Put(k, e), IsFiniteSet(e.zset)
  PROVE  FiniteDb'
  <1>1. entry \in [Key -> Entry \cup {Absent}]
    BY DEF KeyInv, DbType
  <1>2. \A j \in Key : entry'[j] = IF j = k THEN e ELSE entry[j]
    BY <1>1 DEF Put
  <1>3. db' \subseteq db \cup {k}
    <2>1. db' = {j \in Key : entry'[j] # Absent}
      BY DEF db
    <2>2. QED
      BY <1>2, <2>1 DEF db
  <1>4. IsFiniteSet(db \cup {k})
    BY FS_AddElement DEF FiniteDb
  <1>5. IsFiniteSet(db')
    BY <1>3, <1>4, FS_Subset
  <1>6. \A j \in Key : IsFiniteSet(entry'[j].zset)
    BY <1>2 DEF FiniteDb
  <1>7. QED
    BY <1>5, <1>6 DEF FiniteDb

\* The codes of errors are numbers.
LEMMA ErrReply ==
  /\ IsReply(Err(ERR_BAD_TYP)) /\ IsReply(Err(ERR_BAD_ARG)) /\ IsReply(Err(ERR_UNKNOWN))
  /\ IsReply(Nil) /\ IsReply(Int64(0)) /\ IsReply(Int64(1))
  BY ReplyItems DEF ERR_BAD_TYP, ERR_BAD_ARG, ERR_UNKNOWN

LEMMA GetReply ==
  ASSUME NEW cmd, Ready(cmd), do_get(cmd)
  PROVE  ReplyInv'
  <1> DEFINE e == entry[cmd[2]]
             items == CASE e = Absent     -> Nil
                        [] e.type = T_STR -> Str(e.str)
                        [] OTHER          -> Err(ERR_BAD_TYP)
  <1>1. Called(cmd, GET) /\ Len(cmd) = 2
    BY CallFacts DEF do_get
  <1>2. e \in Entry \cup {Absent} /\ e.str \in Seq(Int)
    BY <1>1, KeyArgument
  <1>3. Answer(items)
    BY DEF do_get
  <1>4. e = Absent => e.type # T_STR
    BY DEF Absent, T_STR
  <1> HIDE DEF e
  <1>5. IsReply(items)
    <2>1. IsReply(Nil) /\ IsReply(Str(e.str)) /\ IsReply(Err(ERR_BAD_TYP))
      BY <1>2, ReplyItems, ErrReply
    <2>2. items = Nil \/ items = Str(e.str) \/ items = Err(ERR_BAD_TYP)
      BY <1>4
    <2> HIDE DEF items
    <2>3. QED
      BY <2>1, <2>2
  <1> HIDE DEF items
  <1>6. FiniteDb
    BY DEF Ready, ReplyInv
  <1>7. QED
    BY <1>3, <1>5, <1>6, AnswerReply

LEMMA SetReply ==
  ASSUME NEW cmd, Ready(cmd), do_set(cmd)
  PROVE  ReplyInv'
  <1> DEFINE k == cmd[2]
             e == [Absent EXCEPT !.type = T_STR, !.str = cmd[3]]
  <1>1. Called(cmd, SET) /\ Len(cmd) = 3 /\ FiniteDb /\ KeyInv
    BY CallFacts DEF do_set, Ready, ReplyInv
  <1>2. k \in Key
    BY <1>1, KeyArgument
  <1>3. CASE Answer(Err(ERR_BAD_TYP))
    BY <1>1, <1>3, ErrReply, AnswerReply
  <1>4. CASE Put(k, e) /\ Respond(Nil)
    <2>1. e.zset = {}
      BY DEF Absent
    <2> HIDE DEF e, k
    <2>2. IsFiniteSet(e.zset)
      BY <2>1, FS_EmptySet
    <2>3. FiniteDb'
      BY <1>1, <1>2, <1>4, <2>2, PutFinite
    <2>4. QED
      BY <1>4, <2>3, ErrReply, RespondReply
  <1>5. QED
    BY <1>3, <1>4 DEF do_set

LEMMA DelReply ==
  ASSUME NEW cmd, Ready(cmd), do_del(cmd)
  PROVE  ReplyInv'
  <1> DEFINE k == cmd[2]
             n == IF k \in db THEN 1 ELSE 0
  <1>1. Called(cmd, DEL) /\ Len(cmd) = 2 /\ FiniteDb /\ KeyInv
    BY CallFacts DEF do_del, Ready, ReplyInv
  <1>2. k \in Key
    BY <1>1, KeyArgument
  <1>3. Put(k, Absent) /\ Respond(Int64(n))
    BY DEF do_del
  <1>4. IsFiniteSet(Absent.zset)
    <2>1. Absent.zset = {}
      BY DEF Absent
    <2>2. QED
      BY <2>1, FS_EmptySet
  <1>5. n \in Int
    OBVIOUS
  <1> HIDE DEF k, n
  <1>6. FiniteDb'
    BY <1>1, <1>2, <1>3, <1>4, PutFinite
  <1>7. IsReply(Int64(n))
    BY <1>5, ReplyItems
  <1>8. QED
    BY <1>3, <1>6, <1>7, RespondReply

LEMMA KeysReply ==
  ASSUME NEW cmd, Ready(cmd), do_keys(cmd)
  PROVE  ReplyInv'
  <1>1. FiniteDb
    BY DEF Ready, ReplyInv
  <1>2. PICK order \in SetToSeqs(db) :
          Answer(Arr(Cardinality(db), [i \in 1..Len(order) |-> <<TAG_STR>> \o order[i]]))
    BY DEF do_keys
  <1> DEFINE n == Cardinality(db)
             w(i) == <<TAG_STR>> \o order[i]
             elements == [i \in 1..Len(order) |-> w(i)]
  <1>3. n \in Nat
    BY <1>1, FS_CardinalityType DEF FiniteDb
  <1>4. order \in [1..n -> db]
    BY <1>2 DEF SetToSeqs
  <1> HIDE DEF n
  <1>5. Len(order) = n
    BY <1>3, <1>4
  <1>6. ASSUME NEW i \in 1..n
        PROVE  w(i) \in PlainItem
    <2>1. order[i] \in Key
      BY <1>4 DEF db
    <2>2. order[i] \in Seq(Nat)
      BY <2>1, KeyAssumption
    <2>3. order[i] \in Seq(Int)
      <3>1. Nat \subseteq Int
        OBVIOUS
      <3>2. QED
        BY <2>2, <3>1, SeqMonotonic
    <2>4. QED
      BY <2>3, StrItem
  <1>7. Answer(Arr(n, elements))
    BY <1>2 DEF n
  <1> HIDE DEF w
  <1>8. elements \in Seq(PlainItem) /\ Len(elements) = n
    BY <1>3, <1>5, <1>6, IsASeq
  <1> HIDE DEF elements
  <1>9. QED
    BY <1>1, <1>7, <1>8, ArrReply, AnswerReply
LEMMA ExpireReply ==
  ASSUME NEW cmd, Ready(cmd), do_expire(cmd)
  PROVE  ReplyInv'
  <1>1. FiniteDb
    BY DEF Ready, ReplyInv
  <1>2. CASE Answer(Err(ERR_BAD_ARG)) \/ Answer(Int64(0))
    BY <1>1, <1>2, ErrReply, AnswerReply
  <1>3. CASE Respond(Int64(1)) /\ entry' = entry
    <2>1. FiniteDb'
      BY <1>1, <1>3, SameFinite
    <2>2. QED
      BY <1>3, <2>1, ErrReply, RespondReply
  <1>4. QED
    BY <1>2, <1>3 DEF do_expire

LEMMA TtlReplies ==
  ASSUME NEW cmd, Ready(cmd), do_ttl(cmd)
  PROVE  ReplyInv'
  <1> DEFINE k == cmd[2]
  <1>1. Called(cmd, PTTL) /\ Len(cmd) = 2 /\ FiniteDb /\ KeyInv
    BY CallFacts DEF do_ttl, Ready, ReplyInv
  <1>2. k \in Key
    BY <1>1, KeyArgument
  <1>3. Respond(Int64(TtlReply(k))) /\ entry' = entry
    BY DEF do_ttl, dbVars
  <1> HIDE DEF k
  <1>4. TtlReply(k) \in Int
    <2>1. expire[k] \in Nat \cup {NoTtl} /\ now \in Nat
      BY <1>1, <1>2 DEF KeyInv, DbType
    <2>2. QED
      BY <2>1 DEF TtlReply, NoTtl
  <1>5. FiniteDb'
    BY <1>1, <1>3, SameFinite
  <1>6. IsReply(Int64(TtlReply(k)))
    BY <1>4, ReplyItems
  <1>7. QED
    BY <1>3, <1>5, <1>6, RespondReply

LEMMA ZaddReply ==
  ASSUME NEW cmd, Ready(cmd), do_zadd(cmd)
  PROVE  ReplyInv'
  <1> DEFINE k == cmd[2]  score == str2dbl(cmd[3])  name == cmd[4]
             others == {m \in entry[k].zset : m.name # name}
             zset == others \cup {[name |-> name, score |-> score.val]}
             e == [Absent EXCEPT !.type = T_ZSET, !.zset = zset]
             x == IF others = entry[k].zset THEN 1 ELSE 0
  <1>1. Called(cmd, ZADD) /\ Len(cmd) = 4 /\ FiniteDb /\ KeyInv
    BY CallFacts DEF do_zadd, Ready, ReplyInv
  <1>2. k \in Key /\ IsFiniteSet(entry[k].zset)
    BY <1>1, KeyArgument
  <1>3. CASE ~score.ok \/ entry[k].type = T_STR
    <2>1. Answer(Err(ERR_BAD_ARG)) \/ Answer(Err(ERR_BAD_TYP))
      BY <1>3 DEF do_zadd
    <2>2. QED
      BY <1>1, <2>1, ErrReply, AnswerReply
  <1>4. CASE score.ok /\ entry[k].type # T_STR
    <2>1. Put(k, e) /\ Respond(Int64(x))
      BY <1>4 DEF do_zadd
    <2>2. IsFiniteSet(others)
      BY <1>2, FS_Subset
    <2>3. x \in Int
      OBVIOUS
    <2> HIDE DEF others, x
    <2>4. IsFiniteSet(zset)
      BY <2>2, FS_AddElement
    <2> HIDE DEF zset
    <2>5. e.zset = zset
      BY ZsetFields
    <2> HIDE DEF e, k
    <2>6. FiniteDb'
      BY <1>1, <1>2, <2>1, <2>4, <2>5, PutFinite
    <2>7. IsReply(Int64(x))
      BY <2>3, ReplyItems
    <2>8. QED
      BY <2>1, <2>6, <2>7, RespondReply
  <1>5. QED
    BY <1>3, <1>4

LEMMA ZremReply ==
  ASSUME NEW cmd, Ready(cmd), do_zrem(cmd)
  PROVE  ReplyInv'
  <1> DEFINE k == cmd[2]
             others == {m \in entry[k].zset : m.name # cmd[3]}
             e == [entry[k] EXCEPT !.zset = others]
             x == IF others = entry[k].zset THEN 0 ELSE 1
  <1>1. Called(cmd, ZREM) /\ Len(cmd) = 3 /\ FiniteDb /\ KeyInv
    BY CallFacts DEF do_zrem, Ready, ReplyInv
  <1>2. k \in Key /\ IsFiniteSet(entry[k].zset) /\ entry[k] \in Entry \cup {Absent}
    BY <1>1, KeyArgument
  <1>3. CASE ~expect_zset(k)
    BY <1>1, <1>3, ErrReply, AnswerReply DEF do_zrem
  <1>4. CASE expect_zset(k)
    <2>1. Put(k, e) /\ Respond(Int64(x))
      BY <1>4 DEF do_zrem
    <2>2. IsFiniteSet(others)
      BY <1>2, FS_Subset
    <2>3. x \in Int
      OBVIOUS
    <2> HIDE DEF others, x, k
    <2>4. e.zset = others
      BY <1>2 DEF Entry, Absent
    <2> HIDE DEF e
    <2>5. FiniteDb'
      BY <1>1, <1>2, <2>1, <2>2, <2>4, PutFinite
    <2>6. IsReply(Int64(x))
      BY <2>3, ReplyItems
    <2>7. QED
      BY <2>1, <2>5, <2>6, RespondReply
  <1>5. QED
    BY <1>3, <1>4

LEMMA ZscoreReply ==
  ASSUME NEW cmd, Ready(cmd), do_zscore(cmd)
  PROVE  ReplyInv'
  <1> DEFINE found == {m \in entry[cmd[2]].zset : m.name = cmd[3]}
  <1>1. Called(cmd, ZSCORE) /\ Len(cmd) = 3 /\ FiniteDb
    BY CallFacts DEF do_zscore, Ready, ReplyInv
  <1>2. entry[cmd[2]].zset \subseteq Member
    <2>1. Len(cmd) > 1
      BY <1>1
    <2>2. QED
      BY <1>1, <2>1, KeyArgument, Zenon
  <1>3. CASE Answer(Err(ERR_BAD_TYP)) \/ Answer(Nil)
    BY <1>1, <1>3, ErrReply, AnswerReply
  <1>4. CASE \E m \in found : Answer(Dbl(m.score))
    <2>1. PICK m \in found : Answer(Dbl(m.score))
      BY <1>4
    <2>2. m.score \in Int
      BY <1>2 DEF Member
    <2>3. IsReply(Dbl(m.score))
      BY <2>2, ReplyItems
    <2>4. QED
      BY <1>1, <2>1, <2>3, AnswerReply
  <1>5. QED
    BY <1>3, <1>4 DEF do_zscore

LEMMA ZqueryReply ==
  ASSUME NEW cmd, Ready(cmd), do_zquery(cmd)
  PROVE  ReplyInv'
  <1> DEFINE score == str2dbl(cmd[3])  offset == str2int(cmd[5])  limit == str2int(cmd[6])
             start == [name |-> cmd[4], score |-> score.val]
             found == ZQueryMembers(entry[cmd[2]].zset, start, offset.val, limit.val)
             items == IF ~(score.ok /\ offset.ok /\ limit.ok) THEN Err(ERR_BAD_ARG)
                      ELSE IF ~expect_zset(cmd[2]) THEN Err(ERR_BAD_TYP)
                      ELSE IF limit.val <= 0 THEN Arr(0, << >>)
                      ELSE Arr(ZQueryCount(found), ZQueryItems(found))
  <1>1. Called(cmd, ZQUERY) /\ Len(cmd) = 6 /\ FiniteDb /\ cmd \in Seq(Seq(Nat))
    BY CallFacts DEF do_zquery, Ready, ReplyInv
  <1>2. entry[cmd[2]].zset \subseteq Member /\ IsFiniteSet(entry[cmd[2]].zset)
    <2>1. Len(cmd) > 1
      BY <1>1
    <2>2. QED
      BY <1>1, <2>1, KeyArgument, Zenon
  <1>3. Answer(items)
    BY DEF do_zquery
  <1>4. offset.ok /\ limit.ok => found \in Seq(Member)
    <2>1. 5 \in 1..Len(cmd) /\ 6 \in 1..Len(cmd)
      BY <1>1
    <2>2. cmd[5] \in Seq(Nat) /\ cmd[6] \in Seq(Nat)
      BY <1>1, <2>1, ArgType
    <2>3. (offset.ok => offset.val \in Int) /\ (limit.ok => limit.val \in Int)
      BY <2>2, NumberType
    <2> HIDE DEF offset, limit, start
    <2>4. QED
      BY <1>2, <2>3, ZQueryFound
  <1> HIDE DEF score, offset, limit, found
  <1>5. IsReply(items)
    <2>1. IsReply(Arr(0, << >>))
      <3>1. << >> \in Seq(PlainItem) /\ Len(<< >>) = 0
        BY EmptySeq
      <3>2. QED
        BY <3>1, ArrReply
    <2>2. offset.ok /\ limit.ok => IsReply(Arr(ZQueryCount(found), ZQueryItems(found)))
      <3>1. HAVE offset.ok /\ limit.ok
      <3>2. /\ ZQueryItems(found) \in Seq(PlainItem)
            /\ ZQueryCount(found) = Len(ZQueryItems(found))
        BY <1>4, <3>1, ZQueryOutput
      <3>3. QED
        BY <3>2, ArrReply
    <2>3. QED
      BY <2>1, <2>2, ErrReply
  <1> HIDE DEF items
  <1>6. QED
    BY <1>1, <1>3, <1>5, AnswerReply

LEMMA RequestReply ==
  ASSUME KeyInv, ReplyInv, try_one_request
  PROVE  ReplyInv'
  <1> DEFINE cmd == Parsed.out
  <1>1. Ready(cmd) /\ do_request(cmd)
    BY CommandReady DEF try_one_request
  <1> HIDE DEF cmd
  <1>2. CASE do_unknown(cmd)
    BY <1>2, ErrReply, AnswerReply DEF do_unknown, ReplyInv
  <1>3. QED
    BY <1>1, <1>2, GetReply, SetReply, DelReply, KeysReply, ExpireReply, TtlReplies,
       ZaddReply, ZremReply, ZscoreReply, ZqueryReply DEF do_request

LEMMA TimersReply ==
  ASSUME KeyInv, ReplyInv, process_timers
  PROVE  ReplyInv'
  <1>1. PICK V \in Batch :
          /\ entry' = [k \in Key |-> IF k \in V THEN Absent ELSE entry[k]]
          /\ phase' = phase /\ request' = request /\ reply' = reply /\ meant' = meant
    BY DEF process_timers, netVars
  <1>2. \A k \in Key : entry'[k] = Absent \/ entry'[k] = entry[k]
    BY <1>1
  <1>3. db' \subseteq db
    <2>1. db' = {k \in Key : entry'[k] # Absent}
      BY DEF db
    <2>2. QED
      BY <1>2, <2>1 DEF db
  <1>4. IsFiniteSet(db')
    BY <1>3, FS_Subset DEF ReplyInv, FiniteDb
  <1>5. IsFiniteSet(Absent.zset)
    <2>1. Absent.zset = {}
      BY DEF Absent
    <2>2. QED
      BY <2>1, FS_EmptySet
  <1>6. \A k \in Key : IsFiniteSet(entry'[k].zset)
    BY <1>2, <1>5 DEF ReplyInv, FiniteDb
  <1>7. FiniteDb'
    BY <1>4, <1>6 DEF FiniteDb
  <1>8. QED
    BY <1>1, <1>7 DEF ReplyInv

LEMMA ClientReply ==
  ASSUME ReplyInv, Client
  PROVE  ReplyInv'
  <1>1. FiniteDb'
    <2>1. entry' = entry
      BY DEF Client, send_req, SendCommand, SendGarbage, ClientDone, Send, dbVars
    <2>2. QED
      BY <2>1, SameFinite DEF ReplyInv
  <1>2. ASSUME NEW message \in Requests, message \in Seq(Nat), Send(message)
        PROVE  ReplyInv'
    <2>1. message \in Seq(Int)
      <3>1. Nat \subseteq Int
        OBVIOUS
      <3>2. QED
        BY <1>2, <3>1, SeqMonotonic
    <2>2. QED
      BY <1>1, <1>2, <2>1 DEF Send, ReplyInv
  <1>3. CASE send_req \/ SendCommand
    <2>1. PICK args \in Command : Send(pack_command(args))
      BY <1>3 DEF send_req, SendCommand
    <2>2. args \in Seq(Seq(Nat))
      BY KeyspaceAssumption
    <2>3. pack_command(args) \in Seq(Nat)
      BY <2>2, PackType DEF IsMessage
    <2>4. pack_command(args) \in Requests
      BY DEF Requests
    <2>5. QED
      BY <1>2, <2>1, <2>3, <2>4
  <1>4. CASE SendGarbage
    <2>1. PICK body \in Garbage : Send(Framed(body))
      BY <1>4 DEF SendGarbage
    <2>2. body \in Seq(Nat)
      BY KeyspaceAssumption
    <2>3. Framed(body) \in Seq(Nat)
      BY <2>2, FramedType
    <2>4. Framed(body) \in Requests
      BY DEF Requests
    <2>5. QED
      BY <1>2, <2>1, <2>3, <2>4
  <1>5. CASE ClientDone
    <2>1. phase' = "idle" /\ reply' = << >> /\ meant' = << >> /\ request' = request
      BY <1>5 DEF ClientDone
    <2>2. << >> \in Seq(Int) /\ << >> \in Seq(Seq(Int))
      BY EmptySeq
    <2>3. QED
      BY <1>1, <2>1, <2>2 DEF ReplyInv
  <1>6. QED
    BY <1>3, <1>4, <1>5 DEF Client

\* Every request comes from a client, and the reply is the encoding of a value
\* or of an array of values; what the commands work on stays finite.
THEOREM ReplyInvariant == Spec => []ReplyInv
  <1>1. Init => ReplyInv
    <2> SUFFICES ASSUME Init
                 PROVE  ReplyInv
      OBVIOUS
    <2>1. db = {} /\ \A k \in Key : entry[k].zset = {}
      BY DEF Init, db, Absent
    <2>2. FiniteDb
      BY <2>1, FS_EmptySet DEF FiniteDb
    <2>3. << >> \in Seq(Int) /\ << >> \in Seq(Seq(Int))
      BY EmptySeq
    <2>4. QED
      BY <2>2, <2>3 DEF Init, ReplyInv
  <1>2. KeyInv /\ ReplyInv /\ [Next]_vars => ReplyInv'
    <2> SUFFICES ASSUME KeyInv, ReplyInv, [Next]_vars
                 PROVE  ReplyInv'
      OBVIOUS
    <2>1. CASE BadRequest
      <3>1. /\ phase' = "closed" /\ request' = << >> /\ reply' = reply /\ meant' = meant
            /\ entry' = entry
        BY <2>1 DEF BadRequest, dbVars
      <3>2. FiniteDb' /\ << >> \in Seq(Int)
        BY <3>1, SameFinite, EmptySeq DEF ReplyInv
      <3>3. QED
        BY <3>1, <3>2 DEF ReplyInv
    <2>2. CASE Tick \/ UNCHANGED vars
      <3>1. /\ phase' = phase /\ request' = request /\ reply' = reply /\ meant' = meant
            /\ entry' = entry
        BY <2>2 DEF Tick, vars, dbVars, netVars
      <3>2. FiniteDb'
        BY <3>1, SameFinite DEF ReplyInv
      <3>3. QED
        BY <3>1, <3>2 DEF ReplyInv
    <2>3. QED
      BY <2>1, <2>2, ClientReply, RequestReply, TimersReply DEF Next
  <1>3. QED
    BY <1>1, <1>2, KeyInvariant, PTL DEF Spec

\* The variables of the keyspace and of the exchange have their types.
THEOREM TypeCorrect == Spec => []TypeOK
  <1>1. KeyInv /\ ReplyInv => TypeOK
    BY DEF KeyInv, DbType, ReplyInv, TypeOK
  <1>2. QED
    BY <1>1, KeyInvariant, ReplyInvariant, PTL

\* What a command wrote is what the clients read: client.cpp prints exactly
\* these items or complains of a message above its limit, and aphelo.py
\* returns the same value, whatever the keys, members, scores and limits are.
THEOREM ClientReadsCorrect == Spec => []ClientReadsReply
  <1>1. ReplyInv => ClientReadsReply
    <2> SUFFICES ASSUME ReplyInv, phase = "replied"
                 PROVE  ReadsBack(Limited(meant), reply)
      BY DEF ClientReadsReply, ReadsBack, Limited
    <2>1. QED
      BY ReplyReadsBack DEF ReplyInv
  <1>2. QED
    BY <1>1, ReplyInvariant, PTL
====
