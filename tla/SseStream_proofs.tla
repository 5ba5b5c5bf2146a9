-------------------------- MODULE SseStream_proofs --------------------------
(***************************************************************************)
(* What SseStream's parser hands out, for every body and every way to cut  *)
(* it into chunks.                                                         *)
(***************************************************************************)
EXTENDS SseStream, SequenceTheorems, WellFoundedInduction, TLAPS

-----------------------------------------------------------------------------
(* Natural numbers: the least element, induction and recursive functions. *)

\* A set of natural numbers has a least one.
LEMMA LeastExists ==
  ASSUME NEW T \in SUBSET Nat, T # {}
  PROVE  \E x \in T : \A y \in T : x <= y
<1>1. IsWellFoundedOn(OpToRel(<, Nat), Nat)
  BY NatLessThanWellFounded
<1>2. OpToRel(<, Nat) = {ss \in Nat \X Nat : ss[1] < ss[2]}
  BY DEF OpToRel
<1>3. PICK x \in T : \A y \in T : ~ (<<y, x>> \in OpToRel(<, Nat))
  BY <1>1, WFMin
<1>4. ASSUME NEW y \in T PROVE x <= y
  <2>1. ~ (<<y, x>> \in {ss \in Nat \X Nat : ss[1] < ss[2]})
    BY <1>2, <1>3
  <2> QED BY <2>1
<1> QED BY <1>4

\* A set that holds 0 and each successor holds every natural number.
LEMMA Induction ==
  ASSUME NEW T, 0 \in T, \A n \in Nat : n \in T => n + 1 \in T
  PROVE  \A n \in Nat : n \in T
<1> SUFFICES ASSUME NEW m \in Nat, m \notin T PROVE FALSE
  OBVIOUS
<1> DEFINE missing == {n \in Nat : n \notin T}
<1>1. PICK x \in missing : \A y \in missing : x <= y
  BY LeastExists
<1>2. x # 0 /\ x - 1 \in Nat /\ x - 1 \notin missing
  BY <1>1
<1> QED BY <1>1, <1>2

\* Induction up to a bound.
LEMMA InductionTo ==
  ASSUME NEW N \in Nat, NEW T, 0 \in T, \A n \in 1..N : n - 1 \in T => n \in T
  PROVE  \A n \in 0..N : n \in T
<1> DEFINE U == {n \in Nat : n <= N => n \in T}
<1>1. 0 \in U
  OBVIOUS
<1>2. ASSUME NEW n \in Nat, n \in U PROVE n + 1 \in U
  <2> SUFFICES ASSUME n + 1 <= N PROVE n + 1 \in T
    OBVIOUS
  <2>1. n \in T /\ n + 1 \in 1..N /\ (n + 1) - 1 = n
    BY <1>2
  <2> QED BY <2>1
<1> HIDE DEF U
<1>3. \A n \in Nat : n \in U
  BY <1>1, <1>2, Induction
<1> QED BY <1>3 DEF U

\* The least and the greatest of some positions.
LEMMA MinIsLeast ==
  ASSUME NEW T \in SUBSET Nat, T # {}
  PROVE  Min(T) \in T /\ \A y \in T : Min(T) <= y
<1>1. \E x \in T : \A y \in T : x =< y
  BY LeastExists
<1> QED BY <1>1 DEF Min

LEMMA MaxIsGreatest ==
  ASSUME NEW N \in Nat, NEW T \in SUBSET (1..N), T # {}
  PROVE  Max(T) \in T /\ \A y \in T : y <= Max(T)
<1> DEFINE U == {n \in Nat : N - n \in T}
<1>0. U # {}
  <2>1. PICK y \in T : TRUE
    OBVIOUS
  <2>2. N - y \in Nat /\ N - (N - y) = y
    OBVIOUS
  <2> QED BY <2>1, <2>2
<1>1. PICK u \in U : \A v \in U : u <= v
  BY <1>0, LeastExists
<1>2. ASSUME NEW y \in T PROVE N - u >= y
  <2>1. N - y \in U
    OBVIOUS
  <2> QED BY <1>1, <2>1
<1>3. \E x \in T : \A y \in T : x >= y
  BY <1>1, <1>2
<1> QED BY <1>3 DEF Max

\* A function defined step by step up to N.
Built(f, S, a, step, k) ==
  f \in [0..k -> S] /\ f[0] = a /\ \A n \in 1..k : f[n] = step[n][f[n - 1]]

LEMMA RecursionExists ==
  ASSUME NEW S, NEW a \in S, NEW N \in Nat, NEW step \in [1..N -> [S -> S]]
  PROVE  \E f : Built(f, S, a, step, N)
<1> DEFINE T == {k \in 0..N : \E f : Built(f, S, a, step, k)}
<1>1. 0 \in T
  <2> DEFINE f == [n \in 0..0 |-> a]
  <2>1. f \in [0..0 -> S] /\ f[0] = a /\ \A n \in 1..0 : f[n] = step[n][f[n - 1]]
    OBVIOUS
  <2> HIDE DEF f
  <2>2. Built(f, S, a, step, 0)
    BY <2>1 DEF Built
  <2> QED BY <2>2
<1>2. ASSUME NEW k \in 1..N, k - 1 \in T PROVE k \in T
  <2> DEFINE j == k - 1
  <2>1. PICK f : Built(f, S, a, step, j)
    BY <1>2
  <2>2. j \in 0..N /\ k = j + 1
    OBVIOUS
  <2> HIDE DEF j
  <2>3. f \in [0..j -> S] /\ f[0] = a /\ \A n \in 1..j : f[n] = step[n][f[n - 1]]
    BY <2>1 DEF Built
  <2> DEFINE g == [n \in 0..k |-> IF n <= j THEN f[n] ELSE step[k][f[j]]]
  <2>4. f[j] \in S /\ step[k] \in [S -> S]
    BY <2>2, <2>3
  <2>5. step[k][f[j]] \in S
    BY <2>4
  <2>6. g \in [0..k -> S]
    BY <2>2, <2>3, <2>5
  <2>7. g[0] = a
    BY <2>2, <2>3
  <2>8. ASSUME NEW n \in 1..k PROVE g[n] = step[n][g[n - 1]]
    <3>1. CASE n = k
      <4>1. g[n] = step[k][f[j]] /\ g[n - 1] = f[j]
        BY <2>2, <3>1
      <4> QED BY <3>1, <4>1
    <3>2. CASE n # k
      <4>1. n \in 1..j /\ n - 1 \in 0..j
        BY <2>2, <3>2
      <4>2. g[n] = f[n] /\ g[n - 1] = f[n - 1]
        BY <2>2, <4>1
      <4>3. f[n] = step[n][f[n - 1]]
        BY <2>3, <4>1
      <4> QED BY <4>2, <4>3
    <3> QED BY <3>1, <3>2
  <2> HIDE DEF g
  <2>9. Built(g, S, a, step, k)
    BY <2>6, <2>7, <2>8 DEF Built
  <2> QED BY <2>9
<1> HIDE DEF T
<1>3. \A n \in 0..N : n \in T
  BY <1>1, <1>2, InductionTo
<1>4. N \in T
  BY <1>3
<1> QED BY <1>4 DEF T

-----------------------------------------------------------------------------
(* The recursive functions of SseStream, unfolded. *)

\* What one byte adds to the values.
One(text, i) ==
  IF text[i] \in Payloads /\ LineAt(text, i) = {i} THEN <<text[i]>> ELSE <<>>

LEMMA ValuesUnfold ==
  ASSUME NEW text, NEW N \in Nat, N = Len(text)
  PROVE  /\ ValuesUpTo(text, 0) = <<>>
         /\ \A i \in 1..N : ValuesUpTo(text, i) = ValuesUpTo(text, i - 1) \o One(text, i)
         /\ \A i \in 0..N : ValuesUpTo(text, i) \in Seq(Payloads)
<1> DEFINE S == Seq(Payloads)
           Rec(f) == f = [i \in 0..Len(text) |->
                            IF i = 0 THEN <<>>
                            ELSE f[i - 1] \o (IF text[i] \in Payloads /\ LineAt(text, i) = {i}
                                              THEN <<text[i]>> ELSE <<>>)]
           values == CHOOSE f : Rec(f)
           step == [i \in 1..N |-> [s \in S |-> s \o One(text, i)]]
<1>0. <<>> \in S /\ \A s, t \in S : s \o t \in S
  OBVIOUS
<1>1. \A i \in 1..N : One(text, i) \in S
  BY DEF One
<1> HIDE DEF S
<1>2. step \in [1..N -> [S -> S]]
  BY <1>0, <1>1
<1> HIDE DEF step
<1>3. PICK f : Built(f, S, <<>>, step, N)
  BY <1>0, <1>2, RecursionExists
<1>4. f \in [0..N -> S] /\ f[0] = <<>> /\ \A n \in 1..N : f[n] = step[n][f[n - 1]]
  BY <1>3 DEF Built
<1>5. ASSUME NEW n \in 1..N PROVE f[n] = f[n - 1] \o One(text, n)
  <2>1. n - 1 \in 0..N
    OBVIOUS
  <2>2. f[n - 1] \in S
    BY <1>4, <2>1
  <2> QED BY <1>4, <2>2 DEF step
<1>6. Rec(f)
  <2> DEFINE g == [i \in 0..N |-> IF i = 0 THEN <<>> ELSE f[i - 1] \o One(text, i)]
  <2>1. f = [i \in 0..N |-> f[i]]
    BY <1>4
  <2>2. \A i \in 0..N : f[i] = g[i]
    BY <1>4, <1>5
  <2>3. f = g
    BY <2>1, <2>2
  <2> QED BY <2>3 DEF One
<1>7. Rec(values)
  BY <1>6
<1>8. \A n : ValuesUpTo(text, n) = values[n]
  BY DEF ValuesUpTo
<1> HIDE DEF values
<1>9. values[0] = <<>> /\ \A n \in 1..N : values[n] = values[n - 1] \o One(text, n)
  BY <1>7 DEF One
<1>10. \A n \in 0..N : values[n] \in S
  <2> DEFINE T == {n \in 0..N : values[n] \in S}
  <2>1. 0 \in T
    BY <1>0, <1>9
  <2>2. ASSUME NEW n \in 1..N, n - 1 \in T PROVE n \in T
    <3>1. values[n - 1] \in S /\ One(text, n) \in S
      BY <1>1, <2>2
    <3>2. values[n - 1] \o One(text, n) \in S
      BY <1>0, <3>1
    <3>3. values[n] = values[n - 1] \o One(text, n)
      BY <1>9
    <3>4. values[n] \in S /\ n \in 0..N
      BY <3>2, <3>3
    <3> QED BY <3>4
  <2> HIDE DEF T
  <2>3. \A n \in 0..N : n \in T
    BY <2>1, <2>2, InductionTo
  <2> QED BY <2>3 DEF T
<1> QED BY <1>8, <1>9, <1>10 DEF S

\* How the block that goes on after n bytes is found.
LEMMA BlockStartUnfold ==
  ASSUME NEW text, NEW N \in Nat, N = Len(text)
  PROVE  /\ BlockStart(text)[0] = 1
         /\ \A n \in 1..N : BlockStart(text)[n] = IF Ends(text, BlockStart(text)[n - 1], n) = {}
                                                  THEN BlockStart(text)[n - 1] ELSE n + 1
         /\ \A n \in 0..N : BlockStart(text)[n] \in 1..(n + 1)
<1> DEFINE S == Nat
           Next1(n, first) == IF Ends(text, first, n) = {} THEN first ELSE n + 1
           Rec(f) == f = [n \in 0..Len(text) |->
                            IF n = 0 THEN 1
                            ELSE LET first == f[n - 1]
                                 IN  IF Ends(text, first, n) = {} THEN first ELSE n + 1]
           start == CHOOSE f : Rec(f)
           step == [n \in 1..N |-> [s \in S |-> Next1(n, s)]]
<1>1. \A n \in 1..N : \A s \in S : Next1(n, s) \in S
  OBVIOUS
<1>2. step \in [1..N -> [S -> S]]
  BY <1>1
<1> HIDE DEF step
<1>3. PICK f : Built(f, S, 1, step, N)
  BY <1>2, RecursionExists
<1>4. f \in [0..N -> S] /\ f[0] = 1 /\ \A n \in 1..N : f[n] = step[n][f[n - 1]]
  BY <1>3 DEF Built
<1>5. ASSUME NEW n \in 1..N PROVE f[n] = Next1(n, f[n - 1])
  <2>1. n - 1 \in 0..N
    OBVIOUS
  <2>2. f[n - 1] \in S
    BY <1>4, <2>1
  <2> QED BY <1>4, <2>2 DEF step
<1>6. Rec(f)
  <2> DEFINE g == [n \in 0..N |-> IF n = 0 THEN 1 ELSE Next1(n, f[n - 1])]
  <2>1. f = [n \in 0..N |-> f[n]]
    BY <1>4
  <2>2. ASSUME NEW n \in 0..N PROVE f[n] = g[n]
    <3>1. CASE n = 0
      BY <1>4, <3>1
    <3>2. CASE n # 0
      <4>1. n \in 1..N
        BY <3>2
      <4>2. f[n] = Next1(n, f[n - 1])
        BY <1>5, <4>1
      <4> HIDE DEF Next1
      <4> QED BY <3>2, <4>2
    <3> QED BY <3>1, <3>2
  <2>3. f = g
    BY <2>1, <2>2
  <2> QED BY <2>3
<1>7. Rec(start)
  BY <1>6
<1>8. BlockStart(text) = start
  BY DEF BlockStart
<1> HIDE DEF start
<1>9. start[0] = 1 /\ \A n \in 1..N : start[n] = Next1(n, start[n - 1])
  BY <1>7
<1>10. \A n \in 0..N : start[n] \in 1..(n + 1)
  <2> DEFINE T == {n \in 0..N : start[n] \in 1..(n + 1)}
  <2>1. 0 \in T
    BY <1>9
  <2>2. ASSUME NEW n \in 1..N, n - 1 \in T PROVE n \in T
    BY <1>9, <2>2
  <2> HIDE DEF T
  <2>3. \A n \in 0..N : n \in T
    BY <2>1, <2>2, InductionTo
  <2> QED BY <2>3 DEF T
<1> QED BY <1>8, <1>9, <1>10

\* How a block is read: what its lines gave, and the line it is in.
ReadState == [block : [ok : BOOLEAN, values : Seq(Bytes)], line : Seq(Bytes)]

ReadByte(c, before) ==
  IF c = LF THEN [block |-> ReadLine(before.block, before.line), line |-> <<>>]
  ELSE [block |-> before.block, line |-> Append(before.line, c)]

Reads(event, read) ==
  /\ read[0] = [block |-> [ok |-> TRUE, values |-> <<>>], line |-> <<>>]
  /\ \A n \in 1..Len(event) : read[n] = ReadByte(event[n], read[n - 1])
  /\ \A n \in 0..Len(event) : read[n] \in ReadState
  /\ parse_event_block(event) = ReadLine(read[Len(event)].block, read[Len(event)].line)

\* A line without the carriage returns around it is bytes.
LEMMA TrimType ==
  ASSUME NEW line \in Seq(Bytes)
  PROVE  /\ Trim(line) \in Seq(Bytes)
         /\ IsData(Trim(line)) => Len(Trim(line)) >= 1
<1> DEFINE kept == {i \in 1..Len(line) : line[i] # CR}
<1>1. CASE kept = {}
  BY <1>1 DEF Trim, IsData
<1>2. CASE kept # {}
  <2>1. Min(kept) \in 1..Len(line) /\ Max(kept) \in 1..Len(line) /\ Min(kept) <= Max(kept)
    <3>1. Len(line) \in Nat /\ kept \in SUBSET Nat /\ kept \in SUBSET (1..Len(line))
      OBVIOUS
    <3> QED BY <1>2, <3>1, MinIsLeast, MaxIsGreatest
  <2>2. Trim(line) = SubSeq(line, Min(kept), Max(kept))
    BY <1>2 DEF Trim
  <2> HIDE DEF kept
  <2> QED BY <2>1, <2>2
<1> QED BY <1>1, <1>2

LEMMA ReadLineType ==
  ASSUME NEW block \in [ok : BOOLEAN, values : Seq(Bytes)], NEW line \in Seq(Bytes)
  PROVE  ReadLine(block, line) \in [ok : BOOLEAN, values : Seq(Bytes)]
<1>1. CASE ~IsData(Trim(line)) \/ Trim(line) = <<Done>>
  BY <1>1 DEF ReadLine
<1>2. CASE ~(~IsData(Trim(line)) \/ Trim(line) = <<Done>>)
  <2>1. Trim(line)[1] \in Bytes
    BY <1>2, TrimType
  <2>2. Append(block.values, Trim(line)[1]) \in Seq(Bytes)
    BY <2>1
  <2>3. (block.ok /\ IsJson(Trim(line))) \in BOOLEAN
    BY DEF IsJson
  <2> QED BY <1>2, <2>2, <2>3 DEF ReadLine
<1> QED BY <1>1, <1>2

\* A block is read byte by byte.
LEMMA ReadUnfold ==
  ASSUME NEW event \in Seq(Bytes)
  PROVE  \E read : Reads(event, read)
<1> DEFINE N == Len(event)
           a == [block |-> [ok |-> TRUE, values |-> <<>>], line |-> <<>>]
           Rec(f) == f = [n \in 0..Len(event) |->
                            IF n = 0 THEN a
                            ELSE LET before == f[n - 1]
                                 IN  IF event[n] = LF
                                     THEN [block |-> ReadLine(before.block, before.line), line |-> <<>>]
                                     ELSE [block |-> before.block, line |-> Append(before.line, event[n])]]
           read == CHOOSE f : Rec(f)
           step == [n \in 1..N |-> [s \in ReadState |-> ReadByte(event[n], s)]]
<1>0. N \in Nat /\ N = Len(event) /\ \A n \in 1..N : event[n] \in Bytes
  OBVIOUS
<1>1. a \in ReadState
  BY DEF ReadState
<1>2. ASSUME NEW c \in Bytes, NEW s \in ReadState PROVE ReadByte(c, s) \in ReadState
  <2>1. s.block \in [ok : BOOLEAN, values : Seq(Bytes)] /\ s.line \in Seq(Bytes)
    BY DEF ReadState
  <2>2. ReadLine(s.block, s.line) \in [ok : BOOLEAN, values : Seq(Bytes)]
    BY <2>1, ReadLineType
  <2>3. Append(s.line, c) \in Seq(Bytes) /\ <<>> \in Seq(Bytes)
    BY <2>1
  <2> QED BY <2>1, <2>2, <2>3 DEF ReadByte, ReadState
<1>3. step \in [1..N -> [ReadState -> ReadState]]
  BY <1>0, <1>2
<1> HIDE DEF step, N
<1>4. PICK f : Built(f, ReadState, a, step, N)
  BY <1>0, <1>1, <1>3, RecursionExists
<1>5. f \in [0..N -> ReadState] /\ f[0] = a /\ \A n \in 1..N : f[n] = step[n][f[n - 1]]
  BY <1>4 DEF Built
<1>6. ASSUME NEW n \in 1..N PROVE f[n] = ReadByte(event[n], f[n - 1])
  <2>1. n - 1 \in 0..N
    BY <1>0
  <2>2. f[n - 1] \in ReadState
    BY <1>5, <2>1
  <2> QED BY <1>5, <2>2 DEF step
<1>7. Rec(f)
  <2> DEFINE g == [n \in 0..N |-> IF n = 0 THEN a ELSE ReadByte(event[n], f[n - 1])]
  <2>1. f = [n \in 0..N |-> f[n]]
    BY <1>5
  <2>2. ASSUME NEW n \in 0..N PROVE f[n] = g[n]
    <3>1. CASE n = 0
      BY <1>5, <3>1
    <3>2. CASE n # 0
      <4>1. n \in 1..N
        BY <1>0, <3>2
      <4>2. f[n] = ReadByte(event[n], f[n - 1])
        BY <1>6, <4>1
      <4> QED BY <3>2, <4>2
    <3> QED BY <3>1, <3>2
  <2>3. f = g
    BY <2>1, <2>2
  <2> QED BY <1>0, <2>3 DEF ReadByte
<1>8. Rec(read)
  BY <1>7
<1>9. parse_event_block(event) = ReadLine(read[N].block, read[N].line)
  BY <1>0 DEF parse_event_block
<1> HIDE DEF read
<1>10. read[0] = a
  BY <1>0, <1>8
<1>11. ASSUME NEW n \in 1..N PROVE read[n] = ReadByte(event[n], read[n - 1])
  <2>1. n \in 0..Len(event) /\ n # 0
    BY <1>0
  <2>2. read[n] = IF event[n] = LF
                  THEN [block |-> ReadLine(read[n - 1].block, read[n - 1].line), line |-> <<>>]
                  ELSE [block |-> read[n - 1].block, line |-> Append(read[n - 1].line, event[n])]
    BY <1>8, <2>1
  <2> QED BY <2>2 DEF ReadByte
<1>12. \A n \in 0..N : read[n] \in ReadState
  <2> DEFINE T == {n \in 0..N : read[n] \in ReadState}
  <2>1. 0 \in T
    BY <1>0, <1>1, <1>10
  <2>2. ASSUME NEW n \in 1..N, n - 1 \in T PROVE n \in T
    <3>1. read[n - 1] \in ReadState /\ event[n] \in Bytes
      BY <1>0, <2>2
    <3>2. read[n] = ReadByte(event[n], read[n - 1])
      BY <1>11
    <3>3. read[n] \in ReadState /\ n \in 0..N
      BY <1>0, <1>2, <3>1, <3>2
    <3> QED BY <3>3
  <2> HIDE DEF T
  <2>3. \A n \in 0..N : n \in T
    BY <1>0, <2>1, <2>2, InductionTo
  <2> QED BY <2>3 DEF T
<1>13. Reads(event, read)
  BY <1>0, <1>9, <1>10, <1>11, <1>12 DEF Reads
<1> QED BY <1>13

-----------------------------------------------------------------------------
(* A line, as the code reads it and as a stretch of the whole text. *)

\* A stretch of a sequence.
LEMMA Slice ==
  ASSUME NEW S, NEW s \in Seq(S), NEW a \in 1..(Len(s) + 1), NEW b \in (a - 1)..Len(s)
  PROVE  /\ SubSeq(s, a, b) \in Seq(S)
         /\ Len(SubSeq(s, a, b)) = b - a + 1
         /\ \A i \in 1..(b - a + 1) : SubSeq(s, a, b)[i] = s[a + i - 1]
OBVIOUS

\* Nothing of a line is after the d-th byte, or only a carriage return.
LineEnds(text, d) ==
  \/ d = Len(text)
  \/ text[d + 1] = LF
  \/ d + 2 <= Len(text) /\ text[d + 1] = CR /\ text[d + 2] = LF

LineBegins(text, c) == c = 0 \/ text[c] = LF

IsLine(text, c, d) ==
  /\ c \in 0..Len(text) /\ d \in c..Len(text)
  /\ LineBegins(text, c) /\ LineEnds(text, d)
  /\ \A i \in (c + 1)..d : text[i] # LF

Kept(text, c, d) == {i \in (c + 1)..d : text[i] # CR}

\* The positions of a line, from every place in it.
LEMMA LineAtIsTheLine ==
  ASSUME NEW text \in Seq(Bytes), NEW c, NEW d, IsLine(text, c, d), NEW i \in (c + 1)..d
  PROVE  LineAt(text, i) = Kept(text, c, d)
<1>0. /\ Len(text) \in Nat /\ DOMAIN text = 1..Len(text)
      /\ c \in 0..Len(text) /\ d \in c..Len(text) /\ i \in 1..Len(text)
      /\ \A k \in (c + 1)..d : text[k] # LF
  BY DEF IsLine
<1>1. ASSUME NEW j \in LineAt(text, i) PROVE j \in Kept(text, c, d)
  <2>1. j \in 1..Len(text) /\ text[j] # CR
    BY <1>0 DEF LineAt
  <2>2. \A k \in 1..Len(text) : k \in i..j \/ k \in j..i => text[k] # LF
    BY <1>0 DEF LineAt
  <2>3. j > c
    <3> SUFFICES ASSUME j <= c PROVE FALSE
      BY <1>0, <2>1
    <3>1. c \in 1..Len(text) /\ c \in j..i
      BY <1>0, <2>1
    <3>2. text[c] = LF
      BY <3>1 DEF IsLine, LineBegins
    <3> QED BY <2>2, <3>1, <3>2
  <2>4. j <= d
    <3> SUFFICES ASSUME j > d PROVE FALSE
      BY <1>0, <2>1
    <3>1. d + 1 \in 1..Len(text) /\ d + 1 \in i..j
      BY <1>0, <2>1
    <3>2. text[d + 1] # LF
      BY <2>2, <3>1
    <3>3. d + 2 <= Len(text) /\ text[d + 1] = CR /\ text[d + 2] = LF
      <4>1. d # Len(text)
        <5>1. d + 1 <= Len(text)
          BY <3>1
        <5>2. d \in Nat /\ Len(text) \in Nat
          BY <1>0
        <5> QED BY <5>1, <5>2
      <4> QED BY <3>2, <4>1 DEF IsLine, LineEnds
    <3>4. d + 2 \in 1..Len(text) /\ d + 2 \in i..j
      BY <1>0, <2>1, <3>3
    <3> QED BY <2>2, <3>3, <3>4
  <2> QED BY <1>0, <2>1, <2>3, <2>4 DEF Kept
<1>2. ASSUME NEW j \in Kept(text, c, d) PROVE j \in LineAt(text, i)
  BY <1>0 DEF Kept, LineAt
<1> QED BY <1>1, <1>2

\* Bytes that are no value of their own add nothing.
LEMMA QuietStretch ==
  ASSUME NEW text, Len(text) \in Nat, NEW c \in 0..Len(text), NEW d \in c..Len(text),
         \A i \in (c + 1)..d : One(text, i) = <<>>
  PROVE  ValuesUpTo(text, d) = ValuesUpTo(text, c)
<1> DEFINE T == {n \in 0..(d - c) : ValuesUpTo(text, c + n) = ValuesUpTo(text, c)}
<1>1. 0 \in T
  OBVIOUS
<1>2. ASSUME NEW n \in 1..(d - c), n - 1 \in T PROVE n \in T
  <2>1. c + n \in 1..Len(text) /\ (c + n) - 1 = c + (n - 1) /\ c + n \in (c + 1)..d
        /\ c + (n - 1) \in 0..Len(text)
    OBVIOUS
  <2>2. ValuesUpTo(text, c + n) = ValuesUpTo(text, (c + n) - 1) \o One(text, c + n)
    BY <2>1, ValuesUnfold
  <2>3. ValuesUpTo(text, (c + n) - 1) \in Seq(Payloads) /\ One(text, c + n) = <<>>
    BY <2>1, ValuesUnfold
  <2>4. ValuesUpTo(text, c + n) = ValuesUpTo(text, c + (n - 1))
    BY <2>1, <2>2, <2>3, ConcatEmptySeq
  <2> QED BY <1>2, <2>4
<1> HIDE DEF T
<1>3. \A n \in 0..(d - c) : n \in T
  BY <1>1, <1>2, InductionTo
<1> QED BY <1>3 DEF T

\* A line's text is what is kept of it, from its first to its last position.
TrimsTo(text, c, d, line) ==
  \E p, q \in Kept(text, c, d) :
    /\ \A j \in Kept(text, c, d) : p <= j /\ j <= q
    /\ Len(Trim(line)) = q - p + 1
    /\ Trim(line)[1] = text[p]

LEMMA Trimmed ==
  ASSUME NEW text \in Seq(Bytes), NEW c, NEW d, IsLine(text, c, d),
         NEW line, line = SubSeq(text, c + 1, d)
  PROVE  /\ line \in Seq(Bytes)
         /\ Kept(text, c, d) = {} => Trim(line) = <<>>
         /\ Kept(text, c, d) # {} => TrimsTo(text, c, d, line)
<1>0. /\ Len(text) \in Nat /\ c \in 0..Len(text) /\ d \in c..Len(text)
      /\ line \in Seq(Bytes) /\ Len(line) = d - c
      /\ \A i \in 1..(d - c) : line[i] = text[c + i]
  BY DEF IsLine
<1> DEFINE kept == {i \in 1..Len(line) : line[i] # CR}
<1>1. \A i \in 1..(d - c) : i \in kept <=> c + i \in Kept(text, c, d)
  BY <1>0 DEF Kept
<1>2. \A j \in Kept(text, c, d) : j - c \in 1..(d - c) /\ c + (j - c) = j
  BY <1>0 DEF Kept
<1>3. CASE Kept(text, c, d) = {}
  <2>1. kept = {}
    BY <1>0, <1>1, <1>3
  <2> QED BY <1>0, <1>3, <2>1 DEF Trim
<1>4. CASE Kept(text, c, d) # {}
  <2>1. kept # {} /\ kept \in SUBSET Nat /\ kept \in SUBSET (1..Len(line)) /\ Len(line) \in Nat
    <3>1. PICK j \in Kept(text, c, d) : TRUE
      BY <1>4
    <3>2. j - c \in 1..(d - c) /\ c + (j - c) = j
      BY <1>2
    <3>3. j - c \in kept
      BY <1>1, <3>2
    <3>4. kept # {}
      BY <3>3
    <3>5. kept \in SUBSET Nat
      OBVIOUS
    <3>6. kept \in SUBSET (1..Len(line)) /\ Len(line) \in Nat
      BY <1>0
    <3> QED BY <3>4, <3>5, <3>6
  <2> DEFINE lo == Min(kept)
             hi == Max(kept)
  <2>2. Trim(line) = SubSeq(line, lo, hi)
    BY <2>1 DEF Trim
  <2>3. lo \in kept /\ hi \in kept /\ \A y \in kept : lo <= y /\ y <= hi
    BY <2>1, MinIsLeast, MaxIsGreatest
  <2> HIDE DEF lo, hi
  <2>4. lo \in 1..(d - c) /\ hi \in 1..(d - c) /\ lo <= hi
    BY <1>0, <2>3
  <2>5. c + lo \in Kept(text, c, d) /\ c + hi \in Kept(text, c, d)
    BY <1>1, <2>3, <2>4
  <2>6. ASSUME NEW j \in Kept(text, c, d) PROVE c + lo <= j /\ j <= c + hi
    <3>1. j - c \in kept /\ j \in Int
      BY <1>0, <1>1, <1>2 DEF Kept
    <3>2. lo <= j - c /\ j - c <= hi
      BY <2>3, <3>1
    <3> QED BY <1>0, <2>4, <3>1, <3>2
  <2> HIDE DEF kept
  <2>7. Len(Trim(line)) = hi - lo + 1 /\ Trim(line)[1] = line[lo]
    <3>1. lo \in 1..(Len(line) + 1) /\ hi \in (lo - 1)..Len(line) /\ 1 \in 1..(hi - lo + 1)
          /\ lo + 1 - 1 = lo
      BY <1>0, <2>4
    <3>2. line \in Seq(Bytes)
      BY <1>0
    <3>3. /\ Len(SubSeq(line, lo, hi)) = hi - lo + 1
          /\ \A i \in 1..(hi - lo + 1) : SubSeq(line, lo, hi)[i] = line[lo + i - 1]
      BY <3>1, <3>2, Slice
    <3> QED BY <2>2, <3>1, <3>3
  <2>8. Len(Trim(line)) = (c + hi) - (c + lo) + 1
    <3>1. (c + hi) - (c + lo) + 1 = hi - lo + 1
      BY <1>0, <2>4
    <3> QED BY <2>7, <3>1
  <2>9. Trim(line)[1] = text[c + lo]
    BY <1>0, <2>4, <2>7
  <2> QED BY <1>0, <1>4, <2>5, <2>6, <2>8, <2>9 DEF TrimsTo
<1> QED BY <1>0, <1>3, <1>4

\* Nothing in a line is a value of its own, or a data line that goes on.
LEMMA QuietLine ==
  ASSUME NEW text \in Seq(Bytes), NEW c, NEW d, IsLine(text, c, d),
         \A p \in Kept(text, c, d) : Kept(text, c, d) = {p} => text[p] \notin Payloads
  PROVE  ValuesUpTo(text, d) = ValuesUpTo(text, c) \o <<>>
<1>0. Len(text) \in Nat /\ c \in 0..Len(text) /\ d \in c..Len(text)
  BY DEF IsLine
<1>1. ASSUME NEW i \in (c + 1)..d PROVE One(text, i) = <<>>
  <2> SUFFICES ASSUME text[i] \in Payloads, LineAt(text, i) = {i} PROVE FALSE
    BY DEF One
  <2>1. Kept(text, c, d) = {i}
    BY LineAtIsTheLine
  <2> QED BY <2>1
<1>2. ValuesUpTo(text, d) = ValuesUpTo(text, c)
  BY <1>0, <1>1, QuietStretch
<1>3. ValuesUpTo(text, c) \in Seq(Payloads)
  BY <1>0, ValuesUnfold
<1> QED BY <1>2, <1>3, ConcatEmptySeq

\* A line with one value gives that value.
LEMMA ValueLine ==
  ASSUME NEW text \in Seq(Bytes), NEW c, NEW d, IsLine(text, c, d),
         NEW p \in Kept(text, c, d), Kept(text, c, d) = {p}, text[p] \in Payloads
  PROVE  ValuesUpTo(text, d) = ValuesUpTo(text, c) \o <<text[p]>>
<1>0. /\ Len(text) \in Nat /\ c \in 0..Len(text) /\ d \in c..Len(text)
      /\ p \in (c + 1)..d
  BY DEF IsLine, Kept
<1>1. One(text, p) = <<text[p]>>
  BY <1>0, LineAtIsTheLine DEF One
<1>2. ASSUME NEW i \in (c + 1)..d, i # p PROVE One(text, i) = <<>>
  BY <1>2, LineAtIsTheLine DEF One
<1>3. ValuesUpTo(text, p - 1) = ValuesUpTo(text, c)
  <2>1. p - 1 \in c..Len(text) /\ c \in 0..Len(text)
    BY <1>0
  <2>2. ASSUME NEW i \in (c + 1)..(p - 1) PROVE One(text, i) = <<>>
    <3>1. i \in (c + 1)..d /\ i # p
      BY <1>0
    <3> QED BY <1>2, <3>1
  <2> QED BY <1>0, <2>1, <2>2, QuietStretch
<1>4. ValuesUpTo(text, p) = ValuesUpTo(text, p - 1) \o One(text, p)
  <2>1. p \in 1..Len(text)
    BY <1>0
  <2> QED BY <1>0, <2>1, ValuesUnfold
<1>5. ValuesUpTo(text, d) = ValuesUpTo(text, p)
  <2>1. p \in 0..Len(text) /\ d \in p..Len(text)
    BY <1>0
  <2>2. ASSUME NEW i \in (p + 1)..d PROVE One(text, i) = <<>>
    <3>1. i \in (c + 1)..d /\ i # p
      BY <1>0
    <3> QED BY <1>2, <3>1
  <2> QED BY <1>0, <2>1, <2>2, QuietStretch
<1> QED BY <1>1, <1>3, <1>4, <1>5

\* What a line does to a block: its value is the one that is alone on it, and it
\* is refused if it begins with data and goes on.
LineGives(text, c, d, block, new) ==
  /\ new.ok <=> block.ok /\ \A i \in (c + 1)..d : ~IsBadLine(text, i)
  /\ \E more \in Seq(Payloads) :
       /\ ValuesUpTo(text, d) = ValuesUpTo(text, c) \o more
       /\ new.ok => new.values = block.values \o more

LEMMA LineRead ==
  ASSUME NEW text \in Seq(Bytes), NEW c, NEW d, IsLine(text, c, d),
         NEW block \in [ok : BOOLEAN, values : Seq(Bytes)]
  PROVE  LineGives(text, c, d, block, ReadLine(block, SubSeq(text, c + 1, d)))
<1> DEFINE line == SubSeq(text, c + 1, d)
           K == Kept(text, c, d)
           D == Payloads \cup {Done}
           new == ReadLine(block, line)
<1>0. /\ \A i \in (c + 1)..d : text[i] \in D => i \in K
      /\ \A i \in K : i \in (c + 1)..d /\ i \in Int
      /\ <<>> \in Seq(Payloads)
  BY BytesDiffer DEF Kept, IsLine
<1>1. ASSUME NEW i \in (c + 1)..d
      PROVE  IsBadLine(text, i) <=> text[i] \in D /\ K # {i} /\ \A j \in K : j >= i
  BY LineAtIsTheLine DEF IsBadLine
<1>2. block.values \o <<>> = block.values
  BY ConcatEmptySeq
<1>3. CASE K = {}
  <2>1. new = block
    BY <1>3, Trimmed DEF ReadLine, IsData
  <2>2. \A i \in (c + 1)..d : ~IsBadLine(text, i)
    BY <1>0, <1>1, <1>3
  <2>3. ValuesUpTo(text, d) = ValuesUpTo(text, c) \o <<>>
    BY <1>3, QuietLine
  <2> QED BY <1>0, <1>2, <2>1, <2>2, <2>3 DEF LineGives
<1>4. CASE K # {}
  <2>0. line \in Seq(Bytes) /\ TrimsTo(text, c, d, line)
    BY <1>4, Trimmed
  <2>1. PICK p, q \in K : /\ \A j \in K : p <= j /\ j <= q
                          /\ Len(Trim(line)) = q - p + 1
                          /\ Trim(line)[1] = text[p]
    BY <2>0 DEF TrimsTo
  <2>2. p \in Int /\ q \in Int /\ p <= q /\ p \in (c + 1)..d
    BY <1>0, <2>1
  <2>3. Trim(line) \in Seq(Bytes) /\ Trim(line) # <<>>
    <3>1. Trim(line) \in Seq(Bytes)
      BY <2>0, TrimType
    <3> QED BY <2>1, <2>2, <3>1
  <2>4. IsData(Trim(line)) <=> text[p] \in D
    BY <2>1, <2>3 DEF IsData
  <2>5. (p = q) <=> K = {p}
    <3> HIDE DEF K, line
    <3>1. ASSUME p = q, NEW j \in K PROVE j = p
      <4>1. j \in Int /\ p <= j /\ j <= p
        BY <1>0, <2>1, <3>1
      <4> QED BY <2>2, <4>1
    <3> QED BY <2>1, <3>1
  <2>6. IsJson(Trim(line)) <=> p = q
    <3> HIDE DEF K, line
    <3>1. Len(Trim(line)) = q - p + 1
      BY <2>1
    <3> QED BY <2>2, <3>1 DEF IsJson
  <2>7. Trim(line) = <<Done>> <=> p = q /\ text[p] = Done
    <3> HIDE DEF K, line
    <3>1. Trim(line) = <<Done>> <=> Len(Trim(line)) = 1 /\ Trim(line)[1] = Done
      BY <2>3
    <3>2. Len(Trim(line)) = 1 <=> p = q
      BY <2>6 DEF IsJson
    <3>3. Trim(line)[1] = text[p]
      BY <2>1
    <3> QED BY <3>1, <3>2, <3>3
  <2>8. \A i \in (c + 1)..d : IsBadLine(text, i) <=> i = p /\ text[p] \in D /\ p # q
    <3> SUFFICES ASSUME NEW i \in (c + 1)..d
                 PROVE  IsBadLine(text, i) <=> i = p /\ text[p] \in D /\ p # q
      OBVIOUS
    <3>1. ASSUME IsBadLine(text, i) PROVE i = p /\ text[p] \in D /\ p # q
      <4>1. text[i] \in D /\ K # {i} /\ i \in K /\ i <= p
        BY <1>0, <1>1, <3>1
      <4>2. p <= i /\ i \in Int
        BY <1>0, <2>1, <4>1
      <4>3. i = p
        BY <2>2, <4>1, <4>2
      <4> QED BY <2>5, <4>1, <4>3
    <3>2. ASSUME i = p, text[p] \in D, p # q PROVE IsBadLine(text, i)
      <4>1. K # {i} /\ \A j \in K : j >= i
        BY <1>0, <2>1, <2>2, <2>5, <3>2
      <4> QED BY <1>1, <3>2, <4>1
    <3> QED BY <3>1, <3>2
  <2> HIDE DEF K, D, line
  <2>9. CASE text[p] \notin D \/ (p = q /\ text[p] = Done)
    <3>1. new = block
      BY <2>4, <2>7, <2>9 DEF ReadLine
    <3>2. \A i \in (c + 1)..d : ~IsBadLine(text, i)
      BY <2>8, <2>9
    <3>3. \A r \in K : K = {r} => text[r] \notin Payloads
      <4>1. text[p] \notin Payloads
        BY <2>9, BytesDiffer DEF D
      <4> QED BY <2>1, <4>1
    <3>4. ValuesUpTo(text, d) = ValuesUpTo(text, c) \o <<>>
      BY <3>3, QuietLine DEF K
    <3> QED BY <1>0, <1>2, <3>1, <3>2, <3>4 DEF LineGives, line
  <2>10. CASE p = q /\ text[p] \in Payloads
    <3>1. new = [ok |-> block.ok /\ IsJson(Trim(line)), values |-> Append(block.values, text[p])]
      <4>1. text[p] # Done /\ text[p] \in D
        BY <2>10, BytesDiffer DEF D
      <4> QED BY <2>1, <2>4, <2>7, <4>1 DEF ReadLine
    <3>2. new.ok <=> block.ok
      BY <2>6, <2>10, <3>1
    <3>3. new.values = block.values \o <<text[p]>>
      <4>1. new.values = Append(block.values, text[p])
        BY <3>1
      <4>2. text[p] \in Bytes /\ block.values \in Seq(Bytes)
        BY <2>10 DEF Bytes
      <4> HIDE DEF new
      <4> QED BY <4>1, <4>2, AppendIsConcat
    <3>4. \A i \in (c + 1)..d : ~IsBadLine(text, i)
      BY <2>8, <2>10
    <3>5. ValuesUpTo(text, d) = ValuesUpTo(text, c) \o <<text[p]>>
      BY <2>1, <2>5, <2>10, ValueLine DEF K
    <3>6. <<text[p]>> \in Seq(Payloads)
      BY <2>10
    <3> QED BY <3>2, <3>3, <3>4, <3>5, <3>6 DEF LineGives, line
  <2>11. CASE p # q /\ text[p] \in D
    <3>1. ~new.ok
      BY <2>4, <2>6, <2>7, <2>11 DEF ReadLine
    <3>2. IsBadLine(text, p)
      BY <2>2, <2>8, <2>11
    <3>3. \A r \in K : K = {r} => text[r] \notin Payloads
      BY <2>1, <2>5, <2>11
    <3>4. ValuesUpTo(text, d) = ValuesUpTo(text, c) \o <<>>
      BY <3>3, QuietLine DEF K
    <3> QED BY <1>0, <2>2, <3>1, <3>2, <3>4 DEF LineGives, line
  <2> QED BY <2>9, <2>10, <2>11 DEF D
<1> QED BY <1>3, <1>4

-----------------------------------------------------------------------------
(* A block: whole lines of a text. *)

\* What a block gives is what the text says there.
Gives(text, a, b, block) ==
  /\ block.ok <=> \A i \in (a + 1)..b : ~IsBadLine(text, i)
  /\ \E more \in Seq(Payloads) :
       /\ ValuesUpTo(text, b) = ValuesUpTo(text, a) \o more
       /\ block.ok => block.values = more

\* One line more.
LEMMA OneMoreLine ==
  ASSUME NEW text \in Seq(Bytes), NEW a \in 0..Len(text), NEW c \in a..Len(text),
         NEW d \in c..Len(text), NEW block, NEW new,
         Gives(text, a, c, block), LineGives(text, c, d, block, new)
  PROVE  Gives(text, a, d, new)
<1>0. Len(text) \in Nat
  OBVIOUS
<1>1. new.ok <=> \A i \in (a + 1)..d : ~IsBadLine(text, i)
  <2>1. \A i \in (a + 1)..d : i \in (a + 1)..c \/ i \in (c + 1)..d
    BY <1>0
  <2>2. \A i : i \in (a + 1)..c \/ i \in (c + 1)..d => i \in (a + 1)..d
    BY <1>0
  <2> QED BY <2>1, <2>2 DEF Gives, LineGives
<1>2. PICK first \in Seq(Payloads) : /\ ValuesUpTo(text, c) = ValuesUpTo(text, a) \o first
                                     /\ block.ok => block.values = first
  BY DEF Gives
<1>3. PICK more \in Seq(Payloads) : /\ ValuesUpTo(text, d) = ValuesUpTo(text, c) \o more
                                    /\ new.ok => new.values = block.values \o more
  BY DEF LineGives
<1>4. ValuesUpTo(text, a) \in Seq(Payloads)
  BY <1>0, ValuesUnfold
<1>5. first \o more \in Seq(Payloads)
  OBVIOUS
<1>6. ValuesUpTo(text, d) = ValuesUpTo(text, a) \o (first \o more)
  BY <1>2, <1>3, <1>4, ConcatAssociative
<1>7. new.ok => block.ok
  BY DEF LineGives
<1>8. new.ok => new.values = first \o more
  BY <1>2, <1>3, <1>7
<1> QED BY <1>1, <1>5, <1>6, <1>8 DEF Gives

\* The bytes between lines give nothing.
LEMMA BetweenLines ==
  ASSUME NEW text \in Seq(Bytes), NEW a \in 0..Len(text), NEW c \in a..Len(text),
         NEW d \in c..Len(text), NEW block,
         Gives(text, a, c, block),
         \A i \in (c + 1)..d : text[i] \in {CR, LF}
  PROVE  Gives(text, a, d, block)
<1>0. Len(text) \in Nat
  OBVIOUS
<1>1. \A i \in (c + 1)..d : text[i] \notin Payloads \cup {Done}
  BY BytesDiffer
<1>2. \A i \in (c + 1)..d : ~IsBadLine(text, i) /\ One(text, i) = <<>>
  BY <1>1 DEF IsBadLine, One
<1>3. ValuesUpTo(text, d) = ValuesUpTo(text, c)
  BY <1>0, <1>2, QuietStretch
<1>4. (\A i \in (a + 1)..c : ~IsBadLine(text, i)) <=> \A i \in (a + 1)..d : ~IsBadLine(text, i)
  <2>1. \A i \in (a + 1)..d : i \in (a + 1)..c \/ i \in (c + 1)..d
    BY <1>0
  <2>2. \A i : i \in (a + 1)..c => i \in (a + 1)..d
    BY <1>0
  <2> QED BY <1>2, <2>1, <2>2
<1> QED BY <1>3, <1>4 DEF Gives

IsBlock(text, a, b) ==
  a \in 0..Len(text) /\ b \in a..Len(text) /\ LineBegins(text, a) /\ LineEnds(text, b)

\* What is read of a block up to its n-th byte.
ReadUpTo(text, a, n, read) ==
  \E c \in a..(a + n) :
    /\ LineBegins(text, c) /\ \A i \in (c + 1)..(a + n) : text[i] # LF
    /\ read.line = SubSeq(text, c + 1, a + n)
    /\ Gives(text, a, c, read.block)

LEMMA BlockRead ==
  ASSUME NEW text \in Seq(Bytes), NEW a, NEW b, IsBlock(text, a, b)
  PROVE  /\ SubSeq(text, a + 1, b) \in Seq(Bytes)
         /\ Gives(text, a, b, parse_event_block(SubSeq(text, a + 1, b)))
<1> DEFINE event == SubSeq(text, a + 1, b)
<1>0. /\ Len(text) \in Nat /\ a \in 0..Len(text) /\ b \in a..Len(text)
      /\ event \in Seq(Bytes) /\ Len(event) = b - a
      /\ \A i \in 1..(b - a) : event[i] = text[a + i]
      /\ LineBegins(text, a) /\ LineEnds(text, b)
  BY DEF IsBlock
<1> HIDE DEF event
<1>1. PICK read : Reads(event, read)
  BY <1>0, ReadUnfold
<1>2. /\ read[0] = [block |-> [ok |-> TRUE, values |-> <<>>], line |-> <<>>]
      /\ \A n \in 1..(b - a) : read[n] = ReadByte(event[n], read[n - 1])
      /\ \A n \in 0..(b - a) : read[n] \in ReadState
      /\ parse_event_block(event) = ReadLine(read[b - a].block, read[b - a].line)
  BY <1>0, <1>1 DEF Reads
<1> DEFINE T == {n \in 0..(b - a) : ReadUpTo(text, a, n, read[n])}
<1>3. 0 \in T
  <2>1. Gives(text, a, a, [ok |-> TRUE, values |-> <<>>])
    <3>1. ValuesUpTo(text, a) \in Seq(Payloads)
      BY <1>0, ValuesUnfold
    <3>2. ValuesUpTo(text, a) = ValuesUpTo(text, a) \o <<>> /\ <<>> \in Seq(Payloads)
      BY <3>1, ConcatEmptySeq
    <3>3. (a + 1)..a = {}
      BY <1>0
    <3> QED BY <3>2, <3>3 DEF Gives
  <2>2. read[0].line = SubSeq(text, a + 1, a + 0)
    BY <1>0, <1>2
  <2>3. a \in a..(a + 0) /\ (a + 1)..(a + 0) = {} /\ 0 \in 0..(b - a)
    BY <1>0
  <2>4. Gives(text, a, a, read[0].block)
    BY <1>2, <2>1
  <2>5. ReadUpTo(text, a, 0, read[0])
    <3>1. \A i \in (a + 1)..(a + 0) : text[i] # LF
      BY <2>3
    <3> QED BY <1>0, <2>2, <2>3, <2>4, <3>1 DEF ReadUpTo
  <2> QED BY <2>3, <2>5
<1>4. ASSUME NEW n \in 1..(b - a), n - 1 \in T PROVE n \in T
  <2> DEFINE m == n - 1
  <2>0. m \in 0..(b - a) /\ n = m + 1 /\ a + m \in 0..Len(text) /\ a + n = a + m + 1
        /\ a + n \in 1..Len(text) /\ n \in 0..(b - a)
    BY <1>0
  <2>1. ReadUpTo(text, a, m, read[m])
    BY <1>4
  <2>2. read[n] = ReadByte(event[n], read[m])
    BY <1>2
  <2> HIDE DEF m
  <2>3. PICK c \in a..(a + m) : /\ LineBegins(text, c) /\ \A i \in (c + 1)..(a + m) : text[i] # LF
                                /\ read[m].line = SubSeq(text, c + 1, a + m)
                                /\ Gives(text, a, c, read[m].block)
    BY <2>1 DEF ReadUpTo
  <2>4. event[n] = text[a + n]
    BY <1>0
  <2>5. c \in a..Len(text) /\ c \in Nat /\ c <= a + m /\ c \in 0..Len(text)
    BY <1>0, <2>0
  <2>6. CASE text[a + n] = LF
    <3>1. read[n] = [block |-> ReadLine(read[m].block, read[m].line), line |-> <<>>]
      BY <2>2, <2>4, <2>6 DEF ReadByte
    <3>2. IsLine(text, c, a + m)
      <4>1. a + m \in c..Len(text)
        BY <2>0, <2>5
      <4>2. LineEnds(text, a + m)
        BY <2>0, <2>6 DEF LineEnds
      <4> QED BY <2>3, <2>5, <4>1, <4>2 DEF IsLine
    <3>3. read[m].block \in [ok : BOOLEAN, values : Seq(Bytes)]
      BY <1>2, <2>0 DEF ReadState
    <3>4. LineGives(text, c, a + m, read[m].block, read[n].block)
      BY <2>3, <3>1, <3>2, <3>3, LineRead
    <3>5. Gives(text, a, a + m, read[n].block)
      <4>1. a + m \in c..Len(text)
        BY <2>0, <2>5
      <4> QED BY <1>0, <2>3, <2>5, <3>4, <4>1, OneMoreLine
    <3>6. Gives(text, a, a + n, read[n].block)
      <4>1. a + m \in a..Len(text) /\ a + n \in (a + m)..Len(text)
        BY <1>0, <2>0
      <4>2. \A i \in ((a + m) + 1)..(a + n) : text[i] \in {CR, LF}
        <5>1. \A i \in ((a + m) + 1)..(a + n) : i = a + n
          BY <1>0, <2>0
        <5> QED BY <2>6, <5>1
      <4> QED BY <1>0, <3>5, <4>1, <4>2, BetweenLines
    <3>7. read[n].line = SubSeq(text, (a + n) + 1, a + n)
      <4>1. read[n].line = <<>>
        BY <3>1
      <4>2. SubSeq(text, (a + n) + 1, a + n) = <<>>
        BY <2>0, SubSeqEmpty
      <4> QED BY <4>1, <4>2
    <3>8. a + n \in a..(a + n) /\ ((a + n) + 1)..(a + n) = {} /\ LineBegins(text, a + n)
      BY <1>0, <2>0, <2>6 DEF LineBegins
    <3> QED BY <2>0, <3>6, <3>7, <3>8 DEF ReadUpTo
  <2>7. CASE text[a + n] # LF
    <3>1. read[n] = [block |-> read[m].block, line |-> Append(read[m].line, text[a + n])]
      BY <2>2, <2>4, <2>7 DEF ReadByte
    <3>2. SubSeq(text, c + 1, a + n) = Append(SubSeq(text, c + 1, a + m), text[a + n])
      <4>1. c + 1 \in 1..Len(text) /\ a + n \in (c + 1)..Len(text) /\ (a + n) - 1 = a + m
        BY <1>0, <2>0, <2>5
      <4>2. SubSeq(text, c + 1, a + n) = SubSeq(text, c + 1, (a + n) - 1) \o <<text[a + n]>>
        BY <4>1, SubSeqRecursiveSecond
      <4>3. SubSeq(text, c + 1, a + m) \in Seq(Bytes) /\ text[a + n] \in Bytes
        BY <2>0, <2>5
      <4> QED BY <4>1, <4>2, <4>3, AppendIsConcat
    <3>3. \A i \in (c + 1)..(a + n) : text[i] # LF
      <4>1. \A i \in (c + 1)..(a + n) : i \in (c + 1)..(a + m) \/ i = a + n
        BY <1>0, <2>0, <2>5
      <4> QED BY <2>3, <2>7, <4>1
    <3>4. c \in a..(a + n)
      BY <1>0, <2>0, <2>5
    <3>5. read[n].line = SubSeq(text, c + 1, a + n) /\ read[n].block = read[m].block
      <4>1. read[n].line = Append(read[m].line, text[a + n]) /\ read[n].block = read[m].block
        BY <3>1
      <4> QED BY <2>3, <3>2, <4>1
    <3> QED BY <2>0, <2>3, <3>3, <3>4, <3>5 DEF ReadUpTo
  <2> QED BY <2>6, <2>7
<1> HIDE DEF T
<1>5. b - a \in 0..(b - a) /\ b - a \in Nat /\ a + (b - a) = b
  BY <1>0
<1>6. \A n \in 0..(b - a) : n \in T
  BY <1>3, <1>4, <1>5, InductionTo
<1>7. ReadUpTo(text, a, b - a, read[b - a])
  BY <1>5, <1>6 DEF T
<1>8. PICK c \in a..b : /\ LineBegins(text, c) /\ \A i \in (c + 1)..b : text[i] # LF
                        /\ read[b - a].line = SubSeq(text, c + 1, b)
                        /\ Gives(text, a, c, read[b - a].block)
  BY <1>5, <1>7 DEF ReadUpTo
<1>9. c \in 0..Len(text) /\ b \in c..Len(text) /\ c \in a..Len(text)
  BY <1>0
<1>10. IsLine(text, c, b)
  BY <1>0, <1>8, <1>9 DEF IsLine
<1>11. read[b - a].block \in [ok : BOOLEAN, values : Seq(Bytes)]
  BY <1>2, <1>5 DEF ReadState
<1>12. LineGives(text, c, b, read[b - a].block, parse_event_block(event))
  BY <1>2, <1>8, <1>10, <1>11, LineRead
<1>13. Gives(text, a, b, parse_event_block(event))
  BY <1>0, <1>8, <1>9, <1>12, OneMoreLine
<1> QED BY <1>0, <1>13 DEF event

-----------------------------------------------------------------------------
(* Separators: where they are in a text and which blocks they end. *)

\* A separator of w bytes begins at i.
SepAt(text, i, w) ==
  /\ i >= 1 /\ i + w - 1 <= Len(text)
  /\ \/ w = 2 /\ text[i] = LF /\ text[i + 1] = LF
     \/ w = 4 /\ text[i] = CR /\ text[i + 1] = LF /\ text[i + 2] = CR /\ text[i + 3] = LF

\* Its last byte is a line feed.
LEMMA SeparatorsEndLines ==
  ASSUME NEW text, NEW n \in Nat, NEW w \in {2, 4}, SepAt(text, n + 1 - w, w)
  PROVE  text[n] = LF
<1>1. CASE w = 2
  <2>1. text[n + 1 - 2 + 1] = LF /\ n + 1 - 2 + 1 = n
    BY <1>1 DEF SepAt
  <2> QED BY <2>1
<1>2. CASE w = 4
  <2>1. text[n + 1 - 4 + 3] = LF /\ n + 1 - 4 + 3 = n
    BY <1>2 DEF SepAt
  <2> QED BY <2>1
<1> QED BY <1>1, <1>2

\* A sequence of two or of four elements is those elements.
LEMMA TwoElements ==
  ASSUME NEW S, NEW s \in Seq(S), Len(s) = 2, NEW a \in S, NEW b \in S
  PROVE  s = <<a, b>> <=> s[1] = a /\ s[2] = b
OBVIOUS

LEMMA FourElements ==
  ASSUME NEW S, NEW s \in Seq(S), Len(s) = 4, NEW a \in S, NEW b \in S, NEW c \in S, NEW d \in S
  PROVE  s = <<a, b, c, d>> <=> s[1] = a /\ s[2] = b /\ s[3] = c /\ s[4] = d
OBVIOUS

\* Where a separator is found.
LEMMA Occurrences ==
  ASSUME NEW text \in Seq(Bytes), NEW i \in Nat \ {0}
  PROVE  /\ OccursAt(text, i, <<LF, LF>>) <=> SepAt(text, i, 2)
         /\ OccursAt(text, i, <<CR, LF, CR, LF>>) <=> SepAt(text, i, 4)
<1>0. Len(text) \in Nat /\ Len(<<LF, LF>>) = 2 /\ Len(<<CR, LF, CR, LF>>) = 4
  OBVIOUS
<1>1. OccursAt(text, i, <<LF, LF>>) <=> SepAt(text, i, 2)
  <2>1. CASE i + 1 <= Len(text)
    <3>1. /\ i \in 1..(Len(text) + 1) /\ i + 1 \in (i - 1)..Len(text) /\ (i + 1) - i + 1 = 2
          /\ i + 1 - 1 = i /\ i + 2 - 1 = i + 1
      BY <1>0, <2>1
    <3>2. /\ Len(SubSeq(text, i, i + 1)) = 2
          /\ SubSeq(text, i, i + 1)[1] = text[i] /\ SubSeq(text, i, i + 1)[2] = text[i + 1]
          /\ SubSeq(text, i, i + 1) \in Seq(Bytes)
      BY <3>1, Slice
    <3>3. SubSeq(text, i, i + 1) = <<LF, LF>> <=> text[i] = LF /\ text[i + 1] = LF
      <4>1. LF \in Bytes
        BY DEF Bytes
      <4> DEFINE piece == SubSeq(text, i, i + 1)
      <4>2. piece \in Seq(Bytes) /\ Len(piece) = 2 /\ piece[1] = text[i] /\ piece[2] = text[i + 1]
        BY <3>2
      <4> HIDE DEF piece
      <4>3. piece = <<LF, LF>> <=> piece[1] = LF /\ piece[2] = LF
        BY <4>1, <4>2, TwoElements
      <4>4. piece = <<LF, LF>> <=> text[i] = LF /\ text[i + 1] = LF
        BY <4>2, <4>3
      <4> QED BY <4>4 DEF piece
    <3> QED BY <1>0, <2>1, <3>1, <3>3 DEF OccursAt, SepAt
  <2>2. CASE ~(i + 1 <= Len(text))
    <3>1. ~(i + 2 - 1 <= Len(text))
      BY <1>0, <2>2
    <3> QED BY <1>0, <3>1 DEF OccursAt, SepAt
  <2> QED BY <2>1, <2>2
<1>2. OccursAt(text, i, <<CR, LF, CR, LF>>) <=> SepAt(text, i, 4)
  <2>1. CASE i + 3 <= Len(text)
    <3>1. /\ i \in 1..(Len(text) + 1) /\ i + 3 \in (i - 1)..Len(text) /\ (i + 3) - i + 1 = 4
          /\ i + 1 - 1 = i /\ i + 2 - 1 = i + 1 /\ i + 3 - 1 = i + 2 /\ i + 4 - 1 = i + 3
      BY <1>0, <2>1
    <3>2. /\ Len(SubSeq(text, i, i + 3)) = 4
          /\ SubSeq(text, i, i + 3)[1] = text[i] /\ SubSeq(text, i, i + 3)[2] = text[i + 1]
          /\ SubSeq(text, i, i + 3)[3] = text[i + 2] /\ SubSeq(text, i, i + 3)[4] = text[i + 3]
          /\ SubSeq(text, i, i + 3) \in Seq(Bytes)
      BY <3>1, Slice
    <3>3. SubSeq(text, i, i + 3) = <<CR, LF, CR, LF>> <=>
             text[i] = CR /\ text[i + 1] = LF /\ text[i + 2] = CR /\ text[i + 3] = LF
      <4>1. LF \in Bytes /\ CR \in Bytes
        BY DEF Bytes
      <4> DEFINE piece == SubSeq(text, i, i + 3)
      <4>2. /\ piece \in Seq(Bytes) /\ Len(piece) = 4
            /\ piece[1] = text[i] /\ piece[2] = text[i + 1]
            /\ piece[3] = text[i + 2] /\ piece[4] = text[i + 3]
        BY <3>2
      <4> HIDE DEF piece
      <4>3. piece = <<CR, LF, CR, LF>> <=>
              piece[1] = CR /\ piece[2] = LF /\ piece[3] = CR /\ piece[4] = LF
        BY <4>1, <4>2, FourElements
      <4>4. piece = <<CR, LF, CR, LF>> <=>
              text[i] = CR /\ text[i + 1] = LF /\ text[i + 2] = CR /\ text[i + 3] = LF
        BY <4>2, <4>3
      <4> QED BY <4>4 DEF piece
    <3> QED BY <1>0, <2>1, <3>1, <3>3 DEF OccursAt, SepAt
  <2>2. CASE ~(i + 3 <= Len(text))
    <3>1. ~(i + 4 - 1 <= Len(text))
      BY <1>0, <2>2
    <3> QED BY <1>0, <3>1 DEF OccursAt, SepAt
  <2> QED BY <2>1, <2>2
<1> QED BY <1>1, <1>2

\* The first separator, as the code finds it.
LEMMA Boundary ==
  ASSUME NEW text \in Seq(Bytes), NEW b, b = find_event_boundary(text)
  PROVE  /\ b.found \in BOOLEAN
         /\ ~b.found => \A i \in Nat, w \in {2, 4} : ~SepAt(text, i, w)
         /\ b.found => /\ b.idx \in Nat /\ b.len \in {2, 4} /\ SepAt(text, b.idx + 1, b.len)
                       /\ \A i \in 1..b.idx, w \in {2, 4} : ~SepAt(text, i, w)
<1> DEFINE lf == {i \in DOMAIN text : OccursAt(text, i, <<LF, LF>>)}
           crlf == {i \in DOMAIN text : OccursAt(text, i, <<CR, LF, CR, LF>>)}
<1>0. Len(text) \in Nat /\ DOMAIN text = 1..Len(text)
  OBVIOUS
<1>1. \A i \in Nat : (i \in lf <=> SepAt(text, i, 2)) /\ (i \in crlf <=> SepAt(text, i, 4))
  <2> SUFFICES ASSUME NEW i \in Nat
               PROVE  (i \in lf <=> SepAt(text, i, 2)) /\ (i \in crlf <=> SepAt(text, i, 4))
    OBVIOUS
  <2>1. CASE i \in 1..Len(text)
    <3>1. i \in Nat \ {0} /\ i \in DOMAIN text
      BY <1>0, <2>1
    <3> QED BY <3>1, Occurrences
  <2>2. CASE i \notin 1..Len(text)
    <3>1. i \notin lf /\ i \notin crlf
      BY <1>0, <2>2
    <3>2. ~SepAt(text, i, 2) /\ ~SepAt(text, i, 4)
      BY <1>0, <2>2 DEF SepAt
    <3> QED BY <3>1, <3>2
  <2> QED BY <2>1, <2>2
<1>2. lf \in SUBSET Nat /\ crlf \in SUBSET Nat /\ \A i \in lf \cup crlf : i >= 1
  BY <1>0
<1>3. find_event_boundary(text) =
        IF lf \cup crlf = {} THEN [found |-> FALSE, idx |-> 0, len |-> 0]
        ELSE IF crlf = {} \/ (lf # {} /\ Min(lf) < Min(crlf))
             THEN [found |-> TRUE, idx |-> Min(lf) - 1, len |-> 2]
             ELSE [found |-> TRUE, idx |-> Min(crlf) - 1, len |-> 4]
  BY DEF find_event_boundary
<1>4. lf # {} => Min(lf) \in lf /\ \A y \in lf : Min(lf) <= y
  BY <1>2, MinIsLeast
<1>5. crlf # {} => Min(crlf) \in crlf /\ \A y \in crlf : Min(crlf) <= y
  BY <1>2, MinIsLeast
<1> DEFINE x == Min(lf)
           y == Min(crlf)
<1>6. /\ lf # {} => x \in lf /\ \A i \in lf : x <= i
      /\ crlf # {} => y \in crlf /\ \A i \in crlf : y <= i
      /\ b = IF lf \cup crlf = {} THEN [found |-> FALSE, idx |-> 0, len |-> 0]
             ELSE IF crlf = {} \/ (lf # {} /\ x < y)
                  THEN [found |-> TRUE, idx |-> x - 1, len |-> 2]
                  ELSE [found |-> TRUE, idx |-> y - 1, len |-> 4]
  BY <1>3, <1>4, <1>5
<1> HIDE DEF lf, crlf, x, y
<1>7. CASE lf \cup crlf = {}
  BY <1>1, <1>6, <1>7
<1>8. CASE lf \cup crlf # {} /\ (crlf = {} \/ (lf # {} /\ x < y))
  <2>1. b = [found |-> TRUE, idx |-> x - 1, len |-> 2] /\ lf # {}
    BY <1>6, <1>8
  <2>2. x \in Nat /\ x >= 1 /\ SepAt(text, x, 2)
    BY <1>1, <1>2, <1>6, <2>1
  <2>3. ASSUME NEW i \in 1..(x - 1) PROVE ~SepAt(text, i, 2) /\ ~SepAt(text, i, 4)
    <3>1. i \in Nat /\ i < x
      BY <2>2
    <3>2. i \notin lf
      BY <1>2, <1>6, <2>1, <2>2, <3>1
    <3>3. i \notin crlf
      <4> SUFFICES ASSUME i \in crlf PROVE FALSE
        OBVIOUS
      <4>1. y <= i /\ y \in Nat /\ x < y
        BY <1>2, <1>6, <1>8
      <4> QED BY <2>2, <3>1, <4>1
    <3> QED BY <1>1, <3>1, <3>2, <3>3
  <2>4. x - 1 \in Nat /\ (x - 1) + 1 = x
    BY <2>2
  <2> QED BY <2>1, <2>2, <2>3, <2>4
<1>9. CASE lf \cup crlf # {} /\ ~(crlf = {} \/ (lf # {} /\ x < y))
  <2>1. b = [found |-> TRUE, idx |-> y - 1, len |-> 4] /\ crlf # {}
    BY <1>6, <1>9
  <2>2. y \in Nat /\ y >= 1 /\ SepAt(text, y, 4)
    BY <1>1, <1>2, <1>6, <2>1
  <2>3. ASSUME NEW i \in 1..(y - 1) PROVE ~SepAt(text, i, 2) /\ ~SepAt(text, i, 4)
    <3>1. i \in Nat /\ i < y
      BY <2>2
    <3>2. i \notin crlf
      BY <1>2, <1>6, <2>1, <2>2, <3>1
    <3>3. i \notin lf
      <4> SUFFICES ASSUME i \in lf PROVE FALSE
        OBVIOUS
      <4>1. x <= i /\ x \in Nat /\ ~(x < y)
        BY <1>2, <1>6, <1>9
      <4> QED BY <2>2, <3>1, <4>1
    <3> QED BY <1>1, <3>1, <3>2, <3>3
  <2>4. y - 1 \in Nat /\ (y - 1) + 1 = y
    BY <2>2
  <2> QED BY <2>1, <2>2, <2>3, <2>4
<1> QED BY <1>7, <1>8, <1>9

\* The separators that end with a byte.
LEMMA EndsAreSeparators ==
  ASSUME NEW text \in Seq(Bytes), NEW first \in Nat \ {0}, NEW n \in 1..Len(text)
  PROVE  /\ \A sep \in Ends(text, first, n) :
              /\ Len(sep) \in {2, 4} /\ first + Len(sep) <= n + 1
              /\ SepAt(text, n + 1 - Len(sep), Len(sep))
         /\ \A w \in {2, 4} : first + w <= n + 1 /\ SepAt(text, n + 1 - w, w) =>
              Ends(text, first, n) # {}
<1>0. Len(text) \in Nat /\ Len(<<LF, LF>>) = 2 /\ Len(<<CR, LF, CR, LF>>) = 4
  OBVIOUS
<1>1. \A w \in {2, 4} : first + w <= n + 1 => n + 1 - w \in Nat \ {0}
  BY <1>0
<1>2. first + 2 <= n + 1 => (OccursAt(text, n + 1 - 2, <<LF, LF>>) <=> SepAt(text, n + 1 - 2, 2))
  BY <1>1, Occurrences
<1>3. first + 4 <= n + 1 =>
        (OccursAt(text, n + 1 - 4, <<CR, LF, CR, LF>>) <=> SepAt(text, n + 1 - 4, 4))
  BY <1>1, Occurrences
<1>4. ASSUME NEW sep \in Ends(text, first, n)
      PROVE  /\ Len(sep) \in {2, 4} /\ first + Len(sep) <= n + 1
             /\ SepAt(text, n + 1 - Len(sep), Len(sep))
  <2>1. /\ sep = <<LF, LF>> \/ sep = <<CR, LF, CR, LF>>
        /\ first + Len(sep) <= n + 1 /\ OccursAt(text, n + 1 - Len(sep), sep)
    BY DEF Ends, Separators
  <2>2. CASE sep = <<LF, LF>>
    BY <1>0, <1>2, <2>1, <2>2
  <2>3. CASE sep = <<CR, LF, CR, LF>>
    BY <1>0, <1>3, <2>1, <2>3
  <2> QED BY <2>1, <2>2, <2>3
<1>5. ASSUME first + 2 <= n + 1, SepAt(text, n + 1 - 2, 2) PROVE <<LF, LF>> \in Ends(text, first, n)
  BY <1>0, <1>2, <1>5 DEF Ends, Separators
<1>6. ASSUME first + 4 <= n + 1, SepAt(text, n + 1 - 4, 4)
      PROVE  <<CR, LF, CR, LF>> \in Ends(text, first, n)
  BY <1>0, <1>3, <1>6 DEF Ends, Separators
<1> QED BY <1>4, <1>5, <1>6

-----------------------------------------------------------------------------
(* Cutting the blocks off from the left. *)

\* No separator that begins after the m-th byte ends within n bytes.
Unbroken(text, m, n) ==
  \A i \in (m + 1)..n : \A w \in {2, 4} : m + 1 + w <= i + 1 => ~SepAt(text, i + 1 - w, w)

\* A block goes on as long as no separator ends.
LEMMA BlockGoesOn ==
  ASSUME NEW text \in Seq(Bytes), NEW m \in 0..Len(text), NEW n \in m..Len(text),
         BlockStart(text)[m] = m + 1, Unbroken(text, m, n)
  PROVE  \A i \in m..n : BlockStart(text)[i] = m + 1
<1>0. Len(text) \in Nat
  OBVIOUS
<1> DEFINE T == {k \in 0..(n - m) : BlockStart(text)[m + k] = m + 1}
<1>1. 0 \in T
  OBVIOUS
<1>2. ASSUME NEW k \in 1..(n - m), k - 1 \in T PROVE k \in T
  <2>1. /\ m + k \in 1..Len(text) /\ (m + k) - 1 = m + (k - 1) /\ m + k \in (m + 1)..n
        /\ m + 1 \in Nat \ {0} /\ k \in 0..(n - m)
    BY <1>0
  <2>2. BlockStart(text)[(m + k) - 1] = m + 1
    BY <1>2, <2>1
  <2>3. Ends(text, m + 1, m + k) = {}
    <3> SUFFICES ASSUME NEW sep \in Ends(text, m + 1, m + k) PROVE FALSE
      OBVIOUS
    <3>1. /\ Len(sep) \in {2, 4} /\ m + 1 + Len(sep) <= m + k + 1
          /\ SepAt(text, m + k + 1 - Len(sep), Len(sep))
      BY <2>1, EndsAreSeparators
    <3> QED BY <2>1, <3>1 DEF Unbroken
  <2>4. BlockStart(text)[m + k] = m + 1
    BY <1>0, <2>1, <2>2, <2>3, BlockStartUnfold
  <2> QED BY <2>1, <2>4
<1> HIDE DEF T
<1>3. \A k \in 0..(n - m) : k \in T
  <2>1. n - m \in Nat
    BY <1>0
  <2> QED BY <1>1, <1>2, <2>1, InductionTo
<1>4. ASSUME NEW i \in m..n PROVE BlockStart(text)[i] = m + 1
  <2>1. i - m \in 0..(n - m) /\ m + (i - m) = i
    OBVIOUS
  <2> QED BY <1>3, <2>1 DEF T
<1> QED BY <1>4

\* No two separators end at once.
LEMMA OneSeparator ==
  ASSUME NEW text, NEW n \in Nat, SepAt(text, n + 1 - 2, 2), SepAt(text, n + 1 - 4, 4)
  PROVE  FALSE
<1>1. text[n + 1 - 2] = LF
  BY DEF SepAt
<1>2. text[n + 1 - 4 + 2] = CR /\ n + 1 - 4 + 2 = n + 1 - 2
  BY DEF SepAt
<1> QED BY <1>1, <1>2, BytesDiffer

\* Every block that a separator ends within n bytes is in the limit.
BlocksFit(text, n) ==
  \A i \in 1..n : \A sep \in Ends(text, BlockStart(text)[i - 1], i) :
    i + 1 - Len(sep) - BlockStart(text)[i - 1] <= MaxEvent

LEMMA GoingOnFits ==
  ASSUME NEW text \in Seq(Bytes), NEW m \in 0..Len(text), NEW n \in m..Len(text),
         \A i \in m..n : BlockStart(text)[i] = m + 1,
         BlocksFit(text, m)
  PROVE  /\ BlocksFit(text, n)
         /\ \A i \in (m + 1)..n : Ends(text, BlockStart(text)[i - 1], i) = {}
<1>0. Len(text) \in Nat
  OBVIOUS
<1>1. ASSUME NEW i \in (m + 1)..n PROVE Ends(text, BlockStart(text)[i - 1], i) = {}
  <2>1. i \in 1..Len(text) /\ i \in m..n /\ i - 1 \in m..n /\ i # m
    BY <1>0
  <2>2. BlockStart(text)[i] = m + 1 /\ BlockStart(text)[i - 1] = m + 1 /\ i + 1 # m + 1
    BY <2>1
  <2> QED BY <1>0, <2>1, <2>2, BlockStartUnfold
<1>2. \A i \in 1..n : i \in 1..m \/ i \in (m + 1)..n
  BY <1>0
<1> QED BY <1>1, <1>2 DEF BlocksFit

\* After e bytes from the m-th a separator of w bytes ends with the k-th, and it is
\* the first.
Separated(text, m, e, w, k) ==
  /\ e \in Nat /\ w \in {2, 4} /\ k = m + e + w /\ k <= Len(text)
  /\ SepAt(text, m + e + 1, w)
  /\ \A i \in 1..e : \A v \in {2, 4} : m + i + v - 1 <= k => ~SepAt(text, m + i, v)

\* The separator a block of e bytes has after it ends it.
LEMMA BlockEnds ==
  ASSUME NEW text \in Seq(Bytes), NEW m \in 0..Len(text), NEW e, NEW w, NEW k,
         BlockStart(text)[m] = m + 1, Separated(text, m, e, w, k)
  PROVE  /\ \A i \in m..(k - 1) : BlockStart(text)[i] = m + 1
         /\ BlockStart(text)[k] = k + 1
         /\ BlocksFit(text, m) /\ e <= MaxEvent => BlocksFit(text, k)
<1>a. e \in Nat /\ w \in {2, 4} /\ k = m + e + w /\ k <= Len(text)
  BY DEF Separated
<1>b. /\ SepAt(text, m + e + 1, w)
      /\ \A i \in 1..e : \A v \in {2, 4} : m + i + v - 1 <= k => ~SepAt(text, m + i, v)
  BY DEF Separated
<1> USE <1>a, <1>b
<1>0. /\ Len(text) \in Nat /\ k \in Nat /\ k \in 1..Len(text) /\ k - 1 \in m..Len(text)
      /\ k \in m..Len(text) /\ m + 1 \in Nat \ {0}
  OBVIOUS
<1>1. Unbroken(text, m, k - 1)
  <2> SUFFICES ASSUME NEW i \in (m + 1)..(k - 1), NEW v \in {2, 4}, m + 1 + v <= i + 1,
                      SepAt(text, i + 1 - v, v)
               PROVE  FALSE
    BY DEF Unbroken
  <2> DEFINE p == i + 1 - v - m
  <2>1. p \in Nat /\ p >= 1 /\ i + 1 - v = m + p /\ m + p + v - 1 <= k /\ p + v <= e + w
    BY <1>0
  <2> HIDE DEF p
  <2>2. SepAt(text, m + p, v)
    BY <2>1
  <2>3. p > e
    <3> SUFFICES ASSUME p <= e PROVE FALSE
      BY <2>1
    <3>1. p \in 1..e
      BY <2>1
    <3> QED BY <2>1, <2>2, <3>1
  <2>4. CASE p = e + 1
    <3>1. v = 2 /\ w = 4
      BY <2>1, <2>4
    <3>2. text[m + p] = LF /\ text[m + e + 1] = CR /\ m + p = m + e + 1
      BY <2>2, <2>4, <3>1 DEF SepAt
    <3> QED BY <3>2, BytesDiffer
  <2>5. CASE p = e + 2
    <3>1. v = 2 /\ w = 4
      BY <2>1, <2>5
    <3>2. /\ text[m + p + 1] = LF /\ text[m + e + 1 + 2] = CR
          /\ m + p + 1 = m + e + 1 + 2
      BY <2>2, <2>5, <3>1 DEF SepAt
    <3> QED BY <3>2, BytesDiffer
  <2>6. CASE p > e + 2
    BY <2>1, <2>6
  <2> QED BY <2>1, <2>3, <2>4, <2>5, <2>6
<1>2. \A i \in m..(k - 1) : BlockStart(text)[i] = m + 1
  BY <1>0, <1>1, BlockGoesOn
<1>3. BlockStart(text)[k - 1] = m + 1
  BY <1>0, <1>2
<1>4. m + 1 + w <= k + 1 /\ k + 1 - w = m + e + 1
  BY <1>0
<1>5. Ends(text, m + 1, k) # {}
  BY <1>0, <1>4, EndsAreSeparators
<1>6. BlockStart(text)[k] = k + 1
  BY <1>0, <1>3, <1>5, BlockStartUnfold
<1>7. ASSUME BlocksFit(text, m), e <= MaxEvent PROVE BlocksFit(text, k)
  <2>1. BlocksFit(text, k - 1)
    BY <1>0, <1>2, <1>7, GoingOnFits
  <2>2. ASSUME NEW sep \in Ends(text, BlockStart(text)[k - 1], k)
        PROVE  k + 1 - Len(sep) - BlockStart(text)[k - 1] <= MaxEvent
    <3>1. sep \in Ends(text, m + 1, k)
      BY <1>3
    <3>2. Len(sep) \in {2, 4} /\ SepAt(text, k + 1 - Len(sep), Len(sep))
      BY <1>0, <3>1, EndsAreSeparators
    <3>3. Len(sep) = w
      <4> SUFFICES ASSUME Len(sep) # w PROVE FALSE
        OBVIOUS
      <4>1. SepAt(text, k + 1 - w, w)
        BY <1>4
      <4>2. SepAt(text, k + 1 - 2, 2) /\ SepAt(text, k + 1 - 4, 4)
        <5> DEFINE v == Len(sep)
        <5>1. v \in {2, 4} /\ SepAt(text, k + 1 - v, v) /\ v # w
          BY <3>2
        <5> HIDE DEF v
        <5>2. (v = 2 /\ w = 4) \/ (v = 4 /\ w = 2)
          BY <5>1
        <5> QED BY <4>1, <5>1, <5>2
      <4> QED BY <1>0, <4>2, OneSeparator
    <3> QED BY <1>0, <1>3, <1>4, <1>7, <3>3, SizesAreNat
  <2>3. \A i \in 1..k : i \in 1..(k - 1) \/ i = k
    BY <1>0
  <2> QED BY <2>1, <2>2, <2>3 DEF BlocksFit
<1> QED BY <1>2, <1>6, <1>7

-----------------------------------------------------------------------------
(* What more bytes leave as it was. *)

Longer(text, more, longer) ==
  /\ longer \in Seq(Bytes) /\ Len(longer) = Len(text) + Len(more)
  /\ \A i \in 1..Len(text) : longer[i] = text[i]
  /\ \A i \in 1..Len(more) : longer[Len(text) + i] = more[i]

LEMMA ItIsLonger ==
  ASSUME NEW text \in Seq(Bytes), NEW more \in Seq(Bytes)
  PROVE  Longer(text, more, text \o more)
<1>1. Len(text) \in Nat /\ Len(more) \in Nat
  OBVIOUS
<1>2. \A i \in 1..Len(more) : Len(text) + i \in 1..(Len(text) + Len(more))
                              /\ ~(Len(text) + i <= Len(text)) /\ Len(text) + i - Len(text) = i
  BY <1>1
<1>3. \A i \in 1..Len(text) : i \in 1..(Len(text) + Len(more)) /\ i <= Len(text)
  BY <1>1
<1> QED BY <1>1, <1>2, <1>3, ConcatProperties DEF Longer

\* The separators and the blocks of a text.
LEMMA SeparatorsStay ==
  ASSUME NEW text \in Seq(Bytes), NEW more \in Seq(Bytes), NEW longer,
         Longer(text, more, longer), NEW i \in Nat, NEW w \in {2, 4}, i + w - 1 <= Len(text)
  PROVE  SepAt(longer, i, w) <=> SepAt(text, i, w)
<1>0. Len(text) \in Nat /\ Len(more) \in Nat /\ Len(longer) = Len(text) + Len(more)
  BY DEF Longer
<1>1. i + w - 1 <= Len(longer)
  BY <1>0
<1>2. CASE i = 0
  BY <1>2 DEF SepAt
<1>3. CASE i # 0 /\ w = 2
  <2>1. i \in 1..Len(text) /\ i + 1 \in 1..Len(text)
    BY <1>0, <1>3
  <2>2. longer[i] = text[i] /\ longer[i + 1] = text[i + 1]
    BY <2>1 DEF Longer
  <2> QED BY <1>1, <1>3, <2>2 DEF SepAt
<1>4. CASE i # 0 /\ w = 4
  <2>1. /\ i \in 1..Len(text) /\ i + 1 \in 1..Len(text) /\ i + 2 \in 1..Len(text)
        /\ i + 3 \in 1..Len(text)
    BY <1>0, <1>4
  <2>2. /\ longer[i] = text[i] /\ longer[i + 1] = text[i + 1]
        /\ longer[i + 2] = text[i + 2] /\ longer[i + 3] = text[i + 3]
    BY <2>1 DEF Longer
  <2> QED BY <1>1, <1>4, <2>2 DEF SepAt
<1> QED BY <1>2, <1>3, <1>4

LEMMA BlocksStay ==
  ASSUME NEW text \in Seq(Bytes), NEW more \in Seq(Bytes), NEW longer,
         Longer(text, more, longer)
  PROVE  /\ \A first \in Nat \ {0}, n \in 1..Len(text) :
              Ends(longer, first, n) = Ends(text, first, n)
         /\ \A n \in 0..Len(text) : BlockStart(longer)[n] = BlockStart(text)[n]
<1>0. /\ Len(text) \in Nat /\ Len(more) \in Nat /\ longer \in Seq(Bytes) /\ Len(longer) \in Nat
      /\ Len(longer) = Len(text) + Len(more)
  BY DEF Longer
<1>1. ASSUME NEW first \in Nat \ {0}, NEW n \in 1..Len(text)
      PROVE  Ends(longer, first, n) = Ends(text, first, n)
  <2>1. ASSUME NEW sep \in Separators, first + Len(sep) <= n + 1
        PROVE  OccursAt(longer, n + 1 - Len(sep), sep) <=> OccursAt(text, n + 1 - Len(sep), sep)
    <3>1. CASE sep = <<LF, LF>>
      <4>1. Len(sep) = 2 /\ n + 1 - 2 \in Nat \ {0} /\ n + 1 - 2 + 2 - 1 <= Len(text)
        BY <1>0, <2>1, <3>1
      <4> DEFINE i == n + 1 - 2
      <4>2. i \in Nat \ {0} /\ i + 2 - 1 <= Len(text)
        BY <4>1
      <4> HIDE DEF i
      <4>3. /\ OccursAt(longer, i, <<LF, LF>>) <=> SepAt(longer, i, 2)
            /\ OccursAt(text, i, <<LF, LF>>) <=> SepAt(text, i, 2)
        BY <1>0, <4>2, Occurrences
      <4>4. SepAt(longer, i, 2) <=> SepAt(text, i, 2)
        BY <4>2, SeparatorsStay
      <4>5. n + 1 - Len(sep) = i
        BY <4>1 DEF i
      <4> QED BY <3>1, <4>3, <4>4, <4>5
    <3>2. CASE sep = <<CR, LF, CR, LF>>
      <4>1. Len(sep) = 4 /\ n + 1 - 4 \in Nat \ {0} /\ n + 1 - 4 + 4 - 1 <= Len(text)
        BY <1>0, <2>1, <3>2
      <4> DEFINE i == n + 1 - 4
      <4>2. i \in Nat \ {0} /\ i + 4 - 1 <= Len(text)
        BY <4>1
      <4> HIDE DEF i
      <4>3. /\ OccursAt(longer, i, <<CR, LF, CR, LF>>) <=> SepAt(longer, i, 4)
            /\ OccursAt(text, i, <<CR, LF, CR, LF>>) <=> SepAt(text, i, 4)
        BY <1>0, <4>2, Occurrences
      <4>4. SepAt(longer, i, 4) <=> SepAt(text, i, 4)
        BY <4>2, SeparatorsStay
      <4>5. n + 1 - Len(sep) = i
        BY <4>1 DEF i
      <4> QED BY <3>2, <4>3, <4>4, <4>5
    <3> QED BY <3>1, <3>2 DEF Separators
  <2> QED BY <2>1 DEF Ends
<1> DEFINE T == {n \in 0..Len(text) : BlockStart(longer)[n] = BlockStart(text)[n]}
<1>2. 0 \in T
  BY <1>0, BlockStartUnfold
<1>3. ASSUME NEW n \in 1..Len(text), n - 1 \in T PROVE n \in T
  <2>1. n \in 0..Len(text) /\ n \in 1..Len(longer) /\ n - 1 \in 0..Len(text)
    BY <1>0
  <2>2. BlockStart(text)[n - 1] \in Nat \ {0}
    BY <1>0, <2>1, BlockStartUnfold
  <2>3. BlockStart(longer)[n - 1] = BlockStart(text)[n - 1]
    BY <1>3
  <2>4. Ends(longer, BlockStart(text)[n - 1], n) = Ends(text, BlockStart(text)[n - 1], n)
    BY <1>1, <2>2
  <2>5. BlockStart(longer)[n] = IF Ends(longer, BlockStart(longer)[n - 1], n) = {}
                                THEN BlockStart(longer)[n - 1] ELSE n + 1
    BY <1>0, <2>1, BlockStartUnfold
  <2>6. BlockStart(text)[n] = IF Ends(text, BlockStart(text)[n - 1], n) = {}
                              THEN BlockStart(text)[n - 1] ELSE n + 1
    BY <1>0, BlockStartUnfold
  <2> QED BY <2>1, <2>3, <2>4, <2>5, <2>6
<1> HIDE DEF T
<1>4. \A n \in 0..Len(text) : n \in T
  BY <1>0, <1>2, <1>3, InductionTo
<1>5. \A n \in 0..Len(text) : BlockStart(longer)[n] = BlockStart(text)[n]
  BY <1>4 DEF T
<1> QED BY <1>1, <1>5

\* The lines that are complete, and what is read on them.
LEMMA LinesStay ==
  ASSUME NEW text \in Seq(Bytes), NEW more \in Seq(Bytes), NEW longer,
         Longer(text, more, longer), NEW m \in 0..Len(text), LineBegins(text, m)
  PROVE  /\ \A i \in 1..m : IsBadLine(longer, i) <=> IsBadLine(text, i)
         /\ ValuesUpTo(longer, m) = ValuesUpTo(text, m)
<1>0. /\ Len(text) \in Nat /\ Len(more) \in Nat /\ longer \in Seq(Bytes) /\ Len(longer) \in Nat
      /\ Len(longer) = Len(text) + Len(more)
      /\ DOMAIN text = 1..Len(text) /\ DOMAIN longer = 1..Len(longer)
      /\ \A i \in 1..Len(text) : longer[i] = text[i]
  BY DEF Longer
<1>1. ASSUME NEW i \in 1..m PROVE LineAt(longer, i) = LineAt(text, i)
  <2>0. i \in 1..Len(text) /\ m \in 1..Len(text) /\ text[m] = LF
    BY <1>0 DEF LineBegins
  <2>1. ASSUME NEW j \in LineAt(longer, i) PROVE j \in LineAt(text, i)
    <3>1. /\ j \in 1..Len(longer) /\ longer[j] # CR
          /\ \A k \in 1..Len(longer) : k \in i..j \/ k \in j..i => longer[k] # LF
      BY <1>0 DEF LineAt
    <3>2. j <= Len(text)
      <4> SUFFICES ASSUME j > Len(text) PROVE FALSE
        BY <1>0, <3>1
      <4>1. m \in 1..Len(longer) /\ m \in i..j
        BY <1>0, <2>0, <3>1
      <4> QED BY <1>0, <2>0, <3>1, <4>1
    <3>3. j \in 1..Len(text) /\ text[j] # CR
      BY <1>0, <3>1, <3>2
    <3>4. \A k \in 1..Len(text) : k \in i..j \/ k \in j..i => text[k] # LF
      BY <1>0, <3>1
    <3> QED BY <1>0, <3>3, <3>4 DEF LineAt
  <2>2. ASSUME NEW j \in LineAt(text, i) PROVE j \in LineAt(longer, i)
    <3>1. /\ j \in 1..Len(text) /\ text[j] # CR
          /\ \A k \in 1..Len(text) : k \in i..j \/ k \in j..i => text[k] # LF
      BY <1>0 DEF LineAt
    <3>2. j \in 1..Len(longer) /\ longer[j] # CR
      BY <1>0, <3>1
    <3>3. ASSUME NEW k \in 1..Len(longer), k \in i..j \/ k \in j..i PROVE longer[k] # LF
      <4>1. k \in 1..Len(text)
        BY <1>0, <2>0, <3>1, <3>3
      <4> QED BY <1>0, <3>1, <3>3, <4>1
    <3> QED BY <1>0, <3>2, <3>3 DEF LineAt
  <2> QED BY <2>1, <2>2
<1>2. \A i \in 1..m : longer[i] = text[i]
  BY <1>0
<1>3. \A i \in 1..m : IsBadLine(longer, i) <=> IsBadLine(text, i)
  BY <1>1, <1>2 DEF IsBadLine
<1> DEFINE T == {n \in 0..m : ValuesUpTo(longer, n) = ValuesUpTo(text, n)}
<1>4. 0 \in T
  BY <1>0, ValuesUnfold
<1>5. ASSUME NEW n \in 1..m, n - 1 \in T PROVE n \in T
  <2>1. n \in 0..m /\ n \in 1..Len(longer) /\ n \in 1..Len(text)
    BY <1>0
  <2>2. One(longer, n) = One(text, n)
    BY <1>1, <1>2 DEF One
  <2>3. ValuesUpTo(longer, n) = ValuesUpTo(longer, n - 1) \o One(longer, n)
    BY <1>0, <2>1, ValuesUnfold
  <2>4. ValuesUpTo(text, n) = ValuesUpTo(text, n - 1) \o One(text, n)
    BY <1>0, <2>1, ValuesUnfold
  <2> QED BY <1>5, <2>1, <2>2, <2>3, <2>4
<1> HIDE DEF T
<1>6. \A n \in 0..m : n \in T
  <2>1. m \in Nat
    BY <1>0
  <2> QED BY <1>4, <1>5, <2>1, InductionTo
<1>7. m \in T
  BY <1>0, <1>6
<1> QED BY <1>3, <1>7 DEF T

\* A beginning of the values.
LEMMA ValuesGrow ==
  ASSUME NEW text, Len(text) \in Nat, NEW m \in 0..Len(text), NEW n \in m..Len(text)
  PROVE  \E more \in Seq(Payloads) : ValuesUpTo(text, n) = ValuesUpTo(text, m) \o more
<1> DEFINE T == {k \in 0..(n - m) : \E more \in Seq(Payloads) :
                     ValuesUpTo(text, m + k) = ValuesUpTo(text, m) \o more}
<1>0. ValuesUpTo(text, m) \in Seq(Payloads) /\ n - m \in Nat
  BY ValuesUnfold
<1>1. 0 \in T
  <2>1. ValuesUpTo(text, m) = ValuesUpTo(text, m) \o <<>> /\ <<>> \in Seq(Payloads)
    BY <1>0, ConcatEmptySeq
  <2>2. m + 0 = m /\ 0 \in 0..(n - m)
    BY <1>0
  <2>3. \E more \in Seq(Payloads) : ValuesUpTo(text, m + 0) = ValuesUpTo(text, m) \o more
    BY <2>1, <2>2
  <2> QED BY <2>2, <2>3
<1>2. ASSUME NEW k \in 1..(n - m), k - 1 \in T PROVE k \in T
  <2>1. /\ m + k \in 1..Len(text) /\ (m + k) - 1 = m + (k - 1) /\ k \in 0..(n - m)
    OBVIOUS
  <2>2. PICK more \in Seq(Payloads) : ValuesUpTo(text, (m + k) - 1) = ValuesUpTo(text, m) \o more
    BY <1>2, <2>1
  <2>3. One(text, m + k) \in Seq(Payloads)
    BY DEF One
  <2>4. ValuesUpTo(text, m + k) = (ValuesUpTo(text, m) \o more) \o One(text, m + k)
    BY <2>1, <2>2, ValuesUnfold
  <2>5. ValuesUpTo(text, m + k) = ValuesUpTo(text, m) \o (more \o One(text, m + k))
    <3> DEFINE s == ValuesUpTo(text, m)
               u == One(text, m + k)
    <3>1. s \in Seq(Payloads) /\ u \in Seq(Payloads)
      BY <1>0, <2>3
    <3> HIDE DEF s, u
    <3>2. (s \o more) \o u = s \o (more \o u)
      BY <3>1, ConcatAssociative
    <3> QED BY <2>4, <3>2 DEF s, u
  <2>6. more \o One(text, m + k) \in Seq(Payloads)
    BY <2>3
  <2> QED BY <2>1, <2>5, <2>6
<1> HIDE DEF T
<1>3. \A k \in 0..(n - m) : k \in T
  BY <1>0, <1>1, <1>2, InductionTo
<1>4. n - m \in 0..(n - m) /\ m + (n - m) = n
  BY <1>0
<1> QED BY <1>3, <1>4 DEF T

LEMMA ValuesArePrefixes ==
  ASSUME NEW text, Len(text) \in Nat, NEW m \in 0..Len(text), NEW n \in m..Len(text)
  PROVE  IsPrefix(ValuesUpTo(text, m), ValuesUpTo(text, n))
<1> DEFINE s == ValuesUpTo(text, m)
<1>1. s \in Seq(Payloads)
  BY ValuesUnfold
<1>2. PICK more \in Seq(Payloads) : ValuesUpTo(text, n) = s \o more
  BY ValuesGrow
<1> HIDE DEF s
<1>3. Len(s) <= Len(s \o more) /\ SubSeq(s, 1, Len(s)) = SubSeq(s \o more, 1, Len(s))
  <2>1. Len(s) \in Nat /\ Len(more) \in Nat /\ Len(s \o more) = Len(s) + Len(more)
    BY <1>1
  <2>2. CASE Len(s) = 0
    <3>1. SubSeq(s, 1, 0) = <<>> /\ SubSeq(s \o more, 1, 0) = <<>>
      BY SubSeqEmpty
    <3> QED BY <2>1, <2>2, <3>1
  <2>3. CASE Len(s) # 0
    <3>1. 1 \in 1..Len(s) /\ Len(s) \in 1..Len(s)
      BY <2>1, <2>3
    <3> QED BY <1>1, <2>1, <3>1, SubSeqOfConcat1
  <2> QED BY <2>2, <2>3
<1>4. IsPrefix(s, s \o more)
  BY <1>3 DEF IsPrefix
<1> QED BY <1>2, <1>4 DEF s

-----------------------------------------------------------------------------
(* Characters. *)

\* The first n bytes of a text are whole characters.
WholeUpTo(text, n) ==
  \A i \in 1..n : /\ text[i] = Lead => i < n /\ text[i + 1] = Cont
                  /\ text[i] = Cont => i > 1 /\ text[i - 1] = Lead

Misplaced(bytes, i) ==
  \/ bytes[i] = Lead /\ (i = Len(bytes) \/ bytes[i + 1] # Cont)
  \/ bytes[i] = Cont /\ (i = 1 \/ bytes[i - 1] # Lead)

\* from_utf8 stops at the first byte that is out of place.
LEMMA ValidUpTo ==
  ASSUME NEW bytes \in Seq(Bytes), NEW n, n = valid_up_to(bytes)
  PROVE  /\ n \in 0..Len(bytes)
         /\ \A i \in 1..n : ~Misplaced(bytes, i)
         /\ n < Len(bytes) => Misplaced(bytes, n + 1)
<1> DEFINE misplaced == {i \in DOMAIN bytes :
                           \/ bytes[i] = Lead /\ (i = Len(bytes) \/ bytes[i + 1] # Cont)
                           \/ bytes[i] = Cont /\ (i = 1 \/ bytes[i - 1] # Lead)}
<1>0. Len(bytes) \in Nat /\ DOMAIN bytes = 1..Len(bytes)
  OBVIOUS
<1>1. /\ misplaced \in SUBSET Nat
      /\ \A i \in misplaced : i \in 1..Len(bytes)
      /\ \A i \in 1..Len(bytes) : i \in misplaced <=> Misplaced(bytes, i)
  <2>1. misplaced \in SUBSET Nat /\ \A i \in misplaced : i \in 1..Len(bytes)
    BY <1>0
  <2>2. ASSUME NEW i \in 1..Len(bytes) PROVE i \in misplaced <=> Misplaced(bytes, i)
    BY <1>0 DEF Misplaced
  <2> QED BY <2>1, <2>2
<1>2. n = IF misplaced = {} THEN Len(bytes) ELSE Min(misplaced) - 1
  BY DEF valid_up_to
<1>3. misplaced # {} => Min(misplaced) \in misplaced /\ \A i \in misplaced : Min(misplaced) <= i
  BY <1>1, MinIsLeast
<1> DEFINE first == Min(misplaced)
<1> HIDE DEF misplaced, first
<1>4. CASE misplaced = {}
  <2>1. n = Len(bytes)
    BY <1>2, <1>4
  <2> QED BY <1>0, <1>1, <1>4, <2>1
<1>5. CASE misplaced # {}
  <2>1. first \in misplaced /\ \A i \in misplaced : first <= i
    BY <1>3, <1>5 DEF first
  <2>2. n = first - 1
    BY <1>2, <1>5 DEF first
  <2>3. first \in 1..Len(bytes) /\ n + 1 = first
    BY <1>0, <1>1, <2>1, <2>2
  <2>4. ASSUME NEW i \in 1..n PROVE ~Misplaced(bytes, i)
    <3>1. i \in 1..Len(bytes) /\ ~(first <= i)
      BY <1>0, <2>2, <2>3
    <3> QED BY <1>1, <2>1, <3>1
  <2> QED BY <1>0, <1>1, <2>1, <2>2, <2>3, <2>4
<1> QED BY <1>4, <1>5

\* A chunk's bytes, with those that were pending, follow the first e bytes.
Follow(text, e, bytes, longer) ==
  /\ e \in Nat /\ bytes \in Seq(Bytes) /\ longer \in Seq(Bytes)
  /\ Len(longer) = e + Len(bytes)
  /\ \A i \in 1..e : longer[i] = text[i]
  /\ \A i \in 1..Len(bytes) : longer[e + i] = bytes[i]

\* What is after the first e bytes.
IsRest(text, e, rest) ==
  /\ e \in Nat /\ rest \in Seq(Bytes) /\ Len(text) = e + Len(rest)
  /\ rest = SubSeq(text, e + 1, Len(text))

LEMMA PendingAndChunk ==
  ASSUME NEW text \in Seq(Bytes), NEW c \in Seq(Bytes), NEW rest, NEW e, IsRest(text, e, rest)
  PROVE  Follow(text, e, rest \o c, text \o c)
<1> DEFINE bytes == rest \o c
           longer == text \o c
<1>0. /\ Len(text) \in Nat /\ Len(c) \in Nat /\ Len(rest) \in Nat /\ e \in Nat
      /\ rest \in Seq(Bytes) /\ Len(text) = e + Len(rest)
  BY DEF IsRest
<1>1. /\ bytes \in Seq(Bytes) /\ Len(bytes) = Len(rest) + Len(c)
      /\ \A i \in 1..(Len(rest) + Len(c)) :
           bytes[i] = IF i <= Len(rest) THEN rest[i] ELSE c[i - Len(rest)]
  BY <1>0, ConcatProperties
<1>2. /\ longer \in Seq(Bytes) /\ Len(longer) = Len(text) + Len(c)
      /\ \A i \in 1..Len(text) : longer[i] = text[i]
      /\ \A i \in 1..Len(c) : longer[Len(text) + i] = c[i]
  BY ItIsLonger DEF Longer
<1>3. \A i \in 1..Len(rest) : rest[i] = text[e + i]
  <2>1. e + 1 \in 1..(Len(text) + 1) /\ Len(text) \in ((e + 1) - 1)..Len(text)
    BY <1>0
  <2>2. \A i \in 1..(Len(text) - (e + 1) + 1) : SubSeq(text, e + 1, Len(text))[i] = text[e + 1 + i - 1]
    BY <2>1, Slice
  <2>3. ASSUME NEW i \in 1..Len(rest) PROVE rest[i] = text[e + i]
    <3>1. i \in 1..(Len(text) - (e + 1) + 1) /\ e + 1 + i - 1 = e + i
      BY <1>0
    <3> QED BY <2>2, <3>1 DEF IsRest
  <2> QED BY <2>3
<1> HIDE DEF bytes, longer
<1>4. ASSUME NEW i \in 1..Len(bytes) PROVE longer[e + i] = bytes[i]
  <2>1. CASE i <= Len(rest)
    <3>1. i \in 1..Len(rest) /\ e + i \in 1..Len(text) /\ i \in 1..(Len(rest) + Len(c))
      BY <1>0, <1>1, <2>1
    <3> QED BY <1>1, <1>2, <1>3, <2>1, <3>1
  <2>2. CASE ~(i <= Len(rest))
    <3>1. /\ i - Len(rest) \in 1..Len(c) /\ e + i = Len(text) + (i - Len(rest))
          /\ i \in 1..(Len(rest) + Len(c))
      BY <1>0, <1>1, <2>2
    <3> QED BY <1>1, <1>2, <2>2, <3>1
  <2> QED BY <2>1, <2>2
<1>5. Len(longer) = e + Len(bytes)
  BY <1>0, <1>1, <1>2
<1>6. \A i \in 1..e : longer[i] = text[i]
  <2>1. \A i \in 1..e : i \in 1..Len(text)
    BY <1>0
  <2> QED BY <1>2, <2>1
<1>7. Follow(text, e, bytes, longer)
  BY <1>0, <1>1, <1>2, <1>4, <1>5, <1>6 DEF Follow
<1> QED BY <1>7 DEF bytes, longer

\* What is whole stays whole.
LEMMA CharactersStayWhole ==
  ASSUME NEW text, NEW e, NEW bytes, NEW longer, Follow(text, e, bytes, longer),
         WholeUpTo(text, e), NEW n \in 0..Len(bytes),
         \A i \in 1..n : ~Misplaced(bytes, i),
         n < Len(bytes) => Misplaced(bytes, n + 1)
  PROVE  WholeUpTo(longer, e + n)
<1>0. /\ e \in Nat /\ Len(bytes) \in Nat /\ n \in Nat /\ n <= Len(bytes)
      /\ \A i \in 1..e : longer[i] = text[i]
      /\ \A i \in 1..Len(bytes) : longer[e + i] = bytes[i]
  BY DEF Follow
<1>1. ASSUME NEW i \in 1..e, longer[i] = Lead PROVE i < e + n /\ longer[i + 1] = Cont
  <2>1. i < e /\ text[i + 1] = Cont
    BY <1>0, <1>1 DEF WholeUpTo
  <2>2. i + 1 \in 1..e
    BY <1>0, <2>1
  <2> QED BY <1>0, <2>1, <2>2
<1>2. ASSUME NEW i \in 1..e, longer[i] = Cont PROVE i > 1 /\ longer[i - 1] = Lead
  <2>1. i > 1 /\ text[i - 1] = Lead
    BY <1>0, <1>2 DEF WholeUpTo
  <2>2. i - 1 \in 1..e
    BY <1>0, <2>1
  <2> QED BY <1>0, <2>1, <2>2
<1>3. ASSUME NEW j \in 1..n, bytes[j] = Lead PROVE j < n /\ bytes[j + 1] = Cont
  <2>1. j # Len(bytes) /\ bytes[j + 1] = Cont
    BY <1>3 DEF Misplaced
  <2>2. j # n
    <3> SUFFICES ASSUME j = n PROVE FALSE
      OBVIOUS
    <3>1. n < Len(bytes)
      BY <1>0, <2>1
    <3>2. Misplaced(bytes, n + 1) /\ n + 1 - 1 = n /\ n + 1 # 1
      BY <1>0, <3>1
    <3> QED BY <1>3, <2>1, <3>2, BytesDiffer DEF Misplaced
  <2> QED BY <1>0, <2>1, <2>2
<1>4. ASSUME NEW j \in 1..n, bytes[j] = Cont PROVE j > 1 /\ bytes[j - 1] = Lead
  <2>1. j # 1 /\ bytes[j - 1] = Lead
    BY <1>4 DEF Misplaced
  <2> QED BY <2>1
<1>5. ASSUME NEW j \in 1..n, longer[e + j] = Lead PROVE e + j < e + n /\ longer[e + j + 1] = Cont
  <2>1. j \in 1..Len(bytes) /\ longer[e + j] = bytes[j]
    BY <1>0
  <2>2. j < n /\ bytes[j + 1] = Cont
    BY <1>3, <1>5, <2>1
  <2>3. j + 1 \in 1..Len(bytes) /\ e + (j + 1) = e + j + 1
    BY <1>0, <2>2
  <2>4. longer[e + (j + 1)] = bytes[j + 1]
    BY <1>0, <2>3
  <2> QED BY <1>0, <2>2, <2>3, <2>4
<1>6. ASSUME NEW j \in 1..n, longer[e + j] = Cont PROVE e + j > 1 /\ longer[e + j - 1] = Lead
  <2>1. j \in 1..Len(bytes) /\ longer[e + j] = bytes[j]
    BY <1>0
  <2>2. j > 1 /\ bytes[j - 1] = Lead
    BY <1>4, <1>6, <2>1
  <2>3. j - 1 \in 1..Len(bytes) /\ e + (j - 1) = e + j - 1
    BY <1>0, <2>2
  <2>4. longer[e + (j - 1)] = bytes[j - 1]
    BY <1>0, <2>3
  <2> QED BY <1>0, <2>2, <2>3, <2>4
<1>7. ASSUME NEW i \in 1..(e + n)
      PROVE  /\ longer[i] = Lead => i < e + n /\ longer[i + 1] = Cont
             /\ longer[i] = Cont => i > 1 /\ longer[i - 1] = Lead
  <2>1. CASE i <= e
    <3>1. i \in 1..e
      BY <1>0, <2>1
    <3>2. longer[i] = Lead => i < e + n /\ longer[i + 1] = Cont
      BY <1>1, <3>1
    <3>3. longer[i] = Cont => i > 1 /\ longer[i - 1] = Lead
      BY <1>2, <3>1
    <3> QED BY <3>2, <3>3
  <2>2. CASE ~(i <= e)
    <3> DEFINE j == i - e
    <3>1. j \in 1..n /\ i = e + j
      BY <1>0, <2>2
    <3> HIDE DEF j
    <3>2. longer[i] = Lead => i < e + n /\ longer[i + 1] = Cont
      BY <1>5, <3>1
    <3>3. longer[i] = Cont => i > 1 /\ longer[i - 1] = Lead
      <4>1. j \in Int /\ e + j - 1 = i - 1
        BY <1>0, <3>1
      <4>2. longer[e + j] = Cont => e + j > 1 /\ longer[e + j - 1] = Lead
        BY <1>6, <3>1
      <4> QED BY <3>1, <4>1, <4>2
    <3> QED BY <3>2, <3>3
  <2> QED BY <2>1, <2>2
<1> QED BY <1>7 DEF WholeUpTo

\* What is refused is not UTF-8 in the body either.
LEMMA CharactersAreRefused ==
  ASSUME NEW text, NEW e, NEW bytes, NEW longer, Follow(text, e, bytes, longer),
         WholeUpTo(text, e), NEW n \in 0..Len(bytes), n < Len(bytes),
         \/ Misplaced(bytes, n + 1) /\ ~(bytes[n + 1] = Lead /\ n + 1 = Len(bytes))
         \/ bytes[n + 1] = Lead /\ n + 1 = Len(bytes)
  PROVE  ~IsUtf8(longer)
<1>0. /\ e \in Nat /\ Len(bytes) \in Nat /\ n \in Nat /\ n + 1 <= Len(bytes)
      /\ longer \in Seq(Bytes) /\ Len(longer) = e + Len(bytes)
      /\ \A i \in 1..e : longer[i] = text[i]
      /\ \A i \in 1..Len(bytes) : longer[e + i] = bytes[i]
  BY DEF Follow
<1> DEFINE p == e + (n + 1)
<1>1. /\ p \in Nat /\ p \in 1..Len(longer) /\ longer[p] = bytes[n + 1]
      /\ p + 1 = e + (n + 2) /\ p - 1 = e + n /\ p = e + n + 1 /\ n + 1 \in 1..Len(bytes)
  BY <1>0
<1> HIDE DEF p
<1> SUFFICES ASSUME IsUtf8(longer) PROVE FALSE
  OBVIOUS
<1>2. DOMAIN longer = 1..Len(longer)
  BY <1>0
<1>3. /\ longer[p] = Lead => p < Len(longer) /\ longer[p + 1] = Cont
      /\ longer[p] = Cont => p > 1 /\ longer[p - 1] = Lead
  BY <1>1, <1>2 DEF IsUtf8
<1>4. CASE bytes[n + 1] = Lead /\ n + 1 = Len(bytes)
  <2>1. p < Len(longer)
    BY <1>1, <1>3, <1>4
  <2> QED BY <1>0, <1>1, <1>4, <2>1
<1>5. CASE bytes[n + 1] = Lead /\ n + 1 # Len(bytes) /\ bytes[n + 1 + 1] # Cont
  <2>1. n + 2 \in 1..Len(bytes) /\ n + 1 + 1 = n + 2
    BY <1>0, <1>5
  <2>2. longer[e + (n + 2)] = bytes[n + 2]
    BY <1>0, <2>1
  <2> QED BY <1>1, <1>3, <1>5, <2>1, <2>2
<1>6. CASE bytes[n + 1] = Cont /\ n = 0
  <2>1. e >= 1 /\ longer[e] = Lead
    BY <1>0, <1>1, <1>3, <1>6
  <2>2. e \in 1..e /\ text[e] = Lead
    BY <1>0, <2>1
  <2>3. e < e
    BY <2>2 DEF WholeUpTo
  <2> QED BY <1>0, <2>3
<1>7. CASE bytes[n + 1] = Cont /\ n # 0 /\ bytes[n + 1 - 1] # Lead
  <2>1. n \in 1..Len(bytes) /\ n + 1 - 1 = n
    BY <1>0, <1>7
  <2>2. longer[e + n] = bytes[n]
    BY <1>0, <2>1
  <2> QED BY <1>1, <1>3, <1>7, <2>1, <2>2
<1>8. n + 1 = 1 => n = 0
  BY <1>0
<1> QED BY <1>4, <1>5, <1>6, <1>7, <1>8 DEF Misplaced

-----------------------------------------------------------------------------
(* What the parser has taken in: m bytes cut off as events, the bytes up to  *)
(* the e-th buffered and the rest pending.                                   *)

\* Bytes that may still become a character.
MayWait(rest) == rest \in {<<>>, <<Lead>>} /\ Len(rest) <= MaxPending

Taken(text, m, e, rest, buf, out) ==
  /\ text \in Seq(Bytes) /\ m \in Nat /\ e \in Nat /\ m <= e
  /\ IsRest(text, e, rest) /\ MayWait(rest)
  /\ buf = SubSeq(text, m + 1, e)
  /\ WholeUpTo(text, e)
  /\ BlockStart(text)[m] = m + 1
  /\ out = ValuesUpTo(text, m)
  /\ \A i \in 1..m : ~IsBadLine(text, i)
  /\ BlocksFit(text, m)

\* A sequence with a stretch's elements is that stretch.
LEMMA IsSlice ==
  ASSUME NEW s \in Seq(Bytes), NEW a \in 1..(Len(s) + 1), NEW b \in (a - 1)..Len(s),
         NEW t \in Seq(Bytes), NEW n \in Nat, n = b - a + 1, Len(t) = n,
         \A i \in 1..n : t[i] = s[a + i - 1]
  PROVE  t = SubSeq(s, a, b)
<1> DEFINE piece == SubSeq(s, a, b)
<1>1. /\ piece \in Seq(Bytes) /\ Len(piece) = n
      /\ \A i \in 1..n : piece[i] = s[a + i - 1]
  BY Slice
<1> HIDE DEF piece
<1>2. t = piece
  BY <1>1, SeqEqual
<1> QED BY <1>2 DEF piece

\* A block begins at the start or after a separator, so at the start of a line.
LEMMA BlocksBeginLines ==
  ASSUME NEW text \in Seq(Bytes), NEW m \in 0..Len(text), BlockStart(text)[m] = m + 1
  PROVE  LineBegins(text, m)
<1>0. Len(text) \in Nat
  OBVIOUS
<1>1. CASE m = 0
  BY <1>1 DEF LineBegins
<1>2. CASE m # 0
  <2>1. m \in 1..Len(text) /\ m - 1 \in 0..Len(text)
    BY <1>0, <1>2
  <2>2. BlockStart(text)[m - 1] \in 1..m
    <3>1. (m - 1) + 1 = m
      BY <2>1
    <3>2. BlockStart(text)[m - 1] \in 1..((m - 1) + 1)
      BY <1>0, <2>1, BlockStartUnfold
    <3> QED BY <3>1, <3>2
  <2> DEFINE first == BlockStart(text)[m - 1]
  <2>3. first \in Nat \ {0} /\ first # m + 1
    BY <2>1, <2>2
  <2>4. m + 1 = IF Ends(text, first, m) = {} THEN first ELSE m + 1
    BY <1>0, <2>1, BlockStartUnfold
  <2> HIDE DEF first
  <2>5. PICK sep \in Ends(text, first, m) : TRUE
    BY <2>3, <2>4
  <2>6. Len(sep) \in {2, 4} /\ SepAt(text, m + 1 - Len(sep), Len(sep))
    BY <2>1, <2>3, EndsAreSeparators
  <2>7. text[m] = LF
    <3> DEFINE v == Len(sep)
    <3>1. v \in {2, 4} /\ SepAt(text, m + 1 - v, v) /\ m \in Nat
      BY <2>6
    <3> HIDE DEF v
    <3> QED BY <3>1, SeparatorsEndLines
  <2> QED BY <2>7 DEF LineBegins
<1> QED BY <1>1, <1>2

\* Where the buffer is in the text.
LEMMA TakenFacts ==
  ASSUME NEW text, NEW m, NEW e, NEW rest, NEW buf, NEW out, Taken(text, m, e, rest, buf, out)
  PROVE  /\ text \in Seq(Bytes) /\ Len(text) \in Nat /\ m \in 0..Len(text) /\ e \in m..Len(text)
         /\ Len(text) = e + Len(rest) /\ rest \in Seq(Bytes) /\ Len(rest) \in Nat
         /\ buf \in Seq(Bytes) /\ Len(buf) = e - m
         /\ \A i \in 1..(e - m) : buf[i] = text[m + i]
         /\ out \in Seq(Payloads)
         /\ LineBegins(text, m)
<1>1. /\ text \in Seq(Bytes) /\ m \in Nat /\ e \in Nat /\ m <= e
      /\ Len(text) = e + Len(rest) /\ rest \in Seq(Bytes)
      /\ buf = SubSeq(text, m + 1, e) /\ out = ValuesUpTo(text, m)
      /\ BlockStart(text)[m] = m + 1
  BY DEF Taken, IsRest
<1>2. Len(text) \in Nat /\ Len(rest) \in Nat
  BY <1>1
<1>3. m \in 0..Len(text) /\ e \in m..Len(text)
  BY <1>1, <1>2
<1>4. LineBegins(text, m)
  BY <1>1, <1>3, BlocksBeginLines
<1>5. out \in Seq(Payloads)
  BY <1>1, <1>2, <1>3, ValuesUnfold
<1>6. m + 1 \in 1..(Len(text) + 1) /\ e \in ((m + 1) - 1)..Len(text) /\ e - (m + 1) + 1 = e - m
  BY <1>1, <1>2, <1>3
<1>7. /\ SubSeq(text, m + 1, e) \in Seq(Bytes) /\ Len(SubSeq(text, m + 1, e)) = e - m
      /\ \A i \in 1..(e - m) : SubSeq(text, m + 1, e)[i] = text[m + 1 + i - 1]
  BY <1>1, <1>6, Slice
<1>8. \A i \in 1..(e - m) : m + 1 + i - 1 = m + i
  BY <1>1
<1>9. /\ buf \in Seq(Bytes) /\ Len(buf) = e - m
      /\ \A i \in 1..(e - m) : buf[i] = text[m + i]
  BY <1>1, <1>7, <1>8
<1> QED BY <1>1, <1>2, <1>3, <1>4, <1>5, <1>9

\* A separator in the buffer is one in the text.
LEMMA SeparatorsInBuffer ==
  ASSUME NEW text, NEW m, NEW e, NEW rest, NEW buf, NEW out, Taken(text, m, e, rest, buf, out),
         NEW i \in Nat, NEW w \in {2, 4}
  PROVE  SepAt(buf, i, w) <=> i >= 1 /\ m + i + w - 1 <= e /\ SepAt(text, m + i, w)
<1>0. /\ m \in Nat /\ e \in Nat /\ m <= e /\ Len(text) \in Nat /\ e <= Len(text)
      /\ Len(buf) = e - m /\ \A k \in 1..(e - m) : buf[k] = text[m + k]
  BY TakenFacts
<1>1. CASE i = 0
  BY <1>1 DEF SepAt
<1>2. CASE i # 0 /\ ~(m + i + w - 1 <= e)
  <2>1. ~(i + w - 1 <= Len(buf))
    BY <1>0, <1>2
  <2> QED BY <1>2, <2>1 DEF SepAt
<1>3. CASE i # 0 /\ m + i + w - 1 <= e /\ w = 2
  <2>1. i \in 1..(e - m) /\ i + 1 \in 1..(e - m) /\ i + 2 - 1 <= Len(buf) /\ m + i >= 1
        /\ m + i + 2 - 1 <= Len(text) /\ m + (i + 1) = m + i + 1 /\ i >= 1
    BY <1>0, <1>3
  <2>2. buf[i] = text[m + i] /\ buf[i + 1] = text[m + i + 1]
    BY <1>0, <2>1
  <2> QED BY <1>3, <2>1, <2>2 DEF SepAt
<1>4. CASE i # 0 /\ m + i + w - 1 <= e /\ w = 4
  <2>1. i \in 1..(e - m) /\ i + 1 \in 1..(e - m) /\ i + 2 \in 1..(e - m) /\ i + 3 \in 1..(e - m)
        /\ i + 4 - 1 <= Len(buf) /\ m + i >= 1
        /\ m + i + 4 - 1 <= Len(text) /\ m + (i + 1) = m + i + 1 /\ m + (i + 2) = m + i + 2
        /\ m + (i + 3) = m + i + 3 /\ i >= 1
    BY <1>0, <1>4
  <2>2. /\ buf[i] = text[m + i] /\ buf[i + 1] = text[m + i + 1]
        /\ buf[i + 2] = text[m + i + 2] /\ buf[i + 3] = text[m + i + 3]
    BY <1>0, <2>1
  <2> QED BY <1>4, <2>1, <2>2 DEF SepAt
<1> QED BY <1>1, <1>2, <1>3, <1>4

-----------------------------------------------------------------------------
(* A chunk is taken in. *)

\* A chunk leaves what was cut off as it was.
LEMMA ChunkLeavesTheBlocks ==
  ASSUME NEW text, NEW m, NEW e, NEW rest, NEW buf, NEW out, Taken(text, m, e, rest, buf, out),
         NEW c \in Seq(Bytes)
  PROVE  /\ BlockStart(text \o c)[m] = m + 1
         /\ out = ValuesUpTo(text \o c, m)
         /\ \A i \in 1..m : ~IsBadLine(text \o c, i)
         /\ BlocksFit(text \o c, m)
         /\ IsPrefix(out, ValuesUpTo(text \o c, Len(text \o c)))
<1> DEFINE longer == text \o c
<1>0. /\ text \in Seq(Bytes) /\ Len(text) \in Nat /\ m \in Nat /\ m \in 0..Len(text)
      /\ LineBegins(text, m)
  BY TakenFacts
<1>1. Longer(text, c, longer)
  BY <1>0, ItIsLonger
<1> HIDE DEF longer
<1>2. Len(longer) \in Nat /\ m <= Len(longer) /\ m \in 0..Len(longer)
      /\ Len(longer) \in m..Len(longer)
  BY <1>0, <1>1 DEF Longer
<1>3. /\ \A first \in Nat \ {0}, i \in 1..Len(text) : Ends(longer, first, i) = Ends(text, first, i)
      /\ \A i \in 0..Len(text) : BlockStart(longer)[i] = BlockStart(text)[i]
  BY <1>0, <1>1, BlocksStay
<1>4. /\ \A i \in 1..m : IsBadLine(longer, i) <=> IsBadLine(text, i)
      /\ ValuesUpTo(longer, m) = ValuesUpTo(text, m)
  BY <1>0, <1>1, LinesStay
<1>5. /\ BlockStart(text)[m] = m + 1 /\ out = ValuesUpTo(text, m)
      /\ \A i \in 1..m : ~IsBadLine(text, i)
      /\ BlocksFit(text, m)
  BY DEF Taken
<1>6. BlocksFit(longer, m)
  <2> SUFFICES ASSUME NEW i \in 1..m, NEW sep \in Ends(longer, BlockStart(longer)[i - 1], i)
               PROVE  i + 1 - Len(sep) - BlockStart(longer)[i - 1] <= MaxEvent
    BY DEF BlocksFit
  <2>1. i \in 1..Len(text) /\ i - 1 \in 0..Len(text) /\ (i - 1) + 1 = i
    BY <1>0
  <2>2. BlockStart(longer)[i - 1] = BlockStart(text)[i - 1]
    BY <1>3, <2>1
  <2>3. BlockStart(text)[i - 1] \in 1..((i - 1) + 1)
    BY <1>0, <2>1, BlockStartUnfold
  <2>4. BlockStart(text)[i - 1] \in Nat \ {0}
    BY <2>1, <2>3
  <2>5. Ends(longer, BlockStart(text)[i - 1], i) = Ends(text, BlockStart(text)[i - 1], i)
    BY <1>3, <2>1, <2>4
  <2>6. sep \in Ends(text, BlockStart(text)[i - 1], i)
    BY <2>2, <2>5
  <2>7. i + 1 - Len(sep) - BlockStart(text)[i - 1] <= MaxEvent
    BY <1>5, <2>6 DEF BlocksFit
  <2> QED BY <2>2, <2>7
<1>7. IsPrefix(ValuesUpTo(longer, m), ValuesUpTo(longer, Len(longer)))
  BY <1>2, ValuesArePrefixes
<1> QED BY <1>0, <1>3, <1>4, <1>5, <1>6, <1>7 DEF longer

\* What from_utf8 leaves of the bytes.
Decodes(bytes, n, left) == n = valid_up_to(bytes) /\ left = SubSeq(bytes, n + 1, Len(bytes))

\* What a chunk decodes and leaves pending.
LEMMA ChunkTaken ==
  ASSUME NEW text, NEW m, NEW e, NEW rest, NEW buf, NEW out, Taken(text, m, e, rest, buf, out),
         NEW c \in Seq(Bytes), NEW n, NEW left, Decodes(rest \o c, n, left), MayWait(left)
  PROVE  Taken(text \o c, m, e + n, left, buf \o SubSeq(rest \o c, 1, n), out)
<1> DEFINE longer == text \o c
           bytes == rest \o c
           decoded == SubSeq(bytes, 1, n)
           more == buf \o decoded
<1>0. /\ text \in Seq(Bytes) /\ Len(text) \in Nat /\ m \in Nat /\ e \in Nat /\ m <= e
      /\ rest \in Seq(Bytes) /\ buf \in Seq(Bytes) /\ Len(buf) = e - m
      /\ \A i \in 1..(e - m) : buf[i] = text[m + i]
  BY TakenFacts
<1>1. IsRest(text, e, rest) /\ WholeUpTo(text, e)
  BY DEF Taken
<1>2. bytes \in Seq(Bytes)
  BY <1>0
<1>3. Follow(text, e, bytes, longer)
  BY <1>0, <1>1, PendingAndChunk
<1>4. /\ n \in 0..Len(bytes)
      /\ \A i \in 1..n : ~Misplaced(bytes, i)
      /\ n < Len(bytes) => Misplaced(bytes, n + 1)
  BY <1>2, ValidUpTo DEF Decodes
<1>5. left = SubSeq(bytes, n + 1, Len(bytes))
  BY DEF Decodes
<1>6. /\ BlockStart(longer)[m] = m + 1
      /\ out = ValuesUpTo(longer, m)
      /\ \A i \in 1..m : ~IsBadLine(longer, i)
      /\ BlocksFit(longer, m)
  BY ChunkLeavesTheBlocks
<1> HIDE DEF longer, bytes
<1>7. WholeUpTo(longer, e + n)
  BY <1>1, <1>3, <1>4, CharactersStayWhole
<1>8. /\ longer \in Seq(Bytes) /\ Len(longer) = e + Len(bytes) /\ Len(bytes) \in Nat /\ n \in Nat
      /\ n <= Len(bytes) /\ Len(longer) \in Nat
      /\ \A i \in 1..e : longer[i] = text[i]
      /\ \A i \in 1..Len(bytes) : longer[e + i] = bytes[i]
  BY <1>2, <1>3, <1>4 DEF Follow
<1>9. /\ decoded \in Seq(Bytes) /\ Len(decoded) = n
      /\ \A i \in 1..n : decoded[i] = bytes[i]
  <2>1. 1 \in 1..(Len(bytes) + 1) /\ n \in (1 - 1)..Len(bytes) /\ n - 1 + 1 = n
    BY <1>8
  <2>2. /\ decoded \in Seq(Bytes) /\ Len(decoded) = n - 1 + 1
        /\ \A i \in 1..(n - 1 + 1) : decoded[i] = bytes[1 + i - 1]
    BY <1>2, <2>1, Slice
  <2> HIDE DEF decoded
  <2>3. \A i \in 1..n : 1 + i - 1 = i
    BY <1>8
  <2> QED BY <2>1, <2>2, <2>3
<1>10. IsRest(longer, e + n, left)
  <2> DEFINE k == Len(bytes) - n
  <2>1. n + 1 \in 1..(Len(bytes) + 1) /\ Len(bytes) \in ((n + 1) - 1)..Len(bytes)
        /\ Len(bytes) - (n + 1) + 1 = k /\ k \in Nat
    BY <1>8
  <2>2. /\ left \in Seq(Bytes) /\ Len(left) = k
        /\ \A i \in 1..k : left[i] = bytes[n + 1 + i - 1]
    BY <1>2, <1>5, <2>1, Slice
  <2>3. /\ e + n + 1 \in 1..(Len(longer) + 1) /\ Len(longer) \in ((e + n + 1) - 1)..Len(longer)
        /\ Len(longer) - (e + n + 1) + 1 = k /\ e + n \in Nat /\ Len(longer) = e + n + k
    BY <1>0, <1>8
  <2>4. ASSUME NEW i \in 1..k PROVE left[i] = longer[e + n + 1 + i - 1]
    <3>1. /\ n + 1 + i - 1 \in 1..Len(bytes) /\ n + 1 + i - 1 = n + i
          /\ e + n + 1 + i - 1 = e + (n + i)
      BY <1>0, <1>8
    <3> QED BY <1>8, <2>2, <3>1
  <2> HIDE DEF k
  <2>5. left = SubSeq(longer, e + n + 1, Len(longer))
    BY <1>8, <2>1, <2>2, <2>3, <2>4, IsSlice
  <2> QED BY <1>8, <2>2, <2>3, <2>5 DEF IsRest
<1> HIDE DEF decoded
<1>11. more = SubSeq(longer, m + 1, e + n)
  <2> DEFINE p == e - m
             k == p + n
  <2>1. p \in Nat /\ k \in Nat /\ m + p = e
    BY <1>0, <1>8
  <2>2. /\ more \in Seq(Bytes) /\ Len(more) = Len(buf) + Len(decoded)
        /\ \A i \in 1..(Len(buf) + Len(decoded)) :
             more[i] = IF i <= Len(buf) THEN buf[i] ELSE decoded[i - Len(buf)]
    BY <1>0, <1>9, ConcatProperties
  <2> HIDE DEF more
  <2>3. Len(more) = k /\ \A i \in 1..k : more[i] = IF i <= p THEN buf[i] ELSE decoded[i - p]
    BY <1>0, <1>9, <2>2
  <2>4. ASSUME NEW i \in 1..k PROVE more[i] = longer[m + 1 + i - 1]
    <3>1. CASE i <= p
      <4>1. i \in 1..p /\ m + i \in 1..e /\ m + 1 + i - 1 = m + i
        BY <1>0, <2>1, <3>1
      <4>2. more[i] = buf[i] /\ buf[i] = text[m + i]
        BY <1>0, <2>3, <3>1, <4>1
      <4> QED BY <1>8, <4>1, <4>2
    <3>2. CASE ~(i <= p)
      <4>1. i - p \in 1..n /\ i - p \in 1..Len(bytes) /\ m + 1 + i - 1 = e + (i - p)
        BY <1>0, <1>8, <2>1, <3>2
      <4>2. more[i] = decoded[i - p]
        BY <2>3, <3>2
      <4>3. decoded[i - p] = bytes[i - p] /\ longer[e + (i - p)] = bytes[i - p]
        BY <1>8, <1>9, <4>1
      <4> QED BY <4>1, <4>2, <4>3
    <3> QED BY <3>1, <3>2
  <2>5. /\ m + 1 \in 1..(Len(longer) + 1) /\ e + n \in ((m + 1) - 1)..Len(longer)
        /\ k = (e + n) - (m + 1) + 1
    BY <1>0, <1>8
  <2> HIDE DEF p, k
  <2> QED BY <1>8, <2>1, <2>2, <2>3, <2>4, <2>5, IsSlice
<1>12. m <= e + n /\ e + n \in Nat
  BY <1>0, <1>8
<1> HIDE DEF more
<1>13. Taken(longer, m, e + n, left, more, out)
  BY <1>0, <1>6, <1>7, <1>8, <1>10, <1>11, <1>12 DEF Taken
<1> QED BY <1>13 DEF more, decoded, longer, bytes

\* What a chunk makes wrong is wrong in the body.
LEMMA ChunkRefused ==
  ASSUME NEW text, NEW m, NEW e, NEW rest, NEW buf, NEW out, Taken(text, m, e, rest, buf, out),
         NEW c \in Seq(Bytes), NEW n, NEW left, Decodes(rest \o c, n, left), ~MayWait(left)
  PROVE  ~IsUtf8(text \o c)
<1> DEFINE longer == text \o c
           bytes == rest \o c
<1>0. text \in Seq(Bytes) /\ rest \in Seq(Bytes) /\ e \in Nat
  BY TakenFacts
<1>1. IsRest(text, e, rest) /\ WholeUpTo(text, e)
  BY DEF Taken
<1>2. bytes \in Seq(Bytes)
  BY <1>0
<1>3. Follow(text, e, bytes, longer)
  BY <1>0, <1>1, PendingAndChunk
<1>4. n \in 0..Len(bytes) /\ (n < Len(bytes) => Misplaced(bytes, n + 1))
  BY <1>2, ValidUpTo DEF Decodes
<1>5. left = SubSeq(bytes, n + 1, Len(bytes))
  BY DEF Decodes
<1> HIDE DEF longer, bytes
<1>6. Len(bytes) \in Nat /\ n \in Nat /\ n <= Len(bytes)
  BY <1>2, <1>4
<1>7. n < Len(bytes)
  <2> SUFFICES ASSUME n = Len(bytes) PROVE FALSE
    BY <1>6
  <2>1. left = <<>>
    BY <1>5, <1>6, SubSeqEmpty
  <2> QED BY <2>1, SizesAreNat DEF MayWait
<1>8. \/ Misplaced(bytes, n + 1) /\ ~(bytes[n + 1] = Lead /\ n + 1 = Len(bytes))
      \/ bytes[n + 1] = Lead /\ n + 1 = Len(bytes)
  BY <1>4, <1>7
<1>9. ~IsUtf8(longer)
  BY <1>1, <1>3, <1>4, <1>7, <1>8, CharactersAreRefused
<1> QED BY <1>9 DEF longer

-----------------------------------------------------------------------------
(* An event is cut off the buffer. *)

\* What is read of the buffer's first p bytes.
LEMMA BufferedBlock ==
  ASSUME NEW text, NEW m, NEW e, NEW rest, NEW buf, NEW out, Taken(text, m, e, rest, buf, out),
         NEW p \in 0..(e - m), LineEnds(text, m + p)
  PROVE  /\ m + p \in m..Len(text)
         /\ Gives(text, m, m + p, parse_event_block(SubSeq(buf, 1, p)))
<1>0. /\ text \in Seq(Bytes) /\ Len(text) \in Nat /\ m \in Nat /\ m \in 0..Len(text)
      /\ e \in Nat /\ m <= e /\ e <= Len(text)
      /\ buf \in Seq(Bytes) /\ Len(buf) = e - m
      /\ \A i \in 1..(e - m) : buf[i] = text[m + i]
      /\ LineBegins(text, m)
  BY TakenFacts
<1>1. p \in Nat /\ m + p \in m..Len(text) /\ p <= e - m
  BY <1>0
<1>2. IsBlock(text, m, m + p)
  BY <1>0, <1>1 DEF IsBlock
<1>3. Gives(text, m, m + p, parse_event_block(SubSeq(text, m + 1, m + p)))
  BY <1>0, <1>2, BlockRead
<1>4. SubSeq(buf, 1, p) = SubSeq(text, m + 1, m + p)
  <2> DEFINE event == SubSeq(buf, 1, p)
  <2>1. 1 \in 1..(Len(buf) + 1) /\ p \in (1 - 1)..Len(buf) /\ p - 1 + 1 = p
    BY <1>0, <1>1
  <2>2. /\ event \in Seq(Bytes) /\ Len(event) = p - 1 + 1
        /\ \A i \in 1..(p - 1 + 1) : event[i] = buf[1 + i - 1]
    BY <1>0, <2>1, Slice
  <2> HIDE DEF event
  <2>3. ASSUME NEW i \in 1..p PROVE event[i] = text[m + 1 + i - 1]
    <3>1. i \in 1..(e - m) /\ 1 + i - 1 = i /\ m + 1 + i - 1 = m + i /\ i \in 1..(p - 1 + 1)
      BY <1>0, <1>1
    <3>2. event[i] = buf[i] /\ buf[i] = text[m + i]
      BY <1>0, <2>2, <3>1
    <3> QED BY <3>1, <3>2
  <2>4. /\ m + 1 \in 1..(Len(text) + 1) /\ m + p \in ((m + 1) - 1)..Len(text)
        /\ p = (m + p) - (m + 1) + 1
    BY <1>0, <1>1
  <2>5. event = SubSeq(text, m + 1, m + p)
    BY <1>0, <1>1, <2>1, <2>2, <2>3, <2>4, IsSlice
  <2> QED BY <2>5 DEF event
<1> QED BY <1>1, <1>3, <1>4

\* The rest of the buffer, after its first p bytes.
Within(m, e, p) == p \in 0..(e - m)

RestIs(text, m, e, buf, p) == SubSeq(buf, p + 1, Len(buf)) = SubSeq(text, m + p + 1, e)

LEMMA RestOfBuffer ==
  ASSUME NEW text, NEW m, NEW e, NEW rest, NEW buf, NEW out, Taken(text, m, e, rest, buf, out),
         NEW p, Within(m, e, p)
  PROVE  RestIs(text, m, e, buf, p)
<1>0. /\ text \in Seq(Bytes) /\ Len(text) \in Nat /\ m \in Nat /\ m \in 0..Len(text)
      /\ e \in Nat /\ m <= e /\ e <= Len(text)
      /\ buf \in Seq(Bytes) /\ Len(buf) = e - m
      /\ \A i \in 1..(e - m) : buf[i] = text[m + i]
  BY TakenFacts
<1>1. p \in 0..(e - m)
  BY DEF Within
<1> DEFINE after == SubSeq(buf, p + 1, Len(buf))
           n == e - m - p
<1>2. /\ p + 1 \in 1..(Len(buf) + 1) /\ Len(buf) \in ((p + 1) - 1)..Len(buf)
      /\ Len(buf) - (p + 1) + 1 = n /\ n \in Nat /\ p \in Nat
  BY <1>0, <1>1
<1>3. /\ after \in Seq(Bytes) /\ Len(after) = n
      /\ \A i \in 1..n : after[i] = buf[p + 1 + i - 1]
  BY <1>0, <1>2, Slice
<1> HIDE DEF after
<1>4. ASSUME NEW i \in 1..n PROVE after[i] = text[m + p + 1 + i - 1]
  <2>1. /\ p + 1 + i - 1 \in 1..(e - m) /\ p + 1 + i - 1 = p + i
        /\ m + p + 1 + i - 1 = m + (p + i)
    BY <1>0, <1>2
  <2> QED BY <1>0, <1>3, <2>1
<1>5. /\ m + p + 1 \in 1..(Len(text) + 1) /\ e \in ((m + p + 1) - 1)..Len(text)
      /\ n = e - (m + p + 1) + 1
  <2>1. p \in Nat /\ p <= e - m
    BY <1>0, <1>1
  <2> QED BY <1>0, <2>1
<1> HIDE DEF n
<1>6. after = SubSeq(text, m + p + 1, e)
  BY <1>0, <1>2, <1>3, <1>4, <1>5, IsSlice
<1> QED BY <1>6 DEF after, RestIs

\* The first complete event of the buffer: where it ends in the text and what
\* its values are.
Cuts(buf, b, block) ==
  /\ b = find_event_boundary(buf) /\ b.found
  /\ block = parse_event_block(SubSeq(buf, 1, b.idx))

LEMMA FirstEvent ==
  ASSUME NEW text, NEW m, NEW e, NEW rest, NEW buf, NEW out, Taken(text, m, e, rest, buf, out),
         NEW b, NEW block, Cuts(buf, b, block)
  PROVE  /\ b.idx \in Nat /\ b.len \in {2, 4} /\ m + b.idx + b.len <= e
         /\ SepAt(text, m + b.idx + 1, b.len)
         /\ \A i \in 1..b.idx : \A v \in {2, 4} :
              m + i + v - 1 <= e => ~SepAt(text, m + i, v)
         /\ Gives(text, m, m + b.idx, block)
<1>0. /\ text \in Seq(Bytes) /\ Len(text) \in Nat /\ m \in Nat
      /\ e \in Nat /\ m <= e /\ e <= Len(text)
      /\ buf \in Seq(Bytes) /\ Len(buf) = e - m
  BY TakenFacts
<1>1. /\ b.idx \in Nat /\ b.len \in {2, 4} /\ SepAt(buf, b.idx + 1, b.len)
      /\ \A i \in 1..b.idx, w \in {2, 4} : ~SepAt(buf, i, w)
  BY <1>0, Boundary DEF Cuts
<1>2. block = parse_event_block(SubSeq(buf, 1, b.idx))
  BY DEF Cuts
<1> DEFINE p == b.idx
           w == b.len
<1>3. /\ p \in Nat /\ w \in {2, 4} /\ SepAt(buf, p + 1, w)
      /\ \A i \in 1..p, v \in {2, 4} : ~SepAt(buf, i, v)
      /\ block = parse_event_block(SubSeq(buf, 1, p))
  BY <1>1, <1>2
<1> HIDE DEF p, w
<1>4. m + (p + 1) + w - 1 <= e /\ SepAt(text, m + (p + 1), w)
  BY <1>3, SeparatorsInBuffer
<1>5. m + p + w <= e /\ m + (p + 1) = m + p + 1 /\ p \in 0..(e - m)
  BY <1>0, <1>3, <1>4
<1>6. SepAt(text, m + p + 1, w)
  BY <1>4, <1>5
<1>7. ASSUME NEW i \in 1..p, NEW v \in {2, 4}, m + i + v - 1 <= e PROVE ~SepAt(text, m + i, v)
  <2>1. i \in Nat /\ i >= 1 /\ ~SepAt(buf, i, v)
    BY <1>3
  <2> QED BY <1>7, <2>1, SeparatorsInBuffer
<1>8. LineEnds(text, m + p)
  <2>1. CASE w = 2
    BY <1>6, <2>1 DEF SepAt, LineEnds
  <2>2. CASE w = 4
    <3>1. text[m + p + 1] = CR /\ text[m + p + 1 + 1] = LF /\ m + p + 1 + 1 = m + p + 2
      BY <1>0, <1>3, <1>6, <2>2 DEF SepAt
    <3>2. m + p + 2 <= Len(text)
      BY <1>0, <1>3, <1>5, <2>2
    <3> QED BY <3>1, <3>2 DEF LineEnds
  <2> QED BY <1>3, <2>1, <2>2
<1>9. Gives(text, m, m + p, block)
  BY <1>3, <1>5, <1>8, BufferedBlock
<1> QED BY <1>3, <1>5, <1>6, <1>7, <1>9 DEF p, w

\* What is cut off is taken in.
LEMMA CutTaken ==
  ASSUME NEW text, NEW m, NEW e, NEW rest, NEW buf, NEW out, Taken(text, m, e, rest, buf, out),
         NEW b, NEW block, Cuts(buf, b, block)
  PROVE  /\ block.ok /\ b.idx <= MaxEvent =>
              Taken(text, m + b.idx + b.len, e, rest,
                    SubSeq(buf, b.idx + b.len + 1, Len(buf)), out \o block.values)
         /\ ~block.ok => HasBadLine(text)
<1> DEFINE p == b.idx
           w == b.len
           k == m + p + w
<1>0. /\ text \in Seq(Bytes) /\ Len(text) \in Nat /\ m \in Nat /\ m \in 0..Len(text)
      /\ e \in Nat /\ m <= e /\ e <= Len(text)
      /\ Len(buf) = e - m /\ out \in Seq(Payloads)
  BY TakenFacts
<1>1. /\ p \in Nat /\ w \in {2, 4} /\ m + p + w <= e
      /\ SepAt(text, m + p + 1, w)
      /\ \A i \in 1..p : \A v \in {2, 4} : m + i + v - 1 <= e => ~SepAt(text, m + i, v)
      /\ Gives(text, m, m + p, block)
  BY FirstEvent
<1>2. /\ IsRest(text, e, rest) /\ MayWait(rest) /\ WholeUpTo(text, e)
      /\ BlockStart(text)[m] = m + 1 /\ out = ValuesUpTo(text, m)
      /\ \A i \in 1..m : ~IsBadLine(text, i)
      /\ BlocksFit(text, m)
  BY DEF Taken
<1> HIDE DEF p, w
<1>3. /\ k \in Nat /\ k <= e /\ k <= Len(text) /\ m + p \in m..Len(text) /\ k \in (m + p)..Len(text)
      /\ k \in m..Len(text) /\ k = m + p + w
  BY <1>0, <1>1
<1> HIDE DEF k
<1>4. \A i \in 1..p : \A v \in {2, 4} : m + i + v - 1 <= k => ~SepAt(text, m + i, v)
  <2> SUFFICES ASSUME NEW i \in 1..p, NEW v \in {2, 4}, m + i + v - 1 <= k
               PROVE  ~SepAt(text, m + i, v)
    OBVIOUS
  <2>1. m + i + v - 1 <= e
    BY <1>0, <1>1, <1>3
  <2> QED BY <1>1, <2>1
<1>5. /\ BlockStart(text)[k] = k + 1
      /\ BlocksFit(text, m) /\ p <= MaxEvent => BlocksFit(text, k)
  <2>1. Separated(text, m, p, w, k)
    BY <1>1, <1>3, <1>4 DEF Separated
  <2> QED BY <1>0, <1>2, <2>1, BlockEnds
<1>6. \A i \in ((m + p) + 1)..k : text[i] \in {CR, LF}
  <2>1. CASE w = 2
    <3>1. text[m + p + 1] = LF /\ text[m + p + 1 + 1] = LF
      BY <1>1, <2>1 DEF SepAt
    <3>2. \A i \in ((m + p) + 1)..k : i = m + p + 1 \/ i = m + p + 1 + 1
      BY <1>0, <1>1, <1>3, <2>1
    <3> QED BY <3>1, <3>2
  <2>2. CASE w = 4
    <3>1. /\ text[m + p + 1] = CR /\ text[m + p + 1 + 1] = LF
          /\ text[m + p + 1 + 2] = CR /\ text[m + p + 1 + 3] = LF
      BY <1>1, <2>2 DEF SepAt
    <3>2. \A i \in ((m + p) + 1)..k : \/ i = m + p + 1 \/ i = m + p + 1 + 1
                                      \/ i = m + p + 1 + 2 \/ i = m + p + 1 + 3
      BY <1>0, <1>1, <1>3, <2>2
    <3> QED BY <3>1, <3>2
  <2> QED BY <1>1, <2>1, <2>2
<1>7. Gives(text, m, k, block)
  BY <1>0, <1>1, <1>3, <1>6, BetweenLines
<1>8. /\ block.ok <=> \A i \in (m + 1)..k : ~IsBadLine(text, i)
      /\ block.ok => ValuesUpTo(text, k) = ValuesUpTo(text, m) \o block.values
  BY <1>7 DEF Gives
<1>9. ASSUME ~block.ok PROVE HasBadLine(text)
  <2>1. PICK i \in (m + 1)..k : IsBadLine(text, i)
    BY <1>8, <1>9
  <2>2. i \in DOMAIN text
    BY <1>0, <1>3
  <2> QED BY <2>1, <2>2 DEF HasBadLine
<1>10. ASSUME block.ok, p <= MaxEvent
       PROVE  Taken(text, k, e, rest, SubSeq(buf, p + w + 1, Len(buf)), out \o block.values)
  <2> DEFINE q == p + w
  <2>a. Within(m, e, q)
    BY <1>0, <1>1, <1>3 DEF Within
  <2>0. m + q + 1 = k + 1 /\ q + 1 = p + w + 1
    BY <1>0, <1>1, <1>3
  <2> HIDE DEF q
  <2>1. SubSeq(buf, q + 1, Len(buf)) = SubSeq(text, m + q + 1, e)
    <3>1. RestIs(text, m, e, buf, q)
      BY <2>a, RestOfBuffer
    <3> QED BY <3>1 DEF RestIs
  <2>2. \A i \in 1..k : ~IsBadLine(text, i)
    <3>1. \A i \in 1..k : i \in 1..m \/ i \in (m + 1)..k
      BY <1>0, <1>3
    <3> QED BY <1>2, <1>8, <1>10, <3>1
  <2>3. out \o block.values = ValuesUpTo(text, k)
    BY <1>2, <1>8, <1>10
  <2>4. SubSeq(buf, p + w + 1, Len(buf)) = SubSeq(text, k + 1, e)
    BY <2>0, <2>1
  <2>5. BlocksFit(text, k)
    BY <1>2, <1>5, <1>10
  <2> QED BY <1>0, <1>2, <1>3, <1>5, <2>2, <2>3, <2>4, <2>5 DEF Taken
<1> QED BY <1>9, <1>10 DEF k, p, w

-----------------------------------------------------------------------------
(* The next chunk is awaited, or the stream stops. *)

\* Nothing that was received ends another block.
Waits(text, m, buf) ==
  (\A i \in m..Len(text) : BlockStart(text)[i] = m + 1) /\ Len(buf) <= MaxEvent

\* What is pending is the first byte of a character.
LEMMA PendingByte ==
  ASSUME NEW text, NEW m, NEW e, NEW rest, NEW buf, NEW out, Taken(text, m, e, rest, buf, out)
  PROVE  /\ rest = <<>> => Len(text) = e
         /\ rest # <<>> => Len(text) = e + 1 /\ text[e + 1] = Lead
<1>0. /\ text \in Seq(Bytes) /\ Len(text) \in Nat /\ e \in Nat /\ Len(text) = e + Len(rest)
      /\ e <= Len(text)
  BY TakenFacts
<1>1. rest = <<>> \/ rest = <<Lead>>
  BY DEF Taken, MayWait
<1>2. rest = SubSeq(text, e + 1, Len(text))
  BY DEF Taken, IsRest
<1>3. CASE rest = <<>>
  BY <1>0, <1>3
<1>4. CASE rest = <<Lead>>
  <2>1. Len(text) = e + 1
    BY <1>0, <1>4
  <2>2. e + 1 \in 1..(Len(text) + 1) /\ Len(text) \in ((e + 1) - 1)..Len(text)
        /\ 1 \in 1..(Len(text) - (e + 1) + 1) /\ e + 1 + 1 - 1 = e + 1
    BY <1>0, <2>1
  <2>3. SubSeq(text, e + 1, Len(text))[1] = text[e + 1 + 1 - 1]
    BY <1>0, <2>2, Slice
  <2>4. rest[1] = text[e + 1]
    BY <1>2, <2>2, <2>3
  <2>5. rest[1] = Lead /\ rest # <<>>
    BY <1>4
  <2> QED BY <2>1, <2>4, <2>5
<1> QED BY <1>1, <1>3, <1>4

\* Without a separator in the first n bytes of the buffer the block goes on.
LEMMA BufferGoesOn ==
  ASSUME NEW text, NEW m, NEW e, NEW rest, NEW buf, NEW out, Taken(text, m, e, rest, buf, out),
         NEW n \in m..e,
         \A i \in Nat, w \in {2, 4} : SepAt(buf, i, w) => m + i + w - 1 > n
  PROVE  Unbroken(text, m, n)
<1>0. m \in Nat /\ e \in Nat /\ n \in Nat /\ n <= e
  BY TakenFacts
<1> SUFFICES ASSUME NEW i \in (m + 1)..n, NEW w \in {2, 4}, m + 1 + w <= i + 1,
                    SepAt(text, i + 1 - w, w)
             PROVE  FALSE
  BY DEF Unbroken
<1> DEFINE j == i + 1 - w - m
<1>1. j \in Nat /\ j >= 1 /\ i + 1 - w = m + j /\ m + j + w - 1 <= e /\ ~(m + j + w - 1 > n)
  BY <1>0
<1> HIDE DEF j
<1>2. SepAt(text, m + j, w)
  BY <1>1
<1>3. SepAt(buf, j, w)
  BY <1>1, <1>2, SeparatorsInBuffer
<1> QED BY <1>1, <1>3

\* When no event is complete the block goes on to the end of what was received.
LEMMA NothingToCut ==
  ASSUME NEW text, NEW m, NEW e, NEW rest, NEW buf, NEW out, Taken(text, m, e, rest, buf, out),
         ~find_event_boundary(buf).found, Len(buf) <= MaxEvent
  PROVE  Waits(text, m, buf)
<1>0. /\ text \in Seq(Bytes) /\ Len(text) \in Nat /\ m \in Nat /\ m \in 0..Len(text)
      /\ e \in Nat /\ e \in m..e /\ buf \in Seq(Bytes) /\ Len(text) \in m..Len(text)
  BY TakenFacts
<1>1. \A i \in Nat, w \in {2, 4} : ~SepAt(buf, i, w)
  BY <1>0, Boundary
<1>2. Unbroken(text, m, e)
  BY <1>0, <1>1, BufferGoesOn
<1>3. Unbroken(text, m, Len(text))
  <2>1. CASE rest = <<>>
    BY <1>2, <2>1, PendingByte
  <2>2. CASE rest # <<>>
    <3>1. Len(text) = e + 1 /\ text[e + 1] = Lead
      BY <2>2, PendingByte
    <3> SUFFICES ASSUME NEW i \in (m + 1)..Len(text), NEW w \in {2, 4}, m + 1 + w <= i + 1,
                        SepAt(text, i + 1 - w, w)
                 PROVE  FALSE
      BY DEF Unbroken
    <3>2. i \in Nat /\ (i \in (m + 1)..e \/ i = e + 1)
      BY <1>0, <3>1
    <3>3. text[i] = LF
      BY <3>2, SeparatorsEndLines
    <3> QED BY <1>2, <3>1, <3>2, <3>3, BytesDiffer DEF Unbroken
  <2> QED BY <2>1, <2>2
<1>4. BlockStart(text)[m] = m + 1
  BY DEF Taken
<1>5. \A i \in m..Len(text) : BlockStart(text)[i] = m + 1
  BY <1>0, <1>3, <1>4, BlockGoesOn
<1> QED BY <1>5 DEF Waits

\* What the blocks are.
LEMMA BlocksAre ==
  ASSUME NEW text \in Seq(Bytes), NEW b \in Blocks(text)
  PROVE  \E n \in 1..Len(text) : \E sep \in Ends(text, BlockStart(text)[n - 1], n) :
           /\ b.first = BlockStart(text)[n - 1]
           /\ b.sep = n + 1 - Len(sep) /\ b.next = n + 1
           /\ Len(sep) \in {2, 4} /\ b.first \in Nat
<1>0. Len(text) \in Nat /\ DOMAIN text = 1..Len(text)
  OBVIOUS
<1>1. PICK n \in 1..Len(text) : \E sep \in Ends(text, BlockStart(text)[n - 1], n) :
        b = [first |-> BlockStart(text)[n - 1], sep |-> n + 1 - Len(sep), next |-> n + 1]
  BY <1>0 DEF Blocks
<1>2. PICK sep \in Ends(text, BlockStart(text)[n - 1], n) :
        b = [first |-> BlockStart(text)[n - 1], sep |-> n + 1 - Len(sep), next |-> n + 1]
  BY <1>1
<1>3. BlockStart(text)[n - 1] \in 1..((n - 1) + 1)
  BY <1>0, BlockStartUnfold
<1>4. BlockStart(text)[n - 1] \in Nat \ {0}
  BY <1>3
<1>5. Len(sep) \in {2, 4}
  BY <1>4, EndsAreSeparators
<1> QED BY <1>2, <1>4, <1>5

LEMMA BlocksAreInTheLimit ==
  ASSUME NEW text \in Seq(Bytes), BlocksFit(text, Len(text)), NEW b \in Blocks(text)
  PROVE  b.sep - b.first <= MaxEvent
<1>1. PICK n \in 1..Len(text) : \E sep \in Ends(text, BlockStart(text)[n - 1], n) :
           /\ b.first = BlockStart(text)[n - 1] /\ b.sep = n + 1 - Len(sep)
           /\ Len(sep) \in {2, 4} /\ b.first \in Nat
  BY BlocksAre
<1>2. PICK sep \in Ends(text, BlockStart(text)[n - 1], n) :
           /\ b.first = BlockStart(text)[n - 1] /\ b.sep = n + 1 - Len(sep)
           /\ Len(sep) \in {2, 4} /\ b.first \in Nat
  BY <1>1
<1>3. n + 1 - Len(sep) - BlockStart(text)[n - 1] <= MaxEvent
  BY DEF BlocksFit
<1>4. b.sep - b.first <= MaxEvent
  <2> DEFINE f == b.first
             w == Len(sep)
  <2>1. f \in Nat /\ w \in {2, 4} /\ n + 1 - w - f <= MaxEvent /\ b.sep = n + 1 - w
    BY <1>2, <1>3
  <2> HIDE DEF f, w
  <2>2. b.sep - f <= MaxEvent
    BY <2>1
  <2> QED BY <2>2 DEF f
<1> QED BY <1>4

\* While it waits, the parser has handed out what is complete and holds no more
\* than an event and a character.
LEMMA WaitingFacts ==
  ASSUME NEW text, NEW m, NEW e, NEW rest, NEW buf, NEW out, Taken(text, m, e, rest, buf, out),
         Waits(text, m, buf)
  PROVE  /\ CompleteLength(text) = m
         /\ BlocksFit(text, Len(text))
         /\ Len(text) - m <= MaxEvent + MaxPending
<1>0. /\ text \in Seq(Bytes) /\ Len(text) \in Nat /\ m \in Nat /\ m \in 0..Len(text)
      /\ e \in Nat /\ e <= Len(text) /\ m <= e /\ Len(buf) = e - m /\ Len(text) \in m..Len(text)
      /\ Len(text) = e + Len(rest) /\ Len(rest) \in Nat
  BY TakenFacts
<1>1. (\A i \in m..Len(text) : BlockStart(text)[i] = m + 1) /\ Len(buf) <= MaxEvent
  BY DEF Waits
<1>2. BlocksFit(text, m) /\ Len(rest) <= MaxPending
  BY DEF Taken, MayWait
<1>3. BlocksFit(text, Len(text))
  BY <1>0, <1>1, <1>2, GoingOnFits
<1>4. CompleteLength(text) = m
  BY <1>0, <1>1 DEF CompleteLength
<1>5. Len(text) - m <= MaxEvent + MaxPending
  BY <1>0, <1>1, <1>2, SizesAreNat
<1> QED BY <1>3, <1>4, <1>5

\* What is refused as too long is more than the limit without a separator.
TooMuch(text) ==
  \E i \in DOMAIN text :
    /\ i + MaxEvent <= Len(text)
    /\ \A b \in Blocks(text) : b.sep < i \/ b.next > i + MaxEvent + 1

LEMMA RefusedAsTooLong ==
  ASSUME NEW text, NEW m, NEW e, NEW rest, NEW buf, NEW out, Taken(text, m, e, rest, buf, out),
         NEW b, b = find_event_boundary(buf),
         IF b.found THEN b.idx > MaxEvent ELSE Len(buf) > MaxEvent
  PROVE  TooMuch(text)
<1> DEFINE n == m + 1 + MaxEvent
<1>0. /\ text \in Seq(Bytes) /\ Len(text) \in Nat /\ m \in Nat /\ m \in 0..Len(text)
      /\ e \in Nat /\ e <= Len(text) /\ m <= e /\ buf \in Seq(Bytes) /\ Len(buf) = e - m
      /\ DOMAIN text = 1..Len(text) /\ MaxEvent \in Nat
  BY TakenFacts, SizesAreNat
<1>1. /\ b.found \in BOOLEAN
      /\ ~b.found => \A i \in Nat, w \in {2, 4} : ~SepAt(buf, i, w)
      /\ b.found => /\ b.idx \in Nat /\ b.len \in {2, 4} /\ SepAt(buf, b.idx + 1, b.len)
                    /\ \A i \in 1..b.idx, w \in {2, 4} : ~SepAt(buf, i, w)
  BY <1>0, Boundary
<1>2. n <= e /\ \A i \in Nat, w \in {2, 4} : SepAt(buf, i, w) => m + i + w - 1 > n
  <2>1. CASE ~b.found
    <3>1. Len(buf) > MaxEvent
      BY <2>1
    <3> QED BY <1>0, <1>1, <2>1, <3>1
  <2>2. CASE b.found
    <3> DEFINE p == b.idx
               v == b.len
    <3>1. /\ p \in Nat /\ v \in {2, 4} /\ SepAt(buf, p + 1, v) /\ p > MaxEvent
          /\ \A i \in 1..p, w \in {2, 4} : ~SepAt(buf, i, w)
      BY <1>1, <2>2
    <3> HIDE DEF p, v
    <3>2. m + (p + 1) + v - 1 <= e
      BY <3>1, SeparatorsInBuffer
    <3>3. ASSUME NEW i \in Nat, NEW w \in {2, 4}, SepAt(buf, i, w) PROVE m + i + w - 1 > n
      <4>1. i >= 1
        BY <3>3 DEF SepAt
      <4>2. ~(i <= p)
        <5> SUFFICES ASSUME i <= p PROVE FALSE
          OBVIOUS
        <5>1. i \in 1..p
          BY <3>1, <4>1
        <5> QED BY <3>1, <3>3, <5>1
      <4> QED BY <1>0, <3>1, <4>2
    <3>4. n <= e
      BY <1>0, <3>1, <3>2
    <3> QED BY <3>3, <3>4
  <2> QED BY <1>1, <2>1, <2>2
<1>3. n \in m..e /\ n \in m..Len(text) /\ n \in Nat /\ n = m + 1 + MaxEvent
  BY <1>0, <1>2
<1> HIDE DEF n
<1>4. Unbroken(text, m, n)
  BY <1>2, <1>3, BufferGoesOn
<1>5. BlockStart(text)[m] = m + 1 /\ BlocksFit(text, m)
  BY DEF Taken
<1>6. \A i \in m..n : BlockStart(text)[i] = m + 1
  BY <1>0, <1>3, <1>4, <1>5, BlockGoesOn
<1>7. \A i \in (m + 1)..n : Ends(text, BlockStart(text)[i - 1], i) = {}
  BY <1>0, <1>3, <1>5, <1>6, GoingOnFits
<1>8. ASSUME NEW c \in Blocks(text) PROVE c.sep < m + 1 \/ c.next > m + 1 + MaxEvent + 1
  <2>0. PICK k \in 1..Len(text) : \E sep \in Ends(text, BlockStart(text)[k - 1], k) :
          c.sep = k + 1 - Len(sep) /\ c.next = k + 1 /\ Len(sep) \in {2, 4}
    BY <1>0, BlocksAre
  <2>1. PICK sep \in Ends(text, BlockStart(text)[k - 1], k) :
          c.sep = k + 1 - Len(sep) /\ c.next = k + 1 /\ Len(sep) \in {2, 4}
    BY <2>0
  <2>2. k \notin (m + 1)..n
    BY <1>7, <2>1
  <2>3. CASE k <= m
    <3>1. \A w \in {2, 4} : k + 1 - w < m + 1
      BY <1>0, <2>3
    <3> QED BY <2>1, <3>1
  <2>4. CASE k > n
    <3>1. k + 1 > m + 1 + MaxEvent + 1
      BY <1>0, <1>3, <2>4
    <3> QED BY <2>1, <3>1
  <2>5. k <= m \/ k > n
    BY <1>0, <1>3, <2>2
  <2> QED BY <2>3, <2>4, <2>5
<1>9. m + 1 \in DOMAIN text /\ m + 1 + MaxEvent <= Len(text)
  BY <1>0, <1>3
<1> QED BY <1>8, <1>9 DEF TooMuch

\* The end of the body: a character that is cut short is an error, and the rest
\* of the buffer is the last block.
LEMMA CharacterCutShort ==
  ASSUME NEW text, NEW m, NEW e, NEW rest, NEW buf, NEW out, Taken(text, m, e, rest, buf, out),
         rest # <<>>
  PROVE  ~IsUtf8(text)
<1>0. text \in Seq(Bytes) /\ Len(text) \in Nat /\ e \in Nat
  BY TakenFacts
<1>1. Len(text) = e + 1 /\ text[e + 1] = Lead
  BY PendingByte
<1>2. e + 1 \in DOMAIN text /\ ~(e + 1 < Len(text))
  BY <1>0, <1>1
<1> QED BY <1>1, <1>2 DEF IsUtf8

LEMMA LastBlock ==
  ASSUME NEW text, NEW m, NEW e, NEW rest, NEW buf, NEW out, Taken(text, m, e, rest, buf, out),
         rest = <<>>, NEW block, block = parse_event_block(buf)
  PROVE  /\ block.ok => ValuesUpTo(text, Len(text)) = out \o block.values
         /\ IsUtf8(text)
         /\ block.ok <=> ~HasBadLine(text)
<1>0. /\ text \in Seq(Bytes) /\ Len(text) \in Nat /\ m \in Nat /\ m \in 0..Len(text)
      /\ e \in Nat /\ m <= e /\ buf \in Seq(Bytes) /\ Len(buf) = e - m
      /\ DOMAIN text = 1..Len(text)
  BY TakenFacts
<1>1. Len(text) = e
  BY PendingByte
<1>2. /\ WholeUpTo(text, e) /\ out = ValuesUpTo(text, m)
      /\ \A i \in 1..m : ~IsBadLine(text, i)
  BY DEF Taken
<1>3. SubSeq(buf, 1, e - m) = buf
  <2>1. SubSeq(buf, 1, Len(buf)) = buf
    BY <1>0, SubSeqFull
  <2> QED BY <1>0, <2>1
<1>4. Gives(text, m, e, block)
  <2> DEFINE p == e - m
  <2>1. p \in 0..(e - m) /\ m + p = e /\ SubSeq(buf, 1, p) = buf
    BY <1>0, <1>3
  <2> HIDE DEF p
  <2>2. LineEnds(text, m + p)
    BY <1>1, <2>1 DEF LineEnds
  <2>3. Gives(text, m, m + p, parse_event_block(SubSeq(buf, 1, p)))
    BY <2>1, <2>2, BufferedBlock
  <2> QED BY <2>1, <2>3
<1>5. IsUtf8(text)
  BY <1>0, <1>1, <1>2 DEF WholeUpTo, IsUtf8
<1>6. block.ok <=> ~HasBadLine(text)
  <2>1. \A i \in DOMAIN text : i \in 1..m \/ i \in (m + 1)..e
    BY <1>0, <1>1
  <2>2. \A i \in (m + 1)..e : i \in DOMAIN text
    BY <1>0, <1>1
  <2> QED BY <1>2, <1>4, <2>1, <2>2 DEF Gives, HasBadLine
<1>7. block.ok => ValuesUpTo(text, Len(text)) = out \o block.values
  BY <1>1, <1>2, <1>4 DEF Gives
<1> QED BY <1>5, <1>6, <1>7

-----------------------------------------------------------------------------
(* The inductive invariant: while the stream goes on, what was received is   *)
(* taken in, and between two chunks nothing in it ends another block; once   *)
(* it has stopped, what is promised of it holds and stays so.                *)

Working == {"sent", "open", "cutting"}

Reading ==
  status \in Working =>
    \E m, e \in 0..Len(body) :
      /\ Taken(body, m, e, pending, buffer, yielded)
      /\ status # "cutting" => Waits(body, m, buffer)

Stopped == status \notin Working => EventsIgnoreTheCuts /\ SizeLimitHolds

IInv == TypeOK /\ Reading /\ Stopped

\* What is taken in when the next chunk is awaited, and at each moment.
LEMMA ReadingFacts ==
  ASSUME IInv, status \in Working
  PROVE  \E m, e \in 0..Len(body) :
           /\ Taken(body, m, e, pending, buffer, yielded)
           /\ status # "cutting" => Waits(body, m, buffer)
           /\ IsPrefix(yielded, ValuesUpTo(body, Len(body)))
<1>1. PICK m, e \in 0..Len(body) :
        /\ Taken(body, m, e, pending, buffer, yielded)
        /\ status # "cutting" => Waits(body, m, buffer)
  BY DEF IInv, Reading
<1>2. Len(body) \in Nat /\ m \in 0..Len(body) /\ Len(body) \in m..Len(body)
  BY <1>1, TakenFacts
<1>3. yielded = ValuesUpTo(body, m)
  BY <1>1 DEF Taken
<1>4. IsPrefix(ValuesUpTo(body, m), ValuesUpTo(body, Len(body)))
  BY <1>2, ValuesArePrefixes
<1> QED BY <1>1, <1>3, <1>4

\* The invariant is what EventsIgnoreTheCuts and SizeLimitHolds promise.
LEMMA InvPromises ==
  ASSUME IInv
  PROVE  EventsIgnoreTheCuts /\ SizeLimitHolds
<1>1. CASE status \notin Working
  BY <1>1 DEF IInv, Stopped
<1>2. CASE status \in Working
  <2>1. PICK m, e \in 0..Len(body) :
          /\ Taken(body, m, e, pending, buffer, yielded)
          /\ status # "cutting" => Waits(body, m, buffer)
          /\ IsPrefix(yielded, ValuesUpTo(body, Len(body)))
    BY <1>2, ReadingFacts
  <2>2. status = "open" => yielded = ValuesUpTo(body, CompleteLength(body))
    <3>1. yielded = ValuesUpTo(body, m)
      BY <2>1 DEF Taken
    <3> QED BY <2>1, <3>1, WaitingFacts
  <2>3. status = "open" => Len(body) - CompleteLength(body) <= MaxEvent + MaxPending
    BY <2>1, WaitingFacts
  <2>4. status = "open" => \A b \in Blocks(body) : b.sep - b.first <= MaxEvent
    <3> SUFFICES ASSUME status = "open", NEW b \in Blocks(body) PROVE b.sep - b.first <= MaxEvent
      OBVIOUS
    <3>1. BlocksFit(body, Len(body)) /\ body \in Seq(Bytes)
      BY <2>1, WaitingFacts, TakenFacts
    <3> QED BY <3>1, BlocksAreInTheLimit
  <2>5. status \notin {"ended", "json", "utf8", "too_long"}
    BY <1>2 DEF Working
  <2>6. EventsIgnoreTheCuts
    BY <2>1, <2>2, <2>5 DEF EventsIgnoreTheCuts
  <2>7. SizeLimitHolds
    BY <2>3, <2>4, <2>5 DEF SizeLimitHolds
  <2> QED BY <2>6, <2>7
<1> QED BY <1>1, <1>2

\* It holds before the response.
LEMMA InitInv == Init => IInv
<1> SUFFICES ASSUME Init PROVE IInv
  OBVIOUS
<1>1. /\ status = "sent" /\ body = <<>> /\ pending = <<>> /\ buffer = <<>> /\ yielded = <<>>
  BY DEF Init
<1>2. Len(body) = 0 /\ body \in Seq(Bytes) /\ 0 \in 0..Len(body)
  BY <1>1
<1>3. TypeOK
  BY <1>1 DEF TypeOK
<1>4. SubSeq(body, 0 + 1, 0) = <<>> /\ SubSeq(body, 0 + 1, Len(body)) = <<>>
  BY <1>1, SubSeqEmpty
<1>5. IsRest(body, 0, pending)
  BY <1>1, <1>2, <1>4 DEF IsRest
<1>6. MayWait(pending)
  BY <1>1, SizesAreNat DEF MayWait
<1>7. ValuesUpTo(body, 0) = <<>> /\ BlockStart(body)[0] = 1
  BY <1>2, ValuesUnfold, BlockStartUnfold
<1>8. WholeUpTo(body, 0) /\ BlocksFit(body, 0) /\ \A i \in 1..0 : ~IsBadLine(body, i)
  BY DEF WholeUpTo, BlocksFit
<1>9. Taken(body, 0, 0, pending, buffer, yielded)
  BY <1>1, <1>2, <1>4, <1>5, <1>6, <1>7, <1>8 DEF Taken
<1>10. Waits(body, 0, buffer)
  <2>1. \A i \in 0..Len(body) : i = 0
    BY <1>2
  <2>2. Len(buffer) <= MaxEvent
    BY <1>1, SizesAreNat
  <2> QED BY <1>7, <2>1, <2>2 DEF Waits
<1>11. Reading /\ Stopped
  BY <1>1, <1>2, <1>9, <1>10 DEF Reading, Stopped, Working
<1> QED BY <1>3, <1>11 DEF IInv

-----------------------------------------------------------------------------
(* Each step keeps it. *)

\* A step that changes nothing but the status, to an error that promises nothing
\* more than that what was yielded is a beginning.
LEMMA StopsEarly ==
  ASSUME IInv, status \in Working, status' \in {"http", "network"},
         UNCHANGED <<body, pending, buffer, yielded>>
  PROVE  IInv'
<1>1. IsPrefix(yielded, ValuesUpTo(body, Len(body)))
  BY ReadingFacts
<1>2. TypeOK'
  BY DEF IInv, TypeOK, Errors
<1>3. EventsIgnoreTheCuts'
  BY <1>1 DEF EventsIgnoreTheCuts
<1>4. SizeLimitHolds'
  BY DEF SizeLimitHolds
<1> QED BY <1>2, <1>3, <1>4 DEF IInv, Reading, Stopped, Working

LEMMA RespondInv ==
  ASSUME IInv, NEW success \in BOOLEAN, Respond(success)
  PROVE  IInv'
<1>1. CASE success
  <2>1. status = "sent" /\ status' = "open" /\ UNCHANGED <<body, pending, buffer, yielded>>
    BY <1>1 DEF Respond
  <2> QED BY <2>1 DEF IInv, TypeOK, Reading, Stopped, Working
<1>2. CASE ~success
  <2>1. status = "sent" /\ status' = "http" /\ UNCHANGED <<body, pending, buffer, yielded>>
    BY <1>2 DEF Respond
  <2> QED BY <2>1, StopsEarly DEF Working
<1> QED BY <1>1, <1>2

LEMMA FailInv ==
  ASSUME IInv, Fail
  PROVE  IInv'
BY StopsEarly DEF Fail, Working

LEMMA ChunkInv ==
  ASSUME IInv, NEW c \in Seq(Bytes), Chunk(c)
  PROVE  IInv'
<1> DEFINE bytes == pending \o c
           n == valid_up_to(bytes)
           left == SubSeq(bytes, n + 1, Len(bytes))
<1>0. /\ status = "open" /\ body' = body \o c /\ pending' = left
      /\ buffer' = buffer \o SubSeq(bytes, 1, n) /\ yielded' = yielded
      /\ status' = IF Malformed(left) \/ Len(left) > MaxPending THEN "utf8" ELSE "cutting"
  BY DEF Chunk
<1>1. PICK m, e \in 0..Len(body) : Taken(body, m, e, pending, buffer, yielded)
  BY <1>0 DEF IInv, Reading, Working
<1>2. Decodes(bytes, n, left)
  BY DEF Decodes
<1>3. /\ body \in Seq(Bytes) /\ pending \in Seq(Bytes) /\ buffer \in Seq(Bytes)
      /\ yielded \in Seq(Payloads) /\ Len(body) \in Nat /\ Len(c) \in Nat
  BY DEF IInv, TypeOK
<1>4. bytes \in Seq(Bytes) /\ body' \in Seq(Bytes) /\ Len(body') = Len(body) + Len(c)
  BY <1>0, <1>3, ConcatProperties
<1> HIDE DEF bytes, n
<1>5. n \in 0..Len(bytes) /\ Len(bytes) \in Nat
  BY <1>4, ValidUpTo DEF n
<1>6. left \in Seq(Bytes) /\ SubSeq(bytes, 1, n) \in Seq(Bytes)
  <2>1. n + 1 \in 1..(Len(bytes) + 1) /\ Len(bytes) \in ((n + 1) - 1)..Len(bytes)
        /\ 1 \in 1..(Len(bytes) + 1) /\ n \in (1 - 1)..Len(bytes)
    BY <1>5
  <2> QED BY <1>4, <2>1, Slice
<1> HIDE DEF left
<1>7. TypeOK'
  <2>1. buffer' \in Seq(Bytes)
    BY <1>0, <1>3, <1>6, ConcatProperties
  <2>2. status' \in {"utf8", "cutting"}
    BY <1>0
  <2> QED BY <1>0, <1>3, <1>4, <1>6, <2>1, <2>2 DEF TypeOK, Errors
<1>8. CASE MayWait(left)
  <2>1. Len(left) \in Nat /\ MaxPending \in Nat
    BY <1>6, SizesAreNat
  <2>2. status' = "cutting"
    BY <1>0, <1>8, <2>1 DEF MayWait, Malformed
  <2>3. Taken(body \o c, m, e + n, left, buffer \o SubSeq(pending \o c, 1, n), yielded)
    <3>1. Decodes(pending \o c, n, left)
      BY <1>2 DEF bytes
    <3> QED BY <1>1, <1>8, <3>1, ChunkTaken
  <2>4. Taken(body', m, e + n, pending', buffer', yielded')
    BY <1>0, <2>3 DEF bytes
  <2>5. m \in 0..Len(body') /\ e + n \in 0..Len(body')
    <3>1. e + n \in m..Len(body') /\ m \in 0..Len(body')
      BY <2>4, TakenFacts
    <3> QED BY <1>4, <3>1
  <2>6. Reading' /\ Stopped'
    BY <2>2, <2>4, <2>5 DEF Reading, Stopped, Working
  <2> QED BY <1>7, <2>6 DEF IInv
<1>9. CASE ~MayWait(left)
  <2>1. Len(left) \in Nat /\ MaxPending \in Nat
    BY <1>6, SizesAreNat
  <2>2. status' = "utf8"
    BY <1>0, <1>9, <2>1 DEF MayWait, Malformed
  <2>3. ~IsUtf8(body')
    <3>1. Decodes(pending \o c, n, left)
      BY <1>2 DEF bytes
    <3>2. ~IsUtf8(body \o c)
      BY <1>1, <1>9, <3>1, ChunkRefused
    <3> QED BY <1>0, <3>2
  <2>4. IsPrefix(yielded', ValuesUpTo(body', Len(body')))
    BY <1>0, <1>1, ChunkLeavesTheBlocks
  <2>5. EventsIgnoreTheCuts'
    BY <2>2, <2>3, <2>4 DEF EventsIgnoreTheCuts
  <2>6. SizeLimitHolds'
    BY <2>2 DEF SizeLimitHolds
  <2> QED BY <1>7, <2>2, <2>5, <2>6 DEF IInv, Reading, Stopped, Working
<1> QED BY <1>8, <1>9

LEMMA CutInv ==
  ASSUME IInv, Cut
  PROVE  IInv'
<1> DEFINE b == find_event_boundary(buffer)
           block == parse_event_block(SubSeq(buffer, 1, b.idx))
<1>0. /\ status = "cutting" /\ b.found /\ b.idx <= MaxEvent
      /\ buffer' = SubSeq(buffer, b.idx + b.len + 1, Len(buffer))
      /\ \/ block.ok /\ yielded' = yielded \o block.values /\ status' = status
         \/ ~block.ok /\ status' = "json" /\ yielded' = yielded
      /\ body' = body /\ pending' = pending
  BY DEF Cut
<1>1. PICK m, e \in 0..Len(body) :
        /\ Taken(body, m, e, pending, buffer, yielded)
        /\ IsPrefix(yielded, ValuesUpTo(body, Len(body)))
  BY <1>0, ReadingFacts DEF Working
<1>2. Cuts(buffer, b, block)
  BY <1>0 DEF Cuts
<1> HIDE DEF b, block
<1>3. /\ block.ok /\ b.idx <= MaxEvent =>
           Taken(body, m + b.idx + b.len, e, pending,
                 SubSeq(buffer, b.idx + b.len + 1, Len(buffer)), yielded \o block.values)
      /\ ~block.ok => HasBadLine(body)
  BY <1>1, <1>2, CutTaken
<1>4. CASE block.ok
  <2> DEFINE k == m + b.idx + b.len
  <2>1. Taken(body', k, e, pending', buffer', yielded')
    BY <1>0, <1>3, <1>4
  <2>2. status' = "cutting"
    BY <1>0, <1>4
  <2> HIDE DEF k
  <2>3. /\ body' \in Seq(Bytes) /\ Len(body') \in Nat /\ k \in 0..Len(body') /\ e \in k..Len(body')
        /\ buffer' \in Seq(Bytes) /\ yielded' \in Seq(Payloads) /\ pending' \in Seq(Bytes)
    BY <2>1, TakenFacts
  <2>4. e \in 0..Len(body')
    BY <2>3
  <2>5. TypeOK'
    BY <2>2, <2>3 DEF TypeOK
  <2>6. Reading' /\ Stopped'
    BY <2>1, <2>2, <2>3, <2>4 DEF Reading, Stopped, Working
  <2> QED BY <2>5, <2>6 DEF IInv
<1>5. CASE ~block.ok
  <2>1. status' = "json" /\ yielded' = yielded /\ body' = body /\ pending' = pending
    BY <1>0, <1>5
  <2>2. EventsIgnoreTheCuts'
    BY <1>1, <1>3, <1>5, <2>1 DEF EventsIgnoreTheCuts
  <2>3. SizeLimitHolds'
    BY <2>1 DEF SizeLimitHolds
  <2>4. buffer' \in Seq(Bytes)
    <3>1. b.idx \in Nat /\ b.len \in {2, 4} /\ m + b.idx + b.len <= e
      BY <1>1, <1>2, FirstEvent
    <3>2. buffer \in Seq(Bytes) /\ Len(buffer) = e - m /\ Len(body) \in Nat
          /\ m \in 0..Len(body) /\ e \in m..Len(body)
      <4>1. Taken(body, m, e, pending, buffer, yielded)
        BY <1>1
      <4>2. buffer \in Seq(Bytes) /\ Len(buffer) = e - m
        BY <4>1, TakenFacts
      <4>3. Len(body) \in Nat /\ m \in 0..Len(body) /\ e \in m..Len(body)
        BY <4>1, TakenFacts
      <4> QED BY <4>2, <4>3
    <3> DEFINE p == b.idx + b.len + 1
               l == Len(buffer)
    <3>3. p \in 1..(l + 1) /\ l \in (p - 1)..l
      <4> DEFINE i == b.idx
                 w == b.len
      <4>1. i \in Nat /\ w \in {2, 4} /\ m + i + w <= e /\ l = e - m /\ m \in Nat /\ e \in Nat
        BY <3>1, <3>2
      <4>2. p = i + w + 1
        OBVIOUS
      <4> HIDE DEF i, w, p, l
      <4> QED BY <4>1, <4>2
    <3>4. buffer' = SubSeq(buffer, p, l)
      BY <1>0
    <3> HIDE DEF p
    <3> QED BY <3>2, <3>3, <3>4, Slice
  <2>5. TypeOK'
    BY <2>1, <2>4 DEF IInv, TypeOK, Errors
  <2> QED BY <2>1, <2>2, <2>3, <2>5 DEF IInv, Reading, Stopped, Working
<1> QED BY <1>0, <1>4, <1>5

LEMMA TooLongInv ==
  ASSUME IInv, TooLong
  PROVE  IInv'
<1> DEFINE b == find_event_boundary(buffer)
<1>0. /\ status = "cutting" /\ status' = "too_long"
      /\ IF b.found THEN b.idx > MaxEvent ELSE Len(buffer) > MaxEvent
      /\ body' = body /\ pending' = pending /\ buffer' = buffer /\ yielded' = yielded
  BY DEF TooLong
<1>1. PICK m, e \in 0..Len(body) :
        /\ Taken(body, m, e, pending, buffer, yielded)
        /\ IsPrefix(yielded, ValuesUpTo(body, Len(body)))
  BY <1>0, ReadingFacts DEF Working
<1>2. TooMuch(body)
  BY <1>0, <1>1, RefusedAsTooLong
<1> HIDE DEF b
<1>3. TypeOK'
  BY <1>0 DEF IInv, TypeOK, Errors
<1>4. EventsIgnoreTheCuts'
  BY <1>0, <1>1 DEF EventsIgnoreTheCuts
<1>5. SizeLimitHolds'
  BY <1>0, <1>2 DEF SizeLimitHolds, TooMuch
<1> QED BY <1>0, <1>3, <1>4, <1>5 DEF IInv, Reading, Stopped, Working

LEMMA AwaitInv ==
  ASSUME IInv, Await
  PROVE  IInv'
<1>0. /\ status = "cutting" /\ status' = "open"
      /\ ~find_event_boundary(buffer).found /\ Len(buffer) <= MaxEvent
      /\ body' = body /\ pending' = pending /\ buffer' = buffer /\ yielded' = yielded
  BY DEF Await
<1>1. PICK m, e \in 0..Len(body) : Taken(body, m, e, pending, buffer, yielded)
  BY <1>0, ReadingFacts DEF Working
<1>2. Waits(body, m, buffer)
  BY <1>0, <1>1, NothingToCut
<1>3. TypeOK'
  BY <1>0 DEF IInv, TypeOK
<1>4. Reading' /\ Stopped'
  BY <1>0, <1>1, <1>2 DEF Reading, Stopped, Working
<1> QED BY <1>3, <1>4 DEF IInv

LEMMA EndInv ==
  ASSUME IInv, End
  PROVE  IInv'
<1> DEFINE block == parse_event_block(buffer)
<1>0. /\ status = "open" /\ body' = body /\ pending' = pending /\ buffer' = buffer
      /\ \/ pending # <<>> /\ status' = "utf8" /\ yielded' = yielded
         \/ pending = <<>> /\ ~block.ok /\ status' = "json" /\ yielded' = yielded
         \/ /\ pending = <<>> /\ block.ok /\ status' = "ended"
            /\ yielded' = yielded \o block.values
  BY DEF End
<1>1. PICK m, e \in 0..Len(body) :
        /\ Taken(body, m, e, pending, buffer, yielded)
        /\ Waits(body, m, buffer)
        /\ IsPrefix(yielded, ValuesUpTo(body, Len(body)))
  BY <1>0, ReadingFacts DEF Working
<1>2. pending # <<>> => ~IsUtf8(body)
  BY <1>1, CharacterCutShort
<1>3. pending = <<>> => /\ block.ok => ValuesUpTo(body, Len(body)) = yielded \o block.values
                        /\ IsUtf8(body)
                        /\ block.ok <=> ~HasBadLine(body)
  BY <1>1, LastBlock
<1>4. BlocksFit(body, Len(body)) /\ body \in Seq(Bytes) /\ Len(body) \in Nat
  BY <1>1, WaitingFacts, TakenFacts
<1> HIDE DEF block
<1>5. CASE pending # <<>>
  <2>1. status' = "utf8" /\ yielded' = yielded
    BY <1>0, <1>5
  <2>2. EventsIgnoreTheCuts' /\ SizeLimitHolds'
    BY <1>0, <1>1, <1>2, <1>5, <2>1 DEF EventsIgnoreTheCuts, SizeLimitHolds
  <2>3. TypeOK'
    BY <1>0, <2>1 DEF IInv, TypeOK, Errors
  <2> QED BY <2>1, <2>2, <2>3 DEF IInv, Reading, Stopped, Working
<1>6. CASE pending = <<>> /\ ~block.ok
  <2>1. status' = "json" /\ yielded' = yielded
    BY <1>0, <1>6
  <2>2. EventsIgnoreTheCuts' /\ SizeLimitHolds'
    BY <1>0, <1>1, <1>3, <1>6, <2>1 DEF EventsIgnoreTheCuts, SizeLimitHolds
  <2>3. TypeOK'
    BY <1>0, <2>1 DEF IInv, TypeOK, Errors
  <2> QED BY <2>1, <2>2, <2>3 DEF IInv, Reading, Stopped, Working
<1>7. CASE pending = <<>> /\ block.ok
  <2>1. status' = "ended" /\ yielded' = ValuesUpTo(body, Len(body))
    BY <1>0, <1>3, <1>7
  <2>2. yielded' \in Seq(Payloads)
    BY <1>4, <2>1, ValuesUnfold
  <2>3. IsPrefix(ValuesUpTo(body, Len(body)), ValuesUpTo(body, Len(body)))
    <3>1. Len(body) \in 0..Len(body) /\ Len(body) \in Len(body)..Len(body)
      BY <1>4
    <3> QED BY <1>4, <3>1, ValuesArePrefixes
  <2>4. EventsIgnoreTheCuts'
    BY <1>0, <1>3, <1>7, <2>1, <2>3 DEF EventsIgnoreTheCuts
  <2>5. \A b \in Blocks(body) : b.sep - b.first <= MaxEvent
    BY <1>4, BlocksAreInTheLimit
  <2>6. SizeLimitHolds'
    BY <1>0, <2>1, <2>5 DEF SizeLimitHolds
  <2>7. TypeOK'
    BY <1>0, <2>1, <2>2 DEF IInv, TypeOK
  <2> QED BY <2>1, <2>4, <2>6, <2>7 DEF IInv, Reading, Stopped, Working
<1> QED BY <1>0, <1>5, <1>6, <1>7

\* Every step keeps the invariant.
LEMMA NextInv == IInv /\ [Next]_vars => IInv'
<1> SUFFICES ASSUME IInv, [Next]_vars PROVE IInv'
  OBVIOUS
<1>1. ASSUME NEW success \in BOOLEAN, Respond(success) PROVE IInv'
  BY <1>1, RespondInv
<1>2. ASSUME NEW n \in 0..(MaxBytes - Len(body)), NEW c \in [1..n -> Bytes], Chunk(c) PROVE IInv'
  <2>1. Len(body) \in Nat /\ MaxBytes \in Nat
    BY SizesAreNat DEF IInv, TypeOK
  <2>2. n \in Nat
    BY <2>1
  <2>3. c \in Seq(Bytes)
    BY <2>2, ElementOfSeq
  <2> QED BY <1>2, <2>3, ChunkInv
<1>3. CASE Cut
  BY <1>3, CutInv
<1>4. CASE TooLong
  BY <1>4, TooLongInv
<1>5. CASE Await
  BY <1>5, AwaitInv
<1>6. CASE Fail
  BY <1>6, FailInv
<1>7. CASE End
  BY <1>7, EndInv
<1>8. CASE UNCHANGED vars
  BY <1>8 DEF vars, IInv, TypeOK, Reading, Stopped, EventsIgnoreTheCuts, SizeLimitHolds
<1>9. CASE Terminated
  BY <1>8, <1>9 DEF Terminated
<1> QED BY <1>1, <1>2, <1>3, <1>4, <1>5, <1>6, <1>7, <1>8, <1>9 DEF Next

THEOREM Inductive == Spec => []IInv
BY InitInv, NextInv, PTL DEF Spec

\* The parser's state is of its type: what it hands out are values the server
\* sent as JSON.
THEOREM TypeCorrect == Spec => []TypeOK
<1>1. IInv => TypeOK
  BY DEF IInv
<1> QED BY <1>1, Inductive, PTL

\* However a body of any length is cut into chunks, the caller gets its values in
\* order, all of them at a good end, and an error only for a fault of the body.
THEOREM CutsDoNotMatter == Spec => []EventsIgnoreTheCuts
<1>1. IInv => EventsIgnoreTheCuts
  BY InvPromises
<1> QED BY <1>1, Inductive, PTL

\* For every limit, no event above it is let through or waited for, and only a
\* stretch above it without a separator is refused.
THEOREM LimitsHold == Spec => []SizeLimitHolds
<1>1. IInv => SizeLimitHolds
  BY InvPromises
<1> QED BY <1>1, Inductive, PTL
=============================================================================
