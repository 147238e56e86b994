---------------------------- MODULE WebsocketProofs ----------------------------
(***************************************************************************)
(* Two parts of a websocket connection: its frames and its keep-alive.     *)
(*                                                                         *)
(* FramesSurvive speaks of the frames dispatched so far.  The invariant    *)
(* says where the parser is within the conversation: the bytes of the read *)
(* under way, of the chunks that have arrived and of those on their way,   *)
(* put together, are exactly what is left of the frame that is being       *)
(* parsed, from the piece it waits for on, and all frames behind it; and   *)
(* what it knows of that frame is true.  A part of a read only moves bytes *)
(* from one of them to the other.  A complete read has the length of its   *)
(* piece, so it is that piece, and what is parsed from it is what was      *)
(* composed: masks cancel out, and a length is read as it was written.     *)
(*                                                                         *)
(* LostOnlyAfterSilence speaks of a timer of KeepAliveManager that is due. *)
(* The invariant says what holds all the time: as long as no frame has     *)
(* overtaken a ping, an open connection has exactly one thing going on     *)
(* (the ping timer, a ping on its way, or the error timer), and while the  *)
(* error timer runs the written ping has gone unanswered for at least as   *)
(* long.                                                                   *)
(***************************************************************************)
EXTENDS WebsocketFrames, KeepAlive, SequenceTheorems, WellFoundedInduction, TLAPS

-----------------------------------------------------------------------------
(* Sequences put together.                                                   *)

(* A set of numbers has a least one.                                         *)
LEMMA LeastElement ==
    ASSUME NEW T, T \subseteq Nat, T # {}
    PROVE  \E r \in T : \A q \in T : r <= q
<1>1. PICK r \in T : \A q \in T : ~(<<q, r>> \in OpToRel(<, Nat))
  BY NatLessThanWellFounded, WFMin
<1>2. ASSUME NEW q \in T PROVE r <= q
  <2>1. ~(q < r)
    BY <1>1 DEF OpToRel
  <2>. QED
    BY <2>1
<1>. QED
  BY <1>2

(* Induction up to n.                                                       *)
LEMMA UpTo ==
    ASSUME NEW n \in Nat, NEW T, 0 \in T, \A i \in 1..n : i - 1 \in T => i \in T
    PROVE  \A i \in 0..n : i \in T
<1> DEFINE Bad == {i \in 0..n : i \notin T}
<1>1. SUFFICES ASSUME Bad # {} PROVE FALSE
  OBVIOUS
<1>2. PICK k \in Bad : \A j \in Bad : k <= j
  <2>1. Bad \subseteq Nat
    OBVIOUS
  <2>. QED
    BY <1>1, <2>1, LeastElement
<1>3. k \in 1..n /\ k - 1 \in 0..n
  BY <1>2
<1>4. k - 1 \notin Bad
  BY <1>2, <1>3
<1>. QED
  BY <1>2, <1>3, <1>4

(* With this name the provers take concatenation as it is.                  *)
Cat(s, t) == s \o t

LEMMA CatIs ==
    ASSUME NEW S, NEW u \in Seq(S), NEW v \in Seq(S), NEW w \in Seq(S)
    PROVE  Cat(Cat(u, v), w) = Cat(u, Cat(v, w)) /\ Cat(u, v) \in Seq(S)
<1>1. (u \o v) \o w = u \o (v \o w)
  OBVIOUS
<1>2. u \o v \in Seq(S)
  BY ConcatProperties
<1>. QED
  BY <1>1, <1>2 DEF Cat

(* g[i] is the first i chunks put together.                                  *)
Flattens(g, q) ==
    g = [i \in 0..Len(q) |-> IF i = 0 THEN <<>> ELSE g[i - 1] \o q[i]]

(* Its equations, one by one.                                                *)
LEMMA FlattensSteps ==
    ASSUME NEW q, Len(q) \in Nat, NEW g, Flattens(g, q)
    PROVE  g[0] = <<>> /\ \A i \in 1..Len(q) : g[i] = g[i - 1] \o q[i]
<1> DEFINE n == Len(q)
<1>1. g = [i \in 0..n |-> IF i = 0 THEN <<>> ELSE g[i - 1] \o q[i]]
  BY DEF Flattens
<1>2. n \in Nat
  OBVIOUS
<1> HIDE DEF n
<1>3. 0 \in 0..n /\ \A i \in 1..n : i \in 0..n /\ i # 0
  BY <1>2
<1>4. g[0] = <<>> /\ \A i \in 1..n : g[i] = g[i - 1] \o q[i]
  BY <1>1, <1>3
<1>. QED
  BY <1>4 DEF n

(* Every sequence of chunks has one.                                         *)
LEMMA FlattenExists ==
    ASSUME NEW S, NEW q \in Seq(Seq(S))
    PROVE  \E g \in [0..Len(q) -> Seq(S)] : Flattens(g, q)
<1> DEFINE n == Len(q)
           Upto(f, k) == /\ f \in [0..k -> Seq(S)]
                         /\ f[0] = <<>>
                         /\ \A i \in 1..k : f[i] = f[i - 1] \o q[i]
           T == {k \in 0..n : \E f : Upto(f, k)}
<1>1. n \in Nat /\ \A i \in 1..n : q[i] \in Seq(S)
  BY LenProperties, ElementOfSeq
<1> HIDE DEF n
<1>2. 0 \in T
  <2>1. Upto([i \in 0..0 |-> <<>>], 0)
    <3>1. <<>> \in Seq(S) /\ 1..0 = {} /\ 0 \in 0..0
      OBVIOUS
    <3> DEFINE f == [i \in 0..0 |-> <<>>]
    <3>2. f \in [0..0 -> Seq(S)] /\ f[0] = <<>>
      BY <3>1
    <3>3. \A i \in 1..0 : f[i] = f[i - 1] \o q[i]
      BY <3>1
    <3>. QED
      BY <3>2, <3>3
  <2> HIDE DEF Upto
  <2>. QED
    BY <1>1, <2>1
<1>3. ASSUME NEW k \in 1..n, k - 1 \in T PROVE k \in T
  <2>1. k \in 0..n /\ k \in Nat /\ k # 0
    BY <1>1
  <2>2. PICK f : Upto(f, k - 1)
    BY <1>3
  <2> DEFINE h == [i \in 0..k |-> IF i = k THEN f[k - 1] \o q[k] ELSE f[i]]
  <2>3. f[k - 1] \in Seq(S) /\ q[k] \in Seq(S)
    BY <1>1, <2>1, <2>2
  <2>4. f[k - 1] \o q[k] \in Seq(S)
    BY <2>3, ConcatProperties
  <2>5. \A i \in 0..k : i # k => i \in 0..(k - 1)
    BY <2>1
  <2>6. h \in [0..k -> Seq(S)]
    BY <2>2, <2>4, <2>5
  <2>7. h[0] = <<>>
    BY <2>1, <2>2
  <2>8. \A i \in 1..k : h[i] = h[i - 1] \o q[i]
    <3>1. SUFFICES ASSUME NEW i \in 1..k PROVE h[i] = h[i - 1] \o q[i]
      OBVIOUS
    <3>2. i \in 0..k /\ i - 1 \in 0..k /\ i - 1 # k /\ (i # k => i \in 1..(k - 1))
      BY <2>1
    <3>3. h[i - 1] = f[i - 1]
      BY <3>2
    <3>. QED
      BY <2>2, <3>2, <3>3
  <2>9. Upto(h, k)
    BY <2>6, <2>7, <2>8
  <2> HIDE DEF h, Upto
  <2>. QED
    BY <2>1, <2>9
<1>4. n \in T
  <2> HIDE DEF T
  <2>1. \A k \in 0..n : k \in T
    BY <1>1, <1>2, <1>3, UpTo
  <2>. QED
    BY <1>1, <2>1
<1>5. PICK f : Upto(f, n)
  BY <1>4
<1>6. f = [i \in 0..n |-> IF i = 0 THEN <<>> ELSE f[i - 1] \o q[i]]
  <2>1. \A i \in 0..n : i # 0 => i \in 1..n
    BY <1>1
  <2>. QED
    BY <1>5, <2>1
<1>. QED
  BY <1>5, <1>6 DEF Flattens, n

(* It is what FlattenSeq computes.                                           *)
LEMMA FlattenIs ==
    ASSUME NEW S, NEW q \in Seq(Seq(S)), NEW g \in [0..Len(q) -> Seq(S)], Flattens(g, q)
    PROVE  FlattenSeq(q) = g[Len(q)]
<1> DEFINE n == Len(q)
           flatten[i \in 1..n] == IF i = 1 THEN q[i] ELSE flatten[i - 1] \o q[i]
           h == [i \in 1..n |-> g[i]]
<1>1. n \in Nat /\ \A i \in 1..n : q[i] \in Seq(S)
  BY LenProperties, ElementOfSeq
<1>2. g[0] = <<>> /\ \A i \in 1..n : g[i] = g[i - 1] \o q[i]
  BY <1>1, FlattensSteps
<1>3. FlattenSeq(q) = IF n = 0 THEN q ELSE flatten[n]
  BY DEF FlattenSeq
<1>4. ASSUME n = 0 PROVE FlattenSeq(q) = g[n]
  BY <1>2, <1>3, <1>4, EmptySeq
<1>5. ASSUME n # 0 PROVE FlattenSeq(q) = g[n]
  <2>1. 1 \in 1..n
    BY <1>1, <1>5
  <2>2. h[1] = q[1]
    <3>1. g[1] = g[1 - 1] \o q[1]
      BY <1>2, <2>1
    <3>2. g[1 - 1] = g[0]
      OBVIOUS
    <3>. QED
      BY <1>1, <1>2, <2>1, <3>1, <3>2, ConcatEmptySeq
  <2>3. h = [i \in 1..n |-> IF i = 1 THEN q[i] ELSE h[i - 1] \o q[i]]
    <3>1. SUFFICES ASSUME NEW i \in 1..n, i # 1 PROVE h[i] = h[i - 1] \o q[i]
      BY <2>2
    <3>2. i - 1 \in 1..n
      BY <1>1, <3>1
    <3>. QED
      BY <1>2, <3>2
  <2>4. flatten = [i \in 1..n |-> IF i = 1 THEN q[i] ELSE flatten[i - 1] \o q[i]]
    <3>1. flatten = CHOOSE f : f = [i \in 1..n |-> IF i = 1 THEN q[i] ELSE f[i - 1] \o q[i]]
      OBVIOUS
    <3> HIDE DEF flatten, h, n
    <3>. QED
      BY <2>3, <3>1
  <2> DEFINE T == {0} \cup {i \in 1..n : flatten[i] = g[i]}
  <2> HIDE DEF flatten, n
  <2>5. ASSUME NEW i \in 1..n, i - 1 \in T PROVE i \in T
    <3>1. CASE i = 1
      BY <2>1, <2>2, <2>4, <3>1
    <3>2. CASE i # 1
      <4>1. i - 1 # 0
        BY <1>1, <3>2
      <4>2. flatten[i - 1] = g[i - 1]
        BY <2>5, <4>1
      <4>3. flatten[i] = flatten[i - 1] \o q[i]
        BY <2>4, <3>2
      <4>. QED
        BY <1>2, <4>2, <4>3
    <3>. QED
      BY <3>1, <3>2
  <2>6. n \in T
    <3> HIDE DEF T
    <3>1. 0 \in T
      BY DEF T
    <3>2. \A i \in 0..n : i \in T
      BY <1>1, <2>5, <3>1, UpTo
    <3>. QED
      BY <1>1, <3>2
  <2>. QED
    BY <1>3, <1>5, <2>6
<1>. QED
  BY <1>4, <1>5

(* What FlattenSeq returns, for nothing, and as chunks are taken and added.  *)
LEMMA FlatType ==
    ASSUME NEW S, NEW q \in Seq(Seq(S))
    PROVE  FlattenSeq(q) \in Seq(S)
<1>1. PICK g \in [0..Len(q) -> Seq(S)] : Flattens(g, q)
  BY FlattenExists
<1>2. Len(q) \in 0..Len(q)
  BY LenProperties
<1>. QED
  BY <1>1, <1>2, FlattenIs

LEMMA FlatEmpty == FlattenSeq(<<>>) = <<>>
BY DEF FlattenSeq

LEMMA FlatHead ==
    ASSUME NEW S, NEW q \in Seq(Seq(S)), q # <<>>
    PROVE  FlattenSeq(q) = Head(q) \o FlattenSeq(Tail(q))
<1> DEFINE t == Tail(q)
           m == Len(t)
<1>1. /\ t \in Seq(Seq(S)) /\ m \in Nat /\ Len(q) = m + 1 /\ Len(q) \in Nat
      /\ \A i \in 1..m : t[i] = q[i + 1]
      /\ Head(q) = q[1] /\ q[1] \in Seq(S)
  BY HeadTailProperties, LenProperties, ElementOfSeq
<1> HIDE DEF t
<1>2. \A i \in 1..m : t[i] \in Seq(S)
  BY <1>1, ElementOfSeq
<1>3. PICK g \in [0..Len(q) -> Seq(S)] : Flattens(g, q)
  BY FlattenExists
<1>4. PICK h \in [0..Len(t) -> Seq(S)] : Flattens(h, t)
  BY <1>1, FlattenExists
<1>5. /\ g[0] = <<>> /\ \A i \in 1..(m + 1) : g[i] = g[i - 1] \o q[i]
      /\ h[0] = <<>> /\ \A i \in 1..m : h[i] = h[i - 1] \o t[i]
      /\ h \in [0..m -> Seq(S)]
  <2>1. g[0] = <<>> /\ \A i \in 1..Len(q) : g[i] = g[i - 1] \o q[i]
    BY <1>1, <1>3, FlattensSteps
  <2>2. h[0] = <<>> /\ \A i \in 1..Len(t) : h[i] = h[i - 1] \o t[i]
    BY <1>1, <1>4, FlattensSteps
  <2>3. g[0] = <<>> /\ \A i \in 1..(m + 1) : g[i] = g[i - 1] \o q[i]
    BY <1>1, <2>1
  <2>. QED
    BY <1>4, <2>2, <2>3
<1>6. FlattenSeq(q) = g[m + 1] /\ FlattenSeq(t) = h[m]
  BY <1>1, <1>3, <1>4, FlattenIs
<1> HIDE DEF m
<1> DEFINE T == {i \in 0..m : g[i + 1] = q[1] \o h[i]}
<1>7. 0 \in T
  <2>1. 1 \in 1..(m + 1) /\ 0 \in 0..m /\ 1 - 1 = 0 /\ 0 + 1 = 1
    BY <1>1
  <2>2. g[1] = <<>> \o q[1]
    BY <1>5, <2>1
  <2>3. g[1] = q[1] /\ q[1] \o h[0] = q[1]
    BY <1>1, <1>5, <2>2, ConcatEmptySeq
  <2>. QED
    BY <2>1, <2>3
<1>8. ASSUME NEW i \in 1..m, i - 1 \in T PROVE i \in T
  <2>1. i + 1 \in 1..(m + 1) /\ (i + 1) - 1 = i /\ (i - 1) + 1 = i /\ i \in 0..m /\ i - 1 \in 0..m
    BY <1>1
  <2>2. g[(i - 1) + 1] = q[1] \o h[i - 1]
    BY <1>8
  <2>3. g[i + 1] = g[(i + 1) - 1] \o q[i + 1]
    BY <1>5, <2>1
  <2>6. g[i + 1] = (q[1] \o h[i - 1]) \o t[i]
    BY <1>1, <2>1, <2>2, <2>3
  <2>4. h[i - 1] \in Seq(S)
    BY <1>5, <2>1
  <2>7. q[1] \in Seq(S) /\ t[i] \in Seq(S)
    BY <1>1, <1>2
  <2>5. (q[1] \o h[i - 1]) \o t[i] = q[1] \o (h[i - 1] \o t[i])
    <3>1. PICK u \in Seq(S), v \in Seq(S), w \in Seq(S) : u = q[1] /\ v = h[i - 1] /\ w = t[i]
      BY <2>4, <2>7
    <3>2. Cat(Cat(u, v), w) = Cat(u, Cat(v, w))
      BY CatIs
    <3>. QED
      BY <3>1, <3>2 DEF Cat
  <2>. QED
    BY <1>5, <2>1, <2>5, <2>6
<1>9. m \in T
  <2> HIDE DEF T
  <2>1. \A i \in 0..m : i \in T
    BY <1>1, <1>7, <1>8, UpTo
  <2>. QED
    BY <1>1, <2>1
<1>. QED
  BY <1>1, <1>6, <1>9 DEF t

LEMMA FlatAppend ==
    ASSUME NEW S, NEW q \in Seq(Seq(S)), NEW x \in Seq(S)
    PROVE  FlattenSeq(Append(q, x)) = FlattenSeq(q) \o x
<1> DEFINE r == Append(q, x)
           n == Len(q)
<1>1. /\ r \in Seq(Seq(S)) /\ n \in Nat /\ Len(r) = n + 1 /\ Len(r) \in Nat
      /\ r[n + 1] = x
      /\ \A i \in 1..n : r[i] = q[i]
  BY AppendProperties, LenProperties
<1> HIDE DEF r
<1>2. PICK g \in [0..Len(q) -> Seq(S)] : Flattens(g, q)
  BY FlattenExists
<1>3. PICK h \in [0..Len(r) -> Seq(S)] : Flattens(h, r)
  BY <1>1, FlattenExists
<1>4. /\ g[0] = <<>> /\ \A i \in 1..n : g[i] = g[i - 1] \o q[i]
      /\ h[0] = <<>> /\ \A i \in 1..(n + 1) : h[i] = h[i - 1] \o r[i]
  <2>1. h[0] = <<>> /\ \A i \in 1..Len(r) : h[i] = h[i - 1] \o r[i]
    BY <1>1, <1>3, FlattensSteps
  <2>2. g[0] = <<>> /\ \A i \in 1..Len(q) : g[i] = g[i - 1] \o q[i]
    BY <1>1, <1>2, FlattensSteps
  <2>3. h[0] = <<>> /\ \A i \in 1..(n + 1) : h[i] = h[i - 1] \o r[i]
    BY <1>1, <2>1
  <2>. QED
    BY <2>2, <2>3
<1>5. FlattenSeq(r) = h[n + 1] /\ FlattenSeq(q) = g[n]
  BY <1>1, <1>2, <1>3, FlattenIs
<1> HIDE DEF n
<1> DEFINE T == {i \in 0..n : g[i] = h[i]}
<1>6. 0 \in T
  BY <1>1, <1>4
<1>7. ASSUME NEW i \in 1..n, i - 1 \in T PROVE i \in T
  <2>1. i \in 0..n /\ i \in 1..(n + 1)
    BY <1>1
  <2>. QED
    BY <1>1, <1>4, <1>7, <2>1
<1>8. n \in T
  <2> HIDE DEF T
  <2>1. \A i \in 0..n : i \in T
    BY <1>1, <1>6, <1>7, UpTo
  <2>. QED
    BY <1>1, <2>1
<1>9. h[n + 1] = h[n] \o r[n + 1]
  <2>1. n + 1 \in 1..(n + 1) /\ (n + 1) - 1 = n
    <3>1. n \in Nat
      BY <1>1
    <3>. QED
      BY ONLY <3>1
  <2>. QED
    BY <1>4, <2>1
<1>. QED
  BY <1>1, <1>5, <1>8, <1>9 DEF r

-----------------------------------------------------------------------------
(* Bytes, masks and lengths.                                                 *)

(* Frames whose length is below 2^31 - 1.                                    *)
WireFrames == {f \in DataFrames : Len(f.payload) < Huge}

(* What a bit of a byte is worth.                                            *)
Powers == {1, 2, 4, 8, 16, 32, 64, 128}

(* A byte is the sum of its bits.                                            *)
LEMMA ByteBits ==
    ASSUME NEW a \in Bytes
    PROVE  a = ((a \div 1) % 2) + 2 * ((a \div 2) % 2) + 4 * ((a \div 4) % 2)
                 + 8 * ((a \div 8) % 2) + 16 * ((a \div 16) % 2) + 32 * ((a \div 32) % 2)
                 + 64 * ((a \div 64) % 2) + 128 * ((a \div 128) % 2)
<1> DEFINE h(p) == a \div p
<1>1. a \in Nat /\ a < 256
  BY DEF Bytes
<1>2. /\ h(1) = a /\ h(2) \in Nat /\ h(4) \in Nat /\ h(8) \in Nat /\ h(16) \in Nat
      /\ h(32) \in Nat /\ h(64) \in Nat /\ h(128) \in Nat /\ h(128) < 2
  BY <1>1
<1>3. h(1) = 2 * h(2) + (h(1) % 2)
  BY <1>1
<1>4. h(2) = 2 * h(4) + (h(2) % 2)
  BY <1>1
<1>5. h(4) = 2 * h(8) + (h(4) % 2)
  BY <1>1
<1>6. h(8) = 2 * h(16) + (h(8) % 2)
  BY <1>1
<1>7. h(16) = 2 * h(32) + (h(16) % 2)
  BY <1>1
<1>8. h(32) = 2 * h(64) + (h(32) % 2)
  BY <1>1
<1>9. h(64) = 2 * h(128) + (h(64) % 2)
  BY <1>1
<1>10. h(128) % 2 = h(128)
  BY <1>1
<1> DEFINE e(p) == h(p) % 2
<1>11. /\ e(1) \in Nat /\ e(2) \in Nat /\ e(4) \in Nat /\ e(8) \in Nat /\ e(16) \in Nat
       /\ e(32) \in Nat /\ e(64) \in Nat /\ e(128) \in Nat
  BY <1>1
<1>12. /\ h(1) = 2 * h(2) + e(1) /\ h(2) = 2 * h(4) + e(2) /\ h(4) = 2 * h(8) + e(4)
       /\ h(8) = 2 * h(16) + e(8) /\ h(16) = 2 * h(32) + e(16) /\ h(32) = 2 * h(64) + e(32)
       /\ h(64) = 2 * h(128) + e(64) /\ h(128) = e(128)
  BY <1>3, <1>4, <1>5, <1>6, <1>7, <1>8, <1>9, <1>10
<1> HIDE DEF h, e
<1>13. a = e(1) + 2 * e(2) + 4 * e(4) + 8 * e(8) + 16 * e(16) + 32 * e(32)
             + 64 * e(64) + 128 * e(128)
  BY <1>2, <1>11, <1>12
<1>. QED
  BY <1>13 DEF e, h

(* A sum of bits is a byte that has them.                                    *)
LEMMA BitsOfByte ==
    ASSUME NEW c \in [Powers -> {0, 1}], NEW r,
           r = c[1] + 2 * c[2] + 4 * c[4] + 8 * c[8] + 16 * c[16] + 32 * c[32]
                 + 64 * c[64] + 128 * c[128]
    PROVE  r \in Bytes /\ \A p \in Powers : (r \div p) % 2 = c[p]
<1>1. /\ c[1] \in {0, 1} /\ c[2] \in {0, 1} /\ c[4] \in {0, 1} /\ c[8] \in {0, 1}
      /\ c[16] \in {0, 1} /\ c[32] \in {0, 1} /\ c[64] \in {0, 1} /\ c[128] \in {0, 1}
  BY DEF Powers
<1>2. PICK c1 \in {0, 1}, c2 \in {0, 1}, c3 \in {0, 1}, c4 \in {0, 1},
           c5 \in {0, 1}, c6 \in {0, 1}, c7 \in {0, 1}, c8 \in {0, 1} :
        /\ c1 = c[1] /\ c2 = c[2] /\ c3 = c[4] /\ c4 = c[8]
        /\ c5 = c[16] /\ c6 = c[32] /\ c7 = c[64] /\ c8 = c[128]
  BY <1>1
<1>3. r = c1 + 2 * c2 + 4 * c3 + 8 * c4 + 16 * c5 + 32 * c6 + 64 * c7 + 128 * c8
  BY <1>2
<1>4. r \in Bytes
  <2>1. PICK a \in 0..15 : a = c1 + 2 * c2 + 4 * c3 + 8 * c4
    OBVIOUS
  <2>2. PICK b \in 0..15 : b = c5 + 2 * c6 + 4 * c7 + 8 * c8
    OBVIOUS
  <2>3. r = a + 16 * b
    BY <1>3, <2>1, <2>2
  <2>. QED
    BY ONLY <2>3, a \in 0..15, b \in 0..15 DEF Bytes
<1>5. \A n \in Nat : \A d \in {0, 1} : (d + 2 * n) % 2 = d
  OBVIOUS
<1>6. (r \div 1) % 2 = c1
  <2> DEFINE n == c2 + 2 * c3 + 4 * c4 + 8 * c5 + 16 * c6 + 32 * c7 + 64 * c8
  <2>1. r \div 1 = c1 + 2 * n
    BY ONLY <1>3
  <2>2. n \in Nat
    OBVIOUS
  <2> HIDE DEF n
  <2>. QED
    BY ONLY <1>5, <2>1, <2>2
<1>7. (r \div 2) % 2 = c2
  <2> DEFINE n == c3 + 2 * c4 + 4 * c5 + 8 * c6 + 16 * c7 + 32 * c8
  <2>1. r \div 2 = c2 + 2 * n
    BY ONLY <1>3
  <2>2. n \in Nat
    OBVIOUS
  <2> HIDE DEF n
  <2>. QED
    BY ONLY <1>5, <2>1, <2>2
<1>8. (r \div 4) % 2 = c3
  <2> DEFINE n == c4 + 2 * c5 + 4 * c6 + 8 * c7 + 16 * c8
  <2>1. r \div 4 = c3 + 2 * n
    BY ONLY <1>3
  <2>2. n \in Nat
    OBVIOUS
  <2> HIDE DEF n
  <2>. QED
    BY ONLY <1>5, <2>1, <2>2
<1>9. (r \div 8) % 2 = c4
  <2> DEFINE n == c5 + 2 * c6 + 4 * c7 + 8 * c8
  <2>1. r \div 8 = c4 + 2 * n
    BY ONLY <1>3
  <2>2. n \in Nat
    OBVIOUS
  <2> HIDE DEF n
  <2>. QED
    BY ONLY <1>5, <2>1, <2>2
<1>10. (r \div 16) % 2 = c5
  <2> DEFINE n == c6 + 2 * c7 + 4 * c8
  <2>1. r \div 16 = c5 + 2 * n
    BY ONLY <1>3
  <2>2. n \in Nat
    OBVIOUS
  <2> HIDE DEF n
  <2>. QED
    BY ONLY <1>5, <2>1, <2>2
<1>11. (r \div 32) % 2 = c6
  <2> DEFINE n == c7 + 2 * c8
  <2>1. r \div 32 = c6 + 2 * n
    BY ONLY <1>3
  <2>2. n \in Nat
    OBVIOUS
  <2> HIDE DEF n
  <2>. QED
    BY ONLY <1>5, <2>1, <2>2
<1>12. (r \div 64) % 2 = c7
  <2> DEFINE n == c8
  <2>1. r \div 64 = c7 + 2 * n
    BY ONLY <1>3
  <2>2. n \in Nat
    OBVIOUS
  <2> HIDE DEF n
  <2>. QED
    BY ONLY <1>5, <2>1, <2>2
<1>13. (r \div 128) % 2 = c8
  <2> DEFINE n == 0
  <2>1. r \div 128 = c8 + 2 * n
    BY ONLY <1>3
  <2>2. n \in Nat
    OBVIOUS
  <2> HIDE DEF n
  <2>. QED
    BY ONLY <1>5, <2>1, <2>2
<1>. QED
  BY <1>2, <1>4, <1>6, <1>7, <1>8, <1>9, <1>10, <1>11, <1>12, <1>13 DEF Powers

(* The bit that Xor computes, with the same bit of b, gives that of a.      *)
LEMMA BitTwice ==
    ASSUME NEW p \in Nat \ {0}, NEW a \in Bytes, NEW b \in Bytes, NEW x \in Bytes,
           (x \div p) % 2 = (a \div p + b \div p) % 2
    PROVE  /\ (a \div p + b \div p) % 2 \in {0, 1}
           /\ (x \div p + b \div p) % 2 = (a \div p) % 2
<1> DEFINE m == a \div p
           n == b \div p
           y == x \div p
<1>1. m \in Nat /\ n \in Nat /\ y \in Nat
  BY DEF Bytes
<1>2. y % 2 = (m + n) % 2
  OBVIOUS
<1> HIDE DEF m, n, y
<1>3. (m + n) % 2 \in {0, 1} /\ (y + n) % 2 = m % 2
  BY <1>1, <1>2
<1>. QED
  BY <1>3 DEF m, n, y

(* Masking a byte twice, and a payload, gives it back.                       *)
LEMMA XorTwice ==
    ASSUME NEW a \in Bytes, NEW b \in Bytes
    PROVE  Xor(a, b) \in Bytes /\ Xor(Xor(a, b), b) = a
<1> DEFINE c == [p \in Powers |-> (a \div p + b \div p) % 2]
           x == Xor(a, b)
           d == [p \in Powers |-> (x \div p + b \div p) % 2]
           e == [p \in Powers |-> (a \div p) % 2]
           Sum(f) == f[1] + 2 * f[2] + 4 * f[4] + 8 * f[8] + 16 * f[16] + 32 * f[32]
                       + 64 * f[64] + 128 * f[128]
<1>1. x = Sum(c)
  BY DEF Xor, Powers
<1>2. c \in [Powers -> {0, 1}]
  <2>1. ASSUME NEW m \in Nat, NEW n \in Nat PROVE (m + n) % 2 \in {0, 1}
    OBVIOUS
  <2>2. ASSUME NEW p \in Powers PROVE a \div p \in Nat /\ b \div p \in Nat
    BY DEF Bytes, Powers
  <2>. QED
    BY <2>1, <2>2
<1>3. x \in Bytes /\ \A p \in Powers : (x \div p) % 2 = c[p]
  <2> HIDE DEF c, x
  <2>. QED
    BY <1>1, <1>2, BitsOfByte
<1>4. ASSUME NEW p \in Powers PROVE d[p] = e[p]
  <2>1. p \in Nat \ {0}
    BY DEF Powers
  <2>2. (x \div p) % 2 = (a \div p + b \div p) % 2
    BY <1>3
  <2> HIDE DEF x
  <2>3. (x \div p + b \div p) % 2 = (a \div p) % 2
    BY <1>3, <2>1, <2>2, BitTwice
  <2>. QED
    BY <2>3
<1>5. Xor(x, b) = Sum(d)
  BY DEF Xor, Powers
<1>6. Sum(d) = Sum(e)
  <2> HIDE DEF d, e
  <2>. QED
    BY <1>4 DEF Powers
<1>7. Sum(e) = a
  BY ByteBits DEF Powers
<1>. QED
  BY <1>3, <1>5, <1>6, <1>7

LEMMA MaskTwice ==
    ASSUME NEW p \in Seq(Bytes), NEW mask \in Masks
    PROVE  /\ XorMask(p, mask) \in Seq(Bytes) /\ Len(XorMask(p, mask)) = Len(p)
           /\ XorMask(XorMask(p, mask), mask) = p
<1>1. CASE mask = <<>>
  BY <1>1 DEF XorMask
<1>2. CASE mask # <<>>
  <2> DEFINE m(i) == mask[((i - 1) % 4) + 1]
             x == [i \in 1..Len(p) |-> Xor(p[i], m(i))]
             y == [i \in 1..Len(p) |-> Xor(x[i], m(i))]
  <2>1. mask \in [1..4 -> Bytes]
    BY <1>2 DEF Masks
  <2>2. ASSUME NEW i \in 1..Len(p) PROVE m(i) \in Bytes /\ p[i] \in Bytes
    <3>1. ((i - 1) % 4) + 1 \in 1..4 /\ p[i] \in Bytes
      OBVIOUS
    <3>. QED
      BY <2>1, <3>1
  <2> HIDE DEF m
  <2>3. \A i \in 1..Len(p) : Xor(p[i], m(i)) \in Bytes /\ Xor(Xor(p[i], m(i)), m(i)) = p[i]
    BY <2>2, XorTwice
  <2>4. x \in Seq(Bytes) /\ Len(x) = Len(p)
    BY <2>3
  <2>5. XorMask(p, mask) = x
    BY <1>2 DEF XorMask, m
  <2>6. XorMask(x, mask) = y
    <3>1. DOMAIN x = 1..Len(p)
      OBVIOUS
    <3> HIDE DEF x
    <3>. QED
      BY <1>2, <3>1 DEF XorMask, m
  <2>7. y = p
    BY <2>3
  <2>. QED
    BY <2>4, <2>5, <2>6, <2>7
<1>. QED
  BY <1>1, <1>2

(* Parts of equal length that begin equal sequences are equal.               *)
LEMMA Cancel ==
    ASSUME NEW S, NEW s \in Seq(S), NEW t \in Seq(S), NEW u \in Seq(S), NEW v \in Seq(S),
           Len(s) = Len(t), s \o u = t \o v
    PROVE  s = t /\ u = v
<1>1. \A i \in 1..Len(s) : s[i] = t[i]
  <2>1. \A i \in 1..Len(s) : (s \o u)[i] = s[i] /\ (t \o v)[i] = t[i]
    OBVIOUS
  <2>. QED
    BY <2>1
<1>2. s = t
  BY <1>1, SeqEqual
<1>. QED
  BY <1>2, ConcatSimplifications

(* The two parts of a sequence that was put together.                        *)
LEMMA PartsOf ==
    ASSUME NEW S, NEW u \in Seq(S), NEW w \in Seq(S)
    PROVE  /\ SubSeq(u \o w, 1, Len(u)) = u
           /\ SubSeq(u \o w, Len(u) + 1, Len(u) + Len(w)) = w
<1> DEFINE c == u \o w
           p == SubSeq(c, 1, Len(u))
           r == SubSeq(c, Len(u) + 1, Len(u) + Len(w))
<1>1. /\ c \in Seq(S) /\ Len(c) = Len(u) + Len(w) /\ Len(u) \in Nat /\ Len(w) \in Nat
      /\ \A i \in 1..(Len(u) + Len(w)) : c[i] = IF i <= Len(u) THEN u[i] ELSE w[i - Len(u)]
  BY ConcatProperties, LenProperties
<1> HIDE DEF c
<1>2. \A i \in 1..(Len(u) + Len(w)) : c[i] \in S
  BY <1>1, ElementOfSeq
<1>3. /\ p \in Seq(S) /\ Len(p) = Len(u)
      /\ \A i \in 1..Len(u) : p[i] = c[i]
  <2>1. PICK m \in Nat : m = Len(u)
    BY <1>1
  <2>2. \A i \in 1..m : c[i] \in S
    BY <1>1, <1>2, <2>1
  <2>3. /\ SubSeq(c, 1, m) \in Seq(S) /\ Len(SubSeq(c, 1, m)) = IF 1 <= m THEN m - 1 + 1 ELSE 0
        /\ \A i \in 1..(m - 1 + 1) : SubSeq(c, 1, m)[i] = c[1 + i - 1]
    BY <2>2, SubSeqProperties
  <2>4. \A i \in 1..m : i \in 1..(m - 1 + 1) /\ 1 + i - 1 = i
    OBVIOUS
  <2>5. Len(SubSeq(c, 1, m)) = m
    BY <2>3
  <2>6. \A i \in 1..m : SubSeq(c, 1, m)[i] = c[i]
    BY <2>3, <2>4
  <2>. QED
    BY <2>1, <2>3, <2>5, <2>6
<1>4. /\ r \in Seq(S) /\ Len(r) = Len(w)
      /\ \A i \in 1..Len(w) : r[i] = c[Len(u) + i]
  BY <1>1, <1>2, SubSeqProperties
<1>5. p = u
  <2>1. \A i \in 1..Len(u) : p[i] = u[i]
    BY <1>1, <1>3
  <2> HIDE DEF p
  <2>. QED
    BY <1>3, <2>1, SeqEqual
<1>6. r = w
  <2>1. \A i \in 1..Len(w) : r[i] = w[i]
    <3>1. SUFFICES ASSUME NEW i \in 1..Len(w) PROVE r[i] = w[i]
      OBVIOUS
    <3>2. /\ Len(u) + i \in 1..(Len(u) + Len(w)) /\ ~(Len(u) + i <= Len(u))
          /\ (Len(u) + i) - Len(u) = i
      BY <1>1
    <3>. QED
      BY <1>1, <1>4, <3>2
  <2> HIDE DEF r
  <2>. QED
    BY <1>4, <2>1, SeqEqual
<1>. QED
  BY <1>5, <1>6 DEF c

(* And those of the 8 bytes of a length.                                     *)
LEMMA TwoWords ==
    ASSUME NEW u \in Seq(Bytes), NEW w \in Seq(Bytes), Len(u) = 4, Len(w) = 4
    PROVE  /\ u \o w \in Seq(Bytes) /\ Len(u \o w) = 8
           /\ (u \o w)[1] = u[1] /\ (u \o w)[2] = u[2] /\ (u \o w)[5] = w[1]
           /\ SubSeq(u \o w, 1, 4) = u /\ SubSeq(u \o w, 5, 8) = w
<1> DEFINE c == u \o w
<1>1. /\ c \in Seq(Bytes) /\ Len(c) = Len(u) + Len(w)
      /\ \A i \in 1..(Len(u) + Len(w)) : c[i] = IF i <= Len(u) THEN u[i] ELSE w[i - Len(u)]
  BY ConcatProperties
<1>2. SubSeq(c, 1, Len(u)) = u /\ SubSeq(c, Len(u) + 1, Len(u) + Len(w)) = w
  BY PartsOf
<1> HIDE DEF c
<1>3. Len(u) + 1 = 5 /\ Len(u) + Len(w) = 8
  OBVIOUS
<1>4. SubSeq(c, 1, 4) = u /\ SubSeq(c, 5, 8) = w
  BY <1>2, <1>3
<1>5. \A i \in 1..8 : c[i] = IF i <= 4 THEN u[i] ELSE w[i - 4]
  BY <1>1, <1>3
<1>6. c[1] = u[1] /\ c[2] = u[2] /\ c[5] = w[1]
  <2>1. /\ 1 \in 1..8 /\ 2 \in 1..8 /\ 5 \in 1..8 /\ 5 - 4 = 1
        /\ 1 <= 4 /\ 2 <= 4 /\ ~(5 <= 4)
    OBVIOUS
  <2>. QED
    BY <1>5, <2>1
<1>. QED
  BY <1>1, <1>3, <1>4, <1>6 DEF c

(* The length read is the length that was written.                           *)
LEMMA DeclaredIs ==
    ASSUME NEW n \in Nat, n < Huge
    PROVE  LET d == DeclaredLength(n) IN
           /\ d \in 0..127
           /\ ExtendedLength(d, n) \in Seq(Bytes)
           /\ d < 126 => d = n /\ ExtendedLength(d, n) = <<>>
           /\ d = 126 => /\ Len(ExtendedLength(d, n)) = 2
                         /\ readUInt16BE(ExtendedLength(d, n)) = n
           /\ d = 127 => /\ Len(ExtendedLength(d, n)) = 8
                         /\ ~TooLong(ExtendedLength(d, n))
                         /\ read64BitPayloadLength(ExtendedLength(d, n)) = n
<1> DEFINE d == DeclaredLength(n)
           e == ExtendedLength(d, n)
<1>1. CASE n <= 125
  <2>1. d = n /\ d < 126
    BY <1>1 DEF DeclaredLength
  <2>2. e = <<>>
    BY <2>1 DEF ExtendedLength
  <2>. QED
    BY <1>1, <2>1, <2>2
<1>2. CASE n > 125 /\ n < 65536
  <2>1. d = 126
    BY <1>2 DEF DeclaredLength
  <2>2. e = <<n \div 256, n % 256>>
    BY <2>1 DEF ExtendedLength, writeUInt16BE
  <2>3. n \div 256 \in Bytes /\ n % 256 \in Bytes /\ 256 * (n \div 256) + (n % 256) = n
    BY <1>2 DEF Bytes
  <2> HIDE DEF d
  <2>4. readUInt16BE(e) = n /\ Len(e) = 2 /\ e \in Seq(Bytes)
    BY <2>2, <2>3 DEF readUInt16BE
  <2>. QED
    BY <2>1, <2>4 DEF d
<1>3. CASE n >= 65536
  <2>1. d = 127
    BY <1>3 DEF DeclaredLength
  <2> DEFINE a == n \div 16777216
             b == (n \div 65536) % 256
             c == (n \div 256) % 256
             z == n % 256
             w == <<a, b, c, z>>
  <2>2. e = <<0, 0, 0, 0>> \o w
    BY <2>1 DEF ExtendedLength, writeUInt32BE
  <2>3. /\ a \in Bytes /\ b \in Bytes /\ c \in Bytes /\ z \in Bytes /\ a < 128
        /\ 16777216 * a + 65536 * b + 256 * c + z = n
    <3>1. a \in Nat /\ a < 128
      BY SMT DEF Huge
    <3>2. b \in Bytes /\ c \in Bytes /\ z \in Bytes
      BY SMT DEF Bytes
    <3> DEFINE n1 == n \div 256
               n2 == n \div 65536
    <3>3. n1 \in Nat /\ n2 \in Nat /\ n = 256 * n1 + z
      BY SMT
    <3>4. n1 = 256 * n2 + c
      BY SMT
    <3>5. n2 = 256 * a + b
      BY SMT
    <3> HIDE DEF a, b, c, z, n1, n2
    <3>6. 16777216 * a + 65536 * b + 256 * c + z = n
      BY <3>1, <3>2, <3>3, <3>4, <3>5, SMT DEF Bytes
    <3>. QED
      BY <3>1, <3>2, <3>6, SMT DEF Bytes
  <2> HIDE DEF a, b, c, z, d
  <2>4. w \in Seq(Bytes) /\ Len(w) = 4 /\ w[1] = a
    BY <2>3 DEF Bytes
  <2> DEFINE o == <<0, 0, 0, 0>>
  <2>5. o \in Seq(Bytes) /\ Len(o) = 4 /\ o[1] = 0 /\ o[2] = 0
    BY DEF Bytes
  <2>6. e = o \o w
    BY <2>2
  <2> HIDE DEF o, w, e
  <2>7. /\ e \in Seq(Bytes) /\ Len(e) = 8 /\ e[1] = 0 /\ e[2] = 0 /\ e[5] = a
        /\ SubSeq(e, 1, 4) = o /\ SubSeq(e, 5, 8) = w
    BY <2>4, <2>5, <2>6, TwoWords
  <2>8. ~TooLong(e)
    BY <2>7 DEF TooLong
  <2>9. read64BitPayloadLength(e) = n
    <3>1. a < 128
      BY <2>3
    <3>2. read64BitPayloadLength(e) = readUInt32BE(w)
      <4>1. read64BitPayloadLength(e) =
              IF SubSeq(e, 1, 4) = o /\ e[5] < 128 THEN readUInt32BE(SubSeq(e, 5, 8)) ELSE Huge
        BY DEF read64BitPayloadLength, o
      <4>2. SubSeq(e, 1, 4) = o /\ e[5] < 128
        BY <2>7, <3>1
      <4>. QED
        BY <2>7, <4>1, <4>2
    <3>. QED
      BY <2>3, <3>2, SMT DEF readUInt32BE, w
  <2>. QED
    BY <2>1, <2>7, <2>8, <2>9 DEF d, e
<1>. QED
  BY <1>1, <1>2, <1>3

-----------------------------------------------------------------------------
(* Frames on the wire.                                                       *)

(* The parts of a frame on the wire, besides header and mask.                *)
Declared(f) == DeclaredLength(Len(f.payload))
Extended(f) == ExtendedLength(Declared(f), Len(f.payload))
Body(f) == XorMask(f.payload, f.mask)

(* What the parser makes of the header of f.                                *)
ParsedHeader(f) ==
    [type |-> f.type, rsv1 |-> f.rsv1, isFinal |-> f.isFinal, masked |-> f.mask # <<>>,
     mask |-> <<>>, length |-> Declared(f)]

(* The fields of a frame.                                                    *)
LEMMA WireFrameTypes ==
    ASSUME NEW f \in WireFrames
    PROVE  /\ f.type \in 0..15 /\ f.rsv1 \in BOOLEAN /\ f.isFinal \in BOOLEAN
           /\ f.mask \in Masks /\ f.payload \in Seq(Bytes) /\ f.mask \in Seq(Bytes)
           /\ f.mask # <<>> => Len(f.mask) = 4
           /\ Len(f.payload) \in Nat /\ Len(f.payload) < Huge
           /\ f = [type |-> f.type, rsv1 |-> f.rsv1, isFinal |-> f.isFinal, mask |-> f.mask,
                   payload |-> f.payload]
<1>1. f \in DataFrames /\ Len(f.payload) < Huge
  BY DEF WireFrames
<1>2. /\ f.type \in 0..15 /\ f.rsv1 \in BOOLEAN /\ f.isFinal \in BOOLEAN
      /\ f.mask \in Masks /\ f.payload \in Seq(Bytes)
      /\ f = [type |-> f.type, rsv1 |-> f.rsv1, isFinal |-> f.isFinal, mask |-> f.mask,
              payload |-> f.payload]
  BY <1>1 DEF DataFrames
<1>3. f.mask \in Seq(Bytes) /\ (f.mask # <<>> => Len(f.mask) = 4)
  <2>1. CASE f.mask = <<>>
    BY <2>1
  <2>2. CASE f.mask \in [1..4 -> Bytes]
    <3>1. f.mask \in Seq(Bytes)
      BY <2>2, SeqDef
    <3>. QED
      BY <2>2, <3>1, LenProperties
  <2>. QED
    BY <1>2, <2>1, <2>2 DEF Masks
<1>. QED
  BY <1>1, <1>2, <1>3, LenProperties

(* Both bytes of a header, built and taken apart.                            *)
LEMMA FirstByte ==
    ASSUME NEW t \in 0..15, NEW fin \in BOOLEAN, NEW rsv1 \in BOOLEAN,
           NEW x, x = Bit(fin, 128) + Bit(rsv1, 64) + t
    PROVE  /\ x \in Bytes /\ x % 16 = t
           /\ ((x \div 128) % 2 = 1) = fin /\ ((x \div 64) % 2 = 1) = rsv1
<1>1. CASE fin /\ rsv1
  <2>1. x = 192 + t
    BY <1>1 DEF Bit
  <2>2. (x \div 128) % 2 = 1 /\ (x \div 64) % 2 = 1 /\ x \in Bytes /\ x % 16 = t
    BY ONLY <2>1 DEF Bytes
  <2>. QED
    BY <1>1, <2>2
<1>2. CASE fin /\ ~rsv1
  <2>1. x = 128 + t
    BY <1>2 DEF Bit
  <2>2. (x \div 128) % 2 = 1 /\ (x \div 64) % 2 = 0 /\ x \in Bytes /\ x % 16 = t
    BY ONLY <2>1 DEF Bytes
  <2>3. ((x \div 128) % 2 = 1) = TRUE /\ ((x \div 64) % 2 = 1) = FALSE
    BY ONLY <2>2
  <2>. QED
    BY <1>2, <2>2, <2>3, Zenon
<1>3. CASE ~fin /\ rsv1
  <2>1. x = 64 + t
    BY <1>3 DEF Bit
  <2>2. (x \div 128) % 2 = 0 /\ (x \div 64) % 2 = 1 /\ x \in Bytes /\ x % 16 = t
    BY ONLY <2>1 DEF Bytes
  <2>3. ((x \div 128) % 2 = 1) = FALSE /\ ((x \div 64) % 2 = 1) = TRUE
    BY ONLY <2>2
  <2>. QED
    BY <1>3, <2>2, <2>3, Zenon
<1>4. CASE ~fin /\ ~rsv1
  <2>1. x = t
    BY <1>4 DEF Bit
  <2>2. (x \div 128) % 2 = 0 /\ (x \div 64) % 2 = 0 /\ x \in Bytes /\ x % 16 = t
    BY ONLY <2>1 DEF Bytes
  <2>. QED
    BY <1>4, <2>2
<1>. QED
  BY <1>1, <1>2, <1>3, <1>4

LEMMA SecondByte ==
    ASSUME NEW d \in 0..127, NEW masked \in BOOLEAN, NEW y, y = Bit(masked, 128) + d
    PROVE  y \in Bytes /\ y % 128 = d /\ ((y \div 128) % 2 = 1) = masked
<1>1. CASE masked
  <2>1. y = 128 + d
    BY <1>1 DEF Bit
  <2>2. y \in Bytes /\ y % 128 = d /\ (y \div 128) % 2 = 1
    BY ONLY <2>1 DEF Bytes
  <2>. QED
    BY <1>1, <2>2
<1>2. CASE ~masked
  <2>1. y = d
    BY <1>2 DEF Bit
  <2>2. y \in Bytes /\ y % 128 = d /\ (y \div 128) % 2 = 0
    BY ONLY <2>1 DEF Bytes
  <2>. QED
    BY <1>2, <2>2
<1>. QED
  BY <1>1, <1>2

(* What decomposeHeader returns, and that it is what was composed.           *)
LEMMA DecomposedIs ==
    ASSUME NEW h
    PROVE  decomposeHeader(h) =
             [type |-> h[1] % 16, rsv1 |-> (h[1] \div 64) % 2 = 1,
              isFinal |-> (h[1] \div 128) % 2 = 1, masked |-> (h[2] \div 128) % 2 = 1,
              mask |-> <<>>, length |-> h[2] % 128]
<1> DEFINE t == h[1] % 16
           r == (h[1] \div 64) % 2 = 1
           fin == (h[1] \div 128) % 2 = 1
           masked == (h[2] \div 128) % 2 = 1
           n == h[2] % 128
<1>1. decomposeHeader(h) = [NoFrame EXCEPT !.type = t, !.isFinal = fin, !.rsv1 = r,
                                           !.masked = masked, !.length = n]
  BY DEF decomposeHeader
<1> HIDE DEF t, r, fin, masked, n
<1>2. decomposeHeader(h) =
        [type |-> t, rsv1 |-> r, isFinal |-> fin, masked |-> masked, mask |-> <<>>, length |-> n]
  BY <1>1 DEF NoFrame
<1>. QED
  BY <1>2 DEF t, r, fin, masked, n

LEMMA HeaderIs ==
    ASSUME NEW f \in WireFrames
    PROVE  LET h == FrameHeader(f, Declared(f)) IN
           h \in Seq(Bytes) /\ Len(h) = 2 /\ decomposeHeader(h) = ParsedHeader(f)
<1> DEFINE d == Declared(f)
           masked == f.mask # <<>>
           x == Bit(f.isFinal, 128) + Bit(f.rsv1, 64) + f.type
           y == Bit(masked, 128) + d
           h == <<x, y>>
<1>1. /\ f.type \in 0..15 /\ f.rsv1 \in BOOLEAN /\ f.isFinal \in BOOLEAN /\ masked \in BOOLEAN
      /\ d \in 0..127
  BY WireFrameTypes, DeclaredIs DEF Declared
<1>2. FrameHeader(f, Declared(f)) = h
  BY DEF FrameHeader
<1>7. x = Bit(f.isFinal, 128) + Bit(f.rsv1, 64) + f.type /\ y = Bit(masked, 128) + d
  OBVIOUS
<1> HIDE DEF d, masked, x, y
<1>3. /\ x \in Bytes /\ x % 16 = f.type
      /\ ((x \div 128) % 2 = 1) = f.isFinal /\ ((x \div 64) % 2 = 1) = f.rsv1
  BY <1>1, <1>7, FirstByte
<1>4. y \in Bytes /\ y % 128 = d /\ ((y \div 128) % 2 = 1) = masked
  BY <1>1, <1>7, SecondByte
<1>5. h \in Seq(Bytes) /\ Len(h) = 2 /\ h[1] = x /\ h[2] = y
  BY <1>3, <1>4
<1> HIDE DEF h
<1>6. decomposeHeader(h) =
        [type |-> f.type, rsv1 |-> f.rsv1, isFinal |-> f.isFinal, masked |-> masked,
         mask |-> <<>>, length |-> d]
  BY <1>3, <1>4, <1>5, DecomposedIs
<1>. QED
  BY <1>2, <1>5, <1>6 DEF ParsedHeader, d, masked

(* The two parts of a frame whose length is the frame's own.                 *)
LEMMA ExtendedType ==
    ASSUME NEW f \in WireFrames
    PROVE  Extended(f) \in Seq(Bytes) /\ Body(f) \in Seq(Bytes) /\ Len(Body(f)) = Len(f.payload)
BY WireFrameTypes, DeclaredIs, MaskTwice DEF Extended, Declared, Body

(* A frame on the wire: header, length, mask and payload.                    *)
LEMMA PieceIs ==
    ASSUME NEW f \in WireFrames, NEW r \in Seq(Bytes)
    PROVE  /\ composeWebsocketFrame(f) \in Seq(Bytes) /\ composeWebsocketFrame(f) # <<>>
           /\ composeWebsocketFrame(f) \o r =
                FrameHeader(f, Declared(f)) \o (Extended(f) \o (f.mask \o (Body(f) \o r)))
<1>1. PICK h \in Seq(Bytes), e \in Seq(Bytes), m \in Seq(Bytes), b \in Seq(Bytes) :
        h = FrameHeader(f, Declared(f)) /\ e = Extended(f) /\ m = f.mask /\ b = Body(f)
  BY HeaderIs, ExtendedType, WireFrameTypes
<1>2. /\ composeWebsocketFrame(f) = Cat(Cat(Cat(h, e), m), b)
      /\ composeWebsocketFrame(f) \o r = Cat(Cat(Cat(Cat(h, e), m), b), r)
      /\ h \o (e \o (m \o (b \o r))) = Cat(h, Cat(e, Cat(m, Cat(b, r))))
  BY <1>1 DEF composeWebsocketFrame, Declared, Extended, Body, Cat
<1>3. /\ Cat(h, e) \in Seq(Bytes) /\ Cat(b, r) \in Seq(Bytes)
      /\ Cat(Cat(h, e), m) \in Seq(Bytes) /\ Cat(m, Cat(b, r)) \in Seq(Bytes)
      /\ Cat(e, Cat(m, b)) \in Seq(Bytes)
  <2>1. Cat(h, e) \in Seq(Bytes) /\ Cat(b, r) \in Seq(Bytes) /\ Cat(m, b) \in Seq(Bytes)
    BY CatIs
  <2>. QED
    BY <2>1, CatIs
<1>4. Cat(Cat(Cat(Cat(h, e), m), b), r) = Cat(h, Cat(e, Cat(m, Cat(b, r))))
  BY <1>3, CatIs
<1>5. composeWebsocketFrame(f) \in Seq(Bytes)
  BY <1>2, <1>3, CatIs
<1>6. composeWebsocketFrame(f) # <<>>
  <2>1. Cat(Cat(Cat(h, e), m), b) = Cat(h, Cat(e, Cat(m, b)))
    <3>1. Cat(m, b) \in Seq(Bytes)
      BY CatIs
    <3>. QED
      BY <1>3, <3>1, CatIs
  <2>2. Len(h) = 2
    BY <1>1, HeaderIs
  <2>3. PICK v \in Seq(Bytes) : v = Cat(e, Cat(m, b))
    BY <1>3
  <2>4. h \o v # <<>>
    <3>1. h # <<>>
      <4>1. h = <<>> => Len(h) = 0
        BY EmptySeq
      <4>. QED
        BY ONLY <2>2, <4>1
    <3>. QED
      BY <3>1, ConcatEqualIffEmpty
  <2>. QED
    BY <1>2, <2>1, <2>3, <2>4 DEF Cat
<1>. QED
  BY <1>1, <1>2, <1>4, <1>5, <1>6

(* Each of the frames on the wire.                                           *)
Pieces(frames) == [i \in DOMAIN frames |-> composeWebsocketFrame(frames[i])]

(* The frames of a conversation, each composed.                              *)
LEMMA PiecesType ==
    ASSUME NEW q \in Seq(WireFrames)
    PROVE  Pieces(q) \in Seq(Seq(Bytes)) /\ Len(Pieces(q)) = Len(q)
<1>1. \A i \in 1..Len(q) : composeWebsocketFrame(q[i]) \in Seq(Bytes)
  <2>1. <<>> \in Seq(Bytes)
    OBVIOUS
  <2>. QED
    BY <2>1, ElementOfSeq, PieceIs
<1>2. Pieces(q) = [i \in 1..Len(q) |-> composeWebsocketFrame(q[i])]
  BY LenProperties DEF Pieces
<1> DEFINE g(i) == composeWebsocketFrame(q[i])
<1> HIDE DEF g
<1>3. \A i \in 1..Len(q) : g(i) \in Seq(Bytes)
  BY <1>1 DEF g
<1>4. Pieces(q) = [i \in 1..Len(q) |-> g(i)]
  BY <1>2 DEF g
<1>. QED
  BY <1>3, <1>4

(* The bytes of all frames but the first k.                                 *)
Rest(q, k) == OnWire(SubSeq(q, k + 1, Len(q)))

(* Its ends, and its first frame.                                            *)
LEMMA OnWireType ==
    ASSUME NEW q \in Seq(WireFrames)
    PROVE  OnWire(q) \in Seq(Bytes) /\ Rest(q, 0) = OnWire(q) /\ Rest(q, Len(q)) = <<>>
<1>1. OnWire(q) = FlattenSeq(Pieces(q))
  BY DEF OnWire, Pieces
<1>2. OnWire(q) \in Seq(Bytes)
  <2>1. Pieces(q) \in Seq(Seq(Bytes))
    BY PiecesType
  <2>. QED
    BY <1>1, <2>1, FlatType
<1>3. Rest(q, 0) = OnWire(q)
  <2>1. SubSeq(q, 1, Len(q)) = q /\ 0 + 1 = 1
    BY SubSeqFull
  <2>. QED
    BY <2>1 DEF Rest
<1>4. SubSeq(q, Len(q) + 1, Len(q)) = <<>>
  BY LenProperties, SubSeqEmpty
<1>5. OnWire(<<>>) = <<>>
  BY FlatEmpty DEF OnWire
<1>. QED
  BY <1>2, <1>3, <1>4, <1>5 DEF Rest

LEMMA RestIs ==
    ASSUME NEW q \in Seq(WireFrames), NEW k \in 0..Len(q)
    PROVE  /\ Rest(q, k) \in Seq(Bytes)
           /\ k < Len(q) => Rest(q, k) = composeWebsocketFrame(q[k + 1]) \o Rest(q, k + 1)
<1> DEFINE n == Len(q)
           s == SubSeq(q, k + 1, n)
<1>1. n \in Nat /\ \A i \in 1..n : q[i] \in WireFrames
  BY LenProperties, ElementOfSeq
<1>2. s \in Seq(WireFrames) /\ Len(s) = n - k
  <2>1. \A i \in (k + 1)..n : q[i] \in WireFrames
    BY <1>1
  <2> HIDE DEF n
  <2>2. /\ s \in Seq(WireFrames)
        /\ Len(s) = IF k + 1 <= n THEN n - (k + 1) + 1 ELSE 0
    BY <1>1, <2>1, SubSeqProperties DEF n
  <2>. QED
    BY <1>1, <2>2 DEF n
<1>3. Rest(q, k) \in Seq(Bytes)
  BY <1>2, OnWireType DEF Rest
<1>4. ASSUME k < n PROVE Rest(q, k) = composeWebsocketFrame(q[k + 1]) \o Rest(q, k + 1)
  <2>1. k + 1 \in 1..n /\ n \in (k + 1)..n
    BY <1>1, <1>4
  <2>2. Head(s) = q[k + 1] /\ Tail(s) = SubSeq(q, (k + 1) + 1, n)
    BY <2>1, HeadTailOfSubSeq
  <2> HIDE DEF s
  <2>3. s # <<>> /\ Len(s) \in Nat \ {0}
    BY <1>1, <1>2, <1>4
  <2>4. Pieces(s) \in Seq(Seq(Bytes)) /\ Pieces(s) # <<>> /\ Len(Pieces(s)) = Len(s)
    <3>1. Pieces(s) \in Seq(Seq(Bytes)) /\ Len(Pieces(s)) = Len(s)
      BY <1>2, PiecesType
    <3>. QED
      BY <2>3, <3>1
  <2>5. Head(Pieces(s)) = composeWebsocketFrame(q[k + 1])
    <3>1. Head(Pieces(s)) = Pieces(s)[1] /\ Head(s) = s[1] /\ 1 \in DOMAIN s
      BY <1>2, <2>3, <2>4
    <3>. QED
      BY <2>2, <3>1 DEF Pieces
  <2>6. Tail(Pieces(s)) = Pieces(Tail(s))
    <3>1. /\ Tail(s) \in Seq(WireFrames) /\ Len(Tail(s)) = Len(s) - 1
          /\ \A i \in 1..Len(Tail(s)) : Tail(s)[i] = s[i + 1]
      BY <1>2, <2>3, HeadTailProperties
    <3>2. /\ Tail(Pieces(s)) \in Seq(Seq(Bytes)) /\ Len(Tail(Pieces(s))) = Len(s) - 1
          /\ \A i \in 1..Len(Tail(Pieces(s))) : Tail(Pieces(s))[i] = Pieces(s)[i + 1]
      <4>1. PICK p \in Seq(Seq(Bytes)) : p = Pieces(s) /\ p # <<>> /\ Len(p) = Len(s)
        BY <2>4
      <4>2. /\ Tail(p) \in Seq(Seq(Bytes)) /\ Len(Tail(p)) = Len(p) - 1
            /\ \A i \in 1..Len(Tail(p)) : Tail(p)[i] = p[i + 1]
        BY <4>1, HeadTailProperties
      <4>. QED
        BY <4>1, <4>2
    <3>3. Pieces(Tail(s)) \in Seq(Seq(Bytes)) /\ Len(Pieces(Tail(s))) = Len(s) - 1
      BY <3>1, PiecesType
    <3>4. ASSUME NEW i \in 1..(Len(s) - 1) PROVE Tail(Pieces(s))[i] = Pieces(Tail(s))[i]
      <4>1. i + 1 \in DOMAIN s /\ i \in DOMAIN Tail(s)
        BY <1>2, <2>3, <3>1, LenProperties
      <4>. QED
        BY <3>1, <3>2, <4>1 DEF Pieces
    <3>. QED
      BY <3>2, <3>3, <3>4, SeqEqual
  <2>7. FlattenSeq(Pieces(s)) = Head(Pieces(s)) \o FlattenSeq(Tail(Pieces(s)))
    BY <2>4, FlatHead
  <2>8. OnWire(s) = FlattenSeq(Pieces(s)) /\ OnWire(Tail(s)) = FlattenSeq(Pieces(Tail(s)))
    BY DEF OnWire, Pieces
  <2>. QED
    BY <2>2, <2>5, <2>6, <2>7, <2>8 DEF Rest, s
<1>. QED
  BY <1>3, <1>4

-----------------------------------------------------------------------------
(* The invariant: where in the conversation the parser is.                   *)

(* The frame that is being parsed, its length known: with its mask or with  *)
(* none yet.                                                                *)
Sized(f, mask) ==
    [type |-> f.type, rsv1 |-> f.rsv1, isFinal |-> f.isFinal, masked |-> f.mask # <<>>,
     mask |-> mask, length |-> Len(f.payload)]

(* What is known of a frame, and buffers of a parser that never stops.       *)
Partials == [type : 0..15, rsv1 : BOOLEAN, isFinal : BOOLEAN, masked : BOOLEAN,
             mask : Seq(Bytes), length : Nat]
Buffers == [chunks : Seq(Seq(Bytes)), step : {"header", "length", "mask", "payload", "destroyed"},
            want : Nat, have : Seq(Bytes), frame : Partials, frames : Seq(DataFrames)]

(* The bytes that the parser has of this read, and all that are to come.    *)
Ahead(s, b) == b.have \o (FlattenSeq(b.chunks) \o s)

(* Before a piece of f, with the bytes r behind f.                           *)
AtLength(f, r, b, ahead) ==
    /\ b.frame = ParsedHeader(f) /\ Declared(f) \in {126, 127}
    /\ b.want = Len(Extended(f))
    /\ ahead = Extended(f) \o (f.mask \o (Body(f) \o r))
AtMask(f, r, b, ahead) ==
    /\ b.frame = Sized(f, <<>>) /\ f.mask # <<>>
    /\ b.want = 4
    /\ ahead = f.mask \o (Body(f) \o r)
AtPayload(f, r, b, ahead) ==
    /\ b.frame = Sized(f, f.mask)
    /\ b.want = Len(f.payload)
    /\ ahead = Body(f) \o r

(* The bytes ahead are exactly those of the frame that is next, from the     *)
(* piece that is being read on, and of all frames behind it.                 *)
Aligned(q, b, ahead) ==
    LET k == Len(b.frames) IN
    /\ b.step = "header" => b.want = 2 /\ ahead = Rest(q, k)
    /\ b.step # "header" => k < Len(q)
    /\ b.step = "length" => AtLength(q[k + 1], Rest(q, k + 1), b, ahead)
    /\ b.step = "mask" => AtMask(q[k + 1], Rest(q, k + 1), b, ahead)
    /\ b.step = "payload" => AtPayload(q[k + 1], Rest(q, k + 1), b, ahead)

(* The buffer b, with s on its way, is at some place of the frames q.        *)
Sound(q, s, b) ==
    /\ q \in Seq(WireFrames) /\ s \in Seq(Bytes) /\ b \in Buffers
    /\ Len(b.frames) <= Len(q) /\ b.frames = SubSeq(q, 1, Len(b.frames))
    /\ b.step # "destroyed" => Len(b.have) <= b.want /\ Aligned(q, b, Ahead(s, b))

(* The inductive invariant.                                                  *)
FramesInv == Sound(composed, stream, buffer)

(* Arithmetic of fragments.                                                  *)
LEMMA Quotients ==
    ASSUME NEW m \in Nat, NEW size \in Nat \ {0}
    PROVE  m \div size \in Nat
OBVIOUS

LEMMA Products ==
    ASSUME NEW m \in Nat, NEW size \in Nat
    PROVE  size * m \in Nat
OBVIOUS

(* Fragmenting makes frames.                                                 *)
LEMMA FragmentsAreFrames ==
    ASSUME NEW f \in WireFrames, NEW size \in Nat
    PROVE  fragmentWebsocketFrame(f, size) \in Seq(WireFrames)
<1>1. CASE size = 0 \/ Len(f.payload) <= size
  BY <1>1 DEF fragmentWebsocketFrame
<1>2. CASE ~(size = 0 \/ Len(f.payload) <= size)
  <2> DEFINE p == f.payload
             n == Len(p)
             count == (n + size - 1) \div size
             last(i) == IF size * i < n THEN size * i ELSE n
             piece(i) == SubSeq(p, size * (i - 1) + 1, last(i))
             g(i) == [type |-> IF i = 1 THEN f.type ELSE Continuation,
                      rsv1 |-> i = 1 /\ f.rsv1,
                      isFinal |-> i = count,
                      mask |-> <<>>,
                      payload |-> piece(i)]
  <2>1. /\ p \in Seq(Bytes) /\ n \in Nat /\ n < Huge /\ f.type \in 0..15
        /\ \A j \in 1..n : p[j] \in Bytes
    BY WireFrameTypes, ElementOfSeq
  <2>2. count \in Nat
    <3>1. n + size - 1 \in Nat /\ size \in Nat \ {0}
      BY <1>2, <2>1
    <3>. QED
      BY <3>1, Quotients
  <2>3. ASSUME NEW i \in 1..count PROVE g(i) \in WireFrames
    <3> DEFINE a == size * (i - 1)
               b == size * i
    <3>1. a \in Nat /\ b \in Nat
      <4>1. i \in Nat /\ i - 1 \in Nat
        BY <2>2
      <4>. QED
        BY <4>1, Products
    <3> HIDE DEF a, b, p, n
    <3>2. last(i) \in 0..n
      BY <2>1, <3>1 DEF b
    <3> HIDE DEF last
    <3>3. \A j \in (a + 1)..last(i) : p[j] \in Bytes
      BY <2>1, <3>1, <3>2
    <3>4. /\ piece(i) \in Seq(Bytes)
          /\ Len(piece(i)) = IF a + 1 <= last(i) THEN last(i) - (a + 1) + 1 ELSE 0
      BY <2>1, <3>1, <3>2, <3>3, SubSeqProperties DEF a
    <3>5. Len(piece(i)) \in Nat /\ Len(piece(i)) <= n
      BY <2>1, <3>1, <3>2, <3>4
    <3> HIDE DEF piece, count
    <3>6. g(i) \in DataFrames
      BY <2>1, <3>4 DEF DataFrames, Continuation, Masks
    <3>7. g(i).payload = piece(i)
      OBVIOUS
    <3>8. Huge \in Nat
      BY SMT DEF Huge
    <3> HIDE DEF g
    <3>. QED
      BY <2>1, <3>5, <3>6, <3>7, <3>8 DEF WireFrames
  <2>4. fragmentWebsocketFrame(f, size) = [i \in 1..count |-> g(i)]
    BY <1>2 DEF fragmentWebsocketFrame
  <2> HIDE DEF g, count
  <2>. QED
    BY <2>2, <2>3, <2>4
<1>. QED
  BY <1>1, <1>2

LEMMA FragmentsType ==
    ASSUME NEW c \in Conversations
    PROVE  Fragments(c) \in Seq(WireFrames)
<1> DEFINE Fr(i) == fragmentWebsocketFrame(c[i].frame, c[i].size)
           s == [i \in 1..Len(c) |-> Fr(i)]
<1>1. /\ c \in Seq([frame : DataFrames, size : Nat])
      /\ \A i \in DOMAIN c : Len(c[i].frame.payload) < Huge
  BY ConversationsAssumption
<1>2. Len(c) \in Nat /\ DOMAIN c = 1..Len(c)
  BY <1>1, LenProperties
<1>3. ASSUME NEW i \in 1..Len(c) PROVE Fr(i) \in Seq(WireFrames)
  <2>1. c[i] \in [frame : DataFrames, size : Nat]
    BY <1>1, ElementOfSeq
  <2>2. c[i].frame \in WireFrames /\ c[i].size \in Nat
    BY <1>1, <1>2, <2>1 DEF WireFrames
  <2>. QED
    BY <2>2, FragmentsAreFrames
<1>4. Fragments(c) = FlattenSeq(s)
  BY <1>2 DEF Fragments
<1> HIDE DEF Fr
<1>5. s \in Seq(Seq(WireFrames))
  BY <1>2, <1>3
<1> HIDE DEF s
<1>. QED
  BY <1>4, <1>5, FlatType

(* A new stream and a new buffer.                                            *)
LEMMA EmptySound ==
    ASSUME NEW q \in Seq(WireFrames)
    PROVE  Sound(q, OnWire(q), EmptyBuffer)
<1> DEFINE b == EmptyBuffer
           s == OnWire(q)
<1>1. b = [chunks |-> <<>>, step |-> "header", want |-> 2, have |-> <<>>,
           frame |-> NoFrame, frames |-> <<>>]
  <2>1. b = [[chunks |-> <<>>, step |-> "", want |-> 0, have |-> <<>>, frame |-> NoFrame,
              frames |-> <<>>] EXCEPT !.step = "header", !.want = 2, !.have = <<>>]
    BY DEF EmptyBuffer, Begin
  <2>. QED
    BY ONLY <2>1
<1> HIDE DEF b
<1>2. b \in Buffers
  <2>1. NoFrame \in Partials
    BY DEF NoFrame, Partials
  <2>. QED
    BY <1>1, <2>1 DEF Buffers
<1>3. Len(b.frames) = 0 /\ b.frames = <<>> /\ SubSeq(q, 1, 0) = <<>> /\ Len(q) \in Nat
  BY <1>1, LenProperties, SubSeqEmpty
<1>4. Ahead(s, b) = Rest(q, 0) /\ s \in Seq(Bytes)
  <2>1. s \in Seq(Bytes) /\ s = Rest(q, 0)
    BY OnWireType
  <2> HIDE DEF s
  <2>2. <<>> \o (<<>> \o s) = s
    BY <2>1
  <2>. QED
    BY <1>1, <2>1, <2>2, FlatEmpty DEF Ahead
<1>5. Len(b.have) = 0 /\ b.want = 2 /\ b.step = "header"
  BY <1>1
<1>. QED
  BY <1>2, <1>3, <1>4, <1>5 DEF Sound, Aligned, b

(* The fields of a buffer.                                                   *)
LEMMA BufferTypes ==
    ASSUME NEW b \in Buffers
    PROVE  /\ b.chunks \in Seq(Seq(Bytes)) /\ b.want \in Nat /\ b.have \in Seq(Bytes)
           /\ b.frame \in Partials /\ b.frames \in Seq(DataFrames)
           /\ b.step \in {"header", "length", "mask", "payload", "destroyed"}
           /\ FlattenSeq(b.chunks) \in Seq(Bytes)
BY FlatType DEF Buffers

(* A step that moves bytes from one part of what is ahead to another.       *)
LEMMA Moves ==
    ASSUME NEW q, NEW s, NEW b, Sound(q, s, b),
           NEW t \in Seq(Bytes), NEW c \in Buffers,
           c.step = b.step, c.want = b.want, c.frame = b.frame, c.frames = b.frames,
           b.step # "destroyed" => Len(c.have) <= c.want /\ Ahead(t, c) = Ahead(s, b)
    PROVE  Sound(q, t, c)
BY DEF Sound, Aligned, AtLength, AtMask, AtPayload

(* A sequence in two parts.                                                  *)
LEMMA Split ==
    ASSUME NEW S, NEW s \in Seq(S), NEW size \in 0..Len(s)
    PROVE  /\ SubSeq(s, 1, size) \in Seq(S) /\ SubSeq(s, size + 1, Len(s)) \in Seq(S)
           /\ Len(SubSeq(s, 1, size)) = size /\ Len(SubSeq(s, size + 1, Len(s))) = Len(s) - size
           /\ SubSeq(s, 1, size) \o SubSeq(s, size + 1, Len(s)) = s
<1>1. Len(s) \in Nat /\ \A i \in 1..Len(s) : s[i] \in S
  BY LenProperties, ElementOfSeq
<1>2. PICK n \in Nat : n = Len(s)
  BY <1>1
<1>3. SubSeq(s, 1, size) \in Seq(S) /\ Len(SubSeq(s, 1, size)) = size
  <2>1. \A i \in 1..size : s[i] \in S
    BY <1>1, <1>2
  <2>2. /\ SubSeq(s, 1, size) \in Seq(S)
        /\ Len(SubSeq(s, 1, size)) = IF 1 <= size THEN size - 1 + 1 ELSE 0
    BY <2>1, <1>1, SubSeqProperties
  <2>. QED
    BY <1>2, <2>2
<1>4. SubSeq(s, size + 1, n) \in Seq(S) /\ Len(SubSeq(s, size + 1, n)) = n - size
  <2>1. (\A i \in (size + 1)..n : s[i] \in S) /\ size + 1 \in Int /\ n \in Int
    BY <1>1, <1>2
  <2>2. /\ SubSeq(s, size + 1, n) \in Seq(S)
        /\ Len(SubSeq(s, size + 1, n)) = IF size + 1 <= n THEN n - (size + 1) + 1 ELSE 0
    BY <2>1, SubSeqProperties
  <2>. QED
    BY <1>2, <2>2
<1>5. SubSeq(s, 1, size) \o SubSeq(s, size + 1, n) = SubSeq(s, 1, n)
  <2>1. 1 \in 1..(Len(s) + 1) /\ size \in (1 - 1)..Len(s) /\ n \in size..Len(s)
    BY <1>2
  <2>. QED
    BY <2>1, ConcatAdjacentSubSeq
<1>. QED
  BY <1>2, <1>3, <1>4, <1>5, SubSeqFull

(* A chunk that arrives, and the end of the connection.                      *)
LEMMA ChunkSound ==
    ASSUME NEW q, NEW s, NEW b, Sound(q, s, b), NEW size \in 0..Len(s)
    PROVE  Sound(q, SubSeq(s, size + 1, Len(s)),
                 [b EXCEPT !.chunks = Append(@, SubSeq(s, 1, size))])
<1> DEFINE x == SubSeq(s, 1, size)
           t == SubSeq(s, size + 1, Len(s))
           c == [b EXCEPT !.chunks = Append(@, x)]
<1>1. s \in Seq(Bytes) /\ b \in Buffers
  BY DEF Sound
<1>2. x \in Seq(Bytes) /\ t \in Seq(Bytes) /\ x \o t = s
  BY <1>1, Split
<1> HIDE DEF x, t
<1>3. b.chunks \in Seq(Seq(Bytes)) /\ b.have \in Seq(Bytes) /\ FlattenSeq(b.chunks) \in Seq(Bytes)
  BY <1>1, BufferTypes
<1>4. Append(b.chunks, x) \in Seq(Seq(Bytes))
  BY <1>2, <1>3, AppendProperties
<1>5. /\ c \in Buffers /\ c.chunks = Append(b.chunks, x) /\ c.have = b.have
      /\ c.step = b.step /\ c.want = b.want /\ c.frame = b.frame /\ c.frames = b.frames
  BY <1>1, <1>4 DEF Buffers
<1> HIDE DEF c
<1>6. Ahead(t, c) = Ahead(s, b)
  <2>1. PICK u \in Seq(Bytes) : u = FlattenSeq(b.chunks)
    BY <1>3
  <2>2. FlattenSeq(c.chunks) = u \o x
    <3>1. PICK d \in Seq(Seq(Bytes)) : d = b.chunks
      BY <1>3
    <3>2. FlattenSeq(Append(d, x)) = FlattenSeq(d) \o x
      BY <1>2, FlatAppend
    <3>. QED
      BY <1>5, <2>1, <3>1, <3>2
  <2>3. (u \o x) \o t = u \o s
    <3>1. PICK v \in Seq(Bytes), w \in Seq(Bytes) : v = x /\ w = t
      BY <1>2
    <3>2. Cat(Cat(u, v), w) = Cat(u, Cat(v, w))
      BY CatIs
    <3>. QED
      BY <1>2, <3>1, <3>2 DEF Cat
  <2>4. Ahead(t, c) = b.have \o ((u \o x) \o t) /\ Ahead(s, b) = b.have \o (u \o s)
    BY <1>5, <2>1, <2>2 DEF Ahead
  <2>. QED
    BY <2>3, <2>4
<1>7. b.step # "destroyed" => Len(b.have) <= b.want
  BY DEF Sound
<1>. QED
  BY <1>2, <1>5, <1>6, <1>7, Moves DEF c, x, t

LEMMA EndSound ==
    ASSUME NEW q, NEW s, NEW b, Sound(q, s, b)
    PROVE  Sound(q, s, [b EXCEPT !.step = "destroyed", !.want = Huge])
<1> DEFINE c == [b EXCEPT !.step = "destroyed", !.want = Huge]
<1>1. Huge \in Nat
  BY SMT DEF Huge
<1>2. b \in Buffers
  BY DEF Sound
<1>3. c \in Buffers /\ c.step = "destroyed" /\ c.frames = b.frames
  BY <1>1, <1>2 DEF Buffers
<1> HIDE DEF c
<1>. QED
  BY <1>3 DEF Sound, c

(* What is left of a chunk is put back.                                      *)
LEMMA PutBack ==
    ASSUME NEW S, NEW d \in Seq(Seq(S)), NEW left \in Seq(S)
    PROVE  LET r == IF left = <<>> THEN d ELSE <<left>> \o d IN
           r \in Seq(Seq(S)) /\ FlattenSeq(r) = left \o FlattenSeq(d)
<1>1. CASE left = <<>>
  <2>1. PICK w \in Seq(S) : w = FlattenSeq(d)
    BY FlatType
  <2>2. <<>> \o w = w
    BY <2>1
  <2>. QED
    BY <1>1, <2>1, <2>2
<1>2. CASE left # <<>>
  <2>1. <<left>> \in Seq(Seq(S))
    OBVIOUS
  <2>2. <<left>> \o d \in Seq(Seq(S)) /\ <<left>> \o d # <<>>
    BY <2>1, ConcatProperties, ConcatEqualIffEmpty
  <2>3. Head(<<left>> \o d) = left /\ Tail(<<left>> \o d) = d
    <3>1. PICK e \in Seq(Seq(S)) : e = <<left>> /\ Len(e) = 1 /\ e[1] = left
      BY <2>1
    <3>2. PICK r \in Seq(Seq(S)) : r = e \o d /\ r # <<>>
      BY <2>2, <3>1
    <3>3. /\ Len(r) = 1 + Len(d) /\ Len(d) \in Nat
          /\ \A i \in 1..(1 + Len(d)) : r[i] = IF i <= 1 THEN e[i] ELSE d[i - 1]
      <4>1. /\ Len(e \o d) = Len(e) + Len(d)
            /\ \A i \in 1..(Len(e) + Len(d)) :
                  (e \o d)[i] = IF i <= Len(e) THEN e[i] ELSE d[i - Len(e)]
        BY ConcatProperties
      <4>. QED
        BY <3>1, <3>2, <4>1, LenProperties
    <3>4. /\ Tail(r) \in Seq(Seq(S)) /\ Len(Tail(r)) = Len(d)
          /\ \A i \in 1..Len(d) : Tail(r)[i] = d[i]
      <4>1. /\ Tail(r) \in Seq(Seq(S)) /\ Len(Tail(r)) = Len(r) - 1
            /\ \A i \in 1..Len(Tail(r)) : Tail(r)[i] = r[i + 1]
        BY <3>2, HeadTailProperties
      <4>2. Len(Tail(r)) = Len(d)
        BY <3>3, <4>1
      <4>3. ASSUME NEW i \in 1..Len(d) PROVE r[i + 1] = d[i]
        <5>1. i + 1 \in 1..(1 + Len(d)) /\ ~(i + 1 <= 1) /\ (i + 1) - 1 = i
          BY <3>3
        <5>. QED
          BY <3>3, <5>1
      <4>. QED
        BY <4>1, <4>2, <4>3
    <3>5. Tail(r) = d
      BY <3>4, SeqEqual
    <3>6. Head(r) = left
      <4>1. Head(r) = r[1]
        BY <3>2
      <4>. QED
        BY <3>1, <3>3, <4>1
    <3>. QED
      BY <3>1, <3>2, <3>5, <3>6
  <2>4. PICK r \in Seq(Seq(S)) : r = <<left>> \o d
    BY <2>2
  <2>5. FlattenSeq(r) = Head(r) \o FlattenSeq(Tail(r))
    BY <2>2, <2>4, FlatHead
  <2>. QED
    BY <1>2, <2>2, <2>3, <2>4, <2>5
<1>. QED
  BY <1>1, <1>2

(* The bytes of a read and of the rest of the chunk, with what follows.     *)
LEMMA Regrouped ==
    ASSUME NEW S, NEW have \in Seq(S), NEW p \in Seq(S), NEW l \in Seq(S),
           NEW r \in Seq(S), NEW s \in Seq(S)
    PROVE  Cat(have, Cat(Cat(Cat(p, l), r), s)) = Cat(Cat(have, p), Cat(Cat(l, r), s))
<1>1. /\ Cat(p, l) \in Seq(S) /\ Cat(l, r) \in Seq(S) /\ Cat(r, s) \in Seq(S)
      /\ Cat(have, p) \in Seq(S)
  BY CatIs
<1>2. Cat(l, Cat(r, s)) \in Seq(S)
  BY <1>1, CatIs
<1>3. Cat(Cat(Cat(p, l), r), s) = Cat(p, Cat(l, Cat(r, s)))
  BY <1>1, CatIs
<1>4. Cat(have, Cat(p, Cat(l, Cat(r, s)))) = Cat(Cat(have, p), Cat(l, Cat(r, s)))
  BY <1>2, CatIs
<1>5. Cat(Cat(l, r), s) = Cat(l, Cat(r, s))
  BY CatIs
<1>. QED
  BY <1>3, <1>4, <1>5

(* A part of a read.                                                         *)
LEMMA ReadSound ==
    ASSUME NEW q, NEW s, NEW b, Sound(q, s, b), b.step # "destroyed", b.chunks # <<>>
    PROVE  Sound(q, s, Consume(b))
<1> DEFINE chunk == Head(b.chunks)
           missing == b.want - Len(b.have)
           taken == IF missing < Len(chunk) THEN missing ELSE Len(chunk)
           p == SubSeq(chunk, 1, taken)
           l == SubSeq(chunk, taken + 1, Len(chunk))
           d == Tail(b.chunks)
           rest == IF l = <<>> THEN d ELSE <<l>> \o d
           c == [b EXCEPT !.have = @ \o p, !.chunks = rest]
<1>1. s \in Seq(Bytes) /\ b \in Buffers /\ Len(b.have) <= b.want
  BY DEF Sound
<1>2. /\ b.chunks \in Seq(Seq(Bytes)) /\ b.have \in Seq(Bytes) /\ b.want \in Nat
      /\ Len(b.have) \in Nat
  BY <1>1, BufferTypes, LenProperties
<1>3. chunk \in Seq(Bytes) /\ d \in Seq(Seq(Bytes)) /\ Len(chunk) \in Nat
  BY <1>2, HeadTailProperties, LenProperties
<1>4. FlattenSeq(b.chunks) = chunk \o FlattenSeq(d)
  BY <1>2, FlatHead
<1> HIDE DEF chunk, d
<1>5. missing \in Nat /\ taken \in 0..Len(chunk) /\ taken <= missing
  BY <1>1, <1>2, <1>3
<1>6. Consume(b) = c
  BY DEF Consume, chunk, d
<1> HIDE DEF taken
<1>7. p \in Seq(Bytes) /\ l \in Seq(Bytes) /\ p \o l = chunk /\ Len(p) = taken
  BY <1>3, <1>5, Split
<1> HIDE DEF p, l
<1>8. rest \in Seq(Seq(Bytes)) /\ FlattenSeq(rest) = l \o FlattenSeq(d)
  BY <1>3, <1>7, PutBack
<1> HIDE DEF rest
<1>9. b.have \o p \in Seq(Bytes) /\ Len(b.have \o p) = Len(b.have) + Len(p)
  BY <1>2, <1>7, ConcatProperties
<1>10. /\ c \in Buffers /\ c.step = b.step /\ c.want = b.want /\ c.frame = b.frame
       /\ c.frames = b.frames /\ c.have = b.have \o p /\ c.chunks = rest
  BY <1>1, <1>8, <1>9 DEF Buffers
<1> HIDE DEF c
<1>11. Len(c.have) <= c.want
  <2>1. Len(p) <= b.want - Len(b.have)
    BY <1>5, <1>7
  <2> HIDE DEF missing
  <2>. QED
    BY <1>2, <1>5, <1>7, <1>9, <1>10, <2>1
<1>12. Ahead(s, c) = Ahead(s, b)
  <2>1. PICK u \in Seq(Bytes), v \in Seq(Bytes), w \in Seq(Bytes), r \in Seq(Bytes),
            z \in Seq(Bytes) :
          u = b.have /\ v = p /\ w = l /\ r = FlattenSeq(d) /\ z = s
    BY <1>1, <1>2, <1>3, <1>7, FlatType
  <2>2. Cat(u, Cat(Cat(Cat(v, w), r), z)) = Cat(Cat(u, v), Cat(Cat(w, r), z))
    BY Regrouped
  <2>3. Ahead(s, b) = Cat(u, Cat(Cat(Cat(v, w), r), z))
    BY <1>4, <1>7, <2>1 DEF Ahead, Cat
  <2>4. Ahead(s, c) = Cat(Cat(u, v), Cat(Cat(w, r), z))
    BY <1>8, <1>10, <2>1 DEF Ahead, Cat
  <2>. QED
    BY <2>2, <2>3, <2>4
<1>. QED
  BY <1>1, <1>6, <1>10, <1>11, <1>12, Moves

(* What holds of every buffer, and of the frame that is next.                *)
LEMMA SoundTypes ==
    ASSUME NEW q, NEW s, NEW b, Sound(q, s, b)
    PROVE  /\ q \in Seq(WireFrames) /\ s \in Seq(Bytes) /\ b \in Buffers
           /\ Len(q) \in Nat /\ Len(b.frames) \in Nat /\ Len(b.frames) <= Len(q)
           /\ b.have \in Seq(Bytes) /\ FlattenSeq(b.chunks) \o s \in Seq(Bytes)
           /\ Len(b.frames) < Len(q) => /\ q[Len(b.frames) + 1] \in WireFrames
                                        /\ Rest(q, Len(b.frames) + 1) \in Seq(Bytes)
<1>1. /\ q \in Seq(WireFrames) /\ s \in Seq(Bytes) /\ b \in Buffers
      /\ Len(b.frames) <= Len(q)
  BY DEF Sound
<1>2. /\ b.have \in Seq(Bytes) /\ FlattenSeq(b.chunks) \in Seq(Bytes)
      /\ Len(b.frames) \in Nat /\ Len(q) \in Nat
  BY <1>1, BufferTypes, LenProperties
<1>3. FlattenSeq(b.chunks) \o s \in Seq(Bytes)
  BY <1>1, <1>2, ConcatProperties
<1>4. PICK k \in Nat : k = Len(b.frames)
  BY <1>2
<1>5. ASSUME k < Len(q) PROVE q[k + 1] \in WireFrames /\ Rest(q, k + 1) \in Seq(Bytes)
  <2>1. k + 1 \in 1..Len(q) /\ k + 1 \in 0..Len(q)
    BY <1>2, <1>5
  <2>2. q[k + 1] \in WireFrames
    BY <1>1, <2>1, ElementOfSeq
  <2>3. PICK m \in 0..Len(q) : m = k + 1
    BY <2>1
  <2>4. Rest(q, m) \in Seq(Bytes)
    BY <1>1, RestIs
  <2>. QED
    BY <2>2, <2>3, <2>4
<1>. QED
  BY <1>1, <1>2, <1>3, <1>4, <1>5

(* A read that is complete is the piece that the peer has put there.        *)
LEMMA ReadIsPiece ==
    ASSUME NEW q, NEW s, NEW b, Sound(q, s, b), Len(b.have) = b.want,
           NEW first \in Seq(Bytes), NEW more \in Seq(Bytes),
           Len(first) = b.want, Ahead(s, b) = Cat(first, more)
    PROVE  b.have = first /\ FlattenSeq(b.chunks) \o s = more
<1>1. PICK u \in Seq(Bytes), v \in Seq(Bytes) : u = b.have /\ v = FlattenSeq(b.chunks) \o s
  BY SoundTypes
<1>2. u \o v = first \o more /\ Len(u) = Len(first)
  BY <1>1 DEF Ahead, Cat
<1>3. u = first /\ v = more
  BY <1>2, Cancel
<1>. QED
  BY <1>1, <1>3

(* The next read begins with nothing.                                       *)
LEMMA NextRead ==
    ASSUME NEW s \in Seq(Bytes), NEW c \in Buffers, c.have = <<>>
    PROVE  Ahead(s, c) = FlattenSeq(c.chunks) \o s /\ Len(c.have) = 0
<1>1. PICK v \in Seq(Bytes) : v = FlattenSeq(c.chunks) \o s
  BY BufferTypes, ConcatProperties
<1>2. <<>> \o v = v
  OBVIOUS
<1>. QED
  BY <1>1, <1>2 DEF Ahead

(* The frame being parsed, at each of its stages.                            *)
LEMMA SizedType ==
    ASSUME NEW f \in WireFrames
    PROVE  /\ Sized(f, <<>>) \in Partials /\ Sized(f, f.mask) \in Partials
           /\ ParsedHeader(f) \in Partials
<1>1. Declared(f) \in Nat
  <2>1. Declared(f) \in 0..127
    BY WireFrameTypes, DeclaredIs DEF Declared
  <2>. QED
    BY <2>1
<1>. QED
  BY <1>1, WireFrameTypes DEF Sized, Partials, ParsedHeader

(* Asking for a mask or a payload, and for a length.                         *)
LEMMA ReadMaskIs ==
    ASSUME NEW b \in Buffers, NEW g \in Partials, NEW c, c = ReadMask(b, g)
    PROVE  /\ c \in Buffers /\ c.frame = g /\ c.have = <<>>
           /\ c.frames = b.frames /\ c.chunks = b.chunks
           /\ g.masked => c.step = "mask" /\ c.want = 4
           /\ ~g.masked => c.step = "payload" /\ c.want = g.length
<1> DEFINE step == IF g.masked THEN "mask" ELSE "payload"
           want == IF g.masked THEN 4 ELSE g.length
<1>1. c = [b EXCEPT !.frame = g, !.have = <<>>, !.step = step, !.want = want]
  BY DEF ReadMask
<1>2. /\ g.masked => step = "mask" /\ want = 4
      /\ ~g.masked => step = "payload" /\ want = g.length
      /\ step \in {"header", "length", "mask", "payload", "destroyed"} /\ want \in Nat
  BY DEF Partials
<1> HIDE DEF step, want
<1>3. c = [chunks |-> b.chunks, step |-> step, want |-> want, have |-> <<>>, frame |-> g,
           frames |-> b.frames]
  BY <1>1 DEF Buffers
<1>4. <<>> \in Seq(Bytes) /\ b.chunks \in Seq(Seq(Bytes)) /\ b.frames \in Seq(DataFrames)
  BY DEF Buffers
<1>. QED
  BY <1>2, <1>3, <1>4 DEF Buffers

(* The length is known: the mask or the payload is next.                     *)
LEMMA ReadMaskSound ==
    ASSUME NEW q, NEW s, NEW b, Sound(q, s, b), b.step # "destroyed", Len(b.frames) < Len(q),
           NEW f, f = q[Len(b.frames) + 1],
           FlattenSeq(b.chunks) \o s =
               f.mask \o (Body(f) \o Rest(q, Len(b.frames) + 1))
    PROVE  Sound(q, s, ReadMask(b, Sized(f, <<>>)))
<1> DEFINE g == Sized(f, <<>>)
           c == ReadMask(b, g)
<1>0. PICK k \in Nat : k = Len(b.frames)
  BY SoundTypes
<1>1. /\ q \in Seq(WireFrames) /\ s \in Seq(Bytes) /\ b \in Buffers /\ k \in Nat
      /\ f \in WireFrames /\ Rest(q, k + 1) \in Seq(Bytes) /\ k <= Len(q)
      /\ b.frames = SubSeq(q, 1, k)
  BY <1>0, SoundTypes DEF Sound
<1>2. /\ g \in Partials /\ g.masked = (f.mask # <<>>) /\ g.length = Len(f.payload)
      /\ g.length \in Nat
  BY <1>1, SizedType, WireFrameTypes DEF Sized
<1>3. /\ Body(f) \in Seq(Bytes) /\ Body(f) \o Rest(q, k + 1) \in Seq(Bytes)
  <2>1. Body(f) \in Seq(Bytes)
    BY <1>1, ExtendedType
  <2>. QED
    BY <1>1, <2>1, ConcatProperties
<1> HIDE DEF g
<1>4. CASE f.mask # <<>>
  <2>1. g.masked /\ c = ReadMask(b, g)
    BY <1>2, <1>4
  <2> HIDE DEF c
  <2>2. /\ c \in Buffers /\ c.frame = g /\ c.have = <<>> /\ c.step = "mask" /\ c.want = 4
        /\ c.frames = b.frames /\ c.chunks = b.chunks
    BY <1>1, <1>2, <2>1, ReadMaskIs
  <2>3. Ahead(s, c) = f.mask \o (Body(f) \o Rest(q, k + 1)) /\ Len(c.have) = 0
    BY <1>1, <1>0, <2>2, NextRead
  <2>4. AtMask(f, Rest(q, k + 1), c, Ahead(s, c))
    BY <1>4, <2>2, <2>3 DEF AtMask, g
  <2>5. Aligned(q, c, Ahead(s, c)) /\ Len(c.have) <= c.want
    <3>1. Len(c.have) <= c.want
      <4>1. Len(c.have) = 0 /\ c.want = 4
        BY <2>2, <2>3
      <4>. QED
        BY ONLY <4>1
    <3>2. k < Len(q) /\ k = Len(c.frames) /\ f = q[k + 1]
      BY <1>0, <2>2
    <3>. QED
      BY <2>2, <2>4, <3>1, <3>2 DEF Aligned
  <2>. QED
    BY <1>1, <1>0, <2>2, <2>5 DEF Sound, c, g
<1>5. CASE f.mask = <<>>
  <2>1. ~g.masked /\ c = ReadMask(b, g)
    BY <1>2, <1>5
  <2> HIDE DEF c
  <2>2. /\ c \in Buffers /\ c.frame = g /\ c.have = <<>> /\ c.step = "payload"
        /\ c.want = Len(f.payload) /\ c.frames = b.frames /\ c.chunks = b.chunks
    <3>1. b \in Buffers /\ g \in Partials /\ g.length = Len(f.payload)
      BY <1>1, <1>2
    <3>. QED
      BY ONLY <2>1, <3>1, ReadMaskIs
  <2>3. Ahead(s, c) = Body(f) \o Rest(q, k + 1) /\ Len(c.have) = 0
    <3>1. PICK v \in Seq(Bytes) : v = Body(f) \o Rest(q, k + 1)
      BY <1>3
    <3>2. <<>> \o v = v
      OBVIOUS
    <3>. QED
      BY <1>1, <1>5, <1>0, <2>2, <3>1, <3>2, NextRead
  <2>4. AtPayload(f, Rest(q, k + 1), c, Ahead(s, c))
    BY <1>5, <2>2, <2>3 DEF AtPayload, g
  <2>5. Aligned(q, c, Ahead(s, c)) /\ Len(c.have) <= c.want
    <3>1. PICK n \in Nat : n = c.want
      BY <1>1, <2>2, WireFrameTypes
    <3>2. Len(c.have) <= c.want
      <4>1. Len(c.have) = 0 /\ c.want = n /\ n \in Nat
        BY <2>3, <3>1
      <4>. QED
        BY ONLY <4>1
    <3>3. k < Len(q) /\ k = Len(c.frames) /\ f = q[k + 1]
      BY <1>0, <2>2
    <3>. QED
      BY <2>2, <2>4, <3>2, <3>3 DEF Aligned
  <2>. QED
    BY <1>1, <1>0, <2>2, <2>5 DEF Sound, c, g
<1>. QED
  BY <1>4, <1>5

LEMMA ReadLengthIs ==
    ASSUME NEW b \in Buffers, NEW g \in Partials, ~(g.length < 126),
           NEW c, c = ReadLength(b, g)
    PROVE  /\ c \in Buffers /\ c.frame = g /\ c.have = <<>> /\ c.step = "length"
           /\ c.frames = b.frames /\ c.chunks = b.chunks
           /\ c.want = IF g.length = 126 THEN 2 ELSE 8
<1> DEFINE want == IF g.length = 126 THEN 2 ELSE 8
<1>1. c = [b EXCEPT !.frame = g, !.have = <<>>, !.step = "length", !.want = want]
  BY DEF ReadLength
<1>2. want \in Nat
  OBVIOUS
<1> HIDE DEF want
<1>3. c = [chunks |-> b.chunks, step |-> "length", want |-> want, have |-> <<>>, frame |-> g,
           frames |-> b.frames]
  BY <1>1 DEF Buffers
<1>4. <<>> \in Seq(Bytes) /\ b.chunks \in Seq(Seq(Bytes)) /\ b.frames \in Seq(DataFrames)
  BY DEF Buffers
<1>5. c \in Buffers
  BY <1>2, <1>3, <1>4 DEF Buffers
<1>. QED
  BY <1>3, <1>5 DEF want

(* Each piece of a frame, when its read is complete.                         *)
LEMMA HeaderSound ==
    ASSUME NEW q, NEW s, NEW b, Sound(q, s, b), Len(b.have) = b.want, b.step = "header"
    PROVE  Sound(q, s, Complete(b))
<1>1. PICK k \in Nat : k = Len(b.frames) /\ k <= Len(q)
  BY SoundTypes
<1>2. /\ q \in Seq(WireFrames) /\ s \in Seq(Bytes) /\ b \in Buffers /\ b.have \in Seq(Bytes)
      /\ Len(q) \in Nat /\ b.frames = SubSeq(q, 1, k)
  BY <1>1, SoundTypes DEF Sound
<1>3. b.want = 2 /\ Ahead(s, b) = Rest(q, k)
  BY <1>1 DEF Sound, Aligned
<1>4. k < Len(q)
  <2>1. SUFFICES ASSUME k = Len(q) PROVE FALSE
    BY <1>1, <1>2
  <2>2. Ahead(s, b) = <<>>
    BY <1>2, <1>3, <2>1, OnWireType
  <2>3. PICK u \in Seq(Bytes), v \in Seq(Bytes) : u = b.have /\ v = FlattenSeq(b.chunks) \o s
    BY SoundTypes
  <2>4. u = <<>>
    BY <2>2, <2>3, ConcatEqualIffEmpty DEF Ahead
  <2>. QED
    BY <1>3, <2>3, <2>4
<1>5. PICK f \in WireFrames, r \in Seq(Bytes) : f = q[k + 1] /\ r = Rest(q, k + 1)
  BY <1>1, <1>4, SoundTypes
<1> DEFINE h == FrameHeader(f, Declared(f))
           more == Extended(f) \o (f.mask \o (Body(f) \o r))
<1>6. h \in Seq(Bytes) /\ Len(h) = 2 /\ decomposeHeader(h) = ParsedHeader(f)
  BY HeaderIs
<1>7. more \in Seq(Bytes)
  <2>1. Body(f) \o r \in Seq(Bytes)
    BY ExtendedType, ConcatProperties
  <2>2. f.mask \o (Body(f) \o r) \in Seq(Bytes)
    BY <2>1, WireFrameTypes, ConcatProperties
  <2>. QED
    BY <2>2, ExtendedType, ConcatProperties
<1>8. Ahead(s, b) = h \o more
  <2>1. PICK m \in 0..Len(q) : m = k
    BY <1>2, <1>4
  <2>2. Rest(q, m) = composeWebsocketFrame(q[m + 1]) \o Rest(q, m + 1)
    BY <1>2, <1>4, <2>1, RestIs
  <2>. QED
    BY <1>3, <1>5, <2>1, <2>2, PieceIs
<1> HIDE DEF h, more
<1>9. b.have = h /\ FlattenSeq(b.chunks) \o s = more
  <2>1. PICK u \in Seq(Bytes), v \in Seq(Bytes) : u = h /\ v = more
    BY <1>6, <1>7
  <2>2. Len(u) = b.want /\ Ahead(s, b) = Cat(u, v)
    BY <1>3, <1>6, <1>8, <2>1 DEF Cat
  <2>3. b.have = u /\ FlattenSeq(b.chunks) \o s = v
    BY <2>2, ReadIsPiece
  <2>. QED
    BY <2>1, <2>3
<1>10. Complete(b) = ReadLength(b, ParsedHeader(f))
  BY <1>6, <1>9 DEF Complete
<1>11. /\ Declared(f) \in 0..127
       /\ Declared(f) < 126 => Declared(f) = Len(f.payload) /\ Extended(f) = <<>>
       /\ Declared(f) = 126 => Len(Extended(f)) = 2
       /\ Declared(f) = 127 => Len(Extended(f)) = 8
  BY WireFrameTypes, DeclaredIs DEF Declared, Extended
<1>12. CASE Declared(f) < 126
  <2>1. ParsedHeader(f) = Sized(f, <<>>)
    BY <1>11, <1>12 DEF ParsedHeader, Sized
  <2>2. Complete(b) = ReadMask(b, Sized(f, <<>>))
    BY <1>10, <1>12, <2>1 DEF ReadLength, ParsedHeader
  <2>3. FlattenSeq(b.chunks) \o s = f.mask \o (Body(f) \o r)
    <3>1. PICK v \in Seq(Bytes) : v = f.mask \o (Body(f) \o r)
      <4>1. Body(f) \o r \in Seq(Bytes)
        BY ExtendedType, ConcatProperties
      <4>. QED
        BY <4>1, WireFrameTypes, ConcatProperties
    <3>2. <<>> \o v = v
      OBVIOUS
    <3>. QED
      BY <1>9, <1>11, <1>12, <3>1, <3>2 DEF more
  <2>. QED
    BY <1>1, <1>4, <1>5, <2>2, <2>3, ReadMaskSound
<1>13. CASE ~(Declared(f) < 126)
  <2>1. PICK d \in 0..127 : d = Declared(f)
    BY <1>11
  <2>2. d \in {126, 127}
    <3>1. ~(d < 126)
      BY <1>13, <2>1
    <3>. QED
      BY ONLY <3>1
  <2>3. PICK g \in Partials : g = ParsedHeader(f) /\ g.length = d
    <3>1. ParsedHeader(f).length = Declared(f)
      BY DEF ParsedHeader
    <3>. QED
      BY <2>1, <3>1, SizedType
  <2>4. PICK want \in Nat : want = (IF d = 126 THEN 2 ELSE 8) /\ want = Len(Extended(f))
    <3>1. CASE d = 126
      BY <1>11, <2>1, <3>1
    <3>2. CASE d = 127
      BY <1>11, <2>1, <3>2
    <3>. QED
      BY <2>2, <3>1, <3>2
  <2>5. PICK c : c = Complete(b) /\ c = ReadLength(b, g)
    BY <1>10, <2>3
  <2>6. ~(g.length < 126)
    BY ONLY <2>2, <2>3
  <2>7. /\ c \in Buffers /\ c.frame = g /\ c.have = <<>> /\ c.step = "length"
        /\ c.frames = b.frames /\ c.chunks = b.chunks /\ c.want = want
    <3>1. /\ c \in Buffers /\ c.frame = g /\ c.have = <<>> /\ c.step = "length"
          /\ c.frames = b.frames /\ c.chunks = b.chunks
          /\ c.want = IF g.length = 126 THEN 2 ELSE 8
      BY <1>2, <2>5, <2>6, ReadLengthIs
    <3>. QED
      BY <2>3, <2>4, <3>1
  <2>8. Ahead(s, c) = more /\ Len(c.have) = 0
    BY <1>2, <1>9, <2>7, NextRead
  <2>9. AtLength(f, r, c, Ahead(s, c))
    BY <2>1, <2>2, <2>3, <2>4, <2>7, <2>8 DEF AtLength, more
  <2>10. Aligned(q, c, Ahead(s, c)) /\ Len(c.have) <= c.want
    BY <1>1, <1>4, <1>5, <2>4, <2>7, <2>8, <2>9 DEF Aligned
  <2>. QED
    BY <1>1, <1>2, <2>5, <2>7, <2>10 DEF Sound
<1>. QED
  BY <1>12, <1>13

LEMMA LengthSound ==
    ASSUME NEW q, NEW s, NEW b, Sound(q, s, b), Len(b.have) = b.want, b.step = "length"
    PROVE  Sound(q, s, Complete(b))
<1>1. PICK k \in Nat : k = Len(b.frames) /\ k <= Len(q)
  BY SoundTypes
<1>2. /\ k < Len(q)
      /\ AtLength(q[k + 1], Rest(q, k + 1), b, Ahead(s, b))
  BY <1>1 DEF Sound, Aligned
<1>3. PICK f \in WireFrames, r \in Seq(Bytes) : f = q[k + 1] /\ r = Rest(q, k + 1)
  BY <1>1, <1>2, SoundTypes
<1> DEFINE more == f.mask \o (Body(f) \o r)
           e == Extended(f)
<1>4. /\ b.frame = ParsedHeader(f) /\ Declared(f) \in {126, 127} /\ b.want = Len(e)
      /\ Ahead(s, b) = e \o more
  BY <1>2, <1>3 DEF AtLength
<1>5. e \in Seq(Bytes) /\ more \in Seq(Bytes)
  <2>1. Body(f) \o r \in Seq(Bytes)
    BY ExtendedType, ConcatProperties
  <2>. QED
    BY <2>1, WireFrameTypes, ExtendedType, ConcatProperties
<1>6. /\ Declared(f) = 126 => Len(e) = 2 /\ readUInt16BE(e) = Len(f.payload)
      /\ Declared(f) = 127 => /\ Len(e) = 8 /\ ~TooLong(e)
                              /\ read64BitPayloadLength(e) = Len(f.payload)
  BY WireFrameTypes, DeclaredIs DEF Declared, Extended
<1> HIDE DEF e, more
<1>7. b.have = e /\ FlattenSeq(b.chunks) \o s = more
  <2>1. PICK u \in Seq(Bytes), v \in Seq(Bytes) : u = e /\ v = more
    BY <1>5
  <2>2. Len(u) = b.want /\ Ahead(s, b) = Cat(u, v)
    BY <1>4, <2>1 DEF Cat
  <2>3. b.have = u /\ FlattenSeq(b.chunks) \o s = v
    BY <2>2, ReadIsPiece
  <2>. QED
    BY <2>1, <2>3
<1>8. [b.frame EXCEPT !.length = Len(f.payload)] = Sized(f, <<>>)
  BY <1>4 DEF ParsedHeader, Sized
<1>9. Complete(b) = ReadMask(b, Sized(f, <<>>))
  <2>1. CASE Declared(f) = 126
    <3>1. b.want = 2 /\ readUInt16BE(b.have) = Len(f.payload)
      BY <1>4, <1>6, <1>7, <2>1
    <3>2. Complete(b) = ReadMask(b, [b.frame EXCEPT !.length = readUInt16BE(b.have)])
      BY <3>1 DEF Complete
    <3>. QED
      BY <1>8, <3>1, <3>2
  <2>2. CASE Declared(f) = 127
    <3>1. b.want = 8 /\ ~TooLong(b.have) /\ read64BitPayloadLength(b.have) = Len(f.payload)
      BY <1>4, <1>6, <1>7, <2>2
    <3>2. Complete(b) = ReadMask(b, [b.frame EXCEPT !.length = read64BitPayloadLength(b.have)])
      BY <3>1 DEF Complete
    <3>. QED
      BY <1>8, <3>1, <3>2
  <2>. QED
    BY <1>4, <2>1, <2>2
<1>. QED
  BY <1>1, <1>2, <1>3, <1>7, <1>9, ReadMaskSound DEF more

LEMMA MaskSound ==
    ASSUME NEW q, NEW s, NEW b, Sound(q, s, b), Len(b.have) = b.want, b.step = "mask"
    PROVE  Sound(q, s, Complete(b))
<1>1. PICK k \in Nat : k = Len(b.frames) /\ k <= Len(q)
  BY SoundTypes
<1>2. /\ q \in Seq(WireFrames) /\ s \in Seq(Bytes) /\ b \in Buffers
      /\ k < Len(q) /\ b.frames = SubSeq(q, 1, k)
      /\ AtMask(q[k + 1], Rest(q, k + 1), b, Ahead(s, b))
  BY <1>1 DEF Sound, Aligned
<1>3. PICK f \in WireFrames, r \in Seq(Bytes) : f = q[k + 1] /\ r = Rest(q, k + 1)
  BY <1>1, <1>2, SoundTypes
<1> DEFINE more == Body(f) \o r
<1>4. /\ b.frame = Sized(f, <<>>) /\ b.want = 4 /\ f.mask # <<>>
      /\ Ahead(s, b) = f.mask \o more
  BY <1>2, <1>3 DEF AtMask
<1>5. f.mask \in Seq(Bytes) /\ Len(f.mask) = 4 /\ more \in Seq(Bytes)
  BY <1>4, WireFrameTypes, ExtendedType, ConcatProperties
<1> HIDE DEF more
<1>6. b.have = f.mask /\ FlattenSeq(b.chunks) \o s = more
  <2>1. PICK u \in Seq(Bytes), v \in Seq(Bytes) : u = f.mask /\ v = more
    BY <1>5
  <2>2. Len(u) = b.want /\ Ahead(s, b) = Cat(u, v)
    BY <1>4, <1>5, <2>1 DEF Cat
  <2>3. b.have = u /\ FlattenSeq(b.chunks) \o s = v
    BY <2>2, ReadIsPiece
  <2>. QED
    BY <2>1, <2>3
<1> DEFINE c == Complete(b)
<1>7. c = [chunks |-> b.chunks, step |-> "payload", want |-> Len(f.payload), have |-> <<>>,
           frame |-> Sized(f, f.mask), frames |-> b.frames]
  <2>1. c = [b EXCEPT !.frame.mask = b.have, !.have = <<>>, !.step = "payload",
                      !.want = b.frame.length]
    BY DEF Complete
  <2>2. b.frame.length = Len(f.payload)
    BY <1>4 DEF Sized
  <2>3. [b.frame EXCEPT !.mask = f.mask] = Sized(f, f.mask)
    <3>1. [Sized(f, <<>>) EXCEPT !.mask = f.mask] = Sized(f, f.mask)
      BY ONLY DEF Sized
    <3>. QED
      BY <1>4, <3>1
  <2> HIDE DEF c
  <2>4. c = [chunks |-> b.chunks, step |-> "payload", want |-> b.frame.length, have |-> <<>>,
             frame |-> [b.frame EXCEPT !.mask = b.have], frames |-> b.frames]
    BY <1>2, <2>1 DEF Buffers
  <2>. QED
    BY <1>6, <2>2, <2>3, <2>4
<1> HIDE DEF c
<1>8. c \in Buffers
  <2>1. <<>> \in Seq(Bytes) /\ b.chunks \in Seq(Seq(Bytes)) /\ b.frames \in Seq(DataFrames)
    <3>1. b \in Buffers
      BY <1>2
    <3>. QED
      BY <3>1, BufferTypes
  <2>2. Sized(f, f.mask) \in Partials /\ Len(f.payload) \in Nat
    BY SizedType, WireFrameTypes
  <2>. QED
    BY <1>7, <2>1, <2>2 DEF Buffers
<1>9. /\ c.chunks = b.chunks /\ c.step = "payload" /\ c.want = Len(f.payload)
      /\ c.have = <<>> /\ c.frame = Sized(f, f.mask) /\ c.frames = b.frames
  BY <1>7
<1>10. Ahead(s, c) = more /\ Len(c.have) = 0
  BY <1>2, <1>6, <1>8, <1>9, NextRead
<1>11. AtPayload(f, r, c, Ahead(s, c))
  BY <1>9, <1>10 DEF AtPayload, more
<1>12. Aligned(q, c, Ahead(s, c)) /\ Len(c.have) <= c.want
  <2>1. Len(c.have) <= c.want
    <3>1. Len(f.payload) \in Nat
      BY WireFrameTypes
    <3>. QED
      BY <1>9, <1>10, <3>1
  <2>2. Aligned(q, c, Ahead(s, c))
    BY <1>1, <1>2, <1>3, <1>9, <1>11 DEF Aligned
  <2>. QED
    BY <2>1, <2>2
<1>. QED
  BY <1>1, <1>2, <1>8, <1>9, <1>12 DEF Sound, c

LEMMA PayloadSound ==
    ASSUME NEW q, NEW s, NEW b, Sound(q, s, b), Len(b.have) = b.want, b.step = "payload"
    PROVE  Sound(q, s, Complete(b))
<1>1. PICK k \in Nat : k = Len(b.frames) /\ k <= Len(q)
  BY SoundTypes
<1>2. /\ q \in Seq(WireFrames) /\ s \in Seq(Bytes) /\ b \in Buffers
      /\ k < Len(q) /\ b.frames = SubSeq(q, 1, k) /\ Len(q) \in Nat
      /\ AtPayload(q[k + 1], Rest(q, k + 1), b, Ahead(s, b))
  BY <1>1, SoundTypes DEF Sound, Aligned
<1>3. PICK f \in WireFrames, r \in Seq(Bytes) : f = q[k + 1] /\ r = Rest(q, k + 1)
  BY <1>1, <1>2, SoundTypes
<1>4. /\ b.frame = Sized(f, f.mask) /\ b.want = Len(f.payload) /\ Ahead(s, b) = Body(f) \o r
  BY <1>2, <1>3 DEF AtPayload
<1>5. Body(f) \in Seq(Bytes) /\ Len(Body(f)) = Len(f.payload)
  BY ExtendedType
<1>6. b.have = Body(f) /\ FlattenSeq(b.chunks) \o s = r
  <2>1. PICK u \in Seq(Bytes) : u = Body(f)
    BY <1>5
  <2>2. Len(u) = b.want /\ Ahead(s, b) = Cat(u, r)
    BY <1>4, <1>5, <2>1 DEF Cat
  <2>3. b.have = u /\ FlattenSeq(b.chunks) \o s = r
    BY <2>2, ReadIsPiece
  <2>. QED
    BY <2>1, <2>3
<1> DEFINE c == Complete(b)
           parsed == [type |-> b.frame.type, rsv1 |-> b.frame.rsv1,
                      isFinal |-> b.frame.isFinal, mask |-> b.frame.mask,
                      payload |-> XorMask(b.have, b.frame.mask)]
<1>7. parsed = f
  <2>1. XorMask(Body(f), f.mask) = f.payload
    BY WireFrameTypes, MaskTwice DEF Body
  <2>2. parsed = [type |-> f.type, rsv1 |-> f.rsv1, isFinal |-> f.isFinal, mask |-> f.mask,
                  payload |-> XorMask(Body(f), f.mask)]
    BY <1>4, <1>6 DEF Sized
  <2>. QED
    BY <2>1, <2>2, WireFrameTypes
<1>8. c = Begin([b EXCEPT !.frames = Append(@, parsed)])
  BY DEF Complete, Dispatch
<1> HIDE DEF parsed, c
<1>9. c = [chunks |-> b.chunks, step |-> "header", want |-> 2, have |-> <<>>,
           frame |-> b.frame, frames |-> Append(b.frames, f)]
  BY <1>2, <1>7, <1>8 DEF Buffers, Begin
<1>10. /\ b.frames \in Seq(DataFrames) /\ f \in DataFrames
       /\ b.chunks \in Seq(Seq(Bytes)) /\ b.frame \in Partials /\ <<>> \in Seq(Bytes)
  BY <1>2 DEF Buffers, WireFrames
<1>11. Append(b.frames, f) \in Seq(DataFrames) /\ Len(Append(b.frames, f)) = k + 1
  BY <1>1, <1>10, AppendProperties
<1>12. c \in Buffers
  BY <1>9, <1>10, <1>11 DEF Buffers
<1>13. /\ c.chunks = b.chunks /\ c.step = "header" /\ c.want = 2 /\ c.have = <<>>
       /\ c.frames = Append(b.frames, f) /\ Len(c.frames) = k + 1
  BY <1>9, <1>11
<1>14. Append(b.frames, f) = SubSeq(q, 1, k + 1)
  <2>1. PICK m \in 1..Len(q) : m = k + 1 /\ m - 1 = k
    BY <1>1, <1>2
  <2>2. 1 \in 1..Len(q) /\ m \in 1..Len(q)
    BY <1>2, <2>1
  <2>3. SubSeq(q, 1, m) = SubSeq(q, 1, m - 1) \o <<q[m]>>
    BY <1>2, <2>2, SubSeqRecursiveSecond
  <2>4. Append(b.frames, f) = b.frames \o <<f>>
    BY <1>10, AppendIsConcat
  <2>. QED
    BY <1>2, <1>3, <2>1, <2>3, <2>4
<1>15. Ahead(s, c) = r /\ Len(c.have) = 0
  BY <1>2, <1>6, <1>12, <1>13, NextRead
<1>16. Aligned(q, c, Ahead(s, c)) /\ Len(c.have) <= c.want
  BY <1>3, <1>13, <1>15 DEF Aligned
<1>. QED
  BY <1>1, <1>2, <1>12, <1>13, <1>14, <1>16 DEF Sound, c

(* Every action keeps the invariant.                                         *)
LEMMA NothingSound == Sound(<<>>, <<>>, EmptyBuffer)
<1>1. <<>> \in Seq(WireFrames)
  <2>1. \A S : <<>> \in Seq(S)
    OBVIOUS
  <2>. QED
    BY ONLY <2>1
<1>2. OnWire(<<>>) = <<>>
  <2>1. OnWire(<<>>) = FlattenSeq(<<>>)
    BY DEF OnWire
  <2>. QED
    BY <2>1, FlatEmpty
<1>. QED
  BY <1>1, <1>2, EmptySound

LEMMA SoundInitially == FramesInit => FramesInv
BY NothingSound DEF FramesInit, FramesInv

LEMMA ComposeKeeps ==
    ASSUME Compose PROVE FramesInv'
<1>1. PICK c \in Conversations : composed' = Fragments(c)
  BY DEF Compose
<1>2. PICK q \in Seq(WireFrames) : q = Fragments(c)
  BY FragmentsType
<1>3. composed' = q /\ stream' = OnWire(q) /\ buffer' = EmptyBuffer
  BY <1>1, <1>2 DEF Compose
<1>4. Sound(q, OnWire(q), EmptyBuffer)
  BY EmptySound
<1>. QED
  BY <1>3, <1>4 DEF FramesInv

LEMMA ReceiveChunkKeeps ==
    ASSUME FramesInv, ReceiveChunk PROVE FramesInv'
<1>1. PICK s, b, q : s = stream /\ b = buffer /\ q = composed
  OBVIOUS
<1>2. Sound(q, s, b) /\ s # <<>>
  BY <1>1 DEF FramesInv, ReceiveChunk
<1>3. PICK size \in ((1..ChunkSize) \cap (1 .. Len(s))) \cup {Len(s)} :
        /\ buffer' = [b EXCEPT !.chunks = Append(@, SubSeq(s, 1, size))]
        /\ stream' = SubSeq(s, size + 1, Len(s))
  BY <1>1 DEF ReceiveChunk
<1>4. size \in 0..Len(s)
  BY <1>2, LenProperties, ConversationsAssumption DEF Sound
<1>5. composed' = q
  BY <1>1 DEF ReceiveChunk
<1>6. Sound(q, SubSeq(s, size + 1, Len(s)),
            [b EXCEPT !.chunks = Append(@, SubSeq(s, 1, size))])
  BY <1>2, <1>4, ChunkSound
<1>. QED
  BY <1>3, <1>5, <1>6 DEF FramesInv

LEMMA ReadPartKeeps ==
    ASSUME FramesInv, ReadPart PROVE FramesInv'
<1>1. PICK s, b, q : s = stream /\ b = buffer /\ q = composed
  OBVIOUS
<1>2. Sound(q, s, b) /\ b.step # "destroyed" /\ b.chunks # <<>>
  BY <1>1 DEF FramesInv, ReadPart, Reading
<1>3. Sound(q, s, Consume(b))
  BY <1>2, ReadSound
<1>4. buffer' = Consume(b) /\ stream' = s /\ composed' = q
  BY <1>1 DEF ReadPart
<1>. QED
  BY <1>3, <1>4 DEF FramesInv

LEMMA ProcessPartKeeps ==
    ASSUME FramesInv, ProcessPart PROVE FramesInv'
<1>1. PICK s, b, q : s = stream /\ b = buffer /\ q = composed
  OBVIOUS
<1>2. Sound(q, s, b) /\ b.step # "destroyed" /\ Len(b.have) = b.want
  BY <1>1 DEF FramesInv, ProcessPart, Reading
<1>3. Sound(q, s, Complete(b))
  <2>1. b.step \in {"header", "length", "mask", "payload"}
    BY <1>2, BufferTypes DEF Sound
  <2>. QED
    BY <1>2, <2>1, HeaderSound, LengthSound, MaskSound, PayloadSound
<1>4. buffer' = Complete(b) /\ stream' = s /\ composed' = q
  BY <1>1 DEF ProcessPart
<1>. QED
  BY <1>3, <1>4 DEF FramesInv

LEMMA DestroyKeeps ==
    ASSUME FramesInv, Destroy PROVE FramesInv'
<1>1. PICK s, b, q : s = stream /\ b = buffer /\ q = composed
  OBVIOUS
<1>2. Sound(q, s, [b EXCEPT !.step = "destroyed", !.want = Huge])
  BY <1>1, EndSound DEF FramesInv
<1>3. /\ buffer' = [b EXCEPT !.step = "destroyed", !.want = Huge]
      /\ stream' = s /\ composed' = q
  BY <1>1 DEF Destroy
<1>. QED
  BY <1>2, <1>3 DEF FramesInv

LEMMA NextStreamKeeps ==
    ASSUME NextStream PROVE FramesInv'
BY NothingSound DEF NextStream, FramesInv

(* A parser that waits with no bytes ahead is at the end of the stream.     *)
LEMMA NothingLeft ==
    ASSUME NEW q, NEW s, NEW b, Sound(q, s, b), s = <<>>, b.chunks = <<>>,
           Len(b.have) # b.want, b.step # "destroyed"
    PROVE  b.frames = q
<1>1. PICK k \in Nat : k = Len(b.frames) /\ k <= Len(q)
  BY SoundTypes
<1>2. /\ q \in Seq(WireFrames) /\ b \in Buffers /\ Len(q) \in Nat
      /\ b.frames = SubSeq(q, 1, k)
  BY <1>1, SoundTypes DEF Sound
<1>3. PICK h \in Seq(Bytes) : h = b.have
  BY <1>2, BufferTypes
<1>4. PICK w \in Nat : w = b.want /\ Len(h) < w
  <2>1. Len(h) <= b.want /\ b.want \in Nat /\ Len(h) \in Nat /\ Len(h) # b.want
    BY <1>2, <1>3, BufferTypes, LenProperties DEF Sound
  <2>. QED
    BY <2>1
<1>5. Ahead(s, b) = h
  <2>1. h \o (<<>> \o <<>>) = h
    OBVIOUS
  <2>. QED
    BY <1>3, <2>1, FlatEmpty DEF Ahead
<1>6. ASSUME k < Len(q) PROVE FALSE
  <2>1. PICK f \in WireFrames, r \in Seq(Bytes) : f = q[k + 1] /\ r = Rest(q, k + 1)
    BY <1>1, <1>6, SoundTypes
  <2>2. \E u \in Seq(Bytes), v \in Seq(Bytes) : h = u \o v /\ Len(u) = w
    <3>1. Body(f) \in Seq(Bytes) /\ Extended(f) \in Seq(Bytes) /\ f.mask \in Seq(Bytes)
          /\ Len(Body(f)) = Len(f.payload)
      BY ExtendedType, WireFrameTypes
    <3>2. Body(f) \o r \in Seq(Bytes)
      BY <3>1, ConcatProperties
    <3>3. f.mask \o (Body(f) \o r) \in Seq(Bytes)
      BY <3>1, <3>2, ConcatProperties
    <3>4. Extended(f) \o (f.mask \o (Body(f) \o r)) \in Seq(Bytes)
      BY <3>1, <3>3, ConcatProperties
    <3>5. CASE b.step = "header"
      <4>1. w = 2 /\ h = Rest(q, k)
        BY <1>1, <1>4, <1>5, <3>5 DEF Sound, Aligned
      <4>2. PICK m \in 0..Len(q) : m = k
        BY <1>2, <1>6
      <4>3. h = FrameHeader(f, Declared(f)) \o (Extended(f) \o (f.mask \o (Body(f) \o r)))
        <5>1. Rest(q, m) = composeWebsocketFrame(q[m + 1]) \o Rest(q, m + 1)
          BY <1>2, <1>6, <4>2, RestIs
        <5>2. h = composeWebsocketFrame(f) \o r
          BY <2>1, <4>1, <4>2, <5>1
        <5>. QED
          BY <5>2, PieceIs
      <4>. QED
        BY <3>4, <4>1, <4>3, HeaderIs
    <3>6. CASE b.step = "length"
      <4>1. w = Len(Extended(f)) /\ h = Extended(f) \o (f.mask \o (Body(f) \o r))
        BY <1>1, <1>4, <1>5, <2>1, <3>6 DEF Sound, Aligned, AtLength
      <4>. QED
        BY <3>1, <3>3, <4>1
    <3>7. CASE b.step = "mask"
      <4>1. w = 4 /\ f.mask # <<>> /\ h = f.mask \o (Body(f) \o r)
        BY <1>1, <1>4, <1>5, <2>1, <3>7 DEF Sound, Aligned, AtMask
      <4>2. Len(f.mask) = 4
        BY <4>1, WireFrameTypes
      <4>. QED
        BY <3>1, <3>2, <4>1, <4>2
    <3>8. CASE b.step = "payload"
      <4>1. w = Len(f.payload) /\ h = Body(f) \o r
        BY <1>1, <1>4, <1>5, <2>1, <3>8 DEF Sound, Aligned, AtPayload
      <4>. QED
        BY <3>1, <4>1
    <3>. QED
      BY <1>2, <3>5, <3>6, <3>7, <3>8, BufferTypes
  <2>3. PICK u \in Seq(Bytes), v \in Seq(Bytes) : h = u \o v /\ Len(u) = w
    BY <2>2
  <2>4. Len(h) = Len(u) + Len(v) /\ Len(v) \in Nat
    BY <2>3, ConcatProperties, LenProperties
  <2>. QED
    BY <1>4, <2>3, <2>4
<1>. QED
  BY <1>1, <1>2, <1>6, SubSeqFull

(* The invariant says what the property says.                                *)
LEMMA SoundSurvives == FramesInv => FramesSurvive
<1> SUFFICES ASSUME FramesInv PROVE FramesSurvive
  OBVIOUS
<1>1. PICK s, b, q : s = stream /\ b = buffer /\ q = composed
  OBVIOUS
<1>2. Sound(q, s, b)
  BY <1>1 DEF FramesInv
<1>3. IsPrefix(b.frames, q)
  <2>1. /\ q \in Seq(WireFrames) /\ Len(b.frames) <= Len(q) /\ Len(b.frames) \in Nat
        /\ Len(q) \in Nat /\ b.frames = SubSeq(q, 1, Len(b.frames))
    BY <1>2, SoundTypes DEF Sound
  <2>. QED
    BY <2>1 DEF IsPrefix
<1>4. s = <<>> /\ Waiting /\ b.step # "destroyed" => b.frames = q
  BY <1>1, <1>2, NothingLeft DEF Waiting
<1>. QED
  BY <1>1, <1>3, <1>4 DEF FramesSurvive

-----------------------------------------------------------------------------
(* Fragments and the theorems.                                               *)

(* The number of fragments.                                                  *)
LEMMA RoundedUp ==
    ASSUME NEW n \in Nat, NEW size \in Nat \ {0}, NEW count,
           count = (n + size - 1) \div size
    PROVE  count \in Nat /\ n <= size * count /\ size * count < n + size
<1>1. n + size - 1 \in Nat
  OBVIOUS
<1>2. PICK m \in Nat : m = n + size - 1
  BY <1>1
<1>3. m = size * (m \div size) + (m % size) /\ m % size \in 0..(size - 1) /\ m \div size \in Nat
  OBVIOUS
<1>4. PICK c \in Nat, r \in 0..(size - 1) : c = m \div size /\ r = m % size
  BY <1>3
<1>5. m = size * c + r /\ size * c \in Nat
  BY <1>3, <1>4, Products
<1>6. PICK p \in Nat : p = size * c
  BY <1>5
<1>7. m = p + r
  BY <1>5, <1>6
<1>8. n <= p /\ p < n + size
  BY ONLY <1>2, <1>7, r \in 0..(size - 1), p \in Nat, m \in Nat, n \in Nat, size \in Nat \ {0}
<1>. QED
  BY <1>2, <1>4, <1>6, <1>8

(* The payloads of the fragments that fragmentWebsocketFrame makes, put      *)
(* together, are the payload of the frame, for every size of fragments.      *)
THEOREM FragmentsJoined ==
    ASSUME NEW f \in WireFrames, NEW size \in Nat
    PROVE  LET q == fragmentWebsocketFrame(f, size)
           IN FlattenSeq([i \in DOMAIN q |-> q[i].payload]) = f.payload
<1> DEFINE q == fragmentWebsocketFrame(f, size)
<1>0. PICK p \in Seq(Bytes), n \in Nat : p = f.payload /\ n = Len(p)
  BY WireFrameTypes
<1>1. p \in Seq(Bytes) /\ n \in Nat
  OBVIOUS
<1>2. CASE size = 0 \/ n <= size
  <2>1. q = <<f>>
    BY <1>2, <1>0 DEF fragmentWebsocketFrame
  <2> DEFINE s == [i \in DOMAIN q |-> q[i].payload]
  <2>2. s = <<p>>
    BY <1>0, <2>1
  <2>3. PICK t \in Seq(Seq(Bytes)) : t = <<p>> /\ t # <<>>
    <3>1. <<p>> \in Seq(Seq(Bytes)) /\ <<p>> # <<>>
      <4>1. \A S : \A x \in S : <<x>> \in Seq(S) /\ <<x>> # <<>>
        OBVIOUS
      <4>. QED
        BY <1>1, <4>1
    <3>. QED
      BY <3>1
  <2>4. FlattenSeq(t) = Head(t) \o FlattenSeq(Tail(t))
    BY <2>3, FlatHead
  <2>5. Head(t) = p /\ Tail(t) = <<>>
    BY <1>1, <2>3
  <2>6. p \o <<>> = p
    BY <1>1, ConcatEmptySeq
  <2> HIDE DEF s
  <2>. QED
    BY <1>0, <2>2, <2>3, <2>4, <2>5, <2>6, FlatEmpty DEF s
<1>3. CASE ~(size = 0 \/ n <= size)
  <2>0. PICK count : count = (n + size - 1) \div size
    OBVIOUS
  <2> DEFINE last(i) == IF size * i < n THEN size * i ELSE n
             piece(i) == SubSeq(p, size * (i - 1) + 1, last(i))
             s == [i \in 1..count |-> piece(i)]
             g == [i \in 0..count |-> SubSeq(p, 1, last(i))]
  <2>1. count \in Nat /\ n <= size * count /\ size * count < n + size
    BY <1>1, <1>3, <2>0, RoundedUp
  <2>2. [i \in DOMAIN q |-> q[i].payload] = s
    BY <1>3, <1>0, <2>0 DEF fragmentWebsocketFrame
  <2>3. ASSUME NEW i \in 1..count
        PROVE  /\ size * (i - 1) \in Nat /\ size * (i - 1) <= n /\ last(i - 1) = size * (i - 1)
               /\ last(i) \in (size * (i - 1))..n
    <3>1. i \in Nat /\ i - 1 \in Nat /\ count - i \in Nat /\ size \in Nat
      BY <2>1
    <3>2. size * (i - 1) \in Nat /\ size * i \in Nat /\ size * (count - i) \in Nat
      BY <3>1, Products
    <3>3. size * i = size * (i - 1) + size /\ size * count = size * i + size * (count - i)
      <4>1. PICK c \in Nat : c = count
        BY <2>1
      <4>2. size * i = size * (i - 1) + size /\ size * c = size * i + size * (c - i)
        BY <3>1
      <4>. QED
        BY <4>1, <4>2
    <3>4. PICK a \in Nat, b \in Nat, z \in Nat, d \in Nat :
            a = size * (i - 1) /\ b = size * i /\ z = size * count /\ d = size * (count - i)
      BY <2>1, <3>1, <3>2, Products
    <3>5. b = a + size /\ z = b + d /\ n <= z /\ z < n + size
      BY <2>1, <3>3, <3>4
    <3>6. a < n
      BY <1>1, <3>1, <3>5
    <3>. QED
      BY <1>1, <3>1, <3>4, <3>5, <3>6
  <2>4. last(0) = 0 /\ last(count) = n /\ \A i \in 0..count : last(i) \in 0..n
    <3>1. size * 0 = 0
      OBVIOUS
    <3>2. last(0) = 0
      BY <1>1, <3>1
    <3>3. last(count) = n
      <4>1. PICK z \in Nat : z = size * count
        BY <2>1, Products
      <4>. QED
        BY <1>1, <2>1, <4>1
    <3>4. ASSUME NEW i \in 0..count PROVE last(i) \in 0..n
      <4>1. size * i \in Nat
        BY <2>1, Products
      <4>. QED
        BY <1>1, <4>1
    <3>. QED
      BY <3>2, <3>3, <3>4
  <2> HIDE DEF last
  <2>5. \A i \in 1..n : p[i] \in Bytes
    BY <1>0, ElementOfSeq
  <2>6. ASSUME NEW i \in 1..count PROVE piece(i) \in Seq(Bytes)
    <3>1. PICK a \in Nat, l \in 0..n :
            l \in a..n /\ a = size * (i - 1) /\ l = last(i) /\ a = last(i - 1)
      BY <2>3
    <3>2. \A j \in (a + 1)..l : p[j] \in Bytes
      BY <1>1, <2>5, <3>1
    <3>3. SubSeq(p, a + 1, l) \in Seq(Bytes)
      BY <1>1, <3>1, <3>2, SubSeqProperties
    <3>. QED
      BY <3>1, <3>3
  <2>7. ASSUME NEW i \in 0..count PROVE SubSeq(p, 1, last(i)) \in Seq(Bytes)
    <3>1. PICK l \in 0..n : l = last(i)
      BY <2>4
    <3>2. \A j \in 1..l : p[j] \in Bytes
      BY <1>1, <2>5
    <3>3. SubSeq(p, 1, l) \in Seq(Bytes)
      BY <1>1, <3>2, SubSeqProperties
    <3>. QED
      BY <3>1, <3>3
  <2>8. ASSUME NEW i \in 1..count
        PROVE  SubSeq(p, 1, last(i)) = SubSeq(p, 1, last(i - 1)) \o piece(i)
    <3>1. PICK a \in Nat, l \in 0..n :
            l \in a..n /\ a = size * (i - 1) /\ l = last(i) /\ a = last(i - 1)
      BY <2>3
    <3>2. 1 \in 1..(n + 1) /\ a \in (1 - 1)..n /\ l \in a..n
      BY <1>1, <3>1
    <3>3. SubSeq(p, 1, a) \o SubSeq(p, a + 1, l) = SubSeq(p, 1, l)
      BY <1>1, <3>2, <1>0, ConcatAdjacentSubSeq
    <3>. QED
      BY <3>1, <3>3
  <2>9. SubSeq(p, 1, last(0)) = <<>>
    BY <2>4, SubSeqEmpty
  <2> HIDE DEF piece
  <2>10. s \in Seq(Seq(Bytes)) /\ Len(s) = count
    BY <2>1, <2>6
  <2>11. g \in [0..count -> Seq(Bytes)]
    BY <2>7
  <2>12. g = [i \in 0..count |-> IF i = 0 THEN <<>> ELSE g[i - 1] \o s[i]]
    <3>1. ASSUME NEW i \in 0..count, i # 0 PROVE g[i] = g[i - 1] \o s[i]
      <4>1. i \in 1..count /\ i - 1 \in 0..count
        BY <2>1, <3>1
      <4>. QED
        BY <2>8, <4>1
    <3>. QED
      BY <2>9, <3>1
  <2> HIDE DEF s, g
  <2>13. FlattenSeq(s) = g[count]
    <3>1. g \in [0..Len(s) -> Seq(Bytes)] /\ Flattens(g, s)
      BY <2>10, <2>11, <2>12 DEF Flattens
    <3>. QED
      BY <2>10, <3>1, FlattenIs
  <2>14. g[count] = p
    BY <1>1, <2>1, <2>4, <1>0, SubSeqFull DEF g
  <2>. QED
    BY <2>2, <2>13, <2>14, <1>0
<1>. QED
  BY <1>2, <1>3

LEMMA FramesInvariant == FramesSpec => []FramesInv
<1>1. FramesInv /\ [FramesNext]_frameVars => FramesInv'
  <2> SUFFICES ASSUME FramesInv, [FramesNext]_frameVars PROVE FramesInv'
    OBVIOUS
  <2>1. CASE FramesNext
    BY <2>1, ComposeKeeps, ReceiveChunkKeeps, ReadPartKeeps, ProcessPartKeeps, DestroyKeeps,
       NextStreamKeeps DEF FramesNext
  <2>2. CASE UNCHANGED frameVars
    BY <2>2 DEF frameVars, FramesInv
  <2>. QED
    BY <2>1, <2>2
<1>. QED
  BY <1>1, SoundInitially, PTL DEF FramesSpec

(* Wherever chunks begin and end and however messages are fragmented, the   *)
(* parser dispatches the frames composed, in order and unchanged; when all  *)
(* bytes are there and it waits for more, all of them.                      *)
THEOREM FramesGetThrough == FramesSpec => []FramesSurvive
BY FramesInvariant, SoundSurvives, PTL

(* read64BitPayloadLength never rejects the length of a frame that          *)
(* composeWebsocketFrame has written: the parser does not stop.             *)
THEOREM ParserNeverStops == FramesSpec => [](buffer.step # "stopped")
<1>1. FramesInv => buffer.step # "stopped"
  <2> SUFFICES ASSUME FramesInv PROVE buffer.step # "stopped"
    OBVIOUS
  <2>1. buffer \in Buffers
    BY DEF FramesInv, Sound
  <2>. QED
    BY <2>1, BufferTypes
<1>. QED
  BY <1>1, FramesInvariant, PTL

-----------------------------------------------------------------------------
(* The timers of KeepAliveManager, for every PingTimeout.                    *)

OneAtATime ==
    state = "Open" /\ ~overtaken =>
        /\ orphans = {}
        /\ \/ nextPing # Off /\ ~OnItsWay /\ errorTimer = Off
           \/ nextPing = Off /\ queued = 1 /\ ~flushing /\ errorTimer = Off
           \/ nextPing = Off /\ queued = 0 /\ flushing /\ errorTimer = Off
           \/ nextPing = Off /\ ~OnItsWay /\ errorTimer # Off

AnswerOutstanding ==
    state = "Open" /\ ~overtaken =>
        /\ flushing => owes # Off
        /\ errorTimer # Off => owes # Off /\ owes + errorTimer >= PingTimeout

IInv == /\ TypeOK
        /\ AlwaysWatched
        /\ OneAtATime
        /\ AnswerOutstanding

(* An error timer just armed has all of PingTimeout ahead of it.            *)
LEMMA FullTimer == \A w \in Int : w >= 0 => w + PingTimeout >= PingTimeout
<1>1. PingTimeout \in Int
  BY TimeoutAssumption
<1> QED
  BY <1>1

(* The id that is overwritten was that of a running timer.                  *)
LEMMA ArmedInRange ==
    TypeOK /\ ArmErrorTimer =>
        errorTimer' \in Timer /\ orphans' \subseteq 0..PingTimeout
<1> SUFFICES ASSUME TypeOK, ArmErrorTimer
             PROVE  errorTimer' \in Timer /\ orphans' \subseteq 0..PingTimeout
  OBVIOUS
<1>1. PingTimeout \in Timer
  BY TimeoutAssumption DEF Timer
<1>2. errorTimer # Off => errorTimer \in 0..PingTimeout
  BY DEF TypeOK, Timer
<1>3. errorTimer' \in Timer
  BY <1>1 DEF ArmErrorTimer
<1>4. orphans' \subseteq 0..PingTimeout
  BY <1>2, Zenon DEF ArmErrorTimer, TypeOK
<1> QED
  BY <1>3, <1>4

(* Every step keeps the types.                                              *)
LEMMA TypeStep == TypeOK /\ [Next]_vars => TypeOK'
<1> SUFFICES ASSUME TypeOK, [Next]_vars
             PROVE  TypeOK'
  OBVIOUS
<1> USE TimeoutAssumption DEF TypeOK, Timer, Off, timers
<1>1. CASE SendPing
  <2>1. errorTimer' \in Timer /\ orphans' \subseteq 0..PingTimeout
    BY <1>1, ArmedInRange DEF SendPing
  <2>2. nextPing' \in Timer /\ queued' \in Nat
    BY <1>1 DEF SendPing
  <2>3. UNCHANGED <<state, peer, blocked, received, flushing, owes, overtaken>>
    BY <1>1 DEF SendPing
  <2> QED
    BY <2>1, <2>2, <2>3
<1>2. CASE PingWritten
  <2>1. errorTimer' \in Timer /\ orphans' \subseteq 0..PingTimeout
    BY <1>2, ArmedInRange DEF PingWritten
  <2>2. queued' \in Nat /\ owes' \in Timer
    BY <1>2 DEF PingWritten
  <2>3. flushing' \in BOOLEAN
    BY <1>2 DEF PingWritten
  <2>4. UNCHANGED <<state, peer, blocked, received, nextPing, overtaken>>
    BY <1>2 DEF PingWritten
  <2> QED
    BY <2>1, <2>2, <2>3, <2>4
<1>3. CASE PingFlushed
  <2>1. errorTimer' \in Timer /\ orphans' \subseteq 0..PingTimeout
    BY <1>3, ArmedInRange DEF PingFlushed
  <2>2. /\ flushing' = FALSE
        /\ UNCHANGED <<state, peer, blocked, received, nextPing, queued, owes,
                       overtaken>>
    BY <1>3 DEF PingFlushed
  <2> QED
    BY <2>1, <2>2
<1>4. ASSUME NEW isClose \in BOOLEAN, Receive(isClose)
      PROVE  TypeOK'
  <2>1. /\ state' \in {"Open", "Closing", "Closed"}
        /\ nextPing' \in {Off, PingTimeout}
        /\ errorTimer' = Off
        /\ orphans' = orphans
    BY <1>4 DEF Receive, Close, Stop, Rearm
  <2>2. overtaken' \in BOOLEAN
    <3> HIDE DEF TypeOK, Timer, Off
    <3> QED
      BY <1>4, Zenon DEF Receive
  <2>3. nextPing' \in Timer /\ errorTimer' \in Timer
    BY <2>1
  <2>4. received' \in Nat /\ owes' \in Timer
    BY <1>4 DEF Receive
  <2>5. UNCHANGED <<peer, blocked, queued, flushing>>
    BY <1>4 DEF Receive
  <2> QED
    BY <2>1, <2>2, <2>3, <2>4, <2>5
<1>5. CASE ErrorTimerFires
  BY <1>5 DEF ErrorTimerFires
<1>6. CASE OrphanFires
  BY <1>6 DEF OrphanFires
<1>7. CASE AppClose
  BY <1>7 DEF AppClose, Close, Stop
<1>8. CASE SocketClose
  BY <1>8 DEF SocketClose, Stop
<1>9. CASE PeerDies \/ Block \/ Unblock
  BY <1>9 DEF PeerDies, Block, Unblock
<1>10. CASE Tick
  <2>1. nextPing' \in Timer /\ errorTimer' \in Timer /\ owes' \in Timer
    BY <1>10 DEF Tick, Due, Elapse
  <2>2. orphans' \subseteq 0..PingTimeout
    BY <1>10 DEF Tick, Due, Elapse
  <2> QED
    BY <1>10, <2>1, <2>2 DEF Tick
<1>11. CASE UNCHANGED vars
  BY <1>11 DEF vars
<1> QED
  BY <1>1, <1>2, <1>3, <1>4, <1>5, <1>6, <1>7, <1>8, <1>9, <1>10, <1>11 DEF Next

LEMMA InvStep == IInv /\ [Next]_vars => IInv'
<1> SUFFICES ASSUME IInv, [Next]_vars
             PROVE  IInv'
  OBVIOUS
<1>0. TypeOK /\ TypeOK'
  BY TypeStep DEF IInv
<1> SUFFICES (AlwaysWatched /\ OneAtATime /\ AnswerOutstanding)'
  BY <1>0 DEF IInv
<1> USE TimeoutAssumption DEF IInv, TypeOK, Timer, Off, timers, AlwaysWatched,
        OneAtATime, AnswerOutstanding, OnItsWay
<1>1. CASE SendPing
  <2>1. CASE state # "Open"
    BY <1>1, <2>1 DEF SendPing
  <2>2. CASE state = "Open"
    <3>1. /\ nextPing # Off /\ nextPing' = Off
          /\ queued' = queued + 1
          /\ UNCHANGED <<state, errorTimer, orphans, flushing, owes, overtaken>>
      BY <1>1, <2>2 DEF SendPing
    <3>2. queued' > 0 /\ (queued <= 0 => queued' = 1)
      BY <1>0, <3>1
    <3> QED
      BY <3>1, <3>2
  <2> QED
    BY <2>1, <2>2
<1>2. CASE PingWritten
  <2>1. CASE state # "Open"
    BY <1>2, <2>1 DEF PingWritten
  <2>2. CASE state = "Open"
    <3>1. /\ queued > 0 /\ ~flushing /\ queued' = queued - 1
          /\ owes' # Off /\ owes' >= 0
          /\ UNCHANGED <<state, nextPing, overtaken>>
      BY <1>0, <1>2, <2>2 DEF PingWritten
    <3>2. queued = 1 => queued' = 0
      BY <3>1
    <3>3. CASE ArmErrorTimer /\ UNCHANGED flushing
      <4>1. errorTimer' = PingTimeout /\ errorTimer' # Off
        BY <3>3 DEF ArmErrorTimer
      <4>2. errorTimer = Off => orphans' = orphans
        BY <3>3 DEF ArmErrorTimer
      <4>3. owes' + errorTimer' >= PingTimeout
        <5>1. PICK w \in Int : w = owes' /\ w >= 0
          BY <1>0, <3>1
        <5>2. w + PingTimeout >= PingTimeout
          BY <5>1, FullTimer
        <5> QED
          BY <4>1, <5>1, <5>2
      <4>4. ~flushing'
        BY <3>1, <3>3
      <4>5. ASSUME ~overtaken
            PROVE  /\ nextPing = Off /\ errorTimer = Off
                   /\ orphans = {} /\ queued = 1
        BY <2>2, <3>1, <4>5
      <4>6. ~overtaken' =>
                nextPing' = Off /\ queued' = 0 /\ orphans' = {}
        BY <3>1, <3>2, <4>2, <4>5
      <4> QED
        BY <3>1, <4>1, <4>3, <4>4, <4>6
    <3>4. CASE flushing' = TRUE /\ UNCHANGED <<errorTimer, orphans>>
      <4>1. ~overtaken' => /\ nextPing' = Off /\ errorTimer' = Off
                           /\ orphans' = {} /\ queued' = 0
        BY <2>2, <3>1, <3>2, <3>4
      <4> QED
        BY <3>1, <3>4, <4>1
    <3> QED
      BY <1>2, <3>3, <3>4 DEF PingWritten
  <2> QED
    BY <2>1, <2>2
<1>3. CASE PingFlushed
  BY <1>0, <1>3 DEF PingFlushed, ArmErrorTimer
<1>4. ASSUME NEW isClose \in BOOLEAN, Receive(isClose)
      PROVE  (AlwaysWatched /\ OneAtATime /\ AnswerOutstanding)'
  <2>1. CASE state' # "Open"
    BY <2>1
  <2>2. CASE state' = "Open"
    <3>1. state = "Open" /\ ~isClose
      BY <1>0, <1>4, <2>2 DEF Receive, Close, Rearm
    <3>2. /\ nextPing' = PingTimeout /\ errorTimer' = Off
          /\ UNCHANGED <<orphans, queued, flushing>>
      BY <1>4, <3>1 DEF Receive, Rearm
    <3>3. ~overtaken' => ~OnItsWay /\ orphans = {}
      BY <1>4 DEF Receive
    <3>4. nextPing' # Off
      BY <3>2
    <3> QED
      BY <3>2, <3>3, <3>4
  <2> QED
    BY <2>1, <2>2
<1>5. CASE ErrorTimerFires
  BY <1>0, <1>5 DEF ErrorTimerFires
<1>6. CASE OrphanFires
  BY <1>0, <1>6 DEF OrphanFires
<1>7. CASE AppClose
  BY <1>0, <1>7 DEF AppClose, Close, Stop
<1>8. CASE SocketClose
  BY <1>0, <1>8 DEF SocketClose, Stop
<1>9. CASE PeerDies \/ Block \/ Unblock
  BY <1>0, <1>9 DEF PeerDies, Block, Unblock
<1>10. CASE Tick
  <2>1. /\ UNCHANGED <<state, queued, flushing, overtaken>>
        /\ nextPing' # Off <=> nextPing # Off
        /\ errorTimer' # Off <=> errorTimer # Off
        /\ owes' # Off <=> owes # Off
    BY <1>0, <1>10 DEF Tick, Due, Elapse
  <2>2. orphans' = {} <=> orphans = {}
    BY <1>10 DEF Tick
  <2>3. ASSUME errorTimer # Off, owes # Off, owes + errorTimer >= PingTimeout
        PROVE  owes' + errorTimer' >= PingTimeout
    BY <1>0, <1>10, <2>3 DEF Tick, Due, Elapse
  <2>4. AlwaysWatched'
    BY <2>1, <2>2
  <2>5. OneAtATime'
    BY <2>1, <2>2
  <2>6. AnswerOutstanding'
    BY <2>1, <2>3
  <2> QED
    BY <2>4, <2>5, <2>6
<1>11. CASE UNCHANGED vars
  BY <1>0, <1>11 DEF vars
<1> QED
  BY <1>1, <1>2, <1>3, <1>4, <1>5, <1>6, <1>7, <1>8, <1>9, <1>10, <1>11 DEF Next

THEOREM Invariance == Spec => []IInv
<1>1. Init => IInv
  <2>1. Init => TypeOK
    <3>1. PingTimeout \in Timer /\ Off \in Timer
      BY TimeoutAssumption DEF Timer
    <3>2. {} \subseteq 0..PingTimeout /\ 0 \in Nat
      OBVIOUS
    <3> QED
      BY <3>1, <3>2 DEF Init, TypeOK
  <2>2. Init => nextPing # Off /\ errorTimer = Off /\ ~OnItsWay /\ orphans = {}
    BY TimeoutAssumption DEF Init, Off, OnItsWay
  <2>3. Init => AlwaysWatched /\ OneAtATime
    BY <2>2 DEF AlwaysWatched, OneAtATime
  <2>4. Init => AnswerOutstanding
    BY DEF Init, AnswerOutstanding
  <2> QED
    BY <2>1, <2>3, <2>4 DEF IInv
<1>2. IInv /\ [Next]_vars => IInv'
  BY InvStep
<1> QED
  BY <1>1, <1>2, PTL DEF Spec

(* Timers stay within PingTimeout, whatever is armed, cleared or lost.      *)
THEOREM TypeCorrect == Spec => []TypeOK
<1>1. IInv => TypeOK
  BY DEF IInv
<1> QED
  BY <1>1, Invariance, PTL

(* handleLostConnection gives up an open connection only when a written     *)
(* ping has gone unanswered for PingTimeout, or a frame had been handled    *)
(* while a ping was on its way out.                                         *)
THEOREM LostOnSilence == Spec => []LostOnlyAfterSilence
<1>1. IInv => LostOnlyAfterSilence
  BY TimeoutAssumption
  DEF IInv, TypeOK, Timer, Off, OneAtATime, AnswerOutstanding,
      LostOnlyAfterSilence
<1> QED
  BY <1>1, Invariance, PTL

(* The keep-alive never stops while the connection is open.                 *)
THEOREM Watched == Spec => []AlwaysWatched
<1>1. IInv => AlwaysWatched
  BY DEF IInv
<1> QED
  BY <1>1, Invariance, PTL
==============================================================================
