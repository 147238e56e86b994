------------------------- MODULE MessageDeliveryProofs -------------------------
(***************************************************************************)
(* Every variable of MessageDelivery keeps its type, and the clients of    *)
(* every worker get each message once and those of one publisher in order. *)
(* The invariant follows the messages of a publisher on their way to a     *)
(* worker: from its channel to the master over the worker's channel and    *)
(* the broadcasts that wait to what has been broadcast they only get       *)
(* smaller.  A publisher is told the recipients of all workers: CountInv   *)
(* says of every number on its way whose recipients it is the sum of.      *)
(***************************************************************************)
EXTENDS MessageDelivery, FiniteSetTheorems, SequenceTheorems, WellFoundedInduction, TLAPS

-----------------------------------------------------------------------------
(* Recursive functions.                                                     *)

LEMMA LeastElement ==
    ASSUME NEW T, T \subseteq Nat, T # {}
    PROVE  \E r \in T : \A q \in T : r <= q
<1>1. PICK r \in T : \A q \in T : ~(<<q, r>> \in OpToRel(<, Nat))
  BY NatLessThanWellFounded, WFMin
<1>2. ASSUME NEW q \in T PROVE r <= q
  <2>1. ~(q < r)
    BY <1>1 DEF OpToRel
  <2>. QED
    BY <2>1
<1>. QED
  BY <1>2

(* A function computed step by step up to k.                                *)
Computes(g, k, V, c, step) ==
    /\ g \in [0..k -> V]
    /\ g[0] = c
    /\ \A i \in 1..k : g[i] = step[i][g[i - 1]]

LEMMA Computable ==
    ASSUME NEW n \in Nat, NEW V, NEW c \in V, NEW step \in [1..n -> [V -> V]]
    PROVE  \E g : Computes(g, n, V, c, step)
<1> DEFINE Bad == {k \in 0..n : ~\E g : Computes(g, k, V, c, step)}
<1>1. SUFFICES ASSUME Bad # {} PROVE FALSE
  <2>1. n \in 0..n
    OBVIOUS
  <2>. QED
    BY <2>1
<1>2. PICK k \in Bad : \A j \in Bad : k <= j
  <2>1. Bad \subseteq Nat
    OBVIOUS
  <2>. QED
    BY <1>1, <2>1, LeastElement
<1>3. CASE k = 0
  <2> DEFINE g == [i \in 0..0 |-> c]
  <2>1. Computes(g, 0, V, c, step)
    BY DEF Computes
  <2>. QED
    BY <1>3, <2>1
<1>4. CASE k # 0
  <2>1. k \in 1..n /\ k - 1 \in 0..n /\ k - 1 \notin Bad
    BY <1>2, <1>4
  <2>2. PICK f : Computes(f, k - 1, V, c, step)
    BY <2>1
  <2> DEFINE g == [i \in 0..k |-> IF i = k THEN step[k][f[k - 1]] ELSE f[i]]
  <2>3. f[k - 1] \in V /\ step[k] \in [V -> V]
    BY <2>1, <2>2 DEF Computes
  <2>4. g \in [0..k -> V]
    BY <2>1, <2>2, <2>3 DEF Computes
  <2>5. g[0] = c
    BY <2>1, <2>2 DEF Computes
  <2>6. \A i \in 1..k : g[i] = step[i][g[i - 1]]
    BY <2>1, <2>2 DEF Computes
  <2>7. Computes(g, k, V, c, step)
    BY <2>4, <2>5, <2>6 DEF Computes
  <2>. QED
    BY <1>2, <2>7
<1>. QED
  BY <1>3, <1>4

(* What holds at the start and from step to step.                           *)
LEMMA Inductive ==
    ASSUME NEW n \in Nat, NEW V, NEW g, g[0] \in V,
           \A i \in 1..n : g[i - 1] \in V => g[i] \in V
    PROVE  \A i \in 0..n : g[i] \in V
<1> DEFINE Bad == {k \in 0..n : g[k] \notin V}
<1>1. SUFFICES ASSUME Bad # {} PROVE FALSE
  OBVIOUS
<1>2. PICK k \in Bad : \A j \in Bad : k <= j
  <2>1. Bad \subseteq Nat
    OBVIOUS
  <2>. QED
    BY <1>1, <2>1, LeastElement
<1>3. k \in 1..n /\ k - 1 \in 0..n
  BY <1>2
<1>4. k - 1 \notin Bad
  BY <1>2, <1>3
<1>. QED
  BY <1>2, <1>3, <1>4

(* The sum of numbers, which grows with each of them.                       *)
Adds(g, q) == g = [i \in 0..Len(q) |-> IF i = 0 THEN 0 ELSE g[i - 1] + q[i]]

LEMMA SumIs ==
    ASSUME NEW q \in Seq(Nat)
    PROVE  \E g \in [0..Len(q) -> Nat] : Adds(g, q) /\ SumOf(q) = g[Len(q)]
<1> DEFINE n == Len(q)
           Sum[i \in 0..n] == IF i = 0 THEN 0 ELSE Sum[i - 1] + q[i]
           step == [i \in 1..n |-> [v \in Nat |-> v + q[i]]]
<1>1. n \in Nat /\ \A i \in 1..n : q[i] \in Nat
  OBVIOUS
<1>2. step \in [1..n -> [Nat -> Nat]]
  BY <1>1
<1>3. PICK g : Computes(g, n, Nat, 0, step)
  <2> HIDE DEF step, n
  <2>. QED
    BY <1>1, <1>2, Computable
<1>4. g \in [0..n -> Nat] /\ Adds(g, q)
  <2>1. /\ g \in [0..n -> Nat] /\ g[0] = 0
        /\ \A i \in 1..n : g[i] = step[i][g[i - 1]]
    BY <1>3 DEF Computes
  <2> HIDE DEF n
  <2>2. ASSUME NEW i \in 1..n PROVE g[i] = g[i - 1] + q[i]
    <3>1. i - 1 \in 0..n /\ g[i - 1] \in Nat
      BY <1>1, <2>1
    <3>. QED
      BY <2>1, <3>1
  <2> HIDE DEF step
  <2>3. g = [i \in 0..n |-> IF i = 0 THEN 0 ELSE g[i - 1] + q[i]]
    BY <1>1, <2>1, <2>2
  <2>. QED
    BY <2>1, <2>3 DEF Adds, n
<1>5. Adds(Sum, q)
  <2>1. Sum = CHOOSE f : Adds(f, q)
    BY DEF Adds
  <2>. QED
    BY <1>4, <2>1
<1>6. SumOf(q) = Sum[n]
  BY DEF SumOf
<1> HIDE DEF Sum, n
<1>7. Sum[n] \in Nat /\ Sum \in [0..n -> Nat]
  <2>1. Sum = [i \in 0..n |-> IF i = 0 THEN 0 ELSE Sum[i - 1] + q[i]]
    BY <1>5 DEF Adds, n
  <2>2. Sum[0] \in Nat /\ \A i \in 1..n : Sum[i - 1] \in Nat => Sum[i] \in Nat
    <3>1. 0 \in 0..n /\ \A i \in 1..n : i \in 0..n /\ i # 0 /\ q[i] \in Nat
      BY <1>1
    <3>2. Sum[0] = 0 /\ \A i \in 1..n : Sum[i] = Sum[i - 1] + q[i]
      BY <2>1, <3>1
    <3>. QED
      BY <3>1, <3>2
  <2>3. \A i \in 0..n : Sum[i] \in Nat
    BY <1>1, <2>2, Inductive
  <2>4. n \in 0..n
    BY <1>1
  <2>. QED
    BY <2>1, <2>3, <2>4
<1>. QED
  BY <1>5, <1>6, <1>7 DEF n

LEMMA SumIsNat ==
    ASSUME NEW q \in Seq(Nat)
    PROVE  SumOf(q) \in Nat
<1>1. PICK g \in [0..Len(q) -> Nat] : Adds(g, q) /\ SumOf(q) = g[Len(q)]
  BY SumIs
<1>2. Len(q) \in 0..Len(q)
  OBVIOUS
<1>. QED
  BY <1>1, <1>2

LEMMA SumEmpty == SumOf(<<>>) = 0
<1>1. <<>> \in Seq(Nat) /\ Len(<<>>) = 0
  OBVIOUS
<1>2. PICK g \in [0..0 -> Nat] : Adds(g, <<>>) /\ SumOf(<<>>) = g[0]
  BY <1>1, SumIs
<1>. QED
  BY <1>1, <1>2 DEF Adds

LEMMA SumAppend ==
    ASSUME NEW q \in Seq(Nat), NEW x \in Nat
    PROVE  SumOf(Append(q, x)) = SumOf(q) + x
<1> DEFINE r == Append(q, x)
           n == Len(q)
<1>1. /\ r \in Seq(Nat) /\ n \in Nat /\ Len(r) = n + 1 /\ r[n + 1] = x
      /\ \A i \in 1..n : r[i] = q[i]
  BY AppendProperties, LenProperties
<1>2. PICK g \in [0..n -> Nat] : Adds(g, q) /\ SumOf(q) = g[n]
  BY SumIs
<1> HIDE DEF r
<1>3. PICK h \in [0..(n + 1) -> Nat] : Adds(h, r) /\ SumOf(r) = h[n + 1]
  <2>1. PICK h \in [0..Len(r) -> Nat] : Adds(h, r) /\ SumOf(r) = h[Len(r)]
    BY <1>1, SumIs
  <2>. QED
    BY <1>1, <2>1
<1> HIDE DEF n
<1>4. /\ g[0] = 0 /\ \A i \in 1..n : g[i] = g[i - 1] + q[i]
      /\ h[0] = 0 /\ \A i \in 1..(n + 1) : h[i] = h[i - 1] + r[i]
  <2>1. g = [i \in 0..n |-> IF i = 0 THEN 0 ELSE g[i - 1] + q[i]]
    BY <1>2 DEF Adds, n
  <2>2. h = [i \in 0..Len(r) |-> IF i = 0 THEN 0 ELSE h[i - 1] + r[i]]
    BY <1>3 DEF Adds
  <2>3. h = [i \in 0..(n + 1) |-> IF i = 0 THEN 0 ELSE h[i - 1] + r[i]]
    BY <1>1, <2>2
  <2>4. /\ \A i \in 1..n : i \in 0..n /\ i # 0
        /\ \A i \in 1..(n + 1) : i \in 0..(n + 1) /\ i # 0
        /\ 0 \in 0..n /\ 0 \in 0..(n + 1)
    BY <1>1
  <2>5. g[0] = 0 /\ \A i \in 1..n : g[i] = g[i - 1] + q[i]
    BY <2>1, <2>4
  <2>6. h[0] = 0 /\ \A i \in 1..(n + 1) : h[i] = h[i - 1] + r[i]
    BY <2>3, <2>4
  <2>. QED
    BY <2>5, <2>6
<1>5. g[n] = h[n]
  <2> DEFINE d == [i \in 0..n |-> IF g[i] = h[i] THEN 0 ELSE 1]
             Equal == {0}
  <2>1. d[0] \in Equal
    BY <1>1, <1>4
  <2>2. ASSUME NEW i \in 1..n, d[i - 1] \in Equal PROVE d[i] \in Equal
    <3>1. i - 1 \in 0..n /\ i \in 0..n /\ i \in 1..(n + 1)
      BY <1>1
    <3>2. g[i - 1] = h[i - 1]
      BY <2>2, <3>1
    <3>3. g[i] = h[i]
      BY <1>1, <1>4, <3>1, <3>2
    <3>. QED
      BY <3>1, <3>3
  <2> HIDE DEF d, Equal
  <2>3. \A i \in 0..n : d[i] \in Equal
    <3>1. \A i \in 1..n : d[i - 1] \in Equal => d[i] \in Equal
      BY <2>2
    <3>. QED
      BY <1>1, <2>1, <3>1, Inductive
  <2>4. n \in 0..n
    BY <1>1
  <2>. QED
    BY <2>3, <2>4 DEF d, Equal
<1>6. h[n + 1] = h[n] + r[n + 1]
  <2>1. n + 1 \in 1..(n + 1) /\ (n + 1) - 1 = n
    BY <1>1
  <2>. QED
    BY <1>4, <2>1
<1>. QED
  BY <1>1, <1>2, <1>3, <1>5, <1>6 DEF r

(* The reports of a broadcast go behind what is on the channel already.     *)
Extends(q, channel) ==
    /\ q \in Seq(IpcMessage)
    /\ Len(channel) <= Len(q)
    /\ \A i \in 1..Len(channel) : q[i] = channel[i]
    /\ \A i \in (Len(channel) + 1)..Len(q) : q[i].type = "report"

LEMMA OneMore ==
    ASSUME NEW channel \in Seq(IpcMessage), NEW q, Extends(q, channel),
           NEW m \in Messages, NEW n \in Nat
    PROVE  Extends(Append(q, ClientMessageDeliveryReport(m, n)), channel)
<1> DEFINE x == ClientMessageDeliveryReport(m, n)
<1>1. x \in IpcMessage /\ x.type = "report"
  BY DEF ClientMessageDeliveryReport, IpcMessage
<1>2. q \in Seq(IpcMessage)
  BY DEF Extends
<1> HIDE DEF x
<1>3. /\ Append(q, x) \in Seq(IpcMessage) /\ Len(Append(q, x)) = Len(q) + 1
      /\ \A i \in 1..Len(q) : Append(q, x)[i] = q[i]
      /\ Append(q, x)[Len(q) + 1] = x
  BY <1>1, <1>2, AppendProperties
<1>. QED
  BY <1>1, <1>3 DEF Extends, x

(* They report on the messages of the broadcast.                            *)
Reports(q) == {q[i] : i \in {j \in 1..Len(q) : q[j].type = "report"}}
Honest(q, channel, messages, recipients) ==
    \A x \in Reports(q) :
        \/ x \in Reports(channel)
        \/ \E i \in 1..Len(messages) :
              x.message = messages[i] /\ x.data = recipients[messages[i]]

LEMMA ReportsAppend ==
    ASSUME NEW q \in Seq(IpcMessage), NEW x \in IpcMessage
    PROVE  Reports(Append(q, x)) = IF x.type = "report" THEN Reports(q) \cup {x} ELSE Reports(q)
<1> DEFINE r == Append(q, x)
<1>1. /\ Len(q) \in Nat /\ Len(r) = Len(q) + 1 /\ r[Len(q) + 1] = x
      /\ \A i \in 1..Len(q) : r[i] = q[i]
  BY AppendProperties, LenProperties
<1> HIDE DEF r
<1>2. /\ Len(q) + 1 \in 1..Len(r)
      /\ \A i \in 1..Len(q) : i \in 1..Len(r)
      /\ \A i \in 1..Len(r) : i \in 1..Len(q) \/ i = Len(q) + 1
  BY <1>1
<1>. QED
  BY <1>1, <1>2 DEF Reports, r

LEMMA ReportsFollow ==
    ASSUME NEW w, NEW messages \in Seq(Messages), NEW recipients \in [Messages -> Recipients],
           NEW channel \in Seq(IpcMessage)
    PROVE  /\ Extends(Reported(w, messages, recipients, channel), channel)
           /\ Honest(Reported(w, messages, recipients, channel), channel, messages, recipients)
<1> DEFINE n == Len(messages)
           Following(q, i) == IF Foreign(w, messages[i])
                          THEN Append(q, ClientMessageDeliveryReport(
                                             messages[i], recipients[messages[i]]))
                          ELSE q
           UpTo[i \in 0..n] ==
               IF i = 0 THEN channel
               ELSE IF Foreign(w, messages[i])
                    THEN Append(UpTo[i - 1],
                                ClientMessageDeliveryReport(
                                    messages[i], recipients[messages[i]]))
                    ELSE UpTo[i - 1]
           V == {q \in Seq(IpcMessage) : /\ Extends(q, channel)
                                         /\ Honest(q, channel, messages, recipients)}
           step == [i \in 1..n |-> [q \in V |-> Following(q, i)]]
           Eq(f) == f = [i \in 0..n |-> IF i = 0 THEN channel ELSE Following(f[i - 1], i)]
<1>1. n \in Nat /\ \A i \in 1..n : messages[i] \in Messages /\ recipients[messages[i]] \in Recipients
  OBVIOUS
<1>2. channel \in V
  BY DEF Extends, Honest
<1>3. ASSUME NEW q \in V, NEW i \in 1..n PROVE Following(q, i) \in V
  <2> DEFINE x == ClientMessageDeliveryReport(messages[i], recipients[messages[i]])
             r == Append(q, x)
  <2>1. messages[i] \in Messages /\ recipients[messages[i]] \in Nat
    BY <1>1, BoundsAssumption DEF Recipients
  <2>2. Extends(r, channel)
    BY <2>1, OneMore
  <2>3. x \in IpcMessage /\ x.message = messages[i] /\ x.data = recipients[messages[i]]
    BY <2>1 DEF ClientMessageDeliveryReport, IpcMessage
  <2> HIDE DEF x
  <2>4. Reports(r) \subseteq Reports(q) \cup {x}
    BY <2>3, ReportsAppend
  <2> HIDE DEF r
  <2>5. Honest(r, channel, messages, recipients)
    BY <2>3, <2>4 DEF Honest
  <2>6. r \in V
    BY <2>2, <2>5 DEF Extends
  <2>. QED
    BY <2>6 DEF r, x
<1> HIDE DEF n
<1> HIDE DEF V, Following
<1>4. step \in [1..n -> [V -> V]]
  BY <1>3
<1>5. PICK g : Computes(g, n, V, channel, step)
  <2> HIDE DEF step
  <2>. QED
    BY <1>1, <1>2, <1>4, Computable
<1>6. Eq(g)
  <2>1. /\ g \in [0..n -> V] /\ g[0] = channel
        /\ \A i \in 1..n : g[i] = step[i][g[i - 1]]
    BY <1>5 DEF Computes
  <2>2. ASSUME NEW i \in 1..n PROVE g[i] = Following(g[i - 1], i)
    <3>1. i - 1 \in 0..n /\ g[i - 1] \in V
      BY <1>1, <2>1
    <3>. QED
      BY <2>1, <3>1
  <2> HIDE DEF step
  <2>. QED
    BY <1>1, <2>1, <2>2
<1>7. Eq(UpTo)
  <2>1. UpTo = CHOOSE f : Eq(f)
    BY DEF Following
  <2>. QED
    BY <1>6, <2>1
<1> HIDE DEF UpTo
<1>8. UpTo[0] \in V /\ \A i \in 1..n : UpTo[i - 1] \in V => UpTo[i] \in V
  <2>1. UpTo[0] = channel
    BY <1>1, <1>7
  <2>2. ASSUME NEW i \in 1..n PROVE UpTo[i] = Following(UpTo[i - 1], i)
    BY <1>1, <1>7
  <2>. QED
    BY <1>2, <1>3, <2>1, <2>2
<1>9. UpTo[n] \in V
  <2>1. \A i \in 0..n : UpTo[i] \in V
    BY <1>1, <1>8, Inductive
  <2>. QED
    BY <1>1, <2>1
<1>. QED
  BY <1>9 DEF V, UpTo, n, Reported

LEMMA ReportGoes ==
    ASSUME NEW q \in Seq(IpcMessage), NEW m \in Messages, NEW n \in Nat
    PROVE  Extends(Append(q, ClientMessageDeliveryReport(m, n)), q)
<1>1. Extends(q, q)
  BY DEF Extends
<1>. QED
  BY <1>1, OneMore

-----------------------------------------------------------------------------
(* Sums over finite sets.  A sum does not depend on the order.              *)

First(T) == CHOOSE x \in T : TRUE
IsSum(c, a, b) == c = a + b
Integral(f, S) == \A x \in S : f[x] \in Int
Sums(g, f, S) ==
    g = [T \in SUBSET S |-> IF T = {} THEN 0 ELSE f[First(T)] + g[T \ {First(T)}]]

LEMMA Smaller ==
    ASSUME NEW T, IsFiniteSet(T), NEW x \in T
    PROVE  /\ IsFiniteSet(T \ {x}) /\ Cardinality(T) \in Nat /\ Cardinality(T \ {x}) \in Nat
           /\ Cardinality(T \ {x}) = Cardinality(T) - 1
BY FS_RemoveElement, FS_CardinalityType

(* Of the finite sets in Bad one is the smallest.                           *)
LEMMA SmallestSet ==
    ASSUME NEW Bad, Bad # {}, \A T \in Bad : IsFiniteSet(T)
    PROVE  \E T \in Bad : \A U \in Bad : Cardinality(T) <= Cardinality(U)
<1> DEFINE N == {Cardinality(T) : T \in Bad}
<1>1. N \subseteq Nat /\ N # {}
  BY FS_CardinalityType
<1>2. PICK n \in N : \A k \in N : n <= k
  BY <1>1, LeastElement
<1>. QED
  BY <1>2

LEMMA SumsExist ==
    ASSUME NEW S, IsFiniteSet(S), NEW f, \A x \in S : f[x] \in Int
    PROVE  \E g \in [SUBSET S -> Int] : Sums(g, f, S)
<1> DEFINE Upto(n) == {T \in SUBSET S : Cardinality(T) <= n}
           Good(n, g) == /\ g \in [Upto(n) -> Int]
                         /\ \A T \in Upto(n) :
                               g[T] = IF T = {} THEN 0 ELSE f[First(T)] + g[T \ {First(T)}]
           Bad == {n \in Nat : ~\E g : Good(n, g)}
<1>0. \A T \in SUBSET S : IsFiniteSet(T) /\ Cardinality(T) \in Nat
  BY FS_Subset, FS_CardinalityType
<1>1. Bad = {}
  <2> SUFFICES ASSUME Bad # {} PROVE FALSE
    OBVIOUS
  <2>1. PICK n \in Bad : \A k \in Bad : n <= k
    <3>1. Bad \subseteq Nat
      OBVIOUS
    <3>. QED
      BY <3>1, LeastElement
  <2>2. CASE n = 0
    <3>1. \A T \in Upto(0) : T = {}
      BY <1>0, FS_EmptySet
    <3> DEFINE g == [T \in Upto(0) |-> 0]
    <3>2. Good(0, g)
      BY <3>1
    <3>3. \E h : Good(n, h)
      BY <2>2, <3>2
    <3> HIDE DEF Good
    <3>. QED
      BY <2>1, <3>3
  <2>3. CASE n # 0
    <3>1. n - 1 \in Nat /\ n - 1 \notin Bad
      <4>1. n \in Nat /\ n - 1 \in Nat /\ ~(n <= n - 1)
        BY <2>3
      <4> HIDE DEF Bad
      <4>. QED
        BY <2>1, <4>1
    <3>2. PICK h : Good(n - 1, h)
      BY <3>1
    <3> DEFINE g == [T \in Upto(n) |-> IF T = {} THEN 0 ELSE f[First(T)] + h[T \ {First(T)}]]
    <3>3. ASSUME NEW T \in Upto(n), T # {}
          PROVE  /\ First(T) \in S /\ T \ {First(T)} \in Upto(n - 1)
                 /\ T \ {First(T)} \in Upto(n)
      <4>1. First(T) \in T
        BY <3>3 DEF First
      <4>2. Cardinality(T \ {First(T)}) = Cardinality(T) - 1
        BY <1>0, <4>1, Smaller
      <4>. QED
        BY <1>0, <4>1, <4>2
    <3>4. ASSUME NEW T \in Upto(n), T # {} PROVE g[T \ {First(T)}] = h[T \ {First(T)}]
      BY <3>2, <3>3, <3>4
    <3>5. g \in [Upto(n) -> Int]
      <4>1. \A T \in Upto(n) : T # {} => f[First(T)] \in Int /\ h[T \ {First(T)}] \in Int
        BY <3>2, <3>3
      <4> HIDE DEF Upto
      <4>. QED
        BY <4>1
    <3>6. Good(n, g)
      BY <3>4, <3>5
    <3>. QED
      BY <2>1, <3>6
  <2>. QED
    BY <2>2, <2>3
<1>2. Cardinality(S) \in Nat /\ Upto(Cardinality(S)) = SUBSET S
  BY <1>0, FS_Subset, FS_CardinalityType
<1>3. PICK g : Good(Cardinality(S), g)
  BY <1>1, <1>2
<1>. QED
  BY <1>2, <1>3 DEF Sums

LEMMA SumsAgree ==
    ASSUME NEW S, NEW U, NEW f, NEW e, NEW g, NEW h, Sums(g, f, S), Sums(h, e, U),
           NEW T \in SUBSET S, T \in SUBSET U, IsFiniteSet(T), \A x \in T : f[x] = e[x]
    PROVE  g[T] = h[T]
<1> DEFINE Bad == {V \in SUBSET T : g[V] # h[V]}
<1> SUFFICES ASSUME Bad # {} PROVE FALSE
  OBVIOUS
<1>1. \A V \in SUBSET T : IsFiniteSet(V)
  BY FS_Subset
<1>2. PICK V \in Bad : \A W \in Bad : Cardinality(V) <= Cardinality(W)
  BY <1>1, SmallestSet
<1>3. \A W \in SUBSET T :
         /\ g[W] = IF W = {} THEN 0 ELSE f[First(W)] + g[W \ {First(W)}]
         /\ h[W] = IF W = {} THEN 0 ELSE e[First(W)] + h[W \ {First(W)}]
  BY DEF Sums
<1>4. V # {}
  BY <1>2, <1>3
<1>5. First(V) \in V
  BY <1>4 DEF First
<1>6. ~(Cardinality(V) <= Cardinality(V \ {First(V)}))
  BY <1>1, <1>2, <1>5, Smaller
<1>7. V \ {First(V)} \notin Bad
  BY <1>2, <1>6
<1>. QED
  BY <1>2, <1>3, <1>4, <1>5, <1>7

LEMMA SumsWithout ==
    ASSUME NEW S, IsFiniteSet(S), NEW f, \A x \in S : f[x] \in Int,
           NEW g \in [SUBSET S -> Int], Sums(g, f, S)
    PROVE  \A y \in S : IsSum(g[S], f[y], g[S \ {y}])
<1> DEFINE Bad == {T \in SUBSET S : \E x \in T : g[T] # f[x] + g[T \ {x}]}
<1> SUFFICES ASSUME Bad # {} PROVE FALSE
  BY DEF IsSum
<1>1. \A V \in SUBSET S : IsFiniteSet(V)
  BY FS_Subset
<1>2. PICK T \in Bad : \A W \in Bad : Cardinality(T) <= Cardinality(W)
  BY <1>1, SmallestSet
<1>3. PICK x \in T : g[T] # f[x] + g[T \ {x}]
  BY <1>2
<1> DEFINE z == First(T)
<1>4. z \in T
  BY <1>3 DEF First
<1>5. g[T] = f[z] + g[T \ {z}]
  BY <1>2, <1>3 DEF Sums
<1> HIDE DEF z
<1>6. x # z
  BY <1>3, <1>5
<1>7. /\ T \ {x} \notin Bad
      /\ T \ {z} \notin Bad
  <2>1. ~(Cardinality(T) <= Cardinality(T \ {x})) /\ ~(Cardinality(T) <= Cardinality(T \ {z}))
    <3>1. IsFiniteSet(T) /\ x \in T /\ z \in T
      BY <1>1, <1>2, <1>3, <1>4
    <3>2. /\ Cardinality(T) \in Nat
          /\ Cardinality(T \ {x}) = Cardinality(T) - 1
      BY <3>1, Smaller
    <3>3. Cardinality(T \ {z}) = Cardinality(T) - 1
      BY <3>1, Smaller
    <3>. QED
      BY <3>2, <3>3
  <2>. QED
    BY <1>2, <2>1
<1>8. /\ g[T \ {x}] = f[z] + g[(T \ {x}) \ {z}]
      /\ g[T \ {z}] = f[x] + g[(T \ {z}) \ {x}]
  BY <1>2, <1>3, <1>4, <1>6, <1>7
<1>9. (T \ {x}) \ {z} = (T \ {z}) \ {x}
  OBVIOUS
<1>10. /\ f[x] \in Int /\ f[z] \in Int /\ g[(T \ {x}) \ {z}] \in Int
  BY <1>2, <1>3, <1>4
<1>11. f[z] + (f[x] + g[(T \ {x}) \ {z}]) = f[x] + (f[z] + g[(T \ {x}) \ {z}])
  BY <1>10
<1>12. g[T] = f[x] + g[T \ {x}]
  BY <1>5, <1>8, <1>9, <1>11
<1>. QED
  BY <1>3, <1>12

LEMMA TotalIs ==
    ASSUME NEW S, IsFiniteSet(S), NEW f, \A x \in S : f[x] \in Int
    PROVE  \E g \in [SUBSET S -> Int] : Sums(g, f, S) /\ Total(f, S) = g[S]
<1> DEFINE Eq(g) == g = [T \in SUBSET S |-> IF T = {} THEN 0
                          ELSE f[CHOOSE x \in T : TRUE] + g[T \ {CHOOSE x \in T : TRUE}]]
<1>1. PICK g \in [SUBSET S -> Int] : Sums(g, f, S)
  BY SumsExist
<1>2. Eq(g)
  BY <1>1 DEF Sums, First
<1>3. Eq(CHOOSE h : Eq(h))
  BY <1>2
<1>4. Sums(CHOOSE h : Eq(h), f, S)
  BY <1>3 DEF Sums, First
<1>5. Total(f, S) = (CHOOSE h : Eq(h))[S]
  BY DEF Total, MapThenSumSet, MapThenFoldSet
<1> HIDE DEF Eq
<1>6. (CHOOSE h : Eq(h))[S] = g[S]
  BY <1>1, <1>4, SumsAgree
<1>. QED
  BY <1>1, <1>5, <1>6

LEMMA TotalEmpty == ASSUME NEW f PROVE Total(f, {}) = 0
<1>1. PICK g \in [SUBSET {} -> Int] : Sums(g, f, {}) /\ Total(f, {}) = g[{}]
  BY TotalIs, FS_EmptySet
<1>. QED
  BY <1>1 DEF Sums

LEMMA TotalSame ==
    ASSUME NEW S, IsFiniteSet(S), NEW f, NEW e, \A x \in S : f[x] \in Int /\ e[x] = f[x]
    PROVE  Total(e, S) = Total(f, S)
<1>1. PICK g \in [SUBSET S -> Int] : Sums(g, f, S) /\ Total(f, S) = g[S]
  BY TotalIs
<1>2. PICK h \in [SUBSET S -> Int] : Sums(h, e, S) /\ Total(e, S) = h[S]
  BY TotalIs
<1>3. g[S] = h[S]
  BY <1>1, <1>2, SumsAgree
<1>. QED
  BY <1>1, <1>2, <1>3

LEMMA TotalWithout ==
    ASSUME NEW S, IsFiniteSet(S), NEW f, Integral(f, S), NEW y \in S
    PROVE  IsSum(Total(f, S), f[y], Total(f, S \ {y})) /\ Total(f, S \ {y}) \in Int
<1>1. PICK g \in [SUBSET S -> Int] : Sums(g, f, S) /\ Total(f, S) = g[S]
  BY TotalIs DEF Integral
<1>2. IsSum(g[S], f[y], g[S \ {y}])
  BY <1>1, SumsWithout DEF Integral
<1> DEFINE U == S \ {y}
<1>3. IsFiniteSet(U) /\ (\A x \in U : f[x] \in Int) /\ U \in SUBSET S
  BY Smaller DEF Integral
<1> HIDE DEF U
<1>4. PICK h \in [SUBSET U -> Int] : Sums(h, f, U) /\ Total(f, U) = h[U]
  BY <1>3, TotalIs
<1>5. g[U] = h[U]
  BY <1>1, <1>3, <1>4, SumsAgree
<1>6. Total(f, U) = g[S \ {y}] /\ Total(f, U) \in Int
  BY <1>4, <1>5 DEF U
<1>. QED
  BY <1>1, <1>2, <1>6 DEF U

LEMMA TotalPlus ==
    ASSUME NEW S, IsFiniteSet(S), NEW y, y \notin S, NEW f, Integral(f, S \cup {y})
    PROVE  IsSum(Total(f, S \cup {y}), Total(f, S), f[y]) /\ Total(f, S) \in Int
<1> DEFINE U == S \cup {y}
<1>1. IsFiniteSet(U) /\ Integral(f, U) /\ y \in U /\ U \ {y} = S
  BY FS_AddElement
<1> HIDE DEF U
<1>2. IsSum(Total(f, U), f[y], Total(f, U \ {y})) /\ Total(f, U \ {y}) \in Int
  BY <1>1, TotalWithout
<1>3. f[y] \in Int
  BY <1>1 DEF Integral
<1>4. IsSum(Total(f, U), f[y], Total(f, S)) /\ Total(f, S) \in Int
  BY <1>1, <1>2
<1>5. IsSum(Total(f, U), Total(f, S), f[y])
  BY <1>3, <1>4 DEF IsSum
<1>. QED
  BY <1>4, <1>5 DEF U

-----------------------------------------------------------------------------
(* What a broadcast does.                                                   *)

Sent(w, channel) == \E q : Extends(q, channel) /\ toMaster' = [toMaster EXCEPT ![w] = q]

LEMMA Delivered ==
    ASSUME TypeOK, NEW w \in Workers, NEW messages \in Seq(Messages),
           NEW recipients \in [Messages -> Recipients], NEW channel \in Seq(IpcMessage),
           Deliver(w, messages, recipients, channel)
    PROVE  /\ Sent(w, channel)
           /\ broadcast' = [broadcast EXCEPT ![w] = @ \o messages]
           /\ found' \in [Messages -> [Workers -> Recipients \cup {Unknown}]]
<1>1. Sent(w, channel)
  <2>1. Extends(Reported(w, messages, recipients, channel), channel)
    BY ReportsFollow
  <2>. QED
    BY <2>1 DEF Deliver, Sent
<1>2. broadcast' = [broadcast EXCEPT ![w] = @ \o messages]
  BY DEF Deliver
<1>3. found' \in [Messages -> [Workers -> Recipients \cup {Unknown}]]
  <2>1. found' = [m \in Messages |->
                     IF Contains(messages, m)
                     THEN [found[m] EXCEPT ![w] = recipients[m]]
                     ELSE found[m]]
    BY DEF Deliver
  <2>2. \A m \in Messages : found'[m] \in [Workers -> Recipients \cup {Unknown}]
    BY <2>1 DEF TypeOK
  <2>. QED
    BY <2>1, <2>2
<1>. QED
  BY <1>1, <1>2, <1>3

(* The three ways of a broadcast.                                           *)
AtOnce(w, m) ==
    /\ manager[w] = "ready"
    /\ broadcast' = [broadcast EXCEPT ![w] = @ \o <<m>>]
    /\ UNCHANGED <<manager, waiting>>

Waits(w, m) ==
    /\ manager' = [manager EXCEPT ![w] = "loading"]
    /\ waiting' = [waiting EXCEPT ![w] = Append(@, m)]
    /\ UNCHANGED broadcast

Nowhere == UNCHANGED <<manager, waiting, broadcast>>

LEMMA BroadcastWays ==
    ASSUME TypeOK, NEW w \in Workers, NEW m \in Messages, NEW channel \in Seq(IpcMessage),
           Broadcast(w, m, channel)
    PROVE  /\ Sent(w, channel)
           /\ found' \in [Messages -> [Workers -> Recipients \cup {Unknown}]]
           /\ AtOnce(w, m) \/ Waits(w, m) \/ Nowhere
<1>1. CASE /\ manager[w] = "ready"
           /\ \E n \in Recipients : Deliver(w, <<m>>, [i \in Messages |-> n], channel)
           /\ UNCHANGED <<manager, waiting>>
  <2>1. PICK n \in Recipients : Deliver(w, <<m>>, [i \in Messages |-> n], channel)
    BY <1>1
  <2>2. <<m>> \in Seq(Messages) /\ [i \in Messages |-> n] \in [Messages -> Recipients]
    OBVIOUS
  <2>. QED
    BY <1>1, <2>1, <2>2, Delivered DEF AtOnce
<1>2. Extends(channel, channel)
  BY DEF Extends
<1>3. toMaster' = [toMaster EXCEPT ![w] = channel] => Sent(w, channel)
  BY <1>2 DEF Sent
<1>4. CASE /\ manager[w] \in {"none", "loading"}
           /\ manager' = [manager EXCEPT ![w] = "loading"]
           /\ Await(w, m)
           /\ toMaster' = [toMaster EXCEPT ![w] = channel]
           /\ UNCHANGED <<broadcast, found>>
  BY <1>3, <1>4 DEF Await, Waits, TypeOK
<1>5. CASE /\ manager[w] = "failed"
           /\ toMaster' = [toMaster EXCEPT ![w] = channel]
           /\ UNCHANGED clients
  BY <1>3, <1>5 DEF clients, Nowhere, TypeOK
<1>. QED
  BY <1>1, <1>4, <1>5 DEF Broadcast

LEMMA SentTypes ==
    ASSUME TypeOK, NEW w \in Workers, NEW channel, Sent(w, channel)
    PROVE  toMaster' \in [Workers -> Seq(IpcMessage)]
BY DEF Sent, Extends, TypeOK

LEMMA WaysTypes ==
    ASSUME TypeOK, NEW w \in Workers, NEW m \in Messages,
           AtOnce(w, m) \/ Waits(w, m) \/ Nowhere
    PROVE  /\ manager' \in [Workers -> {"none", "loading", "ready", "failed"}]
           /\ waiting' \in [Workers -> Seq(Messages)]
           /\ broadcast' \in [Workers -> Seq(Messages)]
<1>1. /\ manager \in [Workers -> {"none", "loading", "ready", "failed"}]
      /\ waiting \in [Workers -> Seq(Messages)]
      /\ broadcast \in [Workers -> Seq(Messages)]
  BY DEF TypeOK
<1>2. broadcast[w] \o <<m>> \in Seq(Messages) /\ Append(waiting[w], m) \in Seq(Messages)
  <2>1. broadcast[w] \in Seq(Messages) /\ waiting[w] \in Seq(Messages) /\ <<m>> \in Seq(Messages)
    BY <1>1
  <2>. QED
    BY <2>1, ConcatProperties, AppendProperties
<1>. QED
  BY <1>1, <1>2 DEF AtOnce, Waits, Nowhere

-----------------------------------------------------------------------------

LEMMA TypeInit == Init => TypeOK
BY BoundsAssumption, EmptySeq DEF Init, TypeOK, Unknown

LEMMA ForwardTypes ==
    ASSUME NEW m \in Messages
    PROVE  /\ ForwardClientMessage(m) \in IpcMessage
           /\ ForwardClientMessage(m).type = "forward"
           /\ ForwardClientMessage(m).message = m
BY DEF ForwardClientMessage, IpcMessage

LEMMA IpcTypes ==
    ASSUME NEW x \in IpcMessage
    PROVE  /\ x.message \in Messages
           /\ x.type \in {"forward", "report"}
           /\ x.type = "report" => x.data \in Nat
BY DEF IpcMessage

LEMMA FirstOf ==
    ASSUME NEW S, NEW q \in Seq(S), q # <<>>
    PROVE  /\ Head(q) \in S /\ Tail(q) \in Seq(S)
           /\ Len(q) \in Nat /\ Len(q) >= 1 /\ Head(q) = q[1]
           /\ Len(Tail(q)) = Len(q) - 1
           /\ \A i \in 1..Len(Tail(q)) : Tail(q)[i] = q[i + 1]
BY HeadTailProperties, EmptySeq, LenProperties

LEMMA TypeStep == TypeOK /\ [Next]_vars => TypeOK'
<1> SUFFICES ASSUME TypeOK, [Next]_vars PROVE TypeOK'
  OBVIOUS
<1> USE DEF ipc, master, clients
<1>0. /\ toMaster \in [Workers -> Seq(IpcMessage)]
      /\ toWorker \in [Workers -> Seq(IpcMessage)]
      /\ origin \in Seq(Workers) /\ Len(origin) \in Nat
      /\ waiting \in [Workers -> Seq(Messages)]
  BY DEF TypeOK
<1>1. ASSUME NEW w \in Workers, Publish(w) PROVE TypeOK'
  <2> DEFINE m == Len(origin) + 1
             channel == Append(toMaster[w], ForwardClientMessage(m))
  <2>1. /\ m \in Messages /\ origin' = Append(origin, w) /\ Broadcast(w, m, channel)
        /\ UNCHANGED <<alive, toWorker, targets, asked, responses, forwarded>>
    BY <1>1 DEF Publish
  <2>2. channel \in Seq(IpcMessage)
    BY <1>0, <2>1, ForwardTypes, AppendProperties
  <2>3. /\ Sent(w, channel)
        /\ found' \in [Messages -> [Workers -> Recipients \cup {Unknown}]]
        /\ AtOnce(w, m) \/ Waits(w, m) \/ Nowhere
    <3> HIDE DEF m, channel
    <3>. QED
      BY <2>1, <2>2, BroadcastWays
  <2>4. origin' \in Seq(Workers) /\ Len(origin') <= MaxMessages
    BY <1>0, <2>1, AppendProperties, BoundsAssumption DEF Messages
  <2> HIDE DEF m, channel
  <2>. QED
    BY <2>1, <2>3, <2>4, SentTypes, WaysTypes DEF TypeOK
<1>2. ASSUME NEW w \in Workers, HandleForwardedMessage(w) PROVE TypeOK'
  <2> DEFINE m == Head(toWorker[w]).message
  <2>1. /\ toWorker[w] # <<>> /\ toWorker' = [toWorker EXCEPT ![w] = Tail(@)]
        /\ Broadcast(w, m, toMaster[w])
        /\ UNCHANGED <<alive, origin, targets, asked, responses, forwarded>>
    BY <1>2 DEF HandleForwardedMessage
  <2>2. m \in Messages /\ Tail(toWorker[w]) \in Seq(IpcMessage) /\ toMaster[w] \in Seq(IpcMessage)
    BY <1>0, <2>1, FirstOf, IpcTypes
  <2> HIDE DEF m
  <2>3. /\ Sent(w, toMaster[w])
        /\ found' \in [Messages -> [Workers -> Recipients \cup {Unknown}]]
        /\ AtOnce(w, m) \/ Waits(w, m) \/ Nowhere
    BY <2>1, <2>2, BroadcastWays
  <2>4. toWorker' \in [Workers -> Seq(IpcMessage)]
    BY <1>0, <2>1, <2>2
  <2>. QED
    BY <2>1, <2>2, <2>3, <2>4, SentTypes, WaysTypes DEF TypeOK
<1>3. ASSUME NEW w \in Workers, LoadSucceeds(w) PROVE TypeOK'
  <2>1. PICK recipients \in [Messages -> Recipients] :
            Deliver(w, waiting[w], recipients, toMaster[w])
    BY <1>3 DEF LoadSucceeds
  <2>2. waiting[w] \in Seq(Messages) /\ toMaster[w] \in Seq(IpcMessage)
    BY <1>0
  <2>3. /\ Sent(w, toMaster[w])
        /\ broadcast' = [broadcast EXCEPT ![w] = @ \o waiting[w]]
        /\ found' \in [Messages -> [Workers -> Recipients \cup {Unknown}]]
    BY <2>1, <2>2, Delivered
  <2>4. broadcast' \in [Workers -> Seq(Messages)]
    BY <2>2, <2>3, ConcatProperties DEF TypeOK
  <2>5. toMaster' \in [Workers -> Seq(IpcMessage)]
    BY <2>3, SentTypes
  <2>6. /\ manager' = [manager EXCEPT ![w] = "ready"]
        /\ waiting' = [waiting EXCEPT ![w] = <<>>]
        /\ UNCHANGED <<alive, origin, toWorker, targets, asked, responses, forwarded>>
    BY <1>3 DEF LoadSucceeds
  <2>7. waiting' \in [Workers -> Seq(Messages)]
    BY <1>0, <2>6, EmptySeq
  <2>. QED
    BY <2>3, <2>4, <2>5, <2>6, <2>7 DEF TypeOK
<1>4. ASSUME NEW w \in Workers, LoadFails(w) PROVE TypeOK'
  BY <1>4, EmptySeq DEF LoadFails, TypeOK
<1>5. ASSUME NEW w \in Workers, BeginLoad(w) \/ ResetContextManager(w) PROVE TypeOK'
  BY <1>5 DEF BeginLoad, ResetContextManager, TypeOK
<1>6. ASSUME NEW w \in Workers, ReceiveAnswer(w) PROVE TypeOK'
  <2> DEFINE answer == Head(toWorker[w])
  <2>1. answer \in IpcMessage /\ Tail(toWorker[w]) \in Seq(IpcMessage)
    BY <1>0, <1>6, FirstOf DEF ReceiveAnswer
  <2>2. answer.message \in Messages /\ answer.data \in Nat
    BY <1>6, <2>1, IpcTypes DEF ReceiveAnswer
  <2>3. forwarded' = [forwarded EXCEPT ![answer.message] = IF @ = Unknown THEN answer.data ELSE @]
    BY <1>6 DEF ReceiveAnswer
  <2>4. /\ toWorker' = [toWorker EXCEPT ![w] = Tail(@)]
        /\ UNCHANGED <<alive, origin, toMaster, clients, master>>
    BY <1>6 DEF ReceiveAnswer
  <2> HIDE DEF answer
  <2>5. forwarded' \in [Messages -> Nat \cup {Unknown, Lost}]
    BY <2>2, <2>3 DEF TypeOK
  <2>6. toWorker' \in [Workers -> Seq(IpcMessage)]
    BY <1>0, <2>1, <2>4
  <2>. QED
    BY <2>4, <2>5, <2>6 DEF TypeOK
<1>7. ASSUME NEW w \in Workers, ForwardDataSyncMessageToNodes(w) PROVE TypeOK'
  <2> DEFINE question == Head(toMaster[w])
  <2>1. question \in IpcMessage /\ Tail(toMaster[w]) \in Seq(IpcMessage)
    BY <1>0, <1>7, FirstOf DEF ForwardDataSyncMessageToNodes
  <2>2. question.message \in Messages
    BY <2>1, IpcTypes
  <2>3. /\ toMaster' = [toMaster EXCEPT ![w] = Tail(@)]
        /\ targets' = [targets EXCEPT ![question.message] = AskedWorkers(w)]
        /\ asked' = [asked EXCEPT ![question.message] = AskedWorkers(w)]
        /\ toWorker' = [v \in Workers |-> IF v \in AskedWorkers(w)
                                          THEN Append(toWorker[v], question) ELSE toWorker[v]]
        /\ UNCHANGED <<alive, origin, clients, responses, forwarded>>
    BY <1>7 DEF ForwardDataSyncMessageToNodes
  <2>4. AskedWorkers(w) \subseteq Workers
    BY DEF AskedWorkers, TypeOK
  <2> HIDE DEF question
  <2>5. \A v \in Workers : Append(toWorker[v], question) \in Seq(IpcMessage)
    BY <1>0, <2>1, AppendProperties
  <2>6. /\ toMaster' \in [Workers -> Seq(IpcMessage)]
        /\ toWorker' \in [Workers -> Seq(IpcMessage)]
    BY <1>0, <2>1, <2>3, <2>5
  <2>7. targets' \in [Messages -> SUBSET Workers] /\ asked' \in [Messages -> SUBSET Workers]
    BY <2>2, <2>3, <2>4 DEF TypeOK
  <2>. QED
    BY <2>3, <2>6, <2>7 DEF TypeOK
<1>8. ASSUME NEW w \in Workers, ReceiveReport(w) PROVE TypeOK'
  <2> DEFINE report == Head(toMaster[w])
             m == report.message
             numbers == Append(responses[m], report.data)
  <2>1. report \in IpcMessage /\ Tail(toMaster[w]) \in Seq(IpcMessage) /\ report.type = "report"
    BY <1>0, <1>8, FirstOf DEF ReceiveReport
  <2>2. m \in Messages /\ report.data \in Nat
    BY <2>1, IpcTypes
  <2>3. numbers \in Seq(Nat)
    BY <2>2, AppendProperties DEF TypeOK
  <2>4. /\ toMaster' = [toMaster EXCEPT ![w] = Tail(@)]
        /\ asked' = [asked EXCEPT ![m] = @ \ {w}]
        /\ responses' = [responses EXCEPT ![m] = numbers] \/ UNCHANGED responses
        /\ UNCHANGED <<alive, origin, clients, targets, forwarded>>
    BY <1>8 DEF ReceiveReport
  <2>5. \/ \E n \in Nat : toWorker' = [toWorker EXCEPT ![origin[m]] =
                                        Append(@, ClientMessageDeliveryReport(m, n))]
        \/ UNCHANGED toWorker
    BY <1>8, <2>3, SumIsNat DEF ReceiveReport
  <2> HIDE DEF m, report, numbers
  <2>6. toWorker' \in [Workers -> Seq(IpcMessage)]
    <3>1. \A v \in Workers, n \in Nat :
              Append(toWorker[v], ClientMessageDeliveryReport(m, n)) \in Seq(IpcMessage)
      <4> TAKE v \in Workers, n \in Nat
      <4>1. toWorker[v] \in Seq(IpcMessage)
        BY <1>0
      <4>2. Extends(Append(toWorker[v], ClientMessageDeliveryReport(m, n)), toWorker[v])
        BY <2>2, <4>1, ReportGoes
      <4>. QED
        BY <4>2 DEF Extends
    <3>2. CASE UNCHANGED toWorker
      BY <1>0, <3>2
    <3>3. ASSUME NEW n \in Nat,
                 toWorker' = [toWorker EXCEPT ![origin[m]] =
                                 Append(@, ClientMessageDeliveryReport(m, n))]
          PROVE  toWorker' \in [Workers -> Seq(IpcMessage)]
      <4>1. toWorker' = [v \in Workers |->
                            IF v = origin[m]
                            THEN Append(toWorker[v], ClientMessageDeliveryReport(m, n))
                            ELSE toWorker[v]]
        BY <1>0, <3>3
      <4>. QED
        BY <1>0, <3>1, <4>1
    <3>. QED
      BY <2>5, <3>2, <3>3
  <2>7. toMaster' \in [Workers -> Seq(IpcMessage)]
    BY <1>0, <2>1, <2>4
  <2>. QED
    BY <2>2, <2>3, <2>4, <2>6, <2>7 DEF TypeOK
<1>9. ASSUME NEW w \in Workers, Exit(w) PROVE TypeOK'
  BY <1>9, EmptySeq DEF Exit, TypeOK
<1>10. ASSUME NEW m \in Messages, ForwardTimesOut(m) PROVE TypeOK'
  BY <1>10 DEF ForwardTimesOut, TypeOK
<1>11. ASSUME NEW m \in Messages, NEW v \in Workers, QuestionTimesOut(m, v) PROVE TypeOK'
  BY <1>11 DEF QuestionTimesOut, TypeOK
<1>12. CASE UNCHANGED vars
  BY <1>12 DEF vars, TypeOK
<1>. QED
  BY <1>1, <1>2, <1>3, <1>4, <1>5, <1>6, <1>7, <1>8, <1>9, <1>10, <1>11, <1>12 DEF Next

(* Every variable of the delivery keeps its type, whatever the timers do,   *)
(* whoever dies and however the loads end (ForwardOutgoingMessage,          *)
(* ForwardDataSyncMessageToNodes, HandleForwardedMessage).                  *)
THEOREM TypeCorrect == Spec => []TypeOK
BY TypeInit, TypeStep, PTL DEF Spec

-----------------------------------------------------------------------------
(* Orders.  Messages of different publishers have none.                     *)

Elems(q) == {q[i] : i \in 1..Len(q)}
On(q) == {q[i].message : i \in {j \in 1..Len(q) : q[j].type = "forward"}}
Precedes(o, A, B) == \A a \in A, b \in B : o[a] = o[b] => a < b
Rising(o, q) == \A i, j \in 1..Len(q) : i < j /\ o[q[i]] = o[q[j]] => q[i] < q[j]
RisingMail(o, q) ==
    \A i, j \in 1..Len(q) :
        /\ i < j
        /\ q[i].type = "forward" /\ q[j].type = "forward"
        /\ o[q[i].message] = o[q[j].message]
        => q[i].message < q[j].message

LEMMA EmptyOrders ==
    ASSUME NEW o
    PROVE  Elems(<<>>) = {} /\ On(<<>>) = {} /\ Rising(o, <<>>) /\ RisingMail(o, <<>>)
BY DEF Elems, On, Rising, RisingMail

LEMMA ConcatOrders ==
    ASSUME NEW o, NEW q \in Seq(Messages), NEW r \in Seq(Messages)
    PROVE  /\ Elems(q \o r) = Elems(q) \cup Elems(r)
           /\ Rising(o, q) /\ Rising(o, r) /\ Precedes(o, Elems(q), Elems(r)) =>
                 Rising(o, q \o r)
<1> DEFINE s == q \o r
<1>1. /\ Len(q) \in Nat /\ Len(r) \in Nat /\ Len(s) = Len(q) + Len(r)
      /\ \A i \in 1..Len(q) : s[i] = q[i]
      /\ \A i \in 1..Len(r) : s[Len(q) + i] = r[i]
  BY ConcatProperties, LenProperties
<1> HIDE DEF s
<1>2. \A i \in 1..Len(s) :
          \/ i \in 1..Len(q) /\ s[i] = q[i]
          \/ i - Len(q) \in 1..Len(r) /\ s[i] = r[i - Len(q)]
  <2> TAKE i \in 1..Len(s)
  <2>1. CASE i <= Len(q)
    <3>1. i \in 1..Len(q)
      BY <1>1, <2>1
    <3>2. s[i] = q[i]
      BY <1>1, <3>1
    <3>. QED
      BY <3>1, <3>2
  <2>2. CASE i > Len(q)
    <3>1. i - Len(q) \in 1..Len(r) /\ Len(q) + (i - Len(q)) = i
      BY <1>1, <2>2
    <3>. QED
      BY <1>1, <3>1
  <2>. QED
    BY <1>1, <2>1, <2>2
<1>3. Elems(s) \subseteq Elems(q) \cup Elems(r)
  BY <1>2 DEF Elems
<1>4. Elems(q) \subseteq Elems(s)
  <2>1. \A i \in 1..Len(q) : i \in 1..Len(s)
    BY <1>1
  <2>. QED
    BY <1>1, <2>1 DEF Elems
<1>5. Elems(r) \subseteq Elems(s)
  <2>1. \A i \in 1..Len(r) : Len(q) + i \in 1..Len(s)
    BY <1>1
  <2>. QED
    BY <1>1, <2>1 DEF Elems
<1>6. ASSUME Rising(o, q), Rising(o, r), Precedes(o, Elems(q), Elems(r)),
             NEW i \in 1..Len(s), NEW j \in 1..Len(s), i < j, o[s[i]] = o[s[j]]
      PROVE  s[i] < s[j]
  <2>1. CASE i \in 1..Len(q) /\ s[i] = q[i] /\ j \in 1..Len(q) /\ s[j] = q[j]
    BY <1>6, <2>1 DEF Rising
  <2>2. CASE i - Len(q) \in 1..Len(r) /\ s[i] = r[i - Len(q)]
             /\ j - Len(q) \in 1..Len(r) /\ s[j] = r[j - Len(q)]
    <3>1. i - Len(q) < j - Len(q)
      BY <1>1, <1>6
    <3>. QED
      BY <1>6, <2>2, <3>1 DEF Rising
  <2>3. CASE i \in 1..Len(q) /\ s[i] = q[i] /\ j - Len(q) \in 1..Len(r) /\ s[j] = r[j - Len(q)]
    <3>1. s[i] \in Elems(q) /\ s[j] \in Elems(r)
      BY <2>3 DEF Elems
    <3>. QED
      BY <1>6, <3>1 DEF Precedes
  <2>4. ~(i - Len(q) \in 1..Len(r) /\ j \in 1..Len(q))
    BY <1>1, <1>6
  <2>. QED
    BY <1>2, <2>1, <2>2, <2>3, <2>4
<1>. QED
  BY <1>3, <1>4, <1>5, <1>6 DEF Rising, s

LEMMA OneMessage ==
    ASSUME NEW o, NEW m \in Messages
    PROVE  <<m>> \in Seq(Messages) /\ Elems(<<m>>) = {m} /\ Rising(o, <<m>>)
BY DEF Elems, Rising

LEMMA AppendOrders ==
    ASSUME NEW o, NEW q \in Seq(Messages), NEW m \in Messages
    PROVE  /\ Elems(Append(q, m)) = Elems(q) \cup {m}
           /\ Rising(o, q) /\ Precedes(o, Elems(q), {m}) => Rising(o, Append(q, m))
<1>1. Append(q, m) = q \o <<m>>
  BY AppendIsConcat
<1>2. <<m>> \in Seq(Messages) /\ Elems(<<m>>) = {m} /\ Rising(o, <<m>>)
  BY OneMessage
<1>3. /\ Elems(q \o <<m>>) = Elems(q) \cup Elems(<<m>>)
      /\ Rising(o, q) /\ Rising(o, <<m>>) /\ Precedes(o, Elems(q), Elems(<<m>>)) =>
            Rising(o, q \o <<m>>)
  BY <1>2, ConcatOrders
<1>. QED
  BY <1>1, <1>2, <1>3

-----------------------------------------------------------------------------
(* Channels.                                                                *)

LEMMA MailFrom ==
    ASSUME NEW o, NEW q \in Seq(IpcMessage), q # <<>>
    PROVE  /\ On(Tail(q)) \subseteq On(q)
           /\ RisingMail(o, q) => RisingMail(o, Tail(q))
           /\ Head(q).type = "forward" =>
                 /\ Head(q).message \in On(q)
                 /\ RisingMail(o, q) => Precedes(o, {Head(q).message}, On(Tail(q)))
<1> DEFINE r == Tail(q)
<1>1. /\ Len(q) \in Nat /\ Len(q) >= 1 /\ Len(r) = Len(q) - 1 /\ Head(q) = q[1]
      /\ \A i \in 1..Len(r) : r[i] = q[i + 1]
  BY FirstOf
<1> HIDE DEF r
<1>2. \A i \in 1..Len(r) : i + 1 \in 1..Len(q) /\ 1 < i + 1 /\ r[i] = q[i + 1]
  BY <1>1
<1>3. On(r) \subseteq On(q)
  BY <1>2 DEF On
<1>4. ASSUME RisingMail(o, q) PROVE RisingMail(o, r)
  <2>1. \A i, j \in 1..Len(r) : i < j => i + 1 < j + 1
    BY <1>1
  <2>. QED
    BY <1>2, <1>4, <2>1 DEF RisingMail
<1>5. ASSUME Head(q).type = "forward"
      PROVE  /\ Head(q).message \in On(q)
             /\ RisingMail(o, q) => Precedes(o, {Head(q).message}, On(r))
  <2>1. 1 \in 1..Len(q) /\ q[1].type = "forward" /\ q[1] = Head(q)
    BY <1>1, <1>5
  <2>2. Head(q).message \in On(q)
    BY <2>1 DEF On
  <2>3. ASSUME RisingMail(o, q), NEW b \in On(r), o[q[1].message] = o[b]
        PROVE  q[1].message < b
    <3>1. PICK i \in 1..Len(r) : r[i].type = "forward" /\ r[i].message = b
      BY DEF On
    <3>. QED
      BY <1>2, <2>1, <2>3, <3>1 DEF RisingMail
  <2>. QED
    BY <2>1, <2>2, <2>3 DEF Precedes
<1>. QED
  BY <1>3, <1>4, <1>5 DEF r

LEMMA MailExtends ==
    ASSUME NEW o, NEW channel \in Seq(IpcMessage), NEW q, Extends(q, channel)
    PROVE  On(q) = On(channel) /\ (RisingMail(o, channel) => RisingMail(o, q))
<1>1. Len(q) \in Nat /\ Len(channel) \in Nat /\ Len(channel) <= Len(q)
  BY DEF Extends
<1>2. \A i \in 1..Len(channel) : i \in 1..Len(q) /\ q[i] = channel[i]
  BY <1>1 DEF Extends
<1>3. \A i \in 1..Len(q) : q[i].type = "forward" => i \in 1..Len(channel) /\ q[i] = channel[i]
  <2> SUFFICES ASSUME NEW i \in 1..Len(q), q[i].type = "forward"
               PROVE  i \in 1..Len(channel)
    BY <1>2
  <2>1. i \in 1..Len(channel) \/ i \in (Len(channel) + 1)..Len(q)
    BY <1>1
  <2>. QED
    BY <2>1 DEF Extends
<1>4. On(q) = On(channel)
  BY <1>2, <1>3 DEF On
<1>. QED
  BY <1>3, <1>4 DEF RisingMail

LEMMA MailAppend ==
    ASSUME NEW o, NEW q \in Seq(IpcMessage), NEW x \in IpcMessage, x.type = "forward"
    PROVE  /\ On(Append(q, x)) = On(q) \cup {x.message}
           /\ RisingMail(o, q) /\ Precedes(o, On(q), {x.message}) => RisingMail(o, Append(q, x))
<1> DEFINE r == Append(q, x)
           n == Len(q)
<1>1. /\ n \in Nat /\ Len(r) = n + 1 /\ r[n + 1] = x
      /\ \A i \in 1..n : r[i] = q[i]
  BY AppendProperties, LenProperties
<1> HIDE DEF r
<1>2. /\ n + 1 \in 1..Len(r)
      /\ \A i \in 1..n : i \in 1..Len(r)
      /\ \A i \in 1..Len(r) : i \in 1..n \/ i = n + 1
  BY <1>1
<1>3. On(r) = On(q) \cup {x.message}
  BY <1>1, <1>2 DEF On
<1>4. ASSUME RisingMail(o, q), Precedes(o, On(q), {x.message}),
             NEW i \in 1..Len(r), NEW j \in 1..Len(r), i < j,
             r[i].type = "forward", r[j].type = "forward", o[r[i].message] = o[r[j].message]
      PROVE  r[i].message < r[j].message
  <2>1. i \in 1..n
    BY <1>1, <1>4
  <2>2. CASE j \in 1..n
    BY <1>1, <1>4, <2>1, <2>2 DEF RisingMail
  <2>3. CASE j = n + 1
    <3>1. r[i].message \in On(q) /\ r[j].message = x.message
      BY <1>1, <1>4, <2>1, <2>3 DEF On
    <3>. QED
      BY <1>4, <3>1 DEF Precedes
  <2>. QED
    BY <1>2, <2>2, <2>3
<1>. QED
  BY <1>3, <1>4 DEF RisingMail, r

(* A new message changes nothing of the order of those before it.           *)
LEMMA Grown ==
    ASSUME NEW o \in Seq(Workers), NEW w \in Workers, NEW A \in SUBSET (1..Len(o))
    PROVE  LET p == Append(o, w) IN
           /\ A \subseteq 1..Len(p)
           /\ \A m \in A : p[m] = o[m] /\ m < Len(p)
           /\ Len(p) = Len(o) + 1 /\ p[Len(p)] = w
<1>1. Len(o) \in Nat /\ Len(Append(o, w)) = Len(o) + 1
      /\ (\A i \in 1..Len(o) : Append(o, w)[i] = o[i]) /\ Append(o, w)[Len(o) + 1] = w
  BY AppendProperties, LenProperties
<1>. QED
  BY <1>1

LEMMA StillRising ==
    ASSUME NEW o, NEW p, NEW q, \A m \in Elems(q) : p[m] = o[m], Rising(o, q)
    PROVE  Rising(p, q)
<1>1. \A i \in 1..Len(q) : q[i] \in Elems(q)
  BY DEF Elems
<1>. QED
  BY <1>1 DEF Rising

LEMMA MailStillRising ==
    ASSUME NEW o, NEW p, NEW q, \A m \in On(q) : p[m] = o[m], RisingMail(o, q)
    PROVE  RisingMail(p, q)
<1>1. \A i \in 1..Len(q) : q[i].type = "forward" => q[i].message \in On(q)
  BY DEF On
<1>. QED
  BY <1>1 DEF RisingMail

-----------------------------------------------------------------------------
(* The invariant.  In every worker its clients have what precedes what      *)
(* waits, and both what is on its channel; what is still on the channel of  *)
(* another worker to the master comes after all of them.                    *)

Line(o, w, b, q, c) ==
    /\ Elems(b) \subseteq 1..Len(o) /\ Elems(q) \subseteq 1..Len(o) /\ On(c) \subseteq 1..Len(o)
    /\ \A m \in On(c) : o[m] # w
    /\ Rising(o, b) /\ Rising(o, q) /\ RisingMail(o, c)
    /\ Precedes(o, Elems(b), Elems(q))
    /\ Precedes(o, Elems(b), On(c))
    /\ Precedes(o, Elems(q), On(c))

Feed(o, p, d) ==
    /\ On(d) \subseteq 1..Len(o)
    /\ \A m \in On(d) : o[m] = p
    /\ RisingMail(o, d)

Ahead(o, b, q, c, d) ==
    Precedes(o, Elems(b), On(d)) /\ Precedes(o, Elems(q), On(d)) /\ Precedes(o, On(c), On(d))

OrderInv ==
    /\ \A w \in Workers : manager[w] = "ready" => waiting[w] = <<>>
    /\ \A w \in Workers : Line(origin, w, broadcast[w], waiting[w], toWorker[w])
    /\ \A p \in Workers : Feed(origin, p, toMaster[p])
    /\ \A w, p \in Workers :
          w # p => Ahead(origin, broadcast[w], waiting[w], toWorker[w], toMaster[p])

LEMMA OrderInit == Init => OrderInv
<1> SUFFICES ASSUME Init PROVE OrderInv
  OBVIOUS
<1>1. \A w \in Workers : /\ broadcast[w] = <<>> /\ waiting[w] = <<>>
                         /\ toMaster[w] = <<>> /\ toWorker[w] = <<>>
  BY DEF Init
<1>2. Elems(<<>>) = {} /\ On(<<>>) = {} /\ Rising(origin, <<>>) /\ RisingMail(origin, <<>>)
  BY EmptyOrders
<1>3. \A w \in Workers : Line(origin, w, <<>>, <<>>, <<>>)
  BY <1>2 DEF Line, Precedes
<1>4. \A p \in Workers : Feed(origin, p, <<>>)
  BY <1>2 DEF Feed
<1>5. Ahead(origin, <<>>, <<>>, <<>>, <<>>)
  BY <1>2 DEF Ahead, Precedes
<1>. QED
  BY <1>1, <1>3, <1>4, <1>5 DEF OrderInv

(* Channels lose messages and waiting broadcasts are given up.              *)
Less(o, q, r) == On(r) \subseteq On(q) /\ (RisingMail(o, q) => RisingMail(o, r))

LEMMA LessLine ==
    ASSUME NEW o, NEW w, NEW b, NEW q, NEW c, NEW r, NEW e,
           r = q \/ r = <<>>, Less(o, c, e), Line(o, w, b, q, c)
    PROVE  Line(o, w, b, r, e)
<1>1. Elems(<<>>) = {} /\ Rising(o, <<>>)
  BY EmptyOrders
<1>2. Elems(r) \subseteq Elems(q) /\ Rising(o, r)
  BY <1>1 DEF Line
<1>3. On(e) \subseteq On(c) /\ RisingMail(o, e)
  BY DEF Less, Line
<1>. QED
  BY <1>2, <1>3 DEF Line, Precedes

LEMMA LessFeed ==
    ASSUME NEW o, NEW p, NEW d, NEW f, Less(o, d, f), Feed(o, p, d)
    PROVE  Feed(o, p, f)
BY DEF Feed, Less

LEMMA LessAhead ==
    ASSUME NEW o, NEW b, NEW q, NEW c, NEW d, NEW r, NEW e, NEW f,
           r = q \/ r = <<>>, Less(o, c, e), Less(o, d, f), Ahead(o, b, q, c, d)
    PROVE  Ahead(o, b, r, e, f)
<1>1. Elems(<<>>) = {}
  BY EmptyOrders
<1>2. Elems(r) \subseteq Elems(q) /\ On(e) \subseteq On(c) /\ On(f) \subseteq On(d)
  BY <1>1 DEF Less
<1>. QED
  BY <1>2 DEF Ahead, Precedes

LEMMA LessSame ==
    ASSUME NEW o, NEW q
    PROVE  Less(o, q, q) /\ Less(o, q, <<>>)
BY EmptyOrders DEF Less

LEMMA LessTail ==
    ASSUME NEW o, NEW q \in Seq(IpcMessage), q # <<>>
    PROVE  Less(o, q, Tail(q))
BY MailFrom DEF Less

LEMMA LessExtended ==
    ASSUME NEW o, NEW channel \in Seq(IpcMessage), NEW q, Extends(q, channel)
    PROVE  Less(o, channel, q)
BY MailExtends DEF Less

LEMMA LessStep ==
    ASSUME OrderInv, UNCHANGED <<origin, broadcast>>,
           \A w \in Workers : manager'[w] = "ready" => manager[w] = "ready" \/ waiting'[w] = <<>>,
           \A w \in Workers : waiting'[w] = waiting[w] \/ waiting'[w] = <<>>,
           \A w \in Workers : Less(origin, toWorker[w], toWorker'[w]),
           \A w \in Workers : Less(origin, toMaster[w], toMaster'[w])
    PROVE  OrderInv'
<1>1. \A w \in Workers : Line(origin, w, broadcast[w], waiting'[w], toWorker'[w])
  BY LessLine DEF OrderInv
<1>2. \A p \in Workers : Feed(origin, p, toMaster'[p])
  BY LessFeed DEF OrderInv
<1>3. \A w, p \in Workers :
          w # p => Ahead(origin, broadcast[w], waiting'[w], toWorker'[w], toMaster'[p])
  BY LessAhead DEF OrderInv
<1>4. \A w \in Workers : manager'[w] = "ready" => waiting'[w] = <<>>
  BY DEF OrderInv
<1>. QED
  BY <1>1, <1>2, <1>3, <1>4 DEF OrderInv

-----------------------------------------------------------------------------
(* One broadcast of m, which comes after all the worker has had so far and  *)
(* before what is still to come.                                            *)

LEMMA BroadcastLine ==
    ASSUME TypeOK, NEW o, NEW w \in Workers, NEW m \in Messages, NEW e,
           manager[w] = "ready" => waiting[w] = <<>>,
           AtOnce(w, m) \/ Waits(w, m) \/ Nowhere,
           Line(o, w, broadcast[w], waiting[w], e),
           m \in 1..Len(o),
           Precedes(o, Elems(broadcast[w]), {m}), Precedes(o, Elems(waiting[w]), {m}),
           Precedes(o, {m}, On(e))
    PROVE  /\ Line(o, w, broadcast'[w], waiting'[w], e)
           /\ Elems(broadcast'[w]) \cup Elems(waiting'[w]) \subseteq
                 Elems(broadcast[w]) \cup Elems(waiting[w]) \cup {m}
           /\ \A v \in Workers \ {w} : broadcast'[v] = broadcast[v] /\ waiting'[v] = waiting[v]
           /\ \A v \in Workers : manager'[v] = "ready" => manager[v] = "ready" /\ (v = w => waiting'[v] = <<>>)
<1>1. /\ broadcast[w] \in Seq(Messages) /\ waiting[w] \in Seq(Messages)
      /\ broadcast \in [Workers -> Seq(Messages)] /\ waiting \in [Workers -> Seq(Messages)]
      /\ manager \in [Workers -> {"none", "loading", "ready", "failed"}]
  BY DEF TypeOK
<1>2. CASE AtOnce(w, m)
  <2>1. /\ waiting[w] = <<>> /\ waiting' = waiting /\ manager' = manager
        /\ broadcast' = [broadcast EXCEPT ![w] = broadcast[w] \o <<m>>]
    BY <1>1, <1>2 DEF AtOnce
  <2>2. <<m>> \in Seq(Messages) /\ Elems(<<m>>) = {m} /\ Rising(o, <<m>>)
    BY OneMessage
  <2>3. /\ Elems(broadcast[w] \o <<m>>) = Elems(broadcast[w]) \cup {m}
        /\ Rising(o, broadcast[w] \o <<m>>)
    BY <1>1, <2>2, ConcatOrders DEF Line
  <2>4. Elems(<<>>) = {}
    BY EmptyOrders
  <2>5. Line(o, w, broadcast[w] \o <<m>>, <<>>, e)
    BY <2>1, <2>3, <2>4 DEF Line, Precedes
  <2>6. broadcast'[w] = broadcast[w] \o <<m>>
    BY <1>1, <2>1
  <2>7. \A v \in Workers \ {w} : broadcast'[v] = broadcast[v]
    BY <1>1, <2>1
  <2>. QED
    BY <2>1, <2>3, <2>5, <2>6, <2>7
<1>3. CASE Waits(w, m)
  <2>1. /\ broadcast' = broadcast /\ manager' = [manager EXCEPT ![w] = "loading"]
        /\ waiting' = [waiting EXCEPT ![w] = Append(waiting[w], m)]
    BY <1>1, <1>3 DEF Waits
  <2>2. /\ Elems(Append(waiting[w], m)) = Elems(waiting[w]) \cup {m}
        /\ Rising(o, Append(waiting[w], m))
    BY <1>1, AppendOrders DEF Line
  <2>3. Line(o, w, broadcast[w], Append(waiting[w], m), e)
    BY <2>2 DEF Line, Precedes
  <2>4. waiting'[w] = Append(waiting[w], m)
    BY <1>1, <2>1
  <2>5. \A v \in Workers \ {w} : waiting'[v] = waiting[v]
    BY <1>1, <2>1
  <2>6. \A v \in Workers : manager'[v] = "ready" => manager[v] = "ready" /\ v # w
    BY <1>1, <2>1
  <2>. QED
    BY <2>1, <2>2, <2>3, <2>4, <2>5, <2>6
<1>4. CASE Nowhere
  BY <1>4 DEF Nowhere
<1>. QED
  BY <1>2, <1>3, <1>4

-----------------------------------------------------------------------------
(* The steps that move messages.                                            *)

LEMMA PublishOrder ==
    ASSUME TypeOK, OrderInv, NEW w \in Workers, Publish(w)
    PROVE  OrderInv'
<1> DEFINE o == origin'
           m == Len(origin) + 1
           channel == Append(toMaster[w], ForwardClientMessage(m))
<1>1. /\ m \in Messages /\ origin' = Append(origin, w) /\ Broadcast(w, m, channel)
      /\ UNCHANGED toWorker
  BY DEF Publish
<1>2. /\ origin \in Seq(Workers) /\ Len(origin) \in Nat
      /\ toMaster \in [Workers -> Seq(IpcMessage)] /\ toMaster[w] \in Seq(IpcMessage)
  BY DEF TypeOK
<1>3. /\ Len(o) = m /\ o[m] = w
      /\ \A A \in SUBSET (1..Len(origin)) :
            A \subseteq 1..Len(o) /\ \A a \in A : o[a] = origin[a] /\ a < m
  BY <1>1, <1>2, Grown
<1>4. /\ channel \in Seq(IpcMessage)
      /\ On(channel) = On(toMaster[w]) \cup {m}
      /\ RisingMail(o, toMaster[w]) /\ Precedes(o, On(toMaster[w]), {m}) => RisingMail(o, channel)
  <2>1. /\ ForwardClientMessage(m) \in IpcMessage /\ ForwardClientMessage(m).type = "forward"
        /\ ForwardClientMessage(m).message = m
    BY <1>1, ForwardTypes
  <2> DEFINE x == ForwardClientMessage(m)
  <2>2. x \in IpcMessage /\ x.type = "forward" /\ x.message = m /\ channel = Append(toMaster[w], x)
    BY <2>1
  <2> HIDE DEF x, channel, m, o
  <2>3. channel \in Seq(IpcMessage)
    BY <1>2, <2>2, AppendProperties
  <2>4. /\ On(channel) = On(toMaster[w]) \cup {x.message}
        /\ RisingMail(o, toMaster[w]) /\ Precedes(o, On(toMaster[w]), {x.message}) =>
              RisingMail(o, channel)
    BY <1>2, <2>2, MailAppend
  <2>. QED
    BY <2>2, <2>3, <2>4
<1> HIDE DEF o, channel
<1>5. Sent(w, channel) /\ (AtOnce(w, m) \/ Waits(w, m) \/ Nowhere)
  <2> HIDE DEF m
  <2>. QED
    BY <1>1, <1>4, BroadcastWays
<1>6. PICK q : Extends(q, channel) /\ toMaster' = [toMaster EXCEPT ![w] = q]
  BY <1>5 DEF Sent
<1>7. On(q) = On(toMaster[w]) \cup {m} /\ (RisingMail(o, channel) => RisingMail(o, q))
  BY <1>4, <1>6, MailExtends
<1>8. m \in 1..Len(o)
  BY <1>2, <1>3
<1> HIDE DEF m
<1>9. ASSUME NEW v \in Workers PROVE Line(o, v, broadcast[v], waiting[v], toWorker[v])
  <2> DEFINE A == Elems(broadcast[v])
             B == Elems(waiting[v])
             C == On(toWorker[v])
  <2>1. Line(origin, v, broadcast[v], waiting[v], toWorker[v])
    BY DEF OrderInv
  <2>2. /\ A \subseteq 1..Len(o) /\ B \subseteq 1..Len(o) /\ C \subseteq 1..Len(o)
        /\ \A a \in A : o[a] = origin[a]
        /\ \A a \in B : o[a] = origin[a]
        /\ \A a \in C : o[a] = origin[a]
    BY <1>3, <2>1 DEF Line
  <2>3. Rising(o, broadcast[v]) /\ Rising(o, waiting[v]) /\ RisingMail(o, toWorker[v])
    BY <2>1, <2>2, StillRising, MailStillRising DEF Line
  <2>. QED
    BY <2>1, <2>2, <2>3 DEF Line, Precedes
<1>10. /\ Line(o, w, broadcast'[w], waiting'[w], toWorker[w])
       /\ Elems(broadcast'[w]) \cup Elems(waiting'[w]) \subseteq
             Elems(broadcast[w]) \cup Elems(waiting[w]) \cup {m}
       /\ \A v \in Workers \ {w} : broadcast'[v] = broadcast[v] /\ waiting'[v] = waiting[v]
       /\ \A v \in Workers : manager'[v] = "ready" => manager[v] = "ready" /\ (v = w => waiting'[v] = <<>>)
  <2>1. /\ Precedes(o, Elems(broadcast[w]), {m}) /\ Precedes(o, Elems(waiting[w]), {m})
        /\ Precedes(o, {m}, On(toWorker[w]))
    <3>1. Line(origin, w, broadcast[w], waiting[w], toWorker[w])
      BY DEF OrderInv
    <3>. QED
      BY <1>3, <3>1 DEF Line, Precedes
  <2>2. manager[w] = "ready" => waiting[w] = <<>>
    BY DEF OrderInv
  <2>. QED
    BY <1>1, <1>5, <1>8, <1>9, <2>1, <2>2, BroadcastLine
<1>11. ASSUME NEW p \in Workers PROVE Feed(o, p, toMaster'[p])
  <2>1. Feed(origin, p, toMaster[p])
    BY DEF OrderInv
  <2>2. On(toMaster[p]) \subseteq 1..Len(o) /\ \A a \in On(toMaster[p]) : o[a] = origin[a] /\ a < m
    BY <1>3, <2>1 DEF Feed
  <2>3. RisingMail(o, toMaster[p])
    BY <2>1, <2>2, MailStillRising DEF Feed
  <2>4. CASE p = w
    <3>1. Precedes(o, On(toMaster[w]), {m})
      BY <2>2, <2>4 DEF Precedes
    <3>2. RisingMail(o, q)
      BY <1>4, <1>7, <2>3, <2>4, <3>1
    <3>3. toMaster'[p] = q
      BY <1>2, <1>6, <2>4
    <3>. QED
      BY <1>3, <1>7, <1>8, <2>1, <2>2, <2>4, <3>2, <3>3 DEF Feed
  <2>5. CASE p # w
    <3>1. toMaster'[p] = toMaster[p]
      BY <1>2, <1>6, <2>5
    <3>. QED
      BY <2>1, <2>2, <2>3, <3>1 DEF Feed
  <2>. QED
    BY <2>4, <2>5
<1>12. ASSUME NEW v \in Workers, NEW p \in Workers, v # p
       PROVE  Ahead(o, broadcast'[v], waiting'[v], toWorker[v], toMaster'[p])
  <2> DEFINE A == Elems(broadcast[v]) \cup Elems(waiting[v]) \cup On(toWorker[v])
             D == On(toMaster[p])
  <2>1. Ahead(origin, broadcast[v], waiting[v], toWorker[v], toMaster[p])
    BY <1>12 DEF OrderInv
  <2>2. /\ Line(origin, v, broadcast[v], waiting[v], toWorker[v])
        /\ Feed(origin, p, toMaster[p])
    BY DEF OrderInv
  <2>3. /\ \A a \in A : o[a] = origin[a] /\ a < m
        /\ \A a \in D : o[a] = p /\ o[a] = origin[a]
    <3>1. /\ \A a \in Elems(broadcast[v]) : o[a] = origin[a] /\ a < m
          /\ \A a \in Elems(waiting[v]) : o[a] = origin[a] /\ a < m
          /\ \A a \in On(toWorker[v]) : o[a] = origin[a] /\ a < m
      BY <1>3, <2>2 DEF Line
    <3>2. \A a \in D : o[a] = p /\ o[a] = origin[a]
      BY <1>3, <2>2 DEF Feed
    <3>. QED
      BY <3>1, <3>2
  <2>4. Precedes(o, A, D)
    BY <2>1, <2>3 DEF Ahead, Precedes
  <2>5. Elems(broadcast'[v]) \cup Elems(waiting'[v]) \cup On(toWorker[v]) \subseteq
            IF v = w THEN A \cup {m} ELSE A
    BY <1>10
  <2>6. On(toMaster'[p]) = IF p = w THEN D \cup {m} ELSE D
    BY <1>2, <1>6, <1>7
  <2>7. Precedes(o, Elems(broadcast'[v]) \cup Elems(waiting'[v]) \cup On(toWorker[v]), On(toMaster'[p]))
    <3>1. CASE v = w
      BY <1>3, <1>12, <2>3, <2>4, <2>5, <2>6, <3>1 DEF Precedes
    <3>2. CASE v # w
      BY <2>3, <2>4, <2>5, <2>6, <3>2 DEF Precedes
    <3>. QED
      BY <3>1, <3>2
  <2>. QED
    BY <2>7 DEF Ahead, Precedes
<1>13. ASSUME NEW v \in Workers, manager'[v] = "ready" PROVE waiting'[v] = <<>>
  BY <1>10, <1>13 DEF OrderInv
<1>14. ASSUME NEW v \in Workers PROVE Line(o, v, broadcast'[v], waiting'[v], toWorker[v])
  BY <1>9, <1>10
<1>. QED
  BY <1>1, <1>11, <1>12, <1>13, <1>14 DEF OrderInv, o

LEMMA HandleOrder ==
    ASSUME TypeOK, OrderInv, NEW w \in Workers, HandleForwardedMessage(w)
    PROVE  OrderInv'
<1> DEFINE m == Head(toWorker[w]).message
           rest == Tail(toWorker[w])
<1>1. /\ toWorker[w] # <<>> /\ Head(toWorker[w]).type = "forward"
      /\ toWorker' = [toWorker EXCEPT ![w] = rest]
      /\ Broadcast(w, m, toMaster[w]) /\ origin' = origin
  BY DEF HandleForwardedMessage
<1>2. /\ toWorker \in [Workers -> Seq(IpcMessage)] /\ toWorker[w] \in Seq(IpcMessage)
      /\ toMaster \in [Workers -> Seq(IpcMessage)] /\ toMaster[w] \in Seq(IpcMessage)
  BY DEF TypeOK
<1>3. m \in Messages
  BY <1>1, <1>2, FirstOf, IpcTypes
<1>4. Line(origin, w, broadcast[w], waiting[w], toWorker[w])
  BY DEF OrderInv
<1>5. /\ m \in On(toWorker[w]) /\ On(rest) \subseteq On(toWorker[w])
      /\ Precedes(origin, {m}, On(rest)) /\ RisingMail(origin, rest)
  BY <1>1, <1>2, <1>4, MailFrom DEF Line
<1> HIDE DEF m, rest
<1>6. Sent(w, toMaster[w]) /\ (AtOnce(w, m) \/ Waits(w, m) \/ Nowhere)
  BY <1>1, <1>2, <1>3, BroadcastWays
<1>7. PICK q : Extends(q, toMaster[w]) /\ toMaster' = [toMaster EXCEPT ![w] = q]
  BY <1>6 DEF Sent
<1>8. \A p \in Workers : Less(origin, toMaster[p], toMaster'[p])
  <2> TAKE p \in Workers
  <2>1. CASE p = w
    BY <1>2, <1>7, <2>1, LessExtended
  <2>2. CASE p # w
    BY <1>2, <1>7, <2>2, LessSame
  <2>. QED
    BY <2>1, <2>2
<1>9. /\ Line(origin, w, broadcast'[w], waiting'[w], rest)
      /\ Elems(broadcast'[w]) \cup Elems(waiting'[w]) \subseteq
            Elems(broadcast[w]) \cup Elems(waiting[w]) \cup {m}
      /\ \A v \in Workers \ {w} : broadcast'[v] = broadcast[v] /\ waiting'[v] = waiting[v]
      /\ \A v \in Workers : manager'[v] = "ready" => manager[v] = "ready" /\ (v = w => waiting'[v] = <<>>)
  <2>1. Line(origin, w, broadcast[w], waiting[w], rest)
    BY <1>4, <1>5 DEF Line, Precedes
  <2>2. /\ Precedes(origin, Elems(broadcast[w]), {m}) /\ Precedes(origin, Elems(waiting[w]), {m})
        /\ m \in 1..Len(origin)
    BY <1>4, <1>5 DEF Line, Precedes
  <2>3. manager[w] = "ready" => waiting[w] = <<>>
    BY DEF OrderInv
  <2>. QED
    BY <1>3, <1>5, <1>6, <2>1, <2>2, <2>3, BroadcastLine
<1>10. /\ toWorker'[w] = rest /\ \A v \in Workers \ {w} : toWorker'[v] = toWorker[v]
  BY <1>1, <1>2
<1>11. \A v \in Workers : Line(origin, v, broadcast'[v], waiting'[v], toWorker'[v])
  BY <1>9, <1>10 DEF OrderInv
<1>12. \A p \in Workers : Feed(origin, p, toMaster'[p])
  BY <1>8, LessFeed DEF OrderInv
<1>13. ASSUME NEW v \in Workers, NEW p \in Workers, v # p
       PROVE  Ahead(origin, broadcast'[v], waiting'[v], toWorker'[v], toMaster'[p])
  <2>1. Ahead(origin, broadcast[v], waiting[v], toWorker[v], toMaster[p])
    BY <1>13 DEF OrderInv
  <2>2. On(toMaster'[p]) \subseteq On(toMaster[p])
    BY <1>8 DEF Less
  <2>3. Elems(broadcast'[v]) \cup Elems(waiting'[v]) \cup On(toWorker'[v]) \subseteq
            Elems(broadcast[v]) \cup Elems(waiting[v]) \cup On(toWorker[v])
    BY <1>5, <1>9, <1>10
  <2>. QED
    BY <2>1, <2>2, <2>3 DEF Ahead, Precedes
<1>14. \A v \in Workers : manager'[v] = "ready" => waiting'[v] = <<>>
  BY <1>9 DEF OrderInv
<1>. QED
  BY <1>1, <1>11, <1>12, <1>13, <1>14 DEF OrderInv

LEMMA LoadOrder ==
    ASSUME TypeOK, OrderInv, NEW w \in Workers, LoadSucceeds(w)
    PROVE  OrderInv'
<1>1. /\ broadcast \in [Workers -> Seq(Messages)] /\ broadcast[w] \in Seq(Messages)
      /\ waiting \in [Workers -> Seq(Messages)] /\ waiting[w] \in Seq(Messages)
      /\ toMaster \in [Workers -> Seq(IpcMessage)] /\ toMaster[w] \in Seq(IpcMessage)
  BY DEF TypeOK
<1>2. PICK recipients \in [Messages -> Recipients] :
          Deliver(w, waiting[w], recipients, toMaster[w])
  BY DEF LoadSucceeds
<1>3. /\ Sent(w, toMaster[w])
      /\ broadcast' = [broadcast EXCEPT ![w] = @ \o waiting[w]]
  BY <1>1, <1>2, Delivered
<1>4. /\ manager' = [manager EXCEPT ![w] = "ready"]
      /\ waiting' = [waiting EXCEPT ![w] = <<>>]
      /\ toWorker' = toWorker /\ origin' = origin
  BY DEF LoadSucceeds
<1>5. PICK q : Extends(q, toMaster[w]) /\ toMaster' = [toMaster EXCEPT ![w] = q]
  BY <1>3 DEF Sent
<1>6. \A p \in Workers : Less(origin, toMaster[p], toMaster'[p])
  <2> TAKE p \in Workers
  <2>1. CASE p = w
    BY <1>1, <1>5, <2>1, LessExtended
  <2>2. CASE p # w
    BY <1>1, <1>5, <2>2, LessSame
  <2>. QED
    BY <2>1, <2>2
<1>7. Line(origin, w, broadcast[w], waiting[w], toWorker[w])
  BY DEF OrderInv
<1>8. /\ Elems(broadcast[w] \o waiting[w]) = Elems(broadcast[w]) \cup Elems(waiting[w])
      /\ Rising(origin, broadcast[w] \o waiting[w])
  BY <1>1, <1>7, ConcatOrders DEF Line
<1>9. Elems(<<>>) = {} /\ Rising(origin, <<>>)
  BY EmptyOrders
<1>10. /\ broadcast'[w] = broadcast[w] \o waiting[w] /\ waiting'[w] = <<>>
       /\ \A v \in Workers \ {w} : broadcast'[v] = broadcast[v] /\ waiting'[v] = waiting[v]
  BY <1>1, <1>3, <1>4
<1>11. Line(origin, w, broadcast[w] \o waiting[w], <<>>, toWorker[w])
  BY <1>7, <1>8, <1>9 DEF Line, Precedes
<1>12. \A v \in Workers : Line(origin, v, broadcast'[v], waiting'[v], toWorker[v])
  BY <1>10, <1>11 DEF OrderInv
<1>13. \A p \in Workers : Feed(origin, p, toMaster'[p])
  BY <1>6, LessFeed DEF OrderInv
<1>14. ASSUME NEW v \in Workers, NEW p \in Workers, v # p
       PROVE  Ahead(origin, broadcast'[v], waiting'[v], toWorker[v], toMaster'[p])
  <2>1. Ahead(origin, broadcast[v], waiting[v], toWorker[v], toMaster[p])
    BY <1>14 DEF OrderInv
  <2>2. On(toMaster'[p]) \subseteq On(toMaster[p])
    BY <1>6 DEF Less
  <2>3. Elems(broadcast'[v]) \cup Elems(waiting'[v]) \subseteq
            Elems(broadcast[v]) \cup Elems(waiting[v])
    BY <1>8, <1>9, <1>10
  <2>. QED
    BY <2>1, <2>2, <2>3 DEF Ahead, Precedes
<1>15. \A v \in Workers : manager'[v] = "ready" => waiting'[v] = <<>>
  BY <1>4, <1>10 DEF OrderInv, TypeOK
<1>. QED
  BY <1>4, <1>12, <1>13, <1>14, <1>15 DEF OrderInv

LEMMA ForwardOrder ==
    ASSUME TypeOK, OrderInv, NEW w \in Workers, ForwardDataSyncMessageToNodes(w)
    PROVE  OrderInv'
<1> DEFINE question == Head(toMaster[w])
           m == question.message
           rest == Tail(toMaster[w])
<1>1. /\ toMaster[w] # <<>> /\ question.type = "forward"
      /\ toMaster' = [toMaster EXCEPT ![w] = rest]
      /\ toWorker' = [v \in Workers |-> IF v \in AskedWorkers(w)
                                        THEN Append(toWorker[v], question) ELSE toWorker[v]]
      /\ UNCHANGED <<origin, clients>>
  BY DEF ForwardDataSyncMessageToNodes
<1>2. /\ toWorker \in [Workers -> Seq(IpcMessage)]
      /\ toMaster \in [Workers -> Seq(IpcMessage)] /\ toMaster[w] \in Seq(IpcMessage)
  BY DEF TypeOK
<1>3. question \in IpcMessage
  BY <1>1, <1>2, FirstOf
<1>4. Feed(origin, w, toMaster[w])
  BY DEF OrderInv
<1>5. /\ m \in On(toMaster[w]) /\ On(rest) \subseteq On(toMaster[w])
      /\ Precedes(origin, {m}, On(rest)) /\ RisingMail(origin, rest)
  BY <1>1, <1>2, <1>4, MailFrom DEF Feed
<1>6. m \in 1..Len(origin) /\ origin[m] = w
  BY <1>4, <1>5 DEF Feed
<1> HIDE DEF rest
<1>7. /\ toMaster'[w] = rest /\ \A p \in Workers \ {w} : toMaster'[p] = toMaster[p]
      /\ UNCHANGED <<manager, waiting, broadcast>>
  BY <1>1, <1>2 DEF clients
<1>8. ASSUME NEW v \in Workers \ {w}
      PROVE  /\ On(Append(toWorker[v], question)) = On(toWorker[v]) \cup {m}
             /\ Line(origin, v, broadcast[v], waiting[v], Append(toWorker[v], question))
  <2>1. /\ Line(origin, v, broadcast[v], waiting[v], toWorker[v])
        /\ Ahead(origin, broadcast[v], waiting[v], toWorker[v], toMaster[w])
    BY DEF OrderInv
  <2>2. /\ Precedes(origin, Elems(broadcast[v]), {m}) /\ Precedes(origin, Elems(waiting[v]), {m})
        /\ Precedes(origin, On(toWorker[v]), {m})
    BY <1>5, <2>1 DEF Ahead, Precedes
  <2>3. toWorker[v] \in Seq(IpcMessage)
    BY <1>2
  <2>4. /\ On(Append(toWorker[v], question)) = On(toWorker[v]) \cup {m}
        /\ RisingMail(origin, Append(toWorker[v], question))
    <3> HIDE DEF question
    <3>. QED
      BY <1>1, <1>3, <2>1, <2>2, <2>3, MailAppend DEF Line
  <2> HIDE DEF m, question
  <2>. QED
    BY <1>6, <2>1, <2>2, <2>4 DEF Line, Precedes
<1> HIDE DEF m, question
<1>9. ASSUME NEW v \in Workers
      PROVE  \/ toWorker'[v] = toWorker[v]
             \/ v # w /\ toWorker'[v] = Append(toWorker[v], question)
  BY <1>1 DEF AskedWorkers
<1>10. \A v \in Workers : Line(origin, v, broadcast[v], waiting[v], toWorker'[v])
  BY <1>8, <1>9 DEF OrderInv
<1>11. Feed(origin, w, rest)
  BY <1>4, <1>5 DEF Feed
<1>12. \A p \in Workers : Feed(origin, p, toMaster'[p])
  BY <1>7, <1>11 DEF OrderInv
<1>13. ASSUME NEW v \in Workers, NEW p \in Workers, v # p
       PROVE  Ahead(origin, broadcast[v], waiting[v], toWorker'[v], toMaster'[p])
  <2>1. Ahead(origin, broadcast[v], waiting[v], toWorker[v], toMaster[p]) /\ Feed(origin, p, toMaster[p])
    BY <1>13 DEF OrderInv
  <2>2. On(toMaster'[p]) \subseteq On(toMaster[p])
    BY <1>5, <1>7
  <2>3. On(toWorker'[v]) \subseteq On(toWorker[v]) \cup {m}
    BY <1>8, <1>9
  <2>4. Precedes(origin, {m}, On(toMaster'[p]))
    <3>1. CASE p = w
      BY <1>5, <1>7, <3>1
    <3>2. CASE p # w
      BY <1>6, <2>1, <2>2, <3>2 DEF Feed, Precedes
    <3>. QED
      BY <3>1, <3>2
  <2>. QED
    BY <2>1, <2>2, <2>3, <2>4 DEF Ahead, Precedes
<1>. QED
  BY <1>1, <1>7, <1>10, <1>12, <1>13 DEF OrderInv

-----------------------------------------------------------------------------

LEMMA OrderStep == TypeOK /\ OrderInv /\ [Next]_vars => OrderInv'
<1> SUFFICES ASSUME TypeOK, OrderInv, [Next]_vars PROVE OrderInv'
  OBVIOUS
<1> USE DEF ipc, master, clients
<1>0. /\ toMaster \in [Workers -> Seq(IpcMessage)]
      /\ toWorker \in [Workers -> Seq(IpcMessage)]
      /\ waiting \in [Workers -> Seq(Messages)]
      /\ manager \in [Workers -> {"none", "loading", "ready", "failed"}]
  BY DEF TypeOK
<1>1. ASSUME NEW w \in Workers,
             \/ Publish(w) \/ HandleForwardedMessage(w)
             \/ LoadSucceeds(w) \/ ForwardDataSyncMessageToNodes(w)
      PROVE  OrderInv'
  BY <1>1, PublishOrder, HandleOrder, LoadOrder, ForwardOrder
<1>2. \A q : Less(origin, q, q) /\ Less(origin, q, <<>>)
  BY LessSame
<1>3. ASSUME NEW w \in Workers, LoadFails(w) PROVE OrderInv'
  <2>1. /\ manager' = [manager EXCEPT ![w] = "failed"] /\ waiting' = [waiting EXCEPT ![w] = <<>>]
        /\ UNCHANGED <<origin, broadcast, toMaster, toWorker>>
    BY <1>3 DEF LoadFails
  <2>2. /\ \A v \in Workers : manager'[v] = "ready" => manager[v] = "ready"
        /\ \A v \in Workers : waiting'[v] = waiting[v] \/ waiting'[v] = <<>>
    BY <1>0, <2>1
  <2>. QED
    BY <1>2, <2>1, <2>2, LessStep
<1>4. ASSUME NEW w \in Workers, BeginLoad(w) \/ ResetContextManager(w) PROVE OrderInv'
  <2>1. /\ \A v \in Workers : manager'[v] = "ready" => manager[v] = "ready"
        /\ UNCHANGED <<origin, broadcast, waiting, toMaster, toWorker>>
    BY <1>0, <1>4 DEF BeginLoad, ResetContextManager
  <2>. QED
    BY <1>2, <2>1, LessStep
<1>5. ASSUME NEW w \in Workers, ReceiveAnswer(w) PROVE OrderInv'
  <2>1. /\ toWorker[w] # <<>> /\ toWorker' = [toWorker EXCEPT ![w] = Tail(@)]
        /\ UNCHANGED <<origin, broadcast, waiting, manager, toMaster>>
    BY <1>5 DEF ReceiveAnswer
  <2>2. Less(origin, toWorker[w], Tail(toWorker[w]))
    BY <1>0, <2>1, LessTail
  <2>3. \A v \in Workers : Less(origin, toWorker[v], toWorker'[v])
    BY <1>0, <1>2, <2>1, <2>2
  <2>. QED
    BY <1>2, <2>1, <2>3, LessStep
<1>6. ASSUME NEW w \in Workers, ReceiveReport(w) PROVE OrderInv'
  <2> DEFINE report == Head(toMaster[w])
             m == report.message
             numbers == Append(responses[m], report.data)
  <2>1. /\ toMaster[w] # <<>> /\ report.type = "report"
        /\ toMaster' = [toMaster EXCEPT ![w] = Tail(@)]
        /\ UNCHANGED <<origin, broadcast, waiting, manager>>
    BY <1>6 DEF ReceiveReport
  <2>2. report \in IpcMessage
    BY <1>0, <2>1, FirstOf
  <2>3. m \in Messages /\ report.data \in Nat
    BY <2>1, <2>2, IpcTypes
  <2>4. numbers \in Seq(Nat)
    BY <2>3, AppendProperties DEF TypeOK
  <2>5. \/ \E n \in Nat : toWorker' = [toWorker EXCEPT ![origin[m]] =
                                        Append(@, ClientMessageDeliveryReport(m, n))]
        \/ UNCHANGED toWorker
    BY <1>6, <2>4, SumIsNat DEF ReceiveReport
  <2>6. Less(origin, toMaster[w], Tail(toMaster[w]))
    BY <1>0, <2>1, LessTail
  <2>7. \A v \in Workers : Less(origin, toMaster[v], toMaster'[v])
    BY <1>0, <1>2, <2>1, <2>6
  <2> HIDE DEF report, m, numbers
  <2>8. ASSUME NEW v \in Workers, NEW n \in Nat
        PROVE  Less(origin, toWorker[v], Append(toWorker[v], ClientMessageDeliveryReport(m, n)))
    <3>1. toWorker[v] \in Seq(IpcMessage)
      BY <1>0
    <3>2. Extends(Append(toWorker[v], ClientMessageDeliveryReport(m, n)), toWorker[v])
      BY <2>3, <3>1, ReportGoes
    <3>. QED
      BY <3>1, <3>2, LessExtended
  <2>9. ASSUME NEW v \in Workers PROVE Less(origin, toWorker[v], toWorker'[v])
    <3>1. \/ toWorker'[v] = toWorker[v]
          \/ \E n \in Nat : toWorker'[v] = Append(toWorker[v], ClientMessageDeliveryReport(m, n))
      BY <1>0, <2>5
    <3>. QED
      BY <1>2, <2>8, <3>1
  <2>. QED
    BY <2>1, <2>7, <2>9, LessStep
<1>7. ASSUME NEW w \in Workers, Exit(w) PROVE OrderInv'
  <2>1. /\ toMaster' = [toMaster EXCEPT ![w] = <<>>] /\ toWorker' = [toWorker EXCEPT ![w] = <<>>]
        /\ UNCHANGED <<origin, broadcast, waiting, manager>>
    BY <1>7 DEF Exit
  <2>2. \A v \in Workers : Less(origin, toWorker[v], toWorker'[v])
    BY <1>0, <1>2, <2>1
  <2>3. \A v \in Workers : Less(origin, toMaster[v], toMaster'[v])
    BY <1>0, <1>2, <2>1
  <2>. QED
    BY <2>1, <2>2, <2>3, LessStep
<1>8. CASE \/ \E m \in Messages : ForwardTimesOut(m)
           \/ \E m \in Messages, v \in Workers : QuestionTimesOut(m, v)
           \/ UNCHANGED vars
  <2>1. UNCHANGED <<origin, broadcast, waiting, manager, toMaster, toWorker>>
    BY <1>8 DEF ForwardTimesOut, QuestionTimesOut, vars
  <2>. QED
    BY <1>2, <2>1, LessStep
<1>. QED
  BY <1>1, <1>3, <1>4, <1>5, <1>6, <1>7, <1>8 DEF Next

(* The clients of every worker get a message at most once, and the messages *)
(* of one publisher in their order, for any number of workers and messages  *)
(* (BroadcastOutgoingMessage behind ForwardDataSyncMessageToNodes and the   *)
(* manager that loads).                                                     *)
THEOREM InOrder == Spec => []EachOnceInOrder
<1>1. ASSUME TypeOK, OrderInv PROVE EachOnceInOrder
  <2> SUFFICES ASSUME NEW w \in Workers, NEW i \in DOMAIN broadcast[w], NEW j \in DOMAIN broadcast[w],
                      i < j, origin[broadcast[w][i]] = origin[broadcast[w][j]]
               PROVE  broadcast[w][i] < broadcast[w][j]
    BY DEF EachOnceInOrder
  <2>1. broadcast[w] \in Seq(Messages)
    BY <1>1 DEF TypeOK
  <2>2. DOMAIN broadcast[w] = 1..Len(broadcast[w])
    BY <2>1, LenProperties
  <2>3. Rising(origin, broadcast[w])
    BY <1>1 DEF OrderInv, Line
  <2>. QED
    BY <2>2, <2>3 DEF Rising
<1>. QED
  BY <1>1, TypeInit, TypeStep, OrderInit, OrderStep, PTL DEF Spec

-----------------------------------------------------------------------------
(* What a publisher is told.  Only a worker that is still asked is counted, *)
(* with the number its one broadcast of the message found.                  *)

(* The numbers q come from different workers of T that are no longer asked. *)
CountsFor(f, T, A, q) ==
    \E R \in SUBSET (T \ A) :
        /\ Len(q) = Cardinality(R)
        /\ \A w \in R : f[w] # Unknown
        /\ SumOf(q) = Total(f, R)

(* n counts every worker of T.                                              *)
AnswerFor(f, T, n) == (\A w \in T : f[w] # Unknown) /\ n = Total(f, T)

(* The master has not been asked to forward m.                              *)
Pending(m) == m > Len(origin) \/ \E p \in Workers : m \in On(toMaster[p])

BroadcastsFind ==
    \A m \in Messages, w \in Workers : found[m][w] # Unknown => m \in Elems(broadcast[w])

AskedWell ==
    \A m \in Messages : asked[m] \subseteq targets[m] /\ (Published(m) => origin[m] \notin targets[m])

PendingWell ==
    \A m \in Messages : Pending(m) =>
        /\ targets[m] = {} /\ responses[m] = <<>> /\ forwarded[m] \notin Nat
        /\ \A v \in Workers : \A x \in Reports(toWorker[v]) : x.message # m

ReportsWell ==
    \A w \in Workers : \A x \in Reports(toMaster[w]) : found[x.message][w] = x.data

CountedWell ==
    \A m \in Messages : CountsFor(found[m], targets[m], asked[m], responses[m])

AnswersWell ==
    \A v \in Workers : \A x \in Reports(toWorker[v]) :
        AnswerFor(found[x.message], targets[x.message], x.data)

ForwardedWell ==
    \A m \in Messages : forwarded[m] \in Nat => AnswerFor(found[m], targets[m], forwarded[m])

CountInv ==
    /\ BroadcastsFind
    /\ AskedWell
    /\ PendingWell
    /\ ReportsWell
    /\ CountedWell
    /\ AnswersWell
    /\ ForwardedWell

(* Numbers that are known stay.                                             *)
Later(f, e) == \A w \in Workers : f[w] # Unknown => e[w] = f[w]
Numbers == [Workers -> Recipients \cup {Unknown}]

LEMMA KnownNumbers ==
    ASSUME NEW f \in Numbers, NEW S \in SUBSET Workers
    PROVE  IsFiniteSet(S) /\ Integral(f, S)
<1>1. IsFiniteSet(S)
  BY BoundsAssumption, FS_Subset
<1>2. \A x \in S : f[x] \in Int
  BY BoundsAssumption DEF Numbers, Recipients, Unknown
<1>. QED
  BY <1>1, <1>2 DEF Integral

LEMMA CountsLater ==
    ASSUME NEW f \in Numbers, NEW e \in Numbers, Later(f, e),
           NEW T \in SUBSET Workers, NEW A, NEW q, CountsFor(f, T, A, q)
    PROVE  CountsFor(e, T, A, q)
<1>1. PICK R \in SUBSET (T \ A) :
          Len(q) = Cardinality(R) /\ (\A w \in R : f[w] # Unknown) /\ SumOf(q) = Total(f, R)
  BY DEF CountsFor
<1>2. IsFiniteSet(R) /\ Integral(f, R)
  BY KnownNumbers
<1>3. \A w \in R : f[w] \in Int /\ e[w] = f[w] /\ e[w] # Unknown
  BY <1>1, <1>2 DEF Later, Integral
<1>4. Total(e, R) = Total(f, R)
  BY <1>2, <1>3, TotalSame
<1>. QED
  BY <1>1, <1>3, <1>4 DEF CountsFor

LEMMA AnswerLater ==
    ASSUME NEW f \in Numbers, NEW e \in Numbers, Later(f, e),
           NEW T \in SUBSET Workers, NEW n, AnswerFor(f, T, n)
    PROVE  AnswerFor(e, T, n)
<1>1. IsFiniteSet(T) /\ Integral(f, T)
  BY KnownNumbers
<1>2. \A w \in T : f[w] \in Int /\ e[w] = f[w] /\ e[w] # Unknown
  BY <1>1 DEF Later, Integral, AnswerFor
<1>3. Total(e, T) = Total(f, T)
  BY <1>1, <1>2, TotalSame
<1>. QED
  BY <1>2, <1>3 DEF AnswerFor

LEMMA CountsEmpty ==
    ASSUME NEW f, NEW T, NEW A
    PROVE  CountsFor(f, T, A, <<>>)
<1>1. {} \in SUBSET (T \ A) /\ Len(<<>>) = Cardinality({})
  BY FS_EmptySet
<1>2. SumOf(<<>>) = Total(f, {})
  BY SumEmpty, TotalEmpty
<1>. QED
  BY <1>1, <1>2 DEF CountsFor

LEMMA CountsLess ==
    ASSUME NEW f, NEW T, NEW A, NEW B \in SUBSET A, NEW q, CountsFor(f, T, A, q)
    PROVE  CountsFor(f, T, B, q)
BY DEF CountsFor

LEMMA CountsMore ==
    ASSUME NEW f \in Numbers, NEW T \in SUBSET Workers, NEW A \in SUBSET T, NEW w \in A,
           NEW n \in Nat, n = f[w], NEW q \in Seq(Nat), CountsFor(f, T, A, q)
    PROVE  CountsFor(f, T, A \ {w}, Append(q, n))
<1>1. PICK R \in SUBSET (T \ A) :
          Len(q) = Cardinality(R) /\ (\A v \in R : f[v] # Unknown) /\ SumOf(q) = Total(f, R)
  BY DEF CountsFor
<1> DEFINE S == R \cup {w}
<1>2. w \notin R /\ S \in SUBSET (T \ (A \ {w})) /\ S \in SUBSET Workers
  OBVIOUS
<1>3. IsFiniteSet(R) /\ Integral(f, S)
  BY <1>2, KnownNumbers
<1>4. Cardinality(S) = Cardinality(R) + 1
  BY <1>2, <1>3, FS_AddElement
<1>5. IsSum(Total(f, S), Total(f, R), f[w])
  BY <1>2, <1>3, TotalPlus
<1>6. Len(Append(q, n)) = Len(q) + 1 /\ SumOf(Append(q, n)) = SumOf(q) + n
  BY SumAppend, AppendProperties
<1>7. SumOf(Append(q, n)) = Total(f, S)
  BY <1>1, <1>5, <1>6 DEF IsSum
<1>8. \A v \in S : f[v] # Unknown
  BY <1>1 DEF Unknown
<1> HIDE DEF S
<1>. QED
  BY <1>1, <1>2, <1>4, <1>6, <1>7, <1>8 DEF CountsFor

LEMMA CountsAll ==
    ASSUME NEW f \in Numbers, NEW T \in SUBSET Workers, NEW A, NEW q,
           CountsFor(f, T, A, q), Len(q) = Cardinality(T)
    PROVE  AnswerFor(f, T, SumOf(q))
<1>1. PICK R \in SUBSET (T \ A) :
          Len(q) = Cardinality(R) /\ (\A w \in R : f[w] # Unknown) /\ SumOf(q) = Total(f, R)
  BY DEF CountsFor
<1>2. IsFiniteSet(T) /\ R \subseteq T
  BY KnownNumbers
<1>3. R = T
  BY <1>1, <1>2, FS_Subset
<1>. QED
  BY <1>1, <1>3 DEF AnswerFor

-----------------------------------------------------------------------------
(* The broadcasts of the messages A in w report what they find; no other    *)
(* number and no other report changes.                                      *)
Finds(w, A, channel) ==
    /\ \A v \in Workers : Elems(broadcast[v]) \subseteq Elems(broadcast'[v])
    /\ \A m \in Messages, v \in Workers :
          found'[m][v] # found[m][v] => v = w /\ m \in A /\ m \in Elems(broadcast'[v])
    /\ \A v \in Workers \ {w} : toMaster'[v] = toMaster[v]
    /\ \A x \in Reports(toMaster'[w]) :
          \/ x \in Reports(channel)
          \/ x.message \in A /\ found'[x.message][w] = x.data

LEMMA DeliverFinds ==
    ASSUME TypeOK, NEW w \in Workers, NEW messages \in Seq(Messages),
           NEW recipients \in [Messages -> Recipients], NEW channel \in Seq(IpcMessage),
           Deliver(w, messages, recipients, channel)
    PROVE  Finds(w, Elems(messages), channel)
<1> DEFINE q == Reported(w, messages, recipients, channel)
<1>1. /\ broadcast \in [Workers -> Seq(Messages)]
      /\ found \in [Messages -> [Workers -> Recipients \cup {Unknown}]]
      /\ toMaster \in [Workers -> Seq(IpcMessage)]
  BY DEF TypeOK
<1>2. /\ broadcast' = [broadcast EXCEPT ![w] = @ \o messages]
      /\ toMaster' = [toMaster EXCEPT ![w] = q]
      /\ found' = [m \in Messages |->
                      IF Contains(messages, m)
                      THEN [found[m] EXCEPT ![w] = recipients[m]]
                      ELSE found[m]]
  BY DEF Deliver
<1>3. /\ broadcast'[w] = broadcast[w] \o messages
      /\ \A v \in Workers \ {w} : broadcast'[v] = broadcast[v]
  BY <1>1, <1>2
<1>4. Elems(broadcast[w] \o messages) = Elems(broadcast[w]) \cup Elems(messages)
  BY <1>1, ConcatOrders
<1>5. \A m \in Messages : Contains(messages, m) <=> m \in Elems(messages)
  BY DEF Contains, Elems
<1>6. ASSUME NEW m \in Messages, NEW v \in Workers
      PROVE  found'[m][v] = IF v = w /\ m \in Elems(messages) THEN recipients[m] ELSE found[m][v]
  <2>1. found'[m] = IF m \in Elems(messages) THEN [found[m] EXCEPT ![w] = recipients[m]] ELSE found[m]
    BY <1>2, <1>5
  <2>. QED
    BY <1>1, <2>1
<1>7. Honest(q, channel, messages, recipients)
  BY ReportsFollow
<1> HIDE DEF q
<1>8. toMaster'[w] = q /\ \A v \in Workers \ {w} : toMaster'[v] = toMaster[v]
  BY <1>1, <1>2
<1>9. ASSUME NEW x \in Reports(q), x \notin Reports(channel)
      PROVE  x.message \in Elems(messages) /\ found'[x.message][w] = x.data
  <2>1. PICK i \in 1..Len(messages) : x.message = messages[i] /\ x.data = recipients[messages[i]]
    BY <1>7, <1>9 DEF Honest
  <2>2. x.message \in Elems(messages) /\ x.message \in Messages
    BY <2>1 DEF Elems
  <2>. QED
    BY <1>6, <2>1, <2>2
<1>. QED
  BY <1>3, <1>4, <1>6, <1>8, <1>9 DEF Finds

LEMMA BroadcastFinds ==
    ASSUME TypeOK, NEW w \in Workers, NEW m \in Messages, NEW channel \in Seq(IpcMessage),
           Broadcast(w, m, channel)
    PROVE  Finds(w, {m}, channel)
<1>1. CASE /\ manager[w] = "ready"
           /\ \E n \in Recipients : Deliver(w, <<m>>, [i \in Messages |-> n], channel)
           /\ UNCHANGED <<manager, waiting>>
  <2>1. PICK n \in Recipients : Deliver(w, <<m>>, [i \in Messages |-> n], channel)
    BY <1>1
  <2>2. /\ <<m>> \in Seq(Messages) /\ [i \in Messages |-> n] \in [Messages -> Recipients]
        /\ Elems(<<m>>) = {m}
    BY OneMessage
  <2>. QED
    BY <2>1, <2>2, DeliverFinds
<1>2. ASSUME toMaster' = [toMaster EXCEPT ![w] = channel], UNCHANGED <<broadcast, found>>
      PROVE  Finds(w, {m}, channel)
  <2>1. toMaster'[w] = channel /\ \A v \in Workers \ {w} : toMaster'[v] = toMaster[v]
    BY <1>2 DEF TypeOK
  <2>. QED
    BY <1>2, <2>1 DEF Finds
<1>3. CASE /\ manager[w] \in {"none", "loading"}
           /\ manager' = [manager EXCEPT ![w] = "loading"]
           /\ Await(w, m)
           /\ toMaster' = [toMaster EXCEPT ![w] = channel]
           /\ UNCHANGED <<broadcast, found>>
  BY <1>2, <1>3
<1>4. CASE /\ manager[w] = "failed"
           /\ toMaster' = [toMaster EXCEPT ![w] = channel]
           /\ UNCHANGED clients
  BY <1>2, <1>4 DEF clients
<1>. QED
  BY <1>1, <1>3, <1>4 DEF Broadcast

LEMMA FewerReports ==
    ASSUME NEW q \in Seq(IpcMessage), q # <<>>
    PROVE  /\ Reports(Tail(q)) \subseteq Reports(q)
           /\ Head(q).type = "report" => Head(q) \in Reports(q)
<1> DEFINE r == Tail(q)
<1>1. /\ Len(q) \in Nat /\ Len(q) >= 1 /\ Len(r) = Len(q) - 1 /\ Head(q) = q[1]
      /\ \A i \in 1..Len(r) : r[i] = q[i + 1]
  BY FirstOf
<1> HIDE DEF r
<1>2. \A i \in 1..Len(r) : i + 1 \in 1..Len(q) /\ r[i] = q[i + 1]
  BY <1>1
<1>3. Reports(r) \subseteq Reports(q)
  BY <1>2 DEF Reports
<1>4. 1 \in 1..Len(q)
  BY <1>1
<1>. QED
  BY <1>1, <1>3, <1>4 DEF Reports, r

LEMMA ReportTypes ==
    ASSUME NEW q \in Seq(IpcMessage), NEW x \in Reports(q)
    PROVE  x \in IpcMessage /\ x.message \in Messages /\ x.type = "report" /\ x.data \in Nat
<1>1. x \in IpcMessage /\ x.type = "report"
  BY DEF Reports
<1>. QED
  BY <1>1, IpcTypes

(* A step that asks and answers nothing.                                    *)
Quiet(w, A, channel) ==
    /\ Finds(w, A, channel)
    /\ Reports(channel) \subseteq Reports(toMaster[w])
    /\ A \cap Elems(broadcast[w]) = {}
    /\ \A m \in Messages : Pending(m)' => Pending(m)
    /\ \A m \in Messages : Published(m)' => Pending(m) \/ (Published(m) /\ origin'[m] = origin[m])
    /\ \A v \in Workers : Reports(toWorker'[v]) \subseteq Reports(toWorker[v])
    /\ UNCHANGED <<targets, asked, responses, forwarded>>

LEMMA QuietStep ==
    ASSUME TypeOK, TypeOK', CountInv, NEW w \in Workers, NEW A, NEW channel, Quiet(w, A, channel)
    PROVE  CountInv'
<1>1. /\ found \in [Messages -> Numbers] /\ found' \in [Messages -> Numbers]
      /\ targets \in [Messages -> SUBSET Workers]
      /\ toMaster \in [Workers -> Seq(IpcMessage)] /\ toMaster' \in [Workers -> Seq(IpcMessage)]
      /\ toWorker \in [Workers -> Seq(IpcMessage)]
  BY DEF TypeOK, Numbers
<1>2. UNCHANGED <<targets, asked, responses, forwarded>>
  BY DEF Quiet
<1>3. ASSUME NEW m \in Messages PROVE Later(found[m], found'[m])
  <2> SUFFICES ASSUME NEW v \in Workers, found[m][v] # Unknown, found'[m][v] # found[m][v]
               PROVE  FALSE
    BY DEF Later
  <2>1. m \in Elems(broadcast[v])
    BY DEF CountInv, BroadcastsFind
  <2>2. v = w /\ m \in A
    BY DEF Quiet, Finds
  <2>. QED
    BY <2>1, <2>2 DEF Quiet
<1>4. BroadcastsFind'
  <2> SUFFICES ASSUME NEW m \in Messages, NEW v \in Workers, found'[m][v] # Unknown
               PROVE  m \in Elems(broadcast'[v])
    BY DEF BroadcastsFind
  <2>1. CASE found'[m][v] # found[m][v]
    BY <2>1 DEF Quiet, Finds
  <2>2. CASE found'[m][v] = found[m][v]
    <3>1. m \in Elems(broadcast[v])
      BY <2>2 DEF CountInv, BroadcastsFind
    <3>. QED
      BY <3>1 DEF Quiet, Finds
  <2>. QED
    BY <2>1, <2>2
<1>5. AskedWell'
  <2> SUFFICES ASSUME NEW m \in Messages
               PROVE  asked[m] \subseteq targets[m] /\ (Published(m)' => origin'[m] \notin targets[m])
    BY <1>2 DEF AskedWell
  <2>1. asked[m] \subseteq targets[m] /\ (Published(m) => origin[m] \notin targets[m])
    BY DEF CountInv, AskedWell
  <2>2. Pending(m) => targets[m] = {}
    BY DEF CountInv, PendingWell
  <2>3. Published(m)' => Pending(m) \/ (Published(m) /\ origin'[m] = origin[m])
    BY DEF Quiet
  <2>. QED
    BY <2>1, <2>2, <2>3
<1>6. PendingWell'
  <2> SUFFICES ASSUME NEW m \in Messages, Pending(m)'
               PROVE  /\ targets[m] = {} /\ responses[m] = <<>> /\ forwarded[m] \notin Nat
                      /\ \A v \in Workers : \A x \in Reports(toWorker'[v]) : x.message # m
    BY <1>2 DEF PendingWell
  <2>1. Pending(m)
    BY DEF Quiet
  <2>2. /\ targets[m] = {} /\ responses[m] = <<>> /\ forwarded[m] \notin Nat
        /\ \A v \in Workers : \A x \in Reports(toWorker[v]) : x.message # m
    BY <2>1 DEF CountInv, PendingWell
  <2>. QED
    BY <2>2 DEF Quiet
<1>7. ReportsWell'
  <2> SUFFICES ASSUME NEW v \in Workers, NEW x \in Reports(toMaster'[v])
               PROVE  found'[x.message][v] = x.data
    BY DEF ReportsWell
  <2>1. x.message \in Messages /\ x.data \in Nat
    BY <1>1, ReportTypes
  <2>2. CASE x \in Reports(toMaster[v])
    <3>1. found[x.message][v] = x.data /\ x.data # Unknown
      BY <2>1, <2>2 DEF CountInv, ReportsWell, Unknown
    <3>. QED
      BY <1>3, <2>1, <3>1 DEF Later
  <2>3. CASE v = w /\ x \notin Reports(toMaster[v])
    BY <2>3 DEF Quiet, Finds
  <2>4. v = w \/ x \in Reports(toMaster[v])
    BY DEF Quiet, Finds
  <2>. QED
    BY <2>2, <2>3, <2>4
<1>8. CountedWell'
  <2> SUFFICES ASSUME NEW m \in Messages
               PROVE  CountsFor(found'[m], targets[m], asked[m], responses[m])
    BY <1>2 DEF CountedWell
  <2>1. CountsFor(found[m], targets[m], asked[m], responses[m])
    BY DEF CountInv, CountedWell
  <2>2. found[m] \in Numbers /\ found'[m] \in Numbers /\ targets[m] \in SUBSET Workers
    BY <1>1
  <2>. QED
    BY <1>3, <2>1, <2>2, CountsLater
<1>9. AnswersWell'
  <2> SUFFICES ASSUME NEW v \in Workers, NEW x \in Reports(toWorker'[v])
               PROVE  AnswerFor(found'[x.message], targets[x.message], x.data)
    BY <1>2 DEF AnswersWell
  <2> DEFINE m == x.message
  <2>1. x \in Reports(toWorker[v])
    BY DEF Quiet
  <2>2. m \in Messages
    BY <1>1, <2>1, ReportTypes
  <2>3. AnswerFor(found[m], targets[m], x.data)
    BY <2>1 DEF CountInv, AnswersWell
  <2> HIDE DEF m
  <2>4. found[m] \in Numbers /\ found'[m] \in Numbers /\ targets[m] \in SUBSET Workers
    BY <1>1, <2>2
  <2>5. AnswerFor(found'[m], targets[m], x.data)
    BY <1>3, <2>2, <2>3, <2>4, AnswerLater
  <2>. QED
    BY <2>5 DEF m
<1>10. ForwardedWell'
  <2> SUFFICES ASSUME NEW m \in Messages, forwarded[m] \in Nat
               PROVE  AnswerFor(found'[m], targets[m], forwarded[m])
    BY <1>2 DEF ForwardedWell
  <2>1. AnswerFor(found[m], targets[m], forwarded[m])
    BY DEF CountInv, ForwardedWell
  <2>2. found[m] \in Numbers /\ found'[m] \in Numbers /\ targets[m] \in SUBSET Workers
    BY <1>1
  <2>. QED
    BY <1>3, <2>1, <2>2, AnswerLater
<1>. QED
  BY <1>4, <1>5, <1>6, <1>7, <1>8, <1>9, <1>10 DEF CountInv
LEMMA PublishCounts ==
    ASSUME TypeOK, TypeOK', OrderInv, CountInv, NEW w \in Workers, Publish(w)
    PROVE  CountInv'
<1> DEFINE m == Len(origin) + 1
           channel == Append(toMaster[w], ForwardClientMessage(m))
<1>1. /\ m \in Messages /\ origin' = Append(origin, w) /\ Broadcast(w, m, channel)
      /\ UNCHANGED <<toWorker, targets, asked, responses, forwarded>>
  BY DEF Publish, master
<1>2. /\ origin \in Seq(Workers) /\ Len(origin) \in Nat
      /\ toMaster \in [Workers -> Seq(IpcMessage)] /\ toMaster[w] \in Seq(IpcMessage)
  BY DEF TypeOK
<1>3. /\ Len(origin') = m /\ \A k \in 1..Len(origin) : origin'[k] = origin[k]
  BY <1>1, <1>2, AppendProperties
<1>4. /\ channel \in Seq(IpcMessage) /\ On(channel) = On(toMaster[w]) \cup {m}
      /\ Reports(channel) = Reports(toMaster[w])
  <2> DEFINE x == ForwardClientMessage(m)
  <2>1. x \in IpcMessage /\ x.type = "forward" /\ x.message = m
    BY <1>1, ForwardTypes
  <2> HIDE DEF x, m
  <2>2. /\ Append(toMaster[w], x) \in Seq(IpcMessage)
        /\ On(Append(toMaster[w], x)) = On(toMaster[w]) \cup {x.message}
        /\ Reports(Append(toMaster[w], x)) = Reports(toMaster[w])
    BY <1>2, <2>1, AppendProperties, MailAppend, ReportsAppend
  <2>. QED
    BY <2>1, <2>2 DEF x
<1> HIDE DEF channel
<1>5. Sent(w, channel) /\ Finds(w, {m}, channel)
  <2> HIDE DEF m
  <2>. QED
    BY <1>1, <1>4, BroadcastWays, BroadcastFinds
<1>6. {m} \cap Elems(broadcast[w]) = {}
  <2>1. Elems(broadcast[w]) \subseteq 1..Len(origin)
    BY DEF OrderInv, Line
  <2>. QED
    BY <1>2, <2>1
<1>7. \A v \in Workers : On(toMaster'[v]) \subseteq On(toMaster[v]) \cup {m}
  <2> TAKE v \in Workers
  <2>1. PICK q : Extends(q, channel) /\ toMaster' = [toMaster EXCEPT ![w] = q]
    BY <1>5 DEF Sent
  <2>2. On(q) = On(channel)
    BY <1>4, <2>1, MailExtends
  <2>. QED
    BY <1>2, <1>4, <2>1, <2>2
<1>8. ASSUME NEW k \in Messages, Pending(k)' PROVE Pending(k)
  <2>1. k \in Nat
    BY BoundsAssumption DEF Messages
  <2>2. CASE k > Len(origin')
    BY <1>2, <1>3, <2>1, <2>2 DEF Pending
  <2>3. ASSUME NEW p \in Workers, k \in On(toMaster'[p]) PROVE Pending(k)
    <3>1. k \in On(toMaster[p]) \/ k > Len(origin)
      BY <1>2, <1>7, <2>3
    <3>. QED
      BY <3>1 DEF Pending
  <2>. QED
    BY <1>8, <2>2, <2>3 DEF Pending
<1>9. ASSUME NEW k \in Messages, Published(k)'
      PROVE  Pending(k) \/ (Published(k) /\ origin'[k] = origin[k])
  <2>1. k \in 1..Len(origin) \/ k > Len(origin)
    BY <1>2, BoundsAssumption DEF Messages
  <2>2. CASE k \in 1..Len(origin)
    BY <1>3, <2>2 DEF Published
  <2>3. CASE k > Len(origin)
    BY <2>3 DEF Pending
  <2>. QED
    BY <2>1, <2>2, <2>3
<1> HIDE DEF m
<1>10. Quiet(w, {m}, channel)
  BY <1>1, <1>4, <1>5, <1>6, <1>8, <1>9 DEF Quiet
<1>. QED
  BY <1>10, QuietStep

(* With no message published, the master is asked about no more of them.    *)
LEMMA StillPending ==
    ASSUME UNCHANGED origin, \A p \in Workers : On(toMaster'[p]) \subseteq On(toMaster[p])
    PROVE  /\ \A m \in Messages : Pending(m)' => Pending(m)
           /\ \A m \in Messages : Published(m)' => Published(m) /\ origin'[m] = origin[m]
BY DEF Pending, Published

LEMMA HandleCounts ==
    ASSUME TypeOK, TypeOK', OrderInv, CountInv, NEW w \in Workers, HandleForwardedMessage(w)
    PROVE  CountInv'
<1> DEFINE m == Head(toWorker[w]).message
           channel == toMaster[w]
<1>1. /\ toWorker[w] # <<>> /\ Head(toWorker[w]).type = "forward"
      /\ toWorker' = [toWorker EXCEPT ![w] = Tail(@)]
      /\ Broadcast(w, m, channel)
      /\ UNCHANGED <<origin, targets, asked, responses, forwarded>>
  BY DEF HandleForwardedMessage, master
<1>2. /\ toWorker \in [Workers -> Seq(IpcMessage)] /\ toWorker[w] \in Seq(IpcMessage)
      /\ toMaster \in [Workers -> Seq(IpcMessage)] /\ channel \in Seq(IpcMessage)
  BY DEF TypeOK
<1>3. m \in Messages /\ m \in On(toWorker[w])
  BY <1>1, <1>2, FirstOf, IpcTypes, MailFrom
<1> HIDE DEF m
<1>4. {m} \cap Elems(broadcast[w]) = {}
  <2>1. /\ Precedes(origin, Elems(broadcast[w]), On(toWorker[w]))
        /\ On(toWorker[w]) \subseteq 1..Len(origin)
    BY DEF OrderInv, Line
  <2>2. m \in Elems(broadcast[w]) => m < m
    BY <1>3, <2>1 DEF Precedes
  <2>3. m \in Nat
    BY <1>3, BoundsAssumption DEF Messages
  <2>. QED
    BY <2>2, <2>3
<1>5. Sent(w, channel) /\ Finds(w, {m}, channel)
  BY <1>1, <1>2, <1>3, BroadcastWays, BroadcastFinds
<1>6. \A v \in Workers : On(toMaster'[v]) \subseteq On(toMaster[v])
  <2>1. PICK q : Extends(q, channel) /\ toMaster' = [toMaster EXCEPT ![w] = q]
    BY <1>5 DEF Sent
  <2>2. On(q) = On(channel)
    BY <1>2, <2>1, MailExtends
  <2>. QED
    BY <1>2, <2>1, <2>2
<1>7. \A v \in Workers : Reports(toWorker'[v]) \subseteq Reports(toWorker[v])
  BY <1>1, <1>2, FewerReports
<1>8. Quiet(w, {m}, channel)
  BY <1>1, <1>4, <1>5, <1>6, <1>7, StillPending DEF Quiet
<1>. QED
  BY <1>8, QuietStep

LEMMA LoadCounts ==
    ASSUME TypeOK, TypeOK', OrderInv, CountInv, NEW w \in Workers, LoadSucceeds(w)
    PROVE  CountInv'
<1> DEFINE channel == toMaster[w]
           A == Elems(waiting[w])
<1>1. /\ waiting[w] \in Seq(Messages)
      /\ toMaster \in [Workers -> Seq(IpcMessage)] /\ channel \in Seq(IpcMessage)
  BY DEF TypeOK
<1>2. PICK recipients \in [Messages -> Recipients] :
          Deliver(w, waiting[w], recipients, channel)
  BY DEF LoadSucceeds
<1>3. Sent(w, channel) /\ Finds(w, A, channel)
  BY <1>1, <1>2, Delivered, DeliverFinds
<1>4. A \cap Elems(broadcast[w]) = {}
  <2>1. Precedes(origin, Elems(broadcast[w]), A) /\ A \subseteq 1..Len(origin)
    BY DEF OrderInv, Line
  <2>2. \A m \in A : m \in Elems(broadcast[w]) => m < m
    BY <2>1 DEF Precedes
  <2>3. \A m \in A : ~(m < m)
    BY <2>1
  <2>. QED
    BY <2>2, <2>3
<1>5. UNCHANGED <<origin, toWorker, targets, asked, responses, forwarded>>
  BY DEF LoadSucceeds, master
<1>6. \A v \in Workers : On(toMaster'[v]) \subseteq On(toMaster[v])
  <2>1. PICK q : Extends(q, channel) /\ toMaster' = [toMaster EXCEPT ![w] = q]
    BY <1>3 DEF Sent
  <2>2. On(q) = On(channel)
    BY <1>1, <2>1, MailExtends
  <2>. QED
    BY <1>1, <2>1, <2>2
<1> HIDE DEF A
<1>7. Quiet(w, A, channel)
  BY <1>3, <1>4, <1>5, <1>6, StillPending DEF Quiet
<1>. QED
  BY <1>7, QuietStep

(* Nothing is broadcast; channels and the master only forget.               *)
LEMMA SilentCounts ==
    ASSUME TypeOK, TypeOK', CountInv, NEW w \in Workers,
           UNCHANGED <<origin, broadcast, found, targets, asked, responses, forwarded>>,
           \A v \in Workers : toMaster'[v] = toMaster[v] \/ (v = w /\ toMaster'[v] = <<>>),
           \A v \in Workers : toWorker'[v] = toWorker[v] \/ toWorker'[v] = <<>>
    PROVE  CountInv'
<1>1. Reports(<<>>) = {} /\ On(<<>>) = {}
  BY DEF Reports, On
<1>2. \A v \in Workers : On(toMaster'[v]) \subseteq On(toMaster[v])
  BY <1>1
<1>3. \A v \in Workers : Reports(toWorker'[v]) \subseteq Reports(toWorker[v])
  BY <1>1
<1>4. /\ \A v \in Workers \ {w} : toMaster'[v] = toMaster[v]
      /\ Reports(toMaster'[w]) \subseteq Reports(toMaster[w])
  BY <1>1
<1>5. Finds(w, {}, toMaster[w])
  BY <1>4 DEF Finds
<1>6. Quiet(w, {}, toMaster[w])
  BY <1>2, <1>3, <1>5, StillPending DEF Quiet
<1>. QED
  BY <1>6, QuietStep

LEMMA ReceiveAnswerCounts ==
    ASSUME TypeOK, CountInv, NEW w \in Workers, ReceiveAnswer(w)
    PROVE  CountInv'
<1> DEFINE answer == Head(toWorker[w])
           k == answer.message
<1>1. /\ toWorker[w] # <<>> /\ answer.type = "report"
      /\ forwarded' = [forwarded EXCEPT ![k] = IF @ = Unknown THEN answer.data ELSE @]
      /\ toWorker' = [toWorker EXCEPT ![w] = Tail(@)]
      /\ UNCHANGED <<origin, toMaster, broadcast, found, targets, asked, responses>>
  BY DEF ReceiveAnswer, clients, master
<1>2. /\ toWorker \in [Workers -> Seq(IpcMessage)] /\ toWorker[w] \in Seq(IpcMessage)
      /\ forwarded \in [Messages -> Nat \cup {Unknown, Lost}]
  BY DEF TypeOK
<1>3. answer \in Reports(toWorker[w]) /\ k \in Messages /\ answer.data \in Nat
  BY <1>1, <1>2, FewerReports, ReportTypes
<1>4. AnswerFor(found[k], targets[k], answer.data)
  BY <1>3 DEF CountInv, AnswersWell
<1>5. ~Pending(k)
  BY <1>3 DEF CountInv, PendingWell
<1> HIDE DEF k, answer
<1>6. \A v \in Workers : Reports(toWorker'[v]) \subseteq Reports(toWorker[v])
  BY <1>1, <1>2, FewerReports
<1>7. \A m \in Messages : forwarded'[m] = forwarded[m] \/ (m = k /\ forwarded'[m] = answer.data)
  BY <1>1, <1>2
<1>8. \A m \in Messages : Pending(m)' <=> Pending(m)
  BY <1>1 DEF Pending
<1>9. PendingWell'
  <2> SUFFICES ASSUME NEW m \in Messages, Pending(m)'
               PROVE  /\ targets[m] = {} /\ responses[m] = <<>> /\ forwarded'[m] \notin Nat
                      /\ \A v \in Workers : \A x \in Reports(toWorker'[v]) : x.message # m
    BY <1>1 DEF PendingWell
  <2>1. Pending(m) /\ m # k
    BY <1>5, <1>8
  <2>2. /\ targets[m] = {} /\ responses[m] = <<>> /\ forwarded[m] \notin Nat
        /\ \A v \in Workers : \A x \in Reports(toWorker[v]) : x.message # m
    BY <2>1 DEF CountInv, PendingWell
  <2>. QED
    BY <1>6, <1>7, <2>1, <2>2
<1>10. AnswersWell'
  BY <1>1, <1>6 DEF CountInv, AnswersWell
<1>11. ForwardedWell'
  <2> SUFFICES ASSUME NEW m \in Messages, forwarded'[m] \in Nat
               PROVE  AnswerFor(found[m], targets[m], forwarded'[m])
    BY <1>1 DEF ForwardedWell
  <2>. QED
    BY <1>4, <1>7 DEF CountInv, ForwardedWell
<1>12. BroadcastsFind' /\ AskedWell' /\ ReportsWell' /\ CountedWell'
  BY <1>1 DEF CountInv, BroadcastsFind, AskedWell, ReportsWell, CountedWell, Published
<1>. QED
  BY <1>9, <1>10, <1>11, <1>12 DEF CountInv

LEMMA TimeoutCounts ==
    ASSUME TypeOK, CountInv, NEW m \in Messages,
           ForwardTimesOut(m) \/ \E v \in Workers : QuestionTimesOut(m, v)
    PROVE  CountInv'
<1>1. UNCHANGED <<origin, toMaster, toWorker, broadcast, found, targets, responses>>
  BY DEF ForwardTimesOut, QuestionTimesOut, ipc, clients, master
<1>2. /\ asked \in [Messages -> SUBSET Workers]
      /\ forwarded \in [Messages -> Nat \cup {Unknown, Lost}]
  BY DEF TypeOK
<1>3. \A k \in Messages : forwarded'[k] = forwarded[k] \/ forwarded'[k] \notin Nat
  BY <1>2 DEF ForwardTimesOut, QuestionTimesOut, Lost
<1>4. \A k \in Messages : asked'[k] \subseteq asked[k]
  BY <1>2 DEF ForwardTimesOut, QuestionTimesOut, master
<1>5. PendingWell'
  BY <1>1, <1>3 DEF CountInv, PendingWell, Pending
<1>6. AskedWell'
  BY <1>1, <1>4 DEF CountInv, AskedWell, Published
<1>7. CountedWell'
  <2> SUFFICES ASSUME NEW k \in Messages
               PROVE  CountsFor(found[k], targets[k], asked'[k], responses[k])
    BY <1>1 DEF CountedWell
  <2>1. CountsFor(found[k], targets[k], asked[k], responses[k])
    BY DEF CountInv, CountedWell
  <2>2. asked'[k] \in SUBSET asked[k]
    BY <1>4
  <2>. QED
    BY <2>1, <2>2, CountsLess
<1>8. ForwardedWell'
  BY <1>1, <1>3 DEF CountInv, ForwardedWell
<1>9. BroadcastsFind' /\ ReportsWell' /\ AnswersWell'
  BY <1>1 DEF CountInv, BroadcastsFind, ReportsWell, AnswersWell
<1>. QED
  BY <1>5, <1>6, <1>7, <1>8, <1>9 DEF CountInv
LEMMA ForwardCounts ==
    ASSUME TypeOK, OrderInv, CountInv, NEW w \in Workers, ForwardDataSyncMessageToNodes(w)
    PROVE  CountInv'
<1> DEFINE question == Head(toMaster[w])
           k == question.message
           rest == Tail(toMaster[w])
           T == AskedWorkers(w)
<1>1. /\ toMaster[w] # <<>> /\ question.type = "forward"
      /\ toMaster' = [toMaster EXCEPT ![w] = rest]
      /\ targets' = [targets EXCEPT ![k] = T]
      /\ asked' = [asked EXCEPT ![k] = T]
      /\ toWorker' = [v \in Workers |-> IF v \in T
                                        THEN Append(toWorker[v], question) ELSE toWorker[v]]
      /\ UNCHANGED <<origin, broadcast, found, responses, forwarded>>
  BY DEF ForwardDataSyncMessageToNodes, clients
<1>2. /\ toWorker \in [Workers -> Seq(IpcMessage)]
      /\ toMaster \in [Workers -> Seq(IpcMessage)] /\ toMaster[w] \in Seq(IpcMessage)
      /\ targets \in [Messages -> SUBSET Workers] /\ asked \in [Messages -> SUBSET Workers]
  BY DEF TypeOK
<1>3. question \in IpcMessage /\ k \in Messages /\ k \in On(toMaster[w])
  BY <1>1, <1>2, FirstOf, IpcTypes, MailFrom
<1>4. Feed(origin, w, toMaster[w]) /\ k \in 1..Len(origin) /\ origin[k] = w /\ w \notin T
  BY <1>3 DEF OrderInv, Feed, AskedWorkers
<1>5. On(rest) \subseteq On(toMaster[w]) /\ Precedes(origin, {k}, On(rest)) /\ Reports(rest) \subseteq Reports(toMaster[w])
  BY <1>1, <1>2, <1>4, MailFrom, FewerReports DEF Feed
<1>6. Pending(k)
  BY <1>3 DEF Pending
<1>7. ASSUME NEW m \in Messages, Pending(m)' PROVE m # k
  <2>1. k \notin On(rest)
    <3>1. k \in On(rest) => k < k
      BY <1>5 DEF Precedes
    <3>. QED
      BY <1>4, <3>1
  <2>2. ASSUME NEW p \in Workers, p # w PROVE k \notin On(toMaster[p])
    BY <1>4, <2>2 DEF OrderInv, Feed
  <2>3. \A p \in Workers : k \notin On(toMaster'[p])
    BY <1>1, <1>2, <2>1, <2>2
  <2>4. ~(k > Len(origin))
    BY <1>4
  <2> HIDE DEF k
  <2>. QED
    BY <1>1, <1>7, <2>3, <2>4 DEF Pending
<1>8. \A v \in Workers : Reports(toMaster'[v]) \subseteq Reports(toMaster[v]) /\ On(toMaster'[v]) \subseteq On(toMaster[v])
  BY <1>1, <1>2, <1>5
<1> HIDE DEF rest, k
<1>9. \A v \in Workers : Reports(toWorker'[v]) = Reports(toWorker[v])
  <2> TAKE v \in Workers
  <2>1. toWorker'[v] = IF v \in T THEN Append(toWorker[v], question) ELSE toWorker[v]
    BY <1>1
  <2>2. toWorker[v] \in Seq(IpcMessage)
    BY <1>2
  <2> HIDE DEF question, T
  <2>3. Reports(Append(toWorker[v], question)) = Reports(toWorker[v])
    BY <1>1, <1>3, <2>2, ReportsAppend
  <2>. QED
    BY <2>1, <2>3
<1> HIDE DEF question, T
<1>10. /\ targets'[k] = T /\ asked'[k] = T
       /\ \A m \in Messages \ {k} : targets'[m] = targets[m] /\ asked'[m] = asked[m]
  BY <1>1, <1>2, <1>3
<1>11. \A m \in Messages : Pending(m)' => Pending(m) /\ m # k
  BY <1>1, <1>7, <1>8 DEF Pending
<1>12. /\ targets[k] = {} /\ responses[k] = <<>> /\ forwarded[k] \notin Nat
       /\ \A v \in Workers : \A x \in Reports(toWorker[v]) : x.message # k
  BY <1>3, <1>6 DEF CountInv, PendingWell
<1>13. AskedWell'
  <2> SUFFICES ASSUME NEW m \in Messages
               PROVE  asked'[m] \subseteq targets'[m] /\ (Published(m) => origin[m] \notin targets'[m])
    BY <1>1 DEF AskedWell, Published
  <2>1. CASE m = k
    BY <1>4, <1>10, <2>1
  <2>2. CASE m # k
    BY <1>10, <2>2 DEF CountInv, AskedWell
  <2>. QED
    BY <2>1, <2>2
<1>14. PendingWell'
  <2> SUFFICES ASSUME NEW m \in Messages, Pending(m)'
               PROVE  /\ targets'[m] = {} /\ responses[m] = <<>> /\ forwarded[m] \notin Nat
                      /\ \A v \in Workers : \A x \in Reports(toWorker'[v]) : x.message # m
    BY <1>1 DEF PendingWell
  <2>. QED
    BY <1>9, <1>10, <1>11 DEF CountInv, PendingWell
<1>15. CountedWell'
  <2> SUFFICES ASSUME NEW m \in Messages
               PROVE  CountsFor(found[m], targets'[m], asked'[m], responses[m])
    BY <1>1 DEF CountedWell
  <2>1. CASE m = k
    BY <1>12, <2>1, CountsEmpty
  <2>2. CASE m # k
    BY <1>10, <2>2 DEF CountInv, CountedWell
  <2>. QED
    BY <2>1, <2>2
<1>16. AnswersWell'
  <2> SUFFICES ASSUME NEW v \in Workers, NEW x \in Reports(toWorker[v])
               PROVE  AnswerFor(found[x.message], targets'[x.message], x.data)
    BY <1>1, <1>9 DEF AnswersWell
  <2>1. x.message \in Messages \ {k}
    BY <1>2, <1>12, ReportTypes
  <2>. QED
    BY <1>10, <2>1 DEF CountInv, AnswersWell
<1>17. ForwardedWell'
  <2> SUFFICES ASSUME NEW m \in Messages, forwarded[m] \in Nat
               PROVE  AnswerFor(found[m], targets'[m], forwarded[m])
    BY <1>1 DEF ForwardedWell
  <2>1. m # k
    BY <1>12
  <2>. QED
    BY <1>10, <2>1 DEF CountInv, ForwardedWell
<1>18. BroadcastsFind' /\ ReportsWell'
  BY <1>1, <1>8 DEF CountInv, BroadcastsFind, ReportsWell
<1>. QED
  BY <1>13, <1>14, <1>15, <1>16, <1>17, <1>18 DEF CountInv

LEMMA ReceiveReportCounts ==
    ASSUME TypeOK, CountInv, NEW w \in Workers, ReceiveReport(w)
    PROVE  CountInv'
<1> DEFINE report == Head(toMaster[w])
           k == report.message
           n == report.data
           numbers == Append(responses[k], n)
           answer == ClientMessageDeliveryReport(k, SumOf(numbers))
           Answers == w \in asked[k] /\ Complete(k, Len(numbers)) /\ origin[k] \in alive
<1>1. /\ toMaster[w] # <<>> /\ report.type = "report"
      /\ toMaster' = [toMaster EXCEPT ![w] = Tail(@)]
      /\ asked' = [asked EXCEPT ![k] = @ \ {w}]
      /\ IF w \in asked[k]
         THEN responses' = [responses EXCEPT ![k] = numbers]
         ELSE UNCHANGED responses
      /\ IF Answers
         THEN toWorker' = [toWorker EXCEPT ![origin[k]] = Append(@, answer)]
         ELSE UNCHANGED toWorker
      /\ UNCHANGED <<origin, broadcast, found, targets, forwarded>>
  BY DEF ReceiveReport, clients
<1>2. /\ toWorker \in [Workers -> Seq(IpcMessage)]
      /\ toMaster \in [Workers -> Seq(IpcMessage)] /\ toMaster[w] \in Seq(IpcMessage)
      /\ targets \in [Messages -> SUBSET Workers] /\ asked \in [Messages -> SUBSET Workers]
      /\ found \in [Messages -> Numbers] /\ responses \in [Messages -> Seq(Nat)]
  BY DEF TypeOK, Numbers
<1>3. report \in Reports(toMaster[w]) /\ k \in Messages /\ n \in Nat
  BY <1>1, <1>2, FewerReports, ReportTypes
<1>4. found[k][w] = n
  BY <1>3 DEF CountInv, ReportsWell
<1> HIDE DEF k, n, report
<1>5. /\ \A v \in Workers : Reports(toMaster'[v]) \subseteq Reports(toMaster[v])
      /\ \A v \in Workers : On(toMaster'[v]) \subseteq On(toMaster[v])
  <2>1. ASSUME NEW v \in Workers
        PROVE  toMaster'[v] = toMaster[v] \/ (v = w /\ toMaster'[v] = Tail(toMaster[w]))
    BY <1>1, <1>2
  <2>2. /\ Reports(Tail(toMaster[w])) \subseteq Reports(toMaster[w])
        /\ On(Tail(toMaster[w])) \subseteq On(toMaster[w])
    BY <1>1, <1>2, FewerReports, MailFrom
  <2>. QED
    BY <2>1, <2>2
<1>6. \A m \in Messages : Pending(m)' => Pending(m)
  BY <1>1, <1>5 DEF Pending
<1>7. asked'[k] = asked[k] \ {w} /\ \A m \in Messages \ {k} : asked'[m] = asked[m]
  BY <1>1, <1>2, <1>3
<1>8. w \in asked[k] => ~Pending(k)
  BY <1>3 DEF CountInv, AskedWell, PendingWell
<1>9. /\ responses[k] \in Seq(Nat) /\ numbers \in Seq(Nat)
      /\ found[k] \in Numbers /\ targets[k] \in SUBSET Workers /\ asked[k] \in SUBSET targets[k]
      /\ CountsFor(found[k], targets[k], asked[k], responses[k])
  BY <1>2, <1>3, AppendProperties DEF CountInv, AskedWell, CountedWell
<1>10. w \in asked[k] => CountsFor(found[k], targets[k], asked[k] \ {w}, numbers)
  BY <1>3, <1>4, <1>9, CountsMore
<1> HIDE DEF numbers
<1>11. Answers => AnswerFor(found[k], targets[k], SumOf(numbers))
  BY <1>9, <1>10, CountsAll DEF Complete
<1>12. answer \in IpcMessage /\ answer.message = k /\ answer.data = SumOf(numbers)
  BY <1>3, <1>9, SumIsNat DEF ClientMessageDeliveryReport, IpcMessage
<1> HIDE DEF answer
<1>13. \A v \in Workers : \A x \in Reports(toWorker'[v]) :
           x \in Reports(toWorker[v]) \/ (Answers /\ x = answer)
  <2> TAKE v \in Workers
  <2>1. toWorker'[v] = toWorker[v] \/ (Answers /\ toWorker'[v] = Append(toWorker[v], answer))
    BY <1>1, <1>2
  <2>2. toWorker[v] \in Seq(IpcMessage)
    BY <1>2
  <2>3. Reports(Append(toWorker[v], answer)) \subseteq Reports(toWorker[v]) \cup {answer}
    BY <1>12, <2>2, ReportsAppend
  <2>. QED
    BY <2>1, <2>3
<1>14. Answers => w \in asked[k]
  OBVIOUS
<1> HIDE DEF Answers
<1>15. AskedWell'
  BY <1>1, <1>7 DEF CountInv, AskedWell, Published
<1>16. \A m \in Messages : responses'[m] = responses[m] \/ (w \in asked[k] /\ m = k)
  BY <1>1, <1>2
<1>17. PendingWell'
  <2> SUFFICES ASSUME NEW m \in Messages, Pending(m)'
               PROVE  /\ targets[m] = {} /\ responses'[m] = <<>> /\ forwarded[m] \notin Nat
                      /\ \A v \in Workers : \A x \in Reports(toWorker'[v]) : x.message # m
    BY <1>1 DEF PendingWell
  <2>1. Pending(m) /\ (m = k => w \notin asked[k])
    BY <1>6, <1>8
  <2>2. /\ targets[m] = {} /\ responses[m] = <<>> /\ forwarded[m] \notin Nat
        /\ \A v \in Workers : \A x \in Reports(toWorker[v]) : x.message # m
    BY <2>1 DEF CountInv, PendingWell
  <2>. QED
    BY <1>12, <1>13, <1>14, <1>16, <2>1, <2>2
<1>18. CountedWell'
  <2> SUFFICES ASSUME NEW m \in Messages
               PROVE  CountsFor(found[m], targets[m], asked'[m], responses'[m])
    BY <1>1 DEF CountedWell
  <2>1. CASE m # k
    BY <1>7, <1>16, <2>1 DEF CountInv, CountedWell
  <2>2. CASE m = k /\ w \in asked[k]
    <3>1. responses'[k] = numbers
      BY <1>1, <1>2, <1>3, <2>2
    <3>. QED
      BY <1>7, <1>10, <2>2, <3>1
  <2>3. CASE m = k /\ w \notin asked[k]
    <3>1. responses' = responses /\ asked'[k] = asked[k]
      BY <1>1, <1>7, <2>3
    <3>. QED
      BY <1>9, <2>3, <3>1
  <2>. QED
    BY <2>1, <2>2, <2>3
<1>19. AnswersWell'
  <2> SUFFICES ASSUME NEW v \in Workers, NEW x \in Reports(toWorker'[v])
               PROVE  AnswerFor(found[x.message], targets[x.message], x.data)
    BY <1>1 DEF AnswersWell
  <2>1. CASE x \in Reports(toWorker[v])
    BY <2>1 DEF CountInv, AnswersWell
  <2>2. CASE Answers /\ x = answer
    BY <1>11, <1>12, <2>2
  <2>. QED
    BY <1>13, <2>1, <2>2
<1>20. BroadcastsFind' /\ ReportsWell' /\ ForwardedWell'
  BY <1>1, <1>5 DEF CountInv, BroadcastsFind, ReportsWell, ForwardedWell
<1>. QED
  BY <1>15, <1>17, <1>18, <1>19, <1>20 DEF CountInv

-----------------------------------------------------------------------------

LEMMA CountInit == Init => CountInv
<1> SUFFICES ASSUME Init PROVE CountInv
  OBVIOUS
<1>1. /\ origin = <<>>
      /\ \A m \in Messages : /\ targets[m] = {} /\ asked[m] = {} /\ responses[m] = <<>>
                             /\ forwarded[m] = Unknown
                             /\ \A w \in Workers : found[m][w] = Unknown
      /\ \A w \in Workers : toMaster[w] = <<>> /\ toWorker[w] = <<>>
  BY DEF Init
<1>2. Reports(<<>>) = {}
  BY DEF Reports
<1>3. Unknown \notin Nat
  BY DEF Unknown
<1>4. CountedWell
  BY <1>1, CountsEmpty DEF CountedWell
<1>5. BroadcastsFind /\ AskedWell /\ PendingWell /\ ReportsWell /\ AnswersWell /\ ForwardedWell
  BY <1>1, <1>2, <1>3 DEF BroadcastsFind, AskedWell, PendingWell, ReportsWell, AnswersWell, ForwardedWell
<1>. QED
  BY <1>4, <1>5 DEF CountInv

LEMMA CountStep == TypeOK /\ TypeOK' /\ OrderInv /\ CountInv /\ [Next]_vars => CountInv'
<1> SUFFICES ASSUME TypeOK, TypeOK', OrderInv, CountInv, [Next]_vars PROVE CountInv'
  OBVIOUS
<1>1. ASSUME NEW w \in Workers,
             \/ Publish(w) \/ HandleForwardedMessage(w) \/ LoadSucceeds(w)
             \/ ReceiveAnswer(w) \/ ForwardDataSyncMessageToNodes(w) \/ ReceiveReport(w)
      PROVE  CountInv'
  BY <1>1, PublishCounts, HandleCounts, LoadCounts, ReceiveAnswerCounts, ForwardCounts, ReceiveReportCounts
<1>2. ASSUME NEW w \in Workers, BeginLoad(w) \/ LoadFails(w) \/ ResetContextManager(w)
      PROVE  CountInv'
  <2>1. UNCHANGED <<origin, broadcast, found, targets, asked, responses, forwarded, toMaster, toWorker>>
    BY <1>2 DEF BeginLoad, LoadFails, ResetContextManager, ipc, master
  <2>. QED
    BY <2>1, SilentCounts
<1>3. ASSUME NEW w \in Workers, Exit(w) PROVE CountInv'
  <2>1. /\ UNCHANGED <<origin, broadcast, found, targets, asked, responses, forwarded>>
        /\ toMaster' = [toMaster EXCEPT ![w] = <<>>]
        /\ toWorker' = [toWorker EXCEPT ![w] = <<>>]
    BY <1>3 DEF Exit, clients, master
  <2>2. /\ \A v \in Workers : toMaster'[v] = toMaster[v] \/ (v = w /\ toMaster'[v] = <<>>)
        /\ \A v \in Workers : toWorker'[v] = toWorker[v] \/ toWorker'[v] = <<>>
    BY <2>1 DEF TypeOK
  <2>. QED
    BY <2>1, <2>2, SilentCounts
<1>4. ASSUME NEW m \in Messages, ForwardTimesOut(m) \/ \E v \in Workers : QuestionTimesOut(m, v)
      PROVE  CountInv'
  BY <1>4, TimeoutCounts
<1>5. CASE UNCHANGED vars
  <2>1. UNCHANGED <<origin, broadcast, found, targets, asked, responses, forwarded, toMaster, toWorker>>
    BY <1>5 DEF vars, ipc, clients, master
  <2>2. CountInv' <=> CountInv
    BY <2>1 DEF CountInv, BroadcastsFind, AskedWell, PendingWell, ReportsWell, CountedWell,
                AnswersWell, ForwardedWell, Pending, Published
  <2>. QED
    BY <2>2
<1>. QED
  BY <1>1, <1>2, <1>3, <1>4, <1>5 DEF Next

(* Every publisher that is told a number of recipients is told the sum of   *)
(* what its own broadcast and that of every worker the master asked found,  *)
(* for any number of workers, whoever dies and whatever times out           *)
(* (ForwardDataSyncMessageToNodes, getRecipientCount).                      *)
THEOREM AnswersAreComplete == Spec => []AnswerCountsEveryone
<1>1. ASSUME TypeOK, CountInv PROVE AnswerCountsEveryone
  <2> SUFFICES ASSUME NEW m \in Messages, Answered(m)
               PROVE  /\ \A w \in targets[m] \cup {origin[m]} : found[m][w] # Unknown
                      /\ GetRecipientCount(m) = Total(found[m], targets[m] \cup {origin[m]})
    BY DEF AnswerCountsEveryone
  <2> DEFINE f == found[m]
             T == targets[m]
             o == origin[m]
  <2>1. /\ Published(m) /\ f[o] # Unknown /\ forwarded[m] \notin {Unknown, Lost}
        /\ GetRecipientCount(m) = f[o] + forwarded[m]
    BY DEF Answered, GetRecipientCount
  <2>2. f \in Numbers /\ T \in SUBSET Workers /\ forwarded[m] \in Nat
    BY <1>1, <2>1 DEF TypeOK, Numbers
  <2>3. o \in Workers
    <3>1. m \in 1..Len(origin) /\ origin \in Seq(Workers)
      BY <1>1, <2>1, BoundsAssumption DEF Published, Messages, TypeOK
    <3>. QED
      BY <3>1
  <2>4. AnswerFor(f, T, forwarded[m]) /\ o \notin T
    BY <1>1, <2>1, <2>2 DEF CountInv, ForwardedWell, AskedWell
  <2> HIDE DEF f, T, o
  <2>5. IsFiniteSet(T) /\ Integral(f, T \cup {o})
    BY <2>2, <2>3, KnownNumbers
  <2>6. IsSum(Total(f, T \cup {o}), Total(f, T), f[o])
    BY <2>4, <2>5, TotalPlus
  <2>7. f[o] \in Int
    BY <2>5 DEF Integral
  <2>8. GetRecipientCount(m) = Total(f, T \cup {o})
    BY <2>1, <2>2, <2>4, <2>6, <2>7 DEF IsSum, AnswerFor
  <2>9. \A w \in T \cup {o} : f[w] # Unknown
    BY <2>1, <2>4 DEF AnswerFor
  <2>. QED
    BY <2>8, <2>9 DEF f, T, o
<1>. QED
  BY <1>1, TypeInit, TypeStep, OrderInit, OrderStep, CountInit, CountStep, PTL DEF Spec
=============================================================================
