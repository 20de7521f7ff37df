------------------------------ MODULE Induction ------------------------------
(***************************************************************************)
(* Induction without a predicate as a parameter: over the set of numbers   *)
(* that have a property, which rests on the well-foundedness of <.  What   *)
(* it gives for recursive functions on 1 .. n, for FlattenSeq, and for the *)
(* sequence of a finite set's numbers in their order.  Two facts of        *)
(* arithmetic that the proofs need, and the theory of Digits.              *)
(***************************************************************************)
EXTENDS Digits, Integers, Sequences, FiniteSets, SequencesExt, SequenceTheorems, FiniteSetTheorems,
        WellFoundedInduction, TLAPS

\* Every set of naturals that is not empty has a least member.
LEMMA LeastNumber ==
  ASSUME NEW T \in SUBSET Nat, T # {}
  PROVE  \E n \in T : \A m \in T : n <= m
<1>1. \A x, y \in Nat : <<x, y>> \in OpToRel(<, Nat) <=> x < y
  BY DEF OpToRel
<1>2. PICK n \in T : \A m \in T : ~(<<m, n>> \in OpToRel(<, Nat))
  BY NatLessThanWellFounded, WFMin
<1>3. \A m \in T : m \in Nat /\ n \in Nat /\ ~(m < n)
  BY <1>1, <1>2
<1>4. \A m \in T : n <= m
  BY <1>3
<1> QED
  BY <1>4

\* A set that holds a number and with each number up to a bound the next one holds
\* all of them up to the bound.
LEMMA Induction ==
  ASSUME NEW S, NEW a \in Int, NEW b \in Int, a \in S,
         \A i \in a .. (b - 1) : i \in S => i + 1 \in S
  PROVE  a .. b \subseteq S
<1> DEFINE T == {k \in Nat : a + k <= b /\ a + k \notin S}
<1> SUFFICES ASSUME T # {} PROVE FALSE
  <2> SUFFICES ASSUME NEW i \in a .. b, i \notin S PROVE T # {}
    OBVIOUS
  <2>1. i - a \in Nat /\ a + (i - a) = i /\ i <= b
    OBVIOUS
  <2> QED
    BY <2>1
<1>1. PICK k \in T : \A l \in T : k <= l
  BY LeastNumber
<1>2. k \in Nat /\ a + k <= b /\ a + k \notin S
  BY <1>1
<1>3. k # 0
  <2>1. k = 0 => a + k = a
    OBVIOUS
  <2> QED
    BY <1>2, <2>1
<1>4. k - 1 \in Nat /\ ~(k <= k - 1) /\ a + (k - 1) \in a .. (b - 1) /\ (a + (k - 1)) + 1 = a + k
  BY <1>2, <1>3
<1>5. k - 1 \notin T
  BY <1>1, <1>4
<1>6. a + (k - 1) <= b
  BY <1>4
<1>7. a + (k - 1) \in S
  BY <1>4, <1>5, <1>6
<1> QED
  BY <1>2, <1>4, <1>7

\* A function on 1 .. n that is made step by step, from its value before and i.
Steps(S, n) == [S \X (1 .. n) -> S]
MadeBy(f, n, first, step) ==
    \A i \in 1 .. n : f[i] = IF i = 1 THEN first ELSE step[<<f[i - 1], i>>]

\* There is such a function for any first value and any steps.
LEMMA Recursion ==
  ASSUME NEW S, NEW n \in Nat, NEW first \in S, NEW step \in Steps(S, n)
  PROVE  \E f \in [1 .. n -> S] : MadeBy(f, n, first, step)
<1> USE DEF Steps, MadeBy
<1> DEFINE Fits(k, f) == \A i \in 1 .. k : f[i] = IF i = 1 THEN first ELSE step[<<f[i - 1], i>>]
           Done == {k \in 0 .. n : \E f \in [1 .. k -> S] : Fits(k, f)}
<1>1. 0 \in Done
  <2>1. Fits(0, [i \in 1 .. 0 |-> first]) /\ [i \in 1 .. 0 |-> first] \in [1 .. 0 -> S]
    OBVIOUS
  <2>2. 0 \in 0 .. n
    OBVIOUS
  <2> HIDE DEF Fits
  <2>3. \E f \in [1 .. 0 -> S] : Fits(0, f)
    BY <2>1
  <2> QED
    BY <2>2, <2>3
<1>2. ASSUME NEW k \in 0 .. (n - 1), k \in Done
      PROVE  k + 1 \in Done
  <2>1. PICK f \in [1 .. k -> S] : Fits(k, f)
    BY <1>2
  <2> DEFINE next == IF k = 0 THEN first ELSE step[<<f[k], k + 1>>]
             g == [i \in 1 .. (k + 1) |-> IF i = k + 1 THEN next ELSE f[i]]
  <2>2. next \in S
    BY <1>2
  <2>3. g \in [1 .. (k + 1) -> S] /\ g[k + 1] = next /\ \A i \in 1 .. k : g[i] = f[i]
    <3>1. \A i \in 1 .. (k + 1) : i = k + 1 \/ i \in 1 .. k
      OBVIOUS
    <3> HIDE DEF next
    <3>2. \A i \in 1 .. k : i \in 1 .. (k + 1) /\ i # k + 1
      OBVIOUS
    <3>3. k + 1 \in 1 .. (k + 1)
      OBVIOUS
    <3> QED
      BY <2>2, <3>1, <3>2, <3>3
  <2> HIDE DEF g
  <2>4. Fits(k + 1, g)
    <3> SUFFICES ASSUME NEW i \in 1 .. (k + 1)
                 PROVE  g[i] = IF i = 1 THEN first ELSE step[<<g[i - 1], i>>]
      OBVIOUS
    <3>1. CASE i = k + 1
      <4>1. CASE k = 0
        BY <2>3, <3>1, <4>1
      <4>2. CASE k # 0
        <5>1. g[k] = f[k] /\ i # 1 /\ i - 1 = k
          BY <2>3, <3>1, <4>2
        <5> QED
          BY <2>3, <3>1, <4>2, <5>1
      <4> QED
        BY <4>1, <4>2
    <3>2. CASE i # k + 1
      <4>1. i \in 1 .. k /\ (i # 1 => i - 1 \in 1 .. k)
        BY <3>2
      <4>2. g[i] = f[i] /\ (i # 1 => g[i - 1] = f[i - 1])
        BY <2>3, <4>1
      <4> QED
        BY <2>1, <4>1, <4>2
    <3> QED
      BY <3>1, <3>2
  <2>5. k + 1 \in 0 .. n
    BY <1>2
  <2> HIDE DEF Fits
  <2> QED
    BY <2>3, <2>4, <2>5
<1> HIDE DEF Done
<1>3. 0 .. n \subseteq Done
  BY <1>1, <1>2, Induction
<1> USE DEF Done
<1>4. n \in Done
  BY <1>3
<1> QED
  BY <1>4

\* The concatenation of a sequence of sequences, step by step.
LEMMA FlattenFacts ==
  ASSUME NEW T, NEW seqs \in Seq(Seq(T)), Len(seqs) > 0
  PROVE  \E f \in [1 .. Len(seqs) -> Seq(T)] :
            /\ f[1] = seqs[1]
            /\ \A i \in 2 .. Len(seqs) : f[i] = f[i - 1] \o seqs[i]
            /\ FlattenSeq(seqs) = f[Len(seqs)]
<1> DEFINE n == Len(seqs)
           S == Seq(T)
           first == seqs[1]
           step == [p \in S \X (1 .. n) |-> p[1] \o seqs[p[2]]]
           flatten == CHOOSE g : g = [i \in 1 .. n |-> IF i = 1 THEN seqs[i] ELSE g[i - 1] \o seqs[i]]
<1>1. n \in Nat /\ 1 \in 1 .. n /\ \A i \in 1 .. n : seqs[i] \in S
  OBVIOUS
<1>2. step \in Steps(S, n)
  <2>1. ASSUME NEW p \in S \X (1 .. n)
        PROVE  p[1] \o seqs[p[2]] \in S
    BY <1>1, ConcatProperties
  <2> QED
    BY <2>1 DEF Steps
<1>3. \A v \in S, i \in 1 .. n : step[<<v, i>>] = v \o seqs[i]
  OBVIOUS
<1>a. n \in Nat /\ first \in S
  BY <1>1
<1> HIDE DEF n, S, step, first
<1>4. PICK f \in [1 .. n -> S] : MadeBy(f, n, first, step)
  BY <1>a, <1>2, Recursion
<1>5. \A i \in 1 .. n : f[i] = IF i = 1 THEN seqs[i] ELSE f[i - 1] \o seqs[i]
  <2> SUFFICES ASSUME NEW i \in 1 .. n
               PROVE  f[i] = IF i = 1 THEN seqs[i] ELSE f[i - 1] \o seqs[i]
    OBVIOUS
  <2>1. CASE i = 1
    BY <1>4, <2>1 DEF first, MadeBy
  <2>2. CASE i # 1
    <3>1. i - 1 \in 1 .. n
      BY <1>1, <2>2
    <3>2. f[i - 1] \in S
      BY <3>1
    <3> QED
      BY <1>3, <1>4, <2>2, <3>2 DEF MadeBy
  <2> QED
    BY <2>1, <2>2
<1>6. f = [i \in 1 .. n |-> IF i = 1 THEN seqs[i] ELSE f[i - 1] \o seqs[i]]
  BY <1>5
<1>7. flatten = [i \in 1 .. n |-> IF i = 1 THEN seqs[i] ELSE flatten[i - 1] \o seqs[i]]
  BY <1>6
<1>8. FlattenSeq(seqs) = flatten[n]
  BY <1>1 DEF FlattenSeq, n
<1> HIDE DEF flatten
<1>9. \A i \in 1 .. n : flatten[i] = IF i = 1 THEN seqs[i] ELSE flatten[i - 1] \o seqs[i]
  BY <1>7
<1> DEFINE Typed == {i \in 1 .. n : flatten[i] \in S}
<1>10. 1 .. n \subseteq Typed
  <2>1. 1 \in Typed
    BY <1>1, <1>9
  <2>2. ASSUME NEW i \in 1 .. (n - 1), i \in Typed
        PROVE  i + 1 \in Typed
    <3>1. i + 1 \in 1 .. n /\ i + 1 # 1 /\ (i + 1) - 1 = i
      BY <1>1
    <3>2. flatten[i + 1] = flatten[i] \o seqs[i + 1]
      BY <1>9, <3>1
    <3>3. flatten[i] \in Seq(T) /\ seqs[i + 1] \in Seq(T)
      BY <1>1, <2>2, <3>1 DEF S
    <3>4. flatten[i] \o seqs[i + 1] \in Seq(T)
      BY <3>3, ConcatProperties
    <3> QED
      BY <3>1, <3>2, <3>4 DEF S
  <2>3. 1 \in Int /\ n \in Int
    BY <1>1
  <2> HIDE DEF Typed
  <2> QED
    BY <2>1, <2>2, <2>3, Induction
<1>11. flatten \in [1 .. n -> S]
  BY <1>7, <1>10
<1>12. flatten[1] = seqs[1] /\ \A i \in 2 .. n : flatten[i] = flatten[i - 1] \o seqs[i]
  <2>1. \A i \in 2 .. n : i \in 1 .. n /\ i # 1
    OBVIOUS
  <2> QED
    BY <1>1, <1>9, <2>1
<1> QED
  BY <1>8, <1>11, <1>12 DEF n, S

\* A sequence of numbers, each larger than the one before.
Ascends(s) == \A i, j \in DOMAIN s : i < j => s[i] < s[j]

\* The numbers of a finite set can be put in their order.
LEMMA OrderExists ==
  ASSUME NEW N \in SUBSET Nat, IsFiniteSet(N)
  PROVE  \E s \in [1 .. Cardinality(N) -> N] : Ascends(s)
<1> DEFINE Sized(k) == {S \in SUBSET Nat : IsFiniteSet(S) /\ Cardinality(S) = k}
           Ordered(k) == \A S \in Sized(k) : \E s \in [1 .. k -> S] : Ascends(s)
           n == Cardinality(N)
           Done == {k \in 0 .. n : Ordered(k)}
<1>1. n \in Nat
  BY FS_CardinalityType
<1>2. 0 \in Done
  <2>1. ASSUME NEW S \in Sized(0)
        PROVE  \E s \in [1 .. 0 -> S] : Ascends(s)
    <3> DEFINE s == [i \in 1 .. 0 |-> 0]
    <3>1. s \in [1 .. 0 -> S] /\ Ascends(s)
      BY DEF Ascends
    <3> QED
      BY <3>1
  <2>2. 0 \in 0 .. n
    BY <1>1
  <2> QED
    BY <2>1, <2>2
<1>3. ASSUME NEW k \in 0 .. (n - 1), k \in Done
      PROVE  k + 1 \in Done
  <2>1. k \in Nat /\ k + 1 \in 0 .. n /\ k + 1 # 0
    BY <1>1
  <2>2. ASSUME NEW S \in Sized(k + 1)
        PROVE  \E s \in [1 .. (k + 1) -> S] : Ascends(s)
    <3>1. S # {}
      BY <2>1, FS_EmptySet
    <3>2. PICK m \in S : \A l \in S : m <= l
      BY <3>1, LeastNumber
    <3> DEFINE T == S \ {m}
    <3>3. T \in Sized(k)
      <4>1. IsFiniteSet(T) /\ Cardinality(T) = Cardinality(S) - 1
        BY FS_RemoveElement
      <4>2. Cardinality(T) = k
        BY <2>1, <4>1
      <4> QED
        BY <4>1, <4>2
    <3>4. PICK t \in [1 .. k -> T] : Ascends(t)
      BY <1>3, <3>3
    <3> DEFINE s == [i \in 1 .. (k + 1) |-> IF i = 1 THEN m ELSE t[i - 1]]
    <3>5. \A i \in 1 .. (k + 1) : i # 1 => i - 1 \in 1 .. k
      BY <2>1
    <3>6. s \in [1 .. (k + 1) -> S]
      BY <3>4, <3>5
    <3>7. \A i \in 1 .. k : t[i] \in Nat /\ m \in Nat /\ m < t[i]
      <4>1. \A l \in T : l \in Nat /\ m \in Nat /\ m <= l /\ m # l
        BY <3>2
      <4>2. \A l \in T : l \in Nat /\ m \in Nat /\ m < l
        BY <4>1
      <4> HIDE DEF T
      <4> QED
        BY <3>4, <4>2
    <3>8. Ascends(s)
      <4> SUFFICES ASSUME NEW i \in 1 .. (k + 1), NEW j \in 1 .. (k + 1), i < j
                   PROVE  s[i] < s[j]
        BY DEF Ascends
      <4>1. j # 1 /\ s[j] = t[j - 1] /\ j - 1 \in 1 .. k
        BY <3>5, <2>1
      <4>2. CASE i = 1
        BY <3>7, <4>1, <4>2
      <4>3. CASE i # 1
        <5>1. s[i] = t[i - 1] /\ i - 1 \in 1 .. k /\ i - 1 < j - 1
          BY <3>5, <2>1, <4>3
        <5> QED
          BY <3>4, <4>1, <5>1 DEF Ascends
      <4> QED
        BY <4>2, <4>3
    <3> HIDE DEF s
    <3> QED
      BY <3>6, <3>8
  <2> HIDE DEF Sized
  <2> QED
    BY <2>1, <2>2
<1>4. 0 .. n \subseteq Done
  <2>1. 0 \in Int /\ n \in Int
    BY <1>1
  <2> HIDE DEF Done, n
  <2> QED
    BY <1>2, <1>3, <2>1, Induction
<1>5. n \in Done /\ N \in Sized(n)
  BY <1>1, <1>4
<1> QED
  BY <1>5

\* Such a sequence has all of the set's numbers.
LEMMA OrderIsComplete ==
  ASSUME NEW N \in SUBSET Nat, IsFiniteSet(N),
         NEW s \in [1 .. Cardinality(N) -> N], Ascends(s)
  PROVE  \A m \in N : \E i \in DOMAIN s : s[i] = m
<1> DEFINE n == Cardinality(N)
<1>1. n \in Nat
  BY FS_CardinalityType
<1>2. IsFiniteSet(1 .. n) /\ Cardinality(1 .. n) = n
  <2>1. 1 \in Int /\ n \in Int
    BY <1>1
  <2>2. IsFiniteSet(1 .. n) /\ Cardinality(1 .. n) = IF 1 > n THEN 0 ELSE n - 1 + 1
    BY <2>1, FS_Interval
  <2> QED
    BY <1>1, <2>2
<1>3. s \in Injection(1 .. n, N)
  <2>1. ASSUME NEW i \in 1 .. n, NEW j \in 1 .. n, s[i] = s[j]
        PROVE  i = j
    <3>1. s[i] \in Nat /\ s[j] \in Nat
      OBVIOUS
    <3>2. ~(i < j) /\ ~(j < i)
      BY <2>1, <3>1 DEF Ascends
    <3> QED
      BY <3>2
  <2> QED
    BY <2>1 DEF Injection, IsInjective
<1>4. s \in Surjection(1 .. n, N)
  BY <1>2, <1>3, FS_Injection
<1> QED
  BY <1>4 DEF Surjection
-----------------------------------------------------------------------------
\* What a quotient is.
LEMMA QuotientFacts ==
  ASSUME NEW a \in Nat, NEW p \in Nat \ {0}
  PROVE  /\ a \div p \in Nat
         /\ p * (a \div p) <= a
         /\ a < p * (a \div p) + p
  OBVIOUS

\* Multiples are ordered as their factors.
LEMMA MultipleFacts ==
  ASSUME NEW a \in Int, NEW b \in Int, NEW p \in Nat \ {0}
  PROVE  /\ a * p \in Int
         /\ a * p < b * p + p => a <= b
         /\ a <= b => a * p <= b * p
  OBVIOUS

\* How many numbers there are.
LEMMA UpTo ==
  ASSUME NEW n \in Nat
  PROVE  IsFiniteSet(1 .. n) /\ Cardinality(1 .. n) = n
BY FS_Interval
-----------------------------------------------------------------------------
(* Numbers and digits.                                                     *)

\* A function on 0 .. n that is made step by step from its value at 0.
GrownBy(f, n, first, step) == f[0] = first /\ \A i \in 1 .. n : f[i] = step[<<f[i - 1], i>>]

LEMMA Accumulation ==
  ASSUME NEW S, NEW n \in Nat, NEW first \in S, NEW step \in [S \X (1 .. n) -> S]
  PROVE  \E f \in [0 .. n -> S] : GrownBy(f, n, first, step)
<1> DEFINE more == [p \in S \X (1 .. (n + 1)) |-> IF p[2] = 1 THEN first ELSE step[<<p[1], p[2] - 1>>]]
<1>1. more \in Steps(S, n + 1)
  <2>1. ASSUME NEW p \in S \X (1 .. (n + 1))
        PROVE  (IF p[2] = 1 THEN first ELSE step[<<p[1], p[2] - 1>>]) \in S
    <3>1. p[1] \in S /\ p[2] \in 1 .. (n + 1) /\ (p[2] # 1 => p[2] - 1 \in 1 .. n)
      OBVIOUS
    <3>2. p[2] # 1 => <<p[1], p[2] - 1>> \in S \X (1 .. n)
      BY <3>1
    <3> QED
      BY <3>2
  <2> QED
    BY <2>1 DEF Steps
<1>2. \A v \in S, i \in 1 .. (n + 1) :
         more[<<v, i>>] = IF i = 1 THEN first ELSE step[<<v, i - 1>>]
  OBVIOUS
<1> HIDE DEF more
<1>3. PICK h \in [1 .. (n + 1) -> S] : MadeBy(h, n + 1, first, more)
  <2>1. n + 1 \in Nat
    OBVIOUS
  <2> QED
    BY <1>1, <2>1, Recursion
<1> DEFINE g == [i \in 0 .. n |-> h[i + 1]]
<1>4. g \in [0 .. n -> S] /\ g[0] = h[1] /\ \A i \in 1 .. n : g[i] = h[i + 1] /\ g[i - 1] = h[i]
  <2>1. \A i \in 0 .. n : i + 1 \in 1 .. (n + 1)
    OBVIOUS
  <2>2. \A i \in 1 .. n : i \in 0 .. n /\ i - 1 \in 0 .. n /\ (i - 1) + 1 = i
    OBVIOUS
  <2>3. 0 \in 0 .. n /\ 0 + 1 = 1
    OBVIOUS
  <2>4. \A i \in 0 .. n : g[i] = h[i + 1]
    OBVIOUS
  <2>5. g \in [0 .. n -> S]
    BY <2>1
  <2> HIDE DEF g
  <2> QED
    BY <2>2, <2>3, <2>4, <2>5
<1>5. h[1] = first
  <2>1. 1 \in 1 .. (n + 1)
    OBVIOUS
  <2> QED
    BY <1>3, <2>1 DEF MadeBy
<1>6. ASSUME NEW i \in 1 .. n
      PROVE  g[i] = step[<<g[i - 1], i>>]
  <2>1. i \in 1 .. (n + 1) /\ i + 1 \in 1 .. (n + 1) /\ (i + 1) - 1 = i /\ i + 1 # 1
    OBVIOUS
  <2>2. h[i] \in S
    BY <2>1
  <2>3. h[i + 1] = more[<<h[i], i + 1>>]
    BY <1>3, <2>1 DEF MadeBy
  <2>4. h[i + 1] = step[<<h[i], i>>]
    BY <1>2, <2>1, <2>2, <2>3
  <2> HIDE DEF g
  <2> QED
    BY <1>4, <2>4
<1> HIDE DEF g
<1> QED
  BY <1>4, <1>5, <1>6 DEF GrownBy

\* Two such functions with the same steps agree as far as both go.
LEMMA SameSteps ==
  ASSUME NEW n \in Nat, NEW f, NEW g, f[0] = g[0],
         \A i \in 1 .. n : f[i - 1] = g[i - 1] => f[i] = g[i]
  PROVE  f[n] = g[n]
<1> DEFINE T == {i \in 0 .. n : f[i] = g[i]}
<1>1. 0 \in T
  OBVIOUS
<1>2. ASSUME NEW i \in 0 .. (n - 1), i \in T
      PROVE  i + 1 \in T
  <2>1. i + 1 \in 1 .. n /\ (i + 1) - 1 = i
    OBVIOUS
  <2> QED
    BY <1>2, <2>1
<1> HIDE DEF T
<1>3. 0 .. n \subseteq T
  BY <1>1, <1>2, Induction
<1> QED
  BY <1>3 DEF T

LEMMA PowerFacts ==
  ASSUME NEW b \in Nat \ {0}, NEW n \in Nat
  PROVE  /\ Power(b, 0) = 1
         /\ Power(b, n) \in Nat \ {0}
         /\ Power(b, n + 1) = Power(b, n) * b
<1> DEFINE S == Nat \ {0}
           Made(f, k) == f = [i \in 0 .. k |-> IF i = 0 THEN 1 ELSE f[i - 1] * b]
           Fits(f, k) == f[0] = 1 /\ \A i \in 1 .. k : f[i] = f[i - 1] * b
<1>1. ASSUME NEW k \in Nat
      PROVE  \E f \in [0 .. k -> S] : Fits(f, k)
  <2> DEFINE step == [p \in S \X (1 .. k) |-> p[1] * b]
  <2>1. \A m \in S : m * b \in S
    OBVIOUS
  <2>2. step \in [S \X (1 .. k) -> S] /\ 1 \in S /\ k \in Nat
    BY <2>1
  <2>3. \A v \in S, i \in 1 .. k : step[<<v, i>>] = v * b
    OBVIOUS
  <2> HIDE DEF step, S, Made, Fits
  <2>4. PICK f \in [0 .. k -> S] : GrownBy(f, k, 1, step)
    BY <2>2, Accumulation
  <2>5. \A i \in 1 .. k : f[i - 1] \in S
    <3>1. \A i \in 1 .. k : i - 1 \in 0 .. k
      OBVIOUS
    <3> QED
      BY <2>4, <3>1
  <2>6. Fits(f, k)
    BY <2>3, <2>4, <2>5 DEF Fits, GrownBy
  <2> QED
    BY <2>6
<1>2. ASSUME NEW k \in Nat, NEW f \in [0 .. k -> S], Fits(f, k)
      PROVE  Power(b, k) = f[k]
  <2> DEFINE g == CHOOSE h : Made(h, k)
  <2>1. Made(f, k)
    <3>1. \A i \in 0 .. k : f[i] = IF i = 0 THEN 1 ELSE f[i - 1] * b
      BY <1>2
    <3> QED
      BY <3>1
  <2>2. Made(g, k)
    BY <2>1
  <2>3. Power(b, k) = g[k]
    BY DEF Power
  <2> HIDE DEF g
  <2>4. \A i \in 0 .. k : g[i] = IF i = 0 THEN 1 ELSE g[i - 1] * b
    BY <2>2
  <2>5. g[0] = f[0] /\ \A i \in 1 .. k : g[i - 1] = f[i - 1] => g[i] = f[i]
    <3>1. 0 \in 0 .. k /\ \A i \in 1 .. k : i \in 0 .. k /\ i # 0
      OBVIOUS
    <3>2. g[0] = f[0]
      BY <1>2, <2>4, <3>1
    <3>3. ASSUME NEW i \in 1 .. k, g[i - 1] = f[i - 1]
          PROVE  g[i] = f[i]
      BY <1>2, <2>4, <3>1, <3>3
    <3> QED
      BY <3>2, <3>3
  <2>6. g[k] = f[k]
    BY <2>5, SameSteps
  <2> QED
    BY <2>3, <2>6
<1>3. PICK f \in [0 .. (n + 1) -> S] : Fits(f, n + 1)
  <2>1. n + 1 \in Nat
    OBVIOUS
  <2> HIDE DEF Fits, S
  <2> QED
    BY <1>1, <2>1
<1> DEFINE less(k) == [i \in 0 .. k |-> f[i]]
<1>4. ASSUME NEW k \in 0 .. (n + 1)
      PROVE  Power(b, k) = f[k]
  <2>1. less(k) \in [0 .. k -> S] /\ less(k)[k] = f[k] /\ k \in Nat
    OBVIOUS
  <2>2. Fits(less(k), k)
    <3>1. \A i \in 1 .. k : i \in 1 .. (n + 1) /\ i - 1 \in 0 .. k /\ i \in 0 .. k
      OBVIOUS
    <3> QED
      BY <1>3, <3>1
  <2> HIDE DEF less, Fits, S
  <2> QED
    BY <1>2, <2>1, <2>2
<1>5. Power(b, 0) = f[0] /\ Power(b, n) = f[n] /\ Power(b, n + 1) = f[n + 1]
  BY <1>4
<1>6. f[0] = 1 /\ f[n + 1] = f[n] * b /\ f[n] \in S
  BY <1>3
<1> QED
  BY <1>5, <1>6

\* The number without its last digit.
Firsts(d, n) == [i \in 1 .. n |-> d[i]]

LEMMA ValueFacts ==
  ASSUME NEW b \in Nat, NEW n \in Nat, NEW d \in [1 .. n -> Nat]
  PROVE  /\ ValueOf(d, b) \in Nat
         /\ n = 0 => ValueOf(d, b) = 0
         /\ n > 0 => ValueOf(d, b) = ValueOf(Firsts(d, n - 1), b) * b + d[n]
<1> DEFINE Made(f, e, k) == f = [i \in 0 .. k |-> IF i = 0 THEN 0 ELSE f[i - 1] * b + e[i]]
           Fits(f, e, k) == f[0] = 0 /\ \A i \in 1 .. k : f[i] = f[i - 1] * b + e[i]
<1>1. \E f \in [0 .. n -> Nat] : Fits(f, d, n)
  <2> DEFINE step == [p \in Nat \X (1 .. n) |-> p[1] * b + d[p[2]]]
  <2>1. \A m \in Nat, i \in 1 .. n : m * b + d[i] \in Nat
    OBVIOUS
  <2>2. step \in [Nat \X (1 .. n) -> Nat] /\ 0 \in Nat /\ n \in Nat
    BY <2>1
  <2>3. \A v \in Nat, i \in 1 .. n : step[<<v, i>>] = v * b + d[i]
    OBVIOUS
  <2> HIDE DEF step, Made, Fits
  <2>4. PICK f \in [0 .. n -> Nat] : GrownBy(f, n, 0, step)
    BY <2>2, Accumulation
  <2>5. \A i \in 1 .. n : f[i - 1] \in Nat
    <3>1. \A i \in 1 .. n : i - 1 \in 0 .. n
      OBVIOUS
    <3> QED
      BY <2>4, <3>1
  <2>6. Fits(f, d, n)
    BY <2>3, <2>4, <2>5 DEF Fits, GrownBy
  <2> QED
    BY <2>6
<1>2. ASSUME NEW k \in Nat, NEW e \in [1 .. k -> Nat], NEW f \in [0 .. k -> Nat], Fits(f, e, k)
      PROVE  ValueOf(e, b) = f[k]
  <2> DEFINE g == CHOOSE h : Made(h, e, k)
  <2>0. Len(e) = k
    OBVIOUS
  <2>1. Made(f, e, k)
    <3>1. \A i \in 0 .. k : f[i] = IF i = 0 THEN 0 ELSE f[i - 1] * b + e[i]
      BY <1>2
    <3> QED
      BY <3>1
  <2>2. Made(g, e, k)
    BY <2>1
  <2>3. ValueOf(e, b) = g[k]
    BY <2>0 DEF ValueOf
  <2> HIDE DEF g
  <2>4. \A i \in 0 .. k : g[i] = IF i = 0 THEN 0 ELSE g[i - 1] * b + e[i]
    BY <2>2
  <2>5. g[0] = f[0] /\ \A i \in 1 .. k : g[i - 1] = f[i - 1] => g[i] = f[i]
    <3>1. 0 \in 0 .. k /\ \A i \in 1 .. k : i \in 0 .. k /\ i # 0
      OBVIOUS
    <3>2. g[0] = f[0]
      BY <1>2, <2>4, <3>1
    <3>3. ASSUME NEW i \in 1 .. k, g[i - 1] = f[i - 1]
          PROVE  g[i] = f[i]
      BY <1>2, <2>4, <3>1, <3>3
    <3> QED
      BY <3>2, <3>3
  <2>6. g[k] = f[k]
    BY <2>5, SameSteps
  <2> QED
    BY <2>3, <2>6
<1>3. PICK f \in [0 .. n -> Nat] : Fits(f, d, n)
  BY <1>1
<1>4. ValueOf(d, b) = f[n]
  BY <1>2, <1>3
<1>5. ASSUME n > 0
      PROVE  ValueOf(Firsts(d, n - 1), b) = f[n - 1]
  <2> DEFINE less == [i \in 0 .. (n - 1) |-> f[i]]
             e == Firsts(d, n - 1)
  <2>1. n - 1 \in Nat /\ less \in [0 .. (n - 1) -> Nat] /\ e \in [1 .. (n - 1) -> Nat]
        /\ less[n - 1] = f[n - 1]
    BY <1>5 DEF Firsts
  <2>2. Fits(less, e, n - 1)
    <3>1. 0 \in 0 .. (n - 1) /\ \A i \in 1 .. (n - 1) :
             i \in 1 .. n /\ i - 1 \in 0 .. (n - 1) /\ i \in 0 .. (n - 1) /\ e[i] = d[i]
      BY <1>5 DEF Firsts
    <3>2. \A i \in 0 .. (n - 1) : less[i] = f[i]
      OBVIOUS
    <3> HIDE DEF less, e
    <3>3. less[0] = 0
      BY <1>3, <3>1, <3>2
    <3>4. ASSUME NEW i \in 1 .. (n - 1)
          PROVE  less[i] = less[i - 1] * b + e[i]
      BY <1>3, <3>1, <3>2
    <3> QED
      BY <3>3, <3>4
  <2> HIDE DEF less, e, Fits
  <2>3. ValueOf(e, b) = less[n - 1]
    BY <1>2, <2>1, <2>2
  <2> QED
    BY <2>1, <2>3 DEF e
<1>6. f[n] \in Nat /\ (n = 0 => f[n] = 0) /\ (n > 0 => f[n] = f[n - 1] * b + d[n])
  BY <1>3
<1> QED
  BY <1>4, <1>5, <1>6

\* Products of naturals.
LEMMA ProductFacts ==
  ASSUME NEW v \in Nat, NEW w \in Nat, NEW b \in Nat \ {0}
  PROVE  /\ v * b \in Nat
         /\ v <= w => v * b <= w * b
         /\ v < w => \A x \in 0 .. (b - 1) : v * b + x < w * b
         /\ \A x, y \in 0 .. (b - 1) : v * b + x = w * b + y => v = w /\ x = y
  OBVIOUS

LEMMA PowerOrder ==
  ASSUME NEW b \in Nat \ {0}, NEW m \in Nat, NEW n \in Nat, m <= n
  PROVE  Power(b, m) <= Power(b, n)
<1> DEFINE T == {k \in m .. n : Power(b, m) <= Power(b, k)}
<1>1. m \in T
  BY PowerFacts
<1>2. ASSUME NEW k \in m .. (n - 1), k \in T
      PROVE  k + 1 \in T
  <2>1. k \in Nat /\ k + 1 \in m .. n
    OBVIOUS
  <2>2. Power(b, k) \in Nat /\ Power(b, m) \in Nat /\ Power(b, k + 1) = Power(b, k) * b
    BY <2>1, PowerFacts
  <2>3. \A p \in Nat : p <= p * b
    OBVIOUS
  <2>4. Power(b, m) <= Power(b, k)
    BY <1>2
  <2>5. Power(b, k) * b \in Nat
    BY <2>2
  <2>6. Power(b, m) <= Power(b, k + 1)
    BY <2>2, <2>3, <2>4, <2>5
  <2> QED
    BY <2>1, <2>6
<1> HIDE DEF T
<1>3. m .. n \subseteq T
  BY <1>1, <1>2, Induction
<1> QED
  BY <1>3 DEF T

\* A number between two powers.
LEMMA Exponents ==
  ASSUME NEW b \in Nat \ {0}, NEW m \in Nat, NEW n \in Nat, Power(b, m) < Power(b, n)
  PROVE  m < n
<1> SUFFICES ASSUME n <= m PROVE FALSE
  OBVIOUS
<1>1. Power(b, n) <= Power(b, m) /\ Power(b, n) \in Nat /\ Power(b, m) \in Nat
  BY PowerOrder, PowerFacts
<1> QED
  BY <1>1

LEMMA PowerBases ==
  ASSUME NEW b \in Nat \ {0}, NEW c \in Nat \ {0}, b <= c, NEW n \in Nat
  PROVE  Power(b, n) <= Power(c, n)
<1> DEFINE T == {k \in 0 .. n : Power(b, k) <= Power(c, k)}
<1>1. 0 \in T
  BY PowerFacts
<1>2. ASSUME NEW k \in 0 .. (n - 1), k \in T
      PROVE  k + 1 \in T
  <2>1. k \in Nat /\ k + 1 \in 0 .. n /\ Power(b, k) <= Power(c, k)
    BY <1>2
  <2>2. /\ Power(b, k) \in Nat /\ Power(b, k + 1) = Power(b, k) * b
        /\ Power(c, k) \in Nat /\ Power(c, k + 1) = Power(c, k) * c
    BY <2>1, PowerFacts
  <2>3. \A p, q \in Nat : p <= q => p * b <= q * c
    <3> SUFFICES ASSUME NEW p \in Nat, NEW q \in Nat, p <= q
                 PROVE  p * b <= q * c
      OBVIOUS
    <3>1. p * b <= q * b
      BY ProductFacts
    <3>2. q * b <= q * c
      OBVIOUS
    <3>3. p * b \in Nat /\ q * b \in Nat /\ q * c \in Nat
      OBVIOUS
    <3> QED
      BY <3>1, <3>2, <3>3
  <2> QED
    BY <2>1, <2>2, <2>3
<1> HIDE DEF T
<1>3. 0 .. n \subseteq T
  BY <1>1, <1>2, Induction
<1> QED
  BY <1>3 DEF T

LEMMA PowerSquare ==
  ASSUME NEW b \in Nat \ {0}, NEW n \in Nat
  PROVE  Power(b * b, n) = Power(b, 2 * n)
<1> DEFINE T == {k \in 0 .. n : Power(b * b, k) = Power(b, 2 * k)}
<1>0. b * b \in Nat \ {0}
  OBVIOUS
<1>1. 0 \in T
  BY <1>0, PowerFacts
<1>2. ASSUME NEW k \in 0 .. (n - 1), k \in T
      PROVE  k + 1 \in T
  <2>1. k \in Nat /\ 2 * k \in Nat /\ 2 * k + 1 \in Nat /\ k + 1 \in 0 .. n /\ 2 * (k + 1) = (2 * k + 1) + 1
        /\ Power(b * b, k) = Power(b, 2 * k)
    BY <1>2
  <2>2. Power(b * b, k + 1) = Power(b, 2 * k) * (b * b) /\ Power(b, 2 * k) \in Nat
    BY <1>0, <2>1, PowerFacts
  <2>3. Power(b, 2 * (k + 1)) = (Power(b, 2 * k) * b) * b
    BY <2>1, PowerFacts
  <2>4. \A p \in Nat : p * (b * b) = (p * b) * b
    OBVIOUS
  <2> QED
    BY <2>1, <2>2, <2>3, <2>4
<1> HIDE DEF T
<1>3. 0 .. n \subseteq T
  BY <1>1, <1>2, Induction
<1> QED
  BY <1>3 DEF T

Digits(b, n) == [1 .. n -> 0 .. (b - 1)]

\* One digit more.
LEMMA OneDigit ==
  ASSUME NEW b \in Nat \ {0}, NEW k \in Nat, NEW d \in Digits(b, k + 1)
  PROVE  /\ Firsts(d, k) \in Digits(b, k) /\ d[k + 1] \in 0 .. (b - 1)
         /\ ValueOf(Firsts(d, k), b) \in Nat
         /\ ValueOf(d, b) = ValueOf(Firsts(d, k), b) * b + d[k + 1]
<1>1. /\ d \in [1 .. (k + 1) -> Nat] /\ k + 1 \in Nat /\ k + 1 > 0 /\ (k + 1) - 1 = k
      /\ d[k + 1] \in 0 .. (b - 1)
  BY DEF Digits
<1>2. Firsts(d, k) \in Digits(b, k) /\ Firsts(d, k) \in [1 .. k -> Nat]
  <2>1. \A i \in 1 .. k : i \in 1 .. (k + 1)
    OBVIOUS
  <2> QED
    BY <2>1 DEF Digits, Firsts
<1>3. ValueOf(d, b) = ValueOf(Firsts(d, (k + 1) - 1), b) * b + d[k + 1]
  BY <1>1, ValueFacts
<1>4. ValueOf(Firsts(d, k), b) \in Nat
  BY <1>2, ValueFacts
<1> QED
  BY <1>1, <1>2, <1>3, <1>4

\* What a number of n digits is, and of n digits of which the first is 0 or not.
LEMMA ValueBounds ==
  ASSUME NEW b \in Nat \ {0}, NEW n \in Nat, NEW d \in Digits(b, n)
  PROVE  /\ ValueOf(d, b) \in Nat /\ ValueOf(d, b) < Power(b, n)
         /\ n > 0 /\ d[1] # 0 => Power(b, n - 1) <= ValueOf(d, b)
         /\ n > 0 /\ d[1] = 0 => ValueOf(d, b) < Power(b, n - 1)
<1> DEFINE Bounded(e, k) ==
             /\ ValueOf(e, b) \in Nat /\ ValueOf(e, b) < Power(b, k)
             /\ k > 0 /\ e[1] # 0 => Power(b, k - 1) <= ValueOf(e, b)
             /\ k > 0 /\ e[1] = 0 => ValueOf(e, b) < Power(b, k - 1)
           T == {k \in 0 .. n : \A e \in Digits(b, k) : Bounded(e, k)}
<1>1. 0 \in T
  <2>1. ASSUME NEW e \in Digits(b, 0)
        PROVE  ValueOf(e, b) = 0
    <3>1. e \in [1 .. 0 -> Nat]
      BY DEF Digits
    <3> QED
      BY <3>1, ValueFacts
  <2>2. Power(b, 0) = 1 /\ 0 \in 0 .. n
    BY PowerFacts
  <2> QED
    BY <2>1, <2>2
<1>2. ASSUME NEW k \in 0 .. (n - 1), k \in T
      PROVE  k + 1 \in T
  <2>1. k \in Nat /\ k + 1 \in 0 .. n
    OBVIOUS
  <2> SUFFICES ASSUME NEW d_1 \in Digits(b, k + 1)
               PROVE  Bounded(d_1, k + 1)
    BY <2>1
  <2> DEFINE e == Firsts(d_1, k)
             w == ValueOf(e, b)
             x == d_1[k + 1]
  <2>2. e \in Digits(b, k) /\ x \in 0 .. (b - 1) /\ w \in Nat /\ ValueOf(d_1, b) = w * b + x
    BY <2>1, OneDigit
  <2>3. Bounded(e, k)
    BY <1>2, <2>2
  <2>4. Power(b, k) \in Nat \ {0} /\ Power(b, k + 1) = Power(b, k) * b /\ Power(b, 0) = 1
    BY <2>1, PowerFacts
  <2>5. w * b \in Nat /\ w * b + x \in Nat /\ w * b + x < Power(b, k + 1)
    BY <2>2, <2>3, <2>4, ProductFacts
  <2>6. (k + 1) - 1 = k /\ k + 1 > 0
    BY <2>1
  <2>7. CASE k = 0
    <3>1. w = 0 /\ d_1[1] = x
      BY <2>2, <2>3, <2>4, <2>7
    <3>2. ValueOf(d_1, b) = x
      BY <2>2, <3>1
    <3>3. Power(b, (k + 1) - 1) = 1
      BY <2>4, <2>6, <2>7
    <3> HIDE DEF e, w, x
    <3>4. ValueOf(d_1, b) \in Nat /\ ValueOf(d_1, b) < Power(b, k + 1)
      BY <2>2, <2>5
    <3>5. d_1[1] = 0 => ValueOf(d_1, b) < 1
      BY <3>1, <3>2
    <3>6. d_1[1] # 0 => 1 <= ValueOf(d_1, b)
      BY <2>2, <3>1, <3>2
    <3> QED
      BY <3>3, <3>4, <3>5, <3>6
  <2>8. CASE k > 0
    <3>1. e[1] = d_1[1] /\ k - 1 \in Nat /\ (k - 1) + 1 = k
      BY <2>1, <2>8 DEF Firsts
    <3>2. Power(b, k - 1) \in Nat /\ Power(b, k) = Power(b, k - 1) * b
      BY <3>1, PowerFacts
    <3>3. e[1] # 0 => Power(b, k) <= w * b
      BY <2>2, <2>3, <2>8, <3>2, ProductFacts
    <3>4. e[1] = 0 => w * b + x < Power(b, k)
      BY <2>2, <2>3, <2>8, <3>2, ProductFacts
    <3> HIDE DEF e, w, x
    <3> QED
      BY <2>2, <2>4, <2>5, <2>6, <3>1, <3>3, <3>4
  <2> QED
    BY <2>1, <2>7, <2>8
<1> HIDE DEF T
<1>3. 0 .. n \subseteq T
  BY <1>1, <1>2, Induction
<1> QED
  BY <1>3 DEF T

\* A number has one sequence of n digits.
LEMMA DigitsAreUnique ==
  ASSUME NEW b \in Nat \ {0}, NEW n \in Nat, NEW d \in Digits(b, n), NEW e \in Digits(b, n),
         ValueOf(d, b) = ValueOf(e, b)
  PROVE  d = e
<1> DEFINE T == {k \in 0 .. n : \A f, g \in Digits(b, k) : ValueOf(f, b) = ValueOf(g, b) => f = g}
<1>1. 0 \in T
  <2>1. \A f, g \in Digits(b, 0) : f = g
    BY DEF Digits
  <2> QED
    BY <2>1
<1>2. ASSUME NEW k \in 0 .. (n - 1), k \in T
      PROVE  k + 1 \in T
  <2>1. k \in Nat /\ k + 1 \in 0 .. n
    OBVIOUS
  <2> SUFFICES ASSUME NEW f \in Digits(b, k + 1), NEW g \in Digits(b, k + 1),
                      ValueOf(f, b) = ValueOf(g, b)
               PROVE  f = g
    BY <2>1
  <2>2. /\ Firsts(f, k) \in Digits(b, k) /\ f[k + 1] \in 0 .. (b - 1)
        /\ Firsts(g, k) \in Digits(b, k) /\ g[k + 1] \in 0 .. (b - 1)
        /\ ValueOf(Firsts(f, k), b) \in Nat /\ ValueOf(Firsts(g, k), b) \in Nat
        /\ ValueOf(Firsts(f, k), b) * b + f[k + 1] = ValueOf(Firsts(g, k), b) * b + g[k + 1]
    BY <2>1, OneDigit
  <2>3. ValueOf(Firsts(f, k), b) = ValueOf(Firsts(g, k), b) /\ f[k + 1] = g[k + 1]
    <3> DEFINE v == ValueOf(Firsts(f, k), b)
               w == ValueOf(Firsts(g, k), b)
               x == f[k + 1]
               y == g[k + 1]
    <3>1. v \in Nat /\ w \in Nat /\ x \in 0 .. (b - 1) /\ y \in 0 .. (b - 1) /\ v * b + x = w * b + y
      BY <2>2
    <3> HIDE DEF v, w, x, y
    <3>2. v = w /\ x = y
      BY <3>1, ProductFacts
    <3> QED
      BY <3>2 DEF v, w, x, y
  <2>4. Firsts(f, k) = Firsts(g, k)
    BY <1>2, <2>2, <2>3
  <2>5. \A i \in 1 .. k : Firsts(f, k)[i] = f[i] /\ Firsts(g, k)[i] = g[i]
    BY DEF Firsts
  <2>6. \A i \in 1 .. (k + 1) : i = k + 1 \/ i \in 1 .. k
    BY <2>1
  <2>7. \A i \in 1 .. (k + 1) : f[i] = g[i]
    BY <2>3, <2>4, <2>5, <2>6
  <2> QED
    BY <2>7 DEF Digits
<1> HIDE DEF T
<1>3. 0 .. n \subseteq T
  BY <1>1, <1>2, Induction
<1> QED
  BY <1>3 DEF T

\* Dividing twice.
LEMMA QuotientOfQuotient ==
  ASSUME NEW v \in Nat, NEW b \in Nat \ {0}, NEW c \in Nat \ {0}
  PROVE  v \div (c * b) = (v \div b) \div c
<1> DEFINE q == v \div b
           r == q \div c
           x == v - b * q
           y == q - c * r
<1>1. q \in Nat /\ b * q <= v /\ v < b * q + b
  BY QuotientFacts
<1>2. r \in Nat /\ c * r <= q /\ q < c * r + c
  BY <1>1, QuotientFacts
<1> HIDE DEF q, r
<1>3. b * q \in Nat /\ c * r \in Nat
  BY <1>1, <1>2
<1>4. x \in 0 .. (b - 1) /\ y \in 0 .. (c - 1) /\ v = b * q + x /\ q = c * r + y
  BY <1>1, <1>2, <1>3
<1> HIDE DEF x, y
<1> DEFINE z == b * y + x
<1>5. z \in 0 .. (c * b - 1)
  <2>1. y * b + x < c * b
    BY <1>4, ProductFacts
  <2>2. y * b \in Nat /\ y * b = b * y /\ c * b \in Nat
    BY <1>4
  <2> QED
    BY <1>4, <2>1, <2>2
<1>6. v = (c * b) * r + z
  <2>1. b * q = b * (c * r) + b * y
    BY <1>2, <1>3, <1>4
  <2>2. b * (c * r) = (c * b) * r
    BY <1>2
  <2>3. b * (c * r) \in Int /\ b * y \in Int
    BY <1>3, <1>4
  <2> QED
    BY <1>4, <2>1, <2>2, <2>3
<1> HIDE DEF z
<1>7. \A m \in Nat \ {0} : \A i \in 0 .. (m - 1) : (m * r + i) \div m = r
  BY <1>2
<1>8. c * b \in Nat \ {0}
  OBVIOUS
<1>9. v \div (c * b) = r
  BY <1>5, <1>6, <1>7, <1>8
<1> QED
  BY <1>9 DEF q, r

\* The digits of a number that is not too large are digits, and have its value.
LEMMA DigitsOfFacts ==
  ASSUME NEW b \in Nat \ {0}, NEW n \in Nat, NEW v \in Nat, v < Power(b, n)
  PROVE  DigitsOf(v, b, n) \in Digits(b, n) /\ ValueOf(DigitsOf(v, b, n), b) = v
<1> DEFINE T == {k \in 0 .. n : \A m \in Nat : m < Power(b, k) =>
                    DigitsOf(m, b, k) \in Digits(b, k) /\ ValueOf(DigitsOf(m, b, k), b) = m}
<1>1. 0 \in T
  <2>1. Power(b, 0) = 1 /\ 0 \in 0 .. n
    BY PowerFacts
  <2>2. DigitsOf(0, b, 0) \in Digits(b, 0)
    BY DEF DigitsOf, Digits
  <2>3. DigitsOf(0, b, 0) \in [1 .. 0 -> Nat]
    BY DEF DigitsOf
  <2>4. ValueOf(DigitsOf(0, b, 0), b) = 0
    BY <2>3, ValueFacts
  <2>5. \A m \in Nat : m < 1 => m = 0
    OBVIOUS
  <2> QED
    BY <2>1, <2>2, <2>4, <2>5
<1>2. ASSUME NEW k \in 0 .. (n - 1), k \in T
      PROVE  k + 1 \in T
  <2>1. k \in Nat /\ k + 1 \in 0 .. n
    OBVIOUS
  <2> SUFFICES ASSUME NEW m \in Nat, m < Power(b, k + 1)
               PROVE  DigitsOf(m, b, k + 1) \in Digits(b, k + 1)
                      /\ ValueOf(DigitsOf(m, b, k + 1), b) = m
    BY <2>1
  <2> DEFINE d == DigitsOf(m, b, k + 1)
             q == m \div b
  <2>2. q \in Nat /\ b * q <= m /\ m < b * q + b /\ m % b \in 0 .. (b - 1) /\ m = b * q + (m % b)
    <3>1. q \in Nat /\ b * q <= m /\ m < b * q + b
      BY QuotientFacts
    <3>2. m % b \in 0 .. (b - 1) /\ m = b * (m \div b) + (m % b)
      OBVIOUS
    <3> QED
      BY <3>1, <3>2
  <2>3. Power(b, k + 1) = Power(b, k) * b /\ Power(b, k) \in Nat \ {0} /\ Power(b, 0) = 1
    BY <2>1, PowerFacts
  <2> HIDE DEF q
  <2>4. q < Power(b, k)
    <3> SUFFICES ASSUME Power(b, k) <= q PROVE FALSE
      BY <2>2, <2>3
    <3>1. Power(b, k) * b <= q * b
      BY <2>2, <2>3, ProductFacts
    <3>2. q * b = b * q /\ q * b \in Nat /\ Power(b, k) * b \in Nat
      BY <2>2, <2>3
    <3> QED
      BY <2>2, <2>3, <3>1, <3>2
  <2>5. DigitsOf(q, b, k) \in Digits(b, k) /\ ValueOf(DigitsOf(q, b, k), b) = q
    BY <1>2, <2>2, <2>4
  <2>6. \A i \in 1 .. k : d[i] = DigitsOf(q, b, k)[i]
    <3> SUFFICES ASSUME NEW i \in 1 .. k
                 PROVE  d[i] = DigitsOf(q, b, k)[i]
      OBVIOUS
    <3>1. k - i \in Nat /\ (k + 1) - i = (k - i) + 1 /\ i \in 1 .. (k + 1)
      BY <2>1
    <3>2. Power(b, (k + 1) - i) = Power(b, k - i) * b /\ Power(b, k - i) \in Nat \ {0}
      BY <3>1, PowerFacts
    <3>3. m \div Power(b, (k + 1) - i) = q \div Power(b, k - i)
      BY <3>2, QuotientOfQuotient DEF q
    <3>4. d[i] = (m \div Power(b, (k + 1) - i)) % b
      BY <3>1 DEF DigitsOf
    <3>5. DigitsOf(q, b, k)[i] = (q \div Power(b, k - i)) % b
      BY DEF DigitsOf
    <3> QED
      BY <3>3, <3>4, <3>5
  <2>7. d[k + 1] = m % b
    <3>1. k + 1 \in 1 .. (k + 1) /\ (k + 1) - (k + 1) = 0
      BY <2>1
    <3>2. d[k + 1] = (m \div Power(b, (k + 1) - (k + 1))) % b
      BY <3>1 DEF DigitsOf
    <3>3. m \div 1 = m
      OBVIOUS
    <3> QED
      BY <2>3, <3>1, <3>2, <3>3
  <2>8. DOMAIN d = 1 .. (k + 1) /\ d = [i \in 1 .. (k + 1) |-> d[i]]
    BY DEF DigitsOf
  <2> HIDE DEF d
  <2>9. d \in Digits(b, k + 1)
    <3>1. \A i \in 1 .. (k + 1) : i = k + 1 \/ i \in 1 .. k
      BY <2>1
    <3>2. \A i \in 1 .. k : d[i] \in 0 .. (b - 1)
      BY <2>5, <2>6 DEF Digits
    <3>3. \A i \in 1 .. (k + 1) : d[i] \in 0 .. (b - 1)
      BY <2>2, <2>7, <3>1, <3>2
    <3> QED
      BY <2>8, <3>3 DEF Digits
  <2>10. Firsts(d, k) = DigitsOf(q, b, k)
    <3>1. DigitsOf(q, b, k) = [i \in 1 .. k |-> DigitsOf(q, b, k)[i]]
      BY DEF DigitsOf
    <3> QED
      BY <2>6, <3>1 DEF Firsts
  <2>11. ValueOf(d, b) = q * b + (m % b)
    BY <2>1, <2>5, <2>7, <2>9, <2>10, OneDigit
  <2> QED
    BY <2>2, <2>9, <2>11 DEF d
<1> HIDE DEF T
<1>3. 0 .. n \subseteq T
  BY <1>1, <1>2, Induction
<1> QED
  BY <1>3 DEF T

\* A number of which nothing is in front has one shortest sequence of digits.
Short(d) == d = <<>> \/ d[1] # 0

LEMMA ShortestFacts ==
  ASSUME NEW b \in Nat \ {0}, NEW most \in Nat, NEW v \in Nat, v < Power(b, most)
  PROVE  \E k \in 0 .. most :
            /\ ShortestDigits(v, b, most) \in Digits(b, k)
            /\ ValueOf(ShortestDigits(v, b, most), b) = v
            /\ Short(ShortestDigits(v, b, most))
            /\ v < Power(b, k) /\ (k > 0 => Power(b, k - 1) <= v)
<1> DEFINE Fits(k) == v < Power(b, k) /\ (k > 0 => v >= Power(b, k - 1))
           N == {k \in 0 .. most : v < Power(b, k)}
           k0 == CHOOSE k \in 0 .. most : Fits(k)
<1>1. N # {} /\ N \in SUBSET Nat
  OBVIOUS
<1>2. PICK l \in N : \A m \in N : l <= m
  <2> HIDE DEF N
  <2> QED BY <1>1, LeastNumber
<1>3. l \in 0 .. most /\ v < Power(b, l)
  OBVIOUS
<1>4. l > 0 => v >= Power(b, l - 1)
  <2> SUFFICES ASSUME l > 0, ~(v >= Power(b, l - 1)) PROVE FALSE
    OBVIOUS
  <2>1. l - 1 \in 0 .. most /\ l - 1 \in Nat /\ ~(l <= l - 1)
    BY <1>3
  <2>2. Power(b, l - 1) \in Nat
    BY <2>1, PowerFacts
  <2>3. l - 1 \in N
    BY <2>1, <2>2
  <2> QED
    BY <1>2, <2>1, <2>3
<1>5. k0 \in 0 .. most /\ Fits(k0)
  BY <1>3, <1>4
<1>6. ShortestDigits(v, b, most) = DigitsOf(v, b, k0)
  BY DEF ShortestDigits
<1> HIDE DEF k0
<1> DEFINE d == DigitsOf(v, b, k0)
<1>7. d \in Digits(b, k0) /\ ValueOf(d, b) = v
  BY <1>5, DigitsOfFacts
<1> HIDE DEF d
<1>8. Short(d)
  <2> SUFFICES ASSUME d # <<>>, d[1] = 0 PROVE FALSE
    BY DEF Short
  <2>1. k0 > 0 /\ k0 \in Nat
    <3>1. k0 = 0 => d = <<>>
      BY <1>7 DEF Digits
    <3> QED
      BY <1>5, <3>1
  <2>2. v < Power(b, k0 - 1) /\ k0 - 1 \in Nat
    BY <1>7, <2>1, ValueBounds
  <2>3. Power(b, k0 - 1) \in Nat
    BY <2>2, PowerFacts
  <2> QED
    BY <1>5, <2>1, <2>2, <2>3
<1> QED
  BY <1>5, <1>6, <1>7, <1>8 DEF d

LEMMA ShortestIsUnique ==
  ASSUME NEW b \in Nat \ {0}, NEW most \in Nat, NEW k \in 0 .. most, NEW d \in Digits(b, k), Short(d)
  PROVE  ShortestDigits(ValueOf(d, b), b, most) = d
<1> DEFINE v == ValueOf(d, b)
           e == ShortestDigits(v, b, most)
<1>1. k \in Nat /\ (k > 0 => d[1] # 0)
  BY DEF Short, Digits
<1>2. v \in Nat /\ v < Power(b, k) /\ (k > 0 => Power(b, k - 1) <= v)
  BY <1>1, ValueBounds
<1>3. v < Power(b, most)
  <2>0. k <= most
    OBVIOUS
  <2>1. Power(b, k) <= Power(b, most) /\ Power(b, k) \in Nat /\ Power(b, most) \in Nat
    BY <1>1, <2>0, PowerOrder, PowerFacts
  <2> QED
    BY <1>2, <2>1
<1> HIDE DEF v
<1>4. PICK l \in 0 .. most : e \in Digits(b, l) /\ ValueOf(e, b) = v
                             /\ v < Power(b, l) /\ (l > 0 => Power(b, l - 1) <= v)
  BY <1>2, <1>3, ShortestFacts
<1> HIDE DEF e
<1>5. ASSUME NEW m \in Nat, NEW n \in Nat, m < n, v < Power(b, m), Power(b, n - 1) <= v
      PROVE  FALSE
  <2>1. n - 1 \in Nat /\ m <= n - 1
    BY <1>5
  <2>2. Power(b, m) <= Power(b, n - 1) /\ Power(b, m) \in Nat /\ Power(b, n - 1) \in Nat
    BY <2>1, PowerOrder, PowerFacts
  <2> QED
    BY <1>2, <1>5, <2>2
<1>6. k = l
  <2>1. ~(k < l) /\ ~(l < k)
    BY <1>1, <1>2, <1>4, <1>5
  <2> QED
    BY <1>1, <2>1
<1>7. e = d
  BY <1>1, <1>4, <1>6, DigitsAreUnique DEF v
<1> QED
  BY <1>7 DEF e, v

-----------------------------------------------------------------------------
(* Digits behind zeroes. *)

\* A sequence behind n copies of x.
Behind(x, z, t) == Repeated(x, z) \o t

LEMMA RepeatedFacts ==
  ASSUME NEW b \in Nat, NEW x \in 0 .. (b - 1), NEW z \in Nat, NEW m \in Nat, NEW t \in Digits(b, m)
  PROVE  /\ Behind(x, z, t) \in Digits(b, z + m)
         /\ \A i \in 1 .. z : Behind(x, z, t)[i] = x
         /\ \A i \in 1 .. m : Behind(x, z, t)[z + i] = t[i]
<1> DEFINE S == 0 .. (b - 1)
           r == Repeated(x, z)
           c == r \o t
<1>1. r \in Seq(S) /\ Len(r) = z /\ \A i \in 1 .. z : r[i] = x
  BY DEF Repeated
<1>2. t \in Seq(S) /\ Len(t) = m /\ \A i \in 1 .. m : t[i] \in S
  BY DEF Digits
<1> HIDE DEF r
<1>3. /\ c \in Seq(S) /\ Len(c) = z + m
      /\ \A i \in 1 .. (z + m) : c[i] = IF i <= z THEN r[i] ELSE t[i - z]
  <2>1. /\ c \in Seq(S) /\ Len(c) = Len(r) + Len(t)
        /\ \A i \in 1 .. (Len(r) + Len(t)) : c[i] = IF i <= Len(r) THEN r[i] ELSE t[i - Len(r)]
    <3> HIDE DEF S
    <3> QED BY <1>1, <1>2, ConcatProperties
  <2> HIDE DEF c
  <2> QED
    BY <1>1, <1>2, <2>1
<1> HIDE DEF c
<1>4. \A i \in 1 .. z : c[i] = x
  <2>1. \A i \in 1 .. z : i \in 1 .. (z + m) /\ i <= z
    OBVIOUS
  <2> QED
    BY <1>1, <1>3, <2>1
<1>5. \A i \in 1 .. m : c[z + i] = t[i]
  <2>1. \A i \in 1 .. m : z + i \in 1 .. (z + m) /\ ~(z + i <= z) /\ (z + i) - z = i
    OBVIOUS
  <2> QED
    BY <1>3, <2>1
<1>6. c \in [1 .. (z + m) -> S]
  <2> HIDE DEF S
  <2>1. c \in [1 .. Len(c) -> S]
    BY <1>3
  <2> QED
    BY <1>3, <2>1
<1>7. c \in Digits(b, z + m)
  BY <1>6 DEF Digits
<1> QED
  BY <1>4, <1>5, <1>7 DEF c, r, Behind

\* And conversely.
LEMMA BehindRepeated ==
  ASSUME NEW b \in Nat, NEW x \in 0 .. (b - 1), NEW z \in Nat, NEW m \in Nat,
         NEW t \in Digits(b, m), NEW c \in Digits(b, z + m),
         \A i \in 1 .. z : c[i] = x, \A i \in 1 .. m : c[z + i] = t[i]
  PROVE  Behind(x, z, t) = c
<1> DEFINE d == Behind(x, z, t)
<1>1. /\ d \in Digits(b, z + m)
      /\ \A i \in 1 .. z : d[i] = x
      /\ \A i \in 1 .. m : d[z + i] = t[i]
  BY RepeatedFacts
<1> HIDE DEF d
<1>2. \A i \in 1 .. (z + m) : i \in 1 .. z \/ (i - z \in 1 .. m /\ z + (i - z) = i)
  OBVIOUS
<1>3. \A i \in 1 .. (z + m) : d[i] = c[i]
  BY <1>1, <1>2
<1>4. d = c
  BY <1>1, <1>3 DEF Digits
<1> QED
  BY <1>4 DEF d

\* The first z of the n elements of s are x, and the next one is not.
Begins(s, n, x, z) ==
    z \in 0 .. n /\ (\A i \in 1 .. z : s[i] = x) /\ (z < n => s[z + 1] # x)

LEMMA LeadingFacts ==
  ASSUME NEW b \in Nat, NEW x, NEW n \in Nat, NEW s \in Digits(b, n)
  PROVE  /\ Begins(s, n, x, Leading(s, x))
         /\ \A z : Begins(s, n, x, z) => Leading(s, x) = z
<1> DEFINE Fits(k) == (\A i \in 1 .. k : s[i] = x) /\ (k < n => s[k + 1] # x)
           N == {i \in 1 .. n : s[i] # x} \cup {n + 1}
<1>1. N # {} /\ N \in SUBSET Nat
  OBVIOUS
<1>2. PICK l \in N : \A m \in N : l <= m
  <2> HIDE DEF N
  <2> QED BY <1>1, LeastNumber
<1>3. l \in 1 .. (n + 1) /\ l - 1 \in 0 .. n /\ (l - 1) + 1 = l
  OBVIOUS
<1>4. \A i \in 1 .. (l - 1) : s[i] = x
  <2> SUFFICES ASSUME NEW i \in 1 .. (l - 1), s[i] # x PROVE FALSE
    OBVIOUS
  <2>1. i \in 1 .. n /\ ~(l <= i)
    BY <1>3
  <2>2. i \in N
    BY <2>1
  <2> QED
    BY <1>2, <2>1, <2>2
<1>5. l - 1 < n => s[l] # x
  BY <1>3
<1>6. Fits(l - 1)
  BY <1>3, <1>4, <1>5
<1>7. ASSUME NEW k \in 0 .. n, NEW m \in 0 .. n, Fits(k), Fits(m)
      PROVE  ~(k < m)
  <2> SUFFICES ASSUME k < m PROVE FALSE
    OBVIOUS
  <2>1. k + 1 \in 1 .. m /\ k < n
    OBVIOUS
  <2> QED
    BY <1>7, <2>1
<1>8. \A k, m \in 0 .. n : Fits(k) /\ Fits(m) => k = m
  <2> SUFFICES ASSUME NEW k \in 0 .. n, NEW m \in 0 .. n, Fits(k), Fits(m) PROVE k = m
    OBVIOUS
  <2>1. ~(k < m) /\ ~(m < k)
    <3> HIDE DEF Fits
    <3> QED BY <1>7
  <2> QED
    BY <2>1
<1> DEFINE k0 == CHOOSE k \in 0 .. n : Fits(k)
<1>9. Leading(s, x) = k0
  <2>1. Len(s) = n
    BY DEF Digits
  <2> QED
    BY <2>1 DEF Leading
<1>10. k0 \in 0 .. n /\ Fits(k0)
  <2> HIDE DEF Fits
  <2> QED BY <1>3, <1>6
<1> HIDE DEF k0
<1>11. \A z \in 0 .. n : Fits(z) => k0 = z
  <2> HIDE DEF Fits
  <2> QED BY <1>8, <1>10
<1> QED
  BY <1>9, <1>10, <1>11 DEF Begins

\* A number is not changed by zeroes in front of it.
LEMMA ZerosInFront ==
  ASSUME NEW b \in Nat \ {0}, NEW z \in Nat, NEW m \in Nat,
         NEW t \in Digits(b, m), NEW c \in Digits(b, z + m),
         \A i \in 1 .. z : c[i] = 0, \A i \in 1 .. m : c[z + i] = t[i]
  PROVE  ValueOf(c, b) = ValueOf(t, b)
<1> DEFINE T == {k \in 0 .. z : \A e \in Digits(b, k) : (\A i \in 1 .. k : e[i] = 0) => ValueOf(e, b) = 0}
           U == {k \in 0 .. m : \A e \in Digits(b, k), f \in Digits(b, z + k) :
                    (\A i \in 1 .. z : f[i] = 0) /\ (\A i \in 1 .. k : f[z + i] = e[i])
                      => ValueOf(f, b) = ValueOf(e, b)}
<1>0. \A e \in Digits(b, 0) : ValueOf(e, b) = 0
  <2>1. \A e \in Digits(b, 0) : e \in [1 .. 0 -> Nat]
    BY DEF Digits
  <2> QED
    BY <2>1, ValueFacts
<1>1. 0 \in T
  BY <1>0
<1>2. ASSUME NEW k \in 0 .. (z - 1), k \in T
      PROVE  k + 1 \in T
  <2> SUFFICES ASSUME NEW e \in Digits(b, k + 1), \A i \in 1 .. (k + 1) : e[i] = 0
               PROVE  ValueOf(e, b) = 0
    OBVIOUS
  <2>1. k \in Nat /\ k + 1 \in 1 .. (k + 1) /\ \A i \in 1 .. k : i \in 1 .. (k + 1)
    OBVIOUS
  <2>2. Firsts(e, k) \in Digits(b, k) /\ ValueOf(e, b) = ValueOf(Firsts(e, k), b) * b + e[k + 1]
    BY <2>1, OneDigit
  <2>3. \A i \in 1 .. k : Firsts(e, k)[i] = 0
    BY <2>1 DEF Firsts
  <2>4. ValueOf(Firsts(e, k), b) = 0 /\ e[k + 1] = 0
    BY <1>2, <2>1, <2>2, <2>3
  <2> QED
    BY <2>2, <2>4
<1>3. z \in T
  <2> HIDE DEF T
  <2>1. 0 .. z \subseteq T
    BY <1>1, <1>2, Induction
  <2> QED
    BY <2>1
<1>4. 0 \in U
  <2> SUFFICES ASSUME NEW e \in Digits(b, 0), NEW f \in Digits(b, z + 0), \A i \in 1 .. z : f[i] = 0
               PROVE  ValueOf(f, b) = ValueOf(e, b)
    OBVIOUS
  <2>1. z + 0 = z
    OBVIOUS
  <2>2. ValueOf(f, b) = 0
    BY <1>3, <2>1
  <2> QED
    BY <1>0, <2>2
<1>5. ASSUME NEW k \in 0 .. (m - 1), k \in U
      PROVE  k + 1 \in U
  <2> SUFFICES ASSUME NEW e \in Digits(b, k + 1), NEW f \in Digits(b, z + (k + 1)),
                      \A i \in 1 .. z : f[i] = 0, \A i \in 1 .. (k + 1) : f[z + i] = e[i]
               PROVE  ValueOf(f, b) = ValueOf(e, b)
    OBVIOUS
  <2>1. k \in Nat /\ z + k \in Nat /\ z + (k + 1) = (z + k) + 1 /\ k + 1 \in 1 .. (k + 1)
    OBVIOUS
  <2>2. Firsts(e, k) \in Digits(b, k) /\ ValueOf(e, b) = ValueOf(Firsts(e, k), b) * b + e[k + 1]
    BY <2>1, OneDigit
  <2>3. f \in Digits(b, (z + k) + 1)
    BY <2>1
  <2>4. Firsts(f, z + k) \in Digits(b, z + k)
        /\ ValueOf(f, b) = ValueOf(Firsts(f, z + k), b) * b + f[(z + k) + 1]
    BY <2>1, <2>3, OneDigit
  <2>5. f[(z + k) + 1] = e[k + 1]
    BY <2>1
  <2>6. \A i \in 1 .. z : Firsts(f, z + k)[i] = 0
    <3>1. \A i \in 1 .. z : i \in 1 .. (z + k)
      BY <2>1
    <3> QED
      BY <3>1 DEF Firsts
  <2>7. \A i \in 1 .. k : Firsts(f, z + k)[z + i] = Firsts(e, k)[i]
    <3>1. \A i \in 1 .. k : z + i \in 1 .. (z + k) /\ i \in 1 .. (k + 1)
      BY <2>1
    <3> QED
      BY <3>1 DEF Firsts
  <2>8. ValueOf(Firsts(f, z + k), b) = ValueOf(Firsts(e, k), b)
    BY <1>5, <2>2, <2>4, <2>6, <2>7
  <2> QED
    BY <2>2, <2>4, <2>5, <2>8
<1>6. m \in U
  <2> HIDE DEF U, T
  <2>1. 0 .. m \subseteq U
    BY <1>4, <1>5, Induction
  <2> QED
    BY <2>1
<1> QED
  BY <1>6

\* A sequence of digits is a shortest one behind its leading zeroes.
LEMMA Split ==
  ASSUME NEW b \in Nat \ {0}, NEW n \in Nat, NEW d \in Digits(b, n)
  PROVE  \E z \in 0 .. n : \E t \in Digits(b, n - z) :
            /\ z = Leading(d, 0) /\ Short(t)
            /\ Behind(0, z, t) = d
            /\ ValueOf(d, b) = ValueOf(t, b)
            /\ \A i \in 1 .. z : d[i] = 0
            /\ \A i \in 1 .. (n - z) : d[z + i] = t[i]
<1> DEFINE S == 0 .. (b - 1)
           z == Leading(d, 0)
           m == n - z
           t == [i \in 1 .. m |-> d[z + i]]
<1>0. d \in [1 .. n -> S] /\ n \in Nat /\ 0 \in S
  BY DEF Digits
<1>1. z \in 0 .. n /\ (\A i \in 1 .. z : d[i] = 0) /\ (z < n => d[z + 1] # 0)
  <2>1. Begins(d, n, 0, Leading(d, 0))
    BY LeadingFacts
  <2> QED
    BY <2>1 DEF Begins
<1> HIDE DEF S, z, m, t
<1>2. z \in Nat /\ m \in Nat /\ z + m = n
  BY <1>1 DEF m
<1>3. t \in Digits(b, m) /\ \A i \in 1 .. m : d[z + i] = t[i]
  <2>1. \A i \in 1 .. m : z + i \in 1 .. n
    BY <1>2
  <2> QED
    BY <1>0, <2>1 DEF Digits, S, t
<1>4. Short(t)
  <2>1. CASE m = 0
    BY <1>2, <2>1 DEF Short, t
  <2>2. CASE m # 0
    <3>1. 1 \in 1 .. m /\ z < n
      BY <1>2, <2>2
    <3> QED
      BY <1>1, <1>3, <3>1 DEF Short
  <2> QED
    BY <2>1, <2>2
<1>5. d \in Digits(b, z + m) /\ 0 \in 0 .. (b - 1) /\ b \in Nat
  BY <1>2
<1>6. Behind(0, z, t) = d
  BY <1>0, <1>1, <1>2, <1>3, <1>5, BehindRepeated
<1>7. ValueOf(d, b) = ValueOf(t, b)
  BY <1>1, <1>2, <1>3, <1>5, ZerosInFront
<1> QED
  <2>1. /\ z = Leading(d, 0) /\ Short(t)
        /\ Behind(0, z, t) = d
        /\ ValueOf(d, b) = ValueOf(t, b)
        /\ \A i \in 1 .. z : d[i] = 0
        /\ \A i \in 1 .. (n - z) : d[z + i] = t[i]
    BY <1>1, <1>3, <1>4, <1>6, <1>7 DEF z, m
  <2>2. z \in 0 .. n /\ t \in Digits(b, n - z)
    BY <1>1, <1>3 DEF m
  <2> QED
    BY <2>1, <2>2

\* Digits read backwards, the lowest first.
LEMMA Backwards ==
  ASSUME NEW b \in Nat, NEW n \in Nat, NEW d \in Digits(b, n)
  PROVE  /\ Reverse(d) \in Digits(b, n)
         /\ \A i \in 1 .. n : Reverse(d)[i] = d[n + 1 - i]
<1>1. Len(d) = n
  BY DEF Digits
<1>2. \A i \in 1 .. n : (n - i) + 1 \in 1 .. n /\ (n - i) + 1 = n + 1 - i
  OBVIOUS
<1>3. Reverse(d) = [i \in 1 .. n |-> d[(n - i) + 1]]
  BY <1>1 DEF Reverse
<1> QED
  BY <1>2, <1>3 DEF Digits
=============================================================================
