------------------------------ MODULE Counting ------------------------------
(***************************************************************************)
(* Induction without the induction theorems: a set of natural numbers has  *)
(* a least element, and what follows from it.  Proofs about sequences and  *)
(* stacks of any length count with these lemmas.                           *)
(***************************************************************************)
EXTENDS Integers, NaturalsInduction, WellFoundedInduction, TLAPS

\* The order of the natural numbers, as a set of pairs.
LessNat == {p \in Nat \X Nat : p[1] < p[2]}

\* A set of natural numbers has a least element.
LEMMA LeastElement ==
    ASSUME NEW T, T \subseteq Nat, T # {}
    PROVE  \E x \in T : \A y \in T : x <= y
  <1>1. IsWellFoundedOn(LessNat, Nat)
    <2>1. OpToRel(<, Nat) = LessNat
      BY DEF OpToRel, LessNat
    <2>2. IsWellFoundedOn(OpToRel(<, Nat), Nat)
      BY NatLessThanWellFounded
    <2> QED
      BY <2>1, <2>2
  <1>2. PICK x \in T : \A y \in T : <<y, x>> \notin LessNat
    BY <1>1, WFMin
  <1>3. ASSUME NEW y \in T PROVE x <= y
    <2>1. x \in Nat /\ y \in Nat /\ <<y, x>> \notin LessNat
      BY <1>2
    <2>2. <<y, x>> \in Nat \X Nat /\ <<y, x>>[1] = y /\ <<y, x>>[2] = x
      BY <2>1
    <2>3. ~(y < x)
      BY <2>1, <2>2 DEF LessNat
    <2> QED
      BY <2>1, <2>3
  <1> QED
    BY <1>3

\* A set that has zero and with each number the next one has them all.
LEMMA Counted ==
    ASSUME NEW N \in Nat, NEW S, 0 \in S, \A n \in 0 .. N - 1 : n \in S => n + 1 \in S
    PROVE  0 .. N \subseteq S
  <1> SUFFICES ASSUME ~(0 .. N \subseteq S)
               PROVE  FALSE
    OBVIOUS
  <1> DEFINE T == {n \in 0 .. N : n \notin S}
  <1>1. T \subseteq Nat /\ T # {}
    OBVIOUS
  <1>2. PICK x \in T : \A y \in T : x <= y
    BY <1>1, LeastElement
  <1>3. x \in Nat /\ x # 0 /\ x <= N /\ x \notin S
    BY <1>2
  <1>4. x - 1 \in 0 .. N - 1 /\ ~(x <= x - 1)
    BY <1>3
  <1>5. x - 1 \in S
    BY <1>2, <1>4
  <1>6. (x - 1) + 1 \in S
    BY <1>4, <1>5
  <1> QED
    BY <1>3, <1>6

\* What f gives for n is what n steps s from b on come to.
Iteration(f, V, N, b, s) ==
    /\ f \in [0 .. N -> V] /\ f[0] = b
    /\ \A n \in 1 .. N : f[n] = s[<<f[n - 1], n>>]

\* Steps can be taken one after the other.
LEMMA Iterates ==
    ASSUME NEW V, NEW N \in Nat, NEW b \in V, NEW s \in [V \X (1 .. N) -> V]
    PROVE  \E f : Iteration(f, V, N, b, s)
  <1> DEFINE Upto(k, f) == /\ f \in [0 .. k -> V] /\ f[0] = b
                           /\ \A n \in 1 .. k : f[n] = s[<<f[n - 1], n>>]
  <1> DEFINE S == {k \in 0 .. N : \E f : Upto(k, f)}
  <1>1. 0 \in S
    <2>1. PICK f : f = [i \in 0 .. 0 |-> b]
      OBVIOUS
    <2>2. f \in [0 .. 0 -> V] /\ f[0] = b /\ 1 .. 0 = {}
      BY <2>1
    <2>3. Upto(0, f)
      BY <2>2
    <2>4. 0 \in 0 .. N
      OBVIOUS
    <2> HIDE DEF Upto
    <2> QED
      BY <2>3, <2>4
  <1>2. ASSUME NEW n \in 0 .. N - 1, n \in S
        PROVE  n + 1 \in S
    <2>1. PICK f : Upto(n, f)
      BY <1>2
    <2> HIDE DEF Upto
    <2>2. f \in [0 .. n -> V] /\ f[0] = b /\ \A i \in 1 .. n : f[i] = s[<<f[i - 1], i>>]
      BY <2>1 DEF Upto
    <2>3. PICK v : v = s[<<f[n], n + 1>>]
      OBVIOUS
    <2>4. v \in V
      <3>1. f[n] \in V /\ n + 1 \in 1 .. N
        BY <2>2
      <3> QED
        BY <2>3, <3>1
    <2>5. PICK g : g = [i \in 0 .. n + 1 |-> IF i = n + 1 THEN v ELSE f[i]]
      OBVIOUS
    <2>6. g \in [0 .. n + 1 -> V]
      BY <2>2, <2>4, <2>5
    <2>7. g[0] = b
      BY <2>2, <2>5
    <2>8. ASSUME NEW i \in 1 .. n + 1
          PROVE  g[i] = s[<<g[i - 1], i>>]
      <3>1. i - 1 \in 0 .. n /\ i - 1 # n + 1 /\ g[i - 1] = f[i - 1]
        BY <2>5, <2>8
      <3>2. CASE i = n + 1
        <4>1. i - 1 = n /\ g[i - 1] = f[n] /\ g[i] = v
          BY <2>5, <3>1, <3>2
        <4> QED
          BY <2>3, <3>2, <4>1
      <3>3. CASE i # n + 1
        <4>1. i \in 1 .. n /\ g[i] = f[i]
          BY <2>5, <3>3
        <4> QED
          BY <2>2, <3>1, <4>1
      <3> QED
        BY <3>2, <3>3
    <2>9. Upto(n + 1, g)
      BY <2>6, <2>7, <2>8 DEF Upto
    <2> QED
      BY <1>2, <2>9
  <1> HIDE DEF S
  <1>3. 0 .. N \subseteq S
    BY <1>1, <1>2, Counted
  <1>4. N \in S
    BY <1>3
  <1> QED
    BY <1>4 DEF S, Iteration

\* A set of numbers with a bound has a greatest element.
LEMMA GreatestElement ==
    ASSUME NEW N \in Nat, NEW T, T \subseteq 0 .. N, T # {}
    PROVE  \E x \in T : \A y \in T : y <= x
  <1> DEFINE U == {n \in 0 .. N : N - n \in T}
  <1>1. \A t \in T : N - t \in U
    <2>1. \A t \in T : t \in 0 .. N
      OBVIOUS
    <2>2. \A t \in 0 .. N : N - t \in 0 .. N /\ N - (N - t) = t
      OBVIOUS
    <2> QED
      BY <2>1, <2>2
  <1>2. U \subseteq Nat /\ U # {}
    <2>1. PICK t \in T : TRUE
      OBVIOUS
    <2>2. N - t \in U
      BY <1>1
    <2> QED
      BY <2>2
  <1>3. PICK u \in U : \A v \in U : u <= v
    BY <1>2, LeastElement
  <1>4. u \in 0 .. N /\ N - u \in T
    BY <1>3
  <1>5. ASSUME NEW y \in T
        PROVE  y <= N - u
    <2>1. u <= N - y /\ y \in 0 .. N
      BY <1>1, <1>3
    <2> QED
      BY <1>4, <2>1
  <1> QED
    BY <1>4, <1>5

\* Numbers from one on are in A as far as possible, and then one is not.
LEMMA Longest ==
    ASSUME NEW N \in Nat, NEW A
    PROVE  \E n \in 0 .. N : /\ \A i \in 1 .. n : i \in A
                             /\ n < N => n + 1 \notin A
  <1> DEFINE T == {n \in 0 .. N : \A i \in 1 .. n : i \in A}
  <1>1. 0 \in T
    <2>1. \A i \in 1 .. 0 : i \in A
      OBVIOUS
    <2> QED
      BY <2>1
  <1>2. T \subseteq 0 .. N /\ T # {}
    BY <1>1
  <1>3. PICK n \in T : \A y \in T : y <= n
    BY <1>2, GreatestElement
  <1>4. n \in 0 .. N /\ \A i \in 1 .. n : i \in A
    BY <1>3
  <1>5. ASSUME n < N, n + 1 \in A
        PROVE  FALSE
    <2>1. n + 1 \in 0 .. N /\ ~(n + 1 <= n)
      BY <1>4, <1>5
    <2>2. \A i \in 1 .. n + 1 : i \in A
      <3>1. \A i \in 1 .. n + 1 : i \in 1 .. n \/ i = n + 1
        BY <1>4
      <3> QED
        BY <1>4, <1>5, <3>1
    <2>3. n + 1 \in T
      BY <2>1, <2>2
    <2> QED
      BY <1>3, <2>1, <2>3
  <1> QED
    BY <1>4, <1>5

\* Numbers that never grow stay the same from some point on.
LEMMA NumbersSettle ==
    ASSUME NEW w \in [Nat -> Nat], NEW m \in Nat, \A i \in Nat : i >= m => w[i + 1] <= w[i]
    PROVE  \E n \in Nat : n >= m /\ \A i \in Nat : i >= n => w[i] = w[n]
  <1> DEFINE T == {w[i] : i \in {j \in Nat : j >= m}}
  <1>1. T \subseteq Nat /\ T # {}
    <2>1. w[m] \in T
      OBVIOUS
    <2>2. T \subseteq Nat
      OBVIOUS
    <2> QED
      BY <2>1, <2>2
  <1>2. PICK x \in T : \A y \in T : x <= y
    BY <1>1, LeastElement
  <1>3. PICK n \in Nat : n >= m /\ x = w[n]
    BY <1>2
  <1>4. ASSUME NEW i \in Nat, i >= n
        PROVE  w[i] = w[n]
    <2>1. PICK k \in Nat : i = n + k
      <3>1. i - n \in Nat /\ i = n + (i - n)
        BY <1>4
      <3> QED
        BY <3>1
    <2> DEFINE S == {j \in 0 .. k : w[n + j] <= w[n]}
    <2>2. 0 \in S
      <3>1. w[n] <= w[n] /\ n + 0 = n /\ 0 \in 0 .. k
        OBVIOUS
      <3> QED
        BY <3>1
    <2>3. ASSUME NEW j \in 0 .. k - 1, j \in S
          PROVE  j + 1 \in S
      <3>1. n + j \in Nat /\ n + j >= m /\ (n + j) + 1 = n + (j + 1) /\ j + 1 \in 0 .. k
            /\ n + (j + 1) \in Nat
        BY <1>3, <2>1
      <3>2. w[(n + j) + 1] <= w[n + j]
        BY <3>1
      <3>3. w[n + j] <= w[n]
        BY <2>3
      <3>4. w[n + j] \in Nat /\ w[n] \in Nat /\ w[(n + j) + 1] \in Nat
        BY <3>1
      <3>5. w[(n + j) + 1] <= w[n]
        BY <3>2, <3>3, <3>4
      <3>6. w[n + (j + 1)] <= w[n]
        BY <3>1, <3>5
      <3> QED
        BY <3>1, <3>6
    <2> HIDE DEF S
    <2>4. 0 .. k \subseteq S
      BY <2>2, <2>3, Counted
    <2>5. w[i] <= w[n]
      BY <2>1, <2>4 DEF S
    <2>6. i >= m
      BY <1>3, <1>4
    <2>7. w[i] \in T
      BY <2>6
    <2>8. w[n] <= w[i]
      BY <1>2, <1>3, <2>7
    <2> QED
      BY <2>5, <2>8
  <1> QED
    BY <1>3, <1>4

\* Numbers ranked by place cannot fall for ever: the first place that falls
\* pays for whatever the places behind it gain.
LEMMA NoWayDown ==
    ASSUME NEW limit \in Nat, NEW g \in [Nat -> [0 .. limit -> Nat]],
           \A i \in Nat : \E lo \in 0 .. limit :
              /\ g[i + 1][lo] < g[i][lo]
              /\ \A e \in 0 .. lo - 1 : g[i + 1][e] <= g[i][e]
    PROVE  FALSE
  <1> DEFINE Settled(d, n) == \A i \in Nat : i >= n => \A e \in 0 .. d - 1 : g[i][e] = g[n][e]
  <1> DEFINE S == {d \in 0 .. limit + 1 : \E n \in Nat : Settled(d, n)}
  <1>1. 0 \in S
    <2>1. 0 .. 0 - 1 = {} /\ 0 \in 0 .. limit + 1
      OBVIOUS
    <2>2. Settled(0, 0)
      BY <2>1
    <2> QED
      BY <2>1, <2>2
  <1>2. ASSUME NEW d \in 0 .. (limit + 1) - 1, d \in S
        PROVE  d + 1 \in S
    <2>1. PICK m \in Nat : Settled(d, m)
      BY <1>2
    <2>2. d \in Nat /\ d \in 0 .. limit /\ d + 1 \in 0 .. limit + 1
      OBVIOUS
    <2>3. PICK w : w = [i \in Nat |-> g[i][d]]
      OBVIOUS
    <2>4. w \in [Nat -> Nat]
      BY <2>2, <2>3
    <2>5. ASSUME NEW i \in Nat, i >= m
          PROVE  w[i + 1] <= w[i]
      <3>1. PICK lo \in 0 .. limit :
                g[i + 1][lo] < g[i][lo] /\ \A e \in 0 .. lo - 1 : g[i + 1][e] <= g[i][e]
        OBVIOUS
      <3>2. i + 1 \in Nat /\ i + 1 >= m
        BY <2>5
      <3>3. w[i + 1] = g[i + 1][d] /\ w[i] = g[i][d] /\ w[i] \in Nat /\ w[i + 1] \in Nat
        BY <2>3, <2>4, <3>2
      <3>4. CASE lo < d
        <4>1. lo \in 0 .. d - 1
          BY <2>2, <3>4
        <4>2. g[i + 1][lo] = g[m][lo] /\ g[i][lo] = g[m][lo]
          BY <2>1, <2>5, <3>2, <4>1
        <4>3. g[i][lo] \in Nat
          OBVIOUS
        <4>4. PICK x \in Nat : x = g[i][lo]
          BY <4>3
        <4>5. g[i + 1][lo] = x
          BY <4>2, <4>4
        <4>6. x < x
          BY <3>1, <4>4, <4>5
        <4> QED
          BY <4>6
      <3>5. CASE lo = d
        <4>1. g[i + 1][d] < g[i][d]
          BY <3>1, <3>5
        <4>2. PICK x \in Nat, y \in Nat : x = w[i + 1] /\ y = w[i]
          BY <3>3
        <4>3. x < y
          BY <3>3, <4>1, <4>2
        <4>4. x <= y
          BY <4>3
        <4> QED
          BY <4>2, <4>4
      <3>6. CASE lo > d
        <4>1. d \in 0 .. lo - 1
          BY <2>2, <3>6
        <4>2. g[i + 1][d] <= g[i][d]
          BY <3>1, <4>1
        <4> QED
          BY <3>3, <4>2
      <3> QED
        BY <2>2, <3>4, <3>5, <3>6
    <2>6. PICK n \in Nat : n >= m /\ \A i \in Nat : i >= n => w[i] = w[n]
      BY <2>4, <2>5, NumbersSettle
    <2>7. ASSUME NEW i \in Nat, i >= n, NEW e \in 0 .. (d + 1) - 1
          PROVE  g[i][e] = g[n][e]
      <3>1. CASE e = d
        <4>1. w[i] = w[n] /\ w[i] = g[i][d] /\ w[n] = g[n][d]
          BY <2>3, <2>6, <2>7
        <4> QED
          BY <3>1, <4>1
      <3>2. CASE e # d
        <4>1. e \in 0 .. d - 1 /\ i >= m
          BY <2>2, <2>6, <2>7, <3>2
        <4>2. g[i][e] = g[m][e] /\ g[n][e] = g[m][e]
          BY <2>1, <2>6, <4>1
        <4> QED
          BY <4>2
      <3> QED
        BY <3>1, <3>2
    <2>8. Settled(d + 1, n)
      BY <2>7
    <2> QED
      BY <2>2, <2>8
  <1> HIDE DEF S
  <1>3. limit + 1 \in S
    <2>1. limit + 1 \in Nat
      OBVIOUS
    <2>2. \A n \in 0 .. (limit + 1) - 1 : n \in S => n + 1 \in S
      BY <1>2
    <2>3. 0 .. limit + 1 \subseteq S
      BY <1>1, <2>1, <2>2, Counted
    <2> QED
      BY <2>3
  <1>4. PICK n \in Nat : Settled(limit + 1, n)
    BY <1>3 DEF S
  <1>5. PICK lo \in 0 .. limit : g[n + 1][lo] < g[n][lo]
    OBVIOUS
  <1>6. lo \in 0 .. (limit + 1) - 1 /\ n + 1 \in Nat /\ n + 1 >= n
    OBVIOUS
  <1>7. g[n + 1][lo] = g[n][lo]
    BY <1>4, <1>6
  <1>8. g[n][lo] \in Nat
    OBVIOUS
  <1>9. PICK x \in Nat : x = g[n][lo]
    BY <1>8
  <1>10. g[n + 1][lo] = x
    BY <1>7, <1>9
  <1>11. x < x
    BY <1>5, <1>9, <1>10
  <1> QED
    BY <1>11

============================================================================
