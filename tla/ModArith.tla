------------------------------ MODULE ModArith ------------------------------
(***************************************************************************)
(* Facts about the remainder that index arithmetic rests on: a ring buffer *)
(* maps an ever-growing index to a slot with i % c.  They are proved once, *)
(* for every divisor, because the remainder by a symbolic constant is not  *)
(* linear arithmetic; the proofs about queues only cite them.              *)
(***************************************************************************)
EXTENDS Integers, WellFoundedInduction, TLAPS

\* Division with remainder.
LEMMA DivMod ==
  ASSUME NEW c \in Nat \ {0}, NEW a \in Nat
  PROVE  /\ a \div c \in Nat
         /\ a % c \in 0 .. c - 1
         /\ a = c * (a \div c) + (a % c)
  BY Z3

\* A multiple of c strictly between -c and c is zero.
LEMMA ProductGap ==
  ASSUME NEW c \in Nat \ {0}, NEW d \in Int, c * d < c, c * d > 0 - c
  PROVE  d = 0
<1>1. CASE d >= 1
  <2>1. c * d >= c
    BY <1>1, Z3
  <2> QED BY <2>1
<1>2. CASE d <= -1
  <2>1. c * d <= 0 - c
    BY <1>2, Z3
  <2> QED BY <2>1
<1> QED BY <1>1, <1>2

\* The remainder is the only r below c that makes the division come out.
LEMMA ModUnique ==
  ASSUME NEW c \in Nat \ {0}, NEW a \in Nat, NEW q \in Nat, NEW r \in 0 .. c - 1,
         a = c * q + r
  PROVE  a % c = r
<1> DEFINE p == a \div c
           s == a % c
<1>1. p \in Nat /\ s \in 0 .. c - 1 /\ a = c * p + s
  BY DivMod
<1> HIDE DEF p, s
<1>2. c * (p - q) = r - s
  <2>1. c * (p - q) = c * p - c * q
    BY <1>1, Z3
  <2>2. c * p \in Nat /\ c * q \in Nat
    BY <1>1, Z3
  <2> QED BY <1>1, <2>1, <2>2
<1>3. p - q = 0
  BY <1>1, <1>2, ProductGap
<1>4. r = s
  BY <1>1, <1>2, <1>3, Z3
<1> QED
  BY <1>4 DEF s

\* Two indices less than c apart fall into different slots.
LEMMA ModWindow ==
  ASSUME NEW c \in Nat \ {0}, NEW a \in Nat, NEW b \in Nat, a < b, b < a + c
  PROVE  a % c # b % c
<1> DEFINE p == a \div c
           q == b \div c
           r == a % c
           s == b % c
<1> SUFFICES ASSUME r = s
             PROVE  FALSE
  OBVIOUS
<1>0. p \in Nat /\ r \in 0 .. c - 1 /\ a = c * p + r
  BY DivMod
<1>1. q \in Nat /\ s \in 0 .. c - 1 /\ b = c * q + s
  BY DivMod
<1> HIDE DEF p, q, r, s
<1>2. c * (q - p) = b - a
  <2>1. c * (q - p) = c * q - c * p
    BY <1>0, <1>1, Z3
  <2>2. c * p \in Nat /\ c * q \in Nat
    BY <1>0, <1>1, Z3
  <2> QED BY <1>0, <1>1, <2>1, <2>2
<1>3. q - p = 0
  BY <1>0, <1>1, <1>2, ProductGap
<1> QED
  BY <1>0, <1>1, <1>2, <1>3, Z3

\* Adding a multiple of c does not change the slot: why an index may wrap at
\* any multiple of the capacity.
LEMMA ModShift ==
  ASSUME NEW c \in Nat \ {0}, NEW a \in Nat, NEW m \in Nat, m % c = 0
  PROVE  (a + m) % c = a % c
<1> DEFINE p == a \div c
           k == m \div c
           r == a % c
           t == m % c
<1>0. p \in Nat /\ r \in 0 .. c - 1 /\ a = c * p + r
  BY DivMod
<1>1. k \in Nat /\ t \in 0 .. c - 1 /\ m = c * k + t
  BY DivMod
<1>2. t = 0
  OBVIOUS
<1> HIDE DEF p, k, r, t
<1>3. a + m = c * (p + k) + r
  <2>1. c * (p + k) = c * p + c * k
    BY <1>0, <1>1, Z3
  <2>2. c * p \in Nat /\ c * k \in Nat
    BY <1>0, <1>1, Z3
  <2> QED BY <1>0, <1>1, <1>2, <2>1, <2>2
<1>4. (a + m) % c = r
  BY <1>0, <1>1, <1>3, ModUnique
<1> QED
  BY <1>4 DEF r

\* A sum may be reduced as it goes on.
LEMMA ModAgain ==
  ASSUME NEW c \in Nat \ {0}, NEW a \in Nat, NEW k \in Nat
  PROVE  ((a % c) + k) % c = (a + k) % c
<1> DEFINE p == a \div c
           r == a % c
           m == c * p
<1>1. p \in Nat /\ r \in 0 .. c - 1 /\ a = m + r
  BY DivMod
<1> HIDE DEF p, r
<1>2. m \in Nat
  BY <1>1, Z3
<1>3. m % c = 0
  <2>1. m = c * p + 0
    BY <1>1, <1>2
  <2> HIDE DEF m
  <2>2. QED
    BY <1>1, <1>2, <2>1, ModUnique
<1> HIDE DEF m
<1> DEFINE n == r + k
<1>4. n \in Nat /\ n + m = a + k
  BY <1>1, <1>2
<1> HIDE DEF n
<1>5. (n + m) % c = n % c
  BY <1>2, <1>3, <1>4, ModShift
<1>6. QED
  BY <1>4, <1>5 DEF n, r
-----------------------------------------------------------------------------
(* Induction, as facts about sets of numbers.                              *)

\* A set of numbers has a least one.
LEMMA Least ==
  ASSUME NEW S \in SUBSET Nat, S # {}
  PROVE  \E m \in S : \A n \in S : m <= n
<1>1. PICK m \in S : \A n \in S : ~ (<<n, m>> \in OpToRel(<, Nat))
  BY WFMin, NatLessThanWellFounded, Zenon
<1>2. ASSUME NEW n \in S, n < m PROVE FALSE
  <2>1. <<n, m>> \in OpToRel(<, Nat)
    BY <1>2 DEF OpToRel
  <2>2. QED
    BY <1>1, <2>1
<1>3. QED
  BY <1>2

\* A set with 0, and with the successor of each of its numbers, has every number.
LEMMA Induction ==
  ASSUME NEW S, 0 \in S, \A n \in Nat : n \in S => n + 1 \in S
  PROVE  Nat \subseteq S
<1>1. SUFFICES ASSUME Nat \ S # {} PROVE FALSE
  OBVIOUS
<1>2. PICK m \in Nat \ S : \A n \in Nat \ S : m <= n
  BY <1>1, Least
<1>3. m - 1 \in Nat /\ m - 1 \notin Nat \ S
  BY <1>2
<1>4. QED
  BY <1>2, <1>3

\* So does a set of integers with a bound, and one with an upper bound has a greatest.
LEMMA Extremes ==
  ASSUME NEW S \in SUBSET Int, S # {}
  PROVE  /\ (\E b \in Int : \A x \in S : b <= x) => \E m \in S : \A x \in S : m <= x
         /\ (\E b \in Int : \A x \in S : x <= b) => \E m \in S : \A x \in S : x <= m
<1>1. ASSUME NEW b \in Int, \A x \in S : b <= x PROVE \E m \in S : \A x \in S : m <= x
  <2> DEFINE T == {x - b : x \in S}
  <2>0. \A x \in S : x \in Int /\ x - b \in Nat
    BY <1>1
  <2>1. T \in SUBSET Nat /\ T # {}
    BY <2>0
  <2>2. PICK m \in T : \A n \in T : m <= n
    BY <2>1, Least
  <2>3. PICK x \in S : m = x - b
    OBVIOUS
  <2>4. \A y \in S : y - b \in T
    OBVIOUS
  <2> HIDE DEF T
  <2>5. ASSUME NEW y \in S PROVE x <= y
    <3>1. x - b <= y - b /\ x \in Int /\ y \in Int
      BY <2>0, <2>2, <2>3, <2>4
    <3>2. QED
      BY <3>1
  <2>6. QED
    BY <2>5
<1>2. ASSUME NEW b \in Int, \A x \in S : x <= b PROVE \E m \in S : \A x \in S : x <= m
  <2> DEFINE T == {b - x : x \in S}
  <2>0. \A x \in S : x \in Int /\ b - x \in Nat
    BY <1>2
  <2>1. T \in SUBSET Nat /\ T # {}
    BY <2>0
  <2>2. PICK m \in T : \A n \in T : m <= n
    BY <2>1, Least
  <2>3. PICK x \in S : m = b - x
    OBVIOUS
  <2>4. \A y \in S : b - y \in T
    OBVIOUS
  <2> HIDE DEF T
  <2>5. ASSUME NEW y \in S PROVE y <= x
    <3>1. b - x <= b - y /\ x \in Int /\ y \in Int
      BY <2>0, <2>2, <2>3, <2>4
    <3>2. QED
      BY <3>1
  <2>6. QED
    BY <2>5
<1>3. QED
  BY <1>1, <1>2

-----------------------------------------------------------------------------
(* Recursion, in the form that a recursive definition over 0 .. n takes.   *)

\* f begins with b and goes on by step, up to n.
Recurs(f, n, b, step) == f[0] = b /\ \A i \in 1 .. n : f[i] = step[<<i, f[i - 1]>>]

\* There is such a function.
LEMMA Recursion ==
  ASSUME NEW n \in Nat, NEW V, NEW b \in V, NEW step \in [(1 .. n) \X V -> V]
  PROVE  \E f \in [0 .. n -> V] : Recurs(f, n, b, step)
<1> USE DEF Recurs
<1> DEFINE Starts(f, k) == Recurs(f, k, b, step)
           S == {k \in Nat : k <= n => \E f \in [0 .. k -> V] : Starts(f, k)}
<1>1. 0 \in S
  <2>1. [i \in 0 .. 0 |-> b] \in [0 .. 0 -> V] /\ Starts([i \in 0 .. 0 |-> b], 0)
    OBVIOUS
  <2>2. QED
    BY <2>1
<1>2. ASSUME NEW k \in Nat, k \in S PROVE k + 1 \in S
  <2>1. SUFFICES ASSUME k + 1 <= n PROVE \E f \in [0 .. k + 1 -> V] : Starts(f, k + 1)
    OBVIOUS
  <2>2. PICK f \in [0 .. k -> V] : Starts(f, k)
    BY <1>2, <2>1
  <2> DEFINE g == [i \in 0 .. k + 1 |-> IF i = k + 1 THEN step[<<i, f[i - 1]>>] ELSE f[i]]
  <2>3. step[<<k + 1, f[k]>>] \in V
    <3>1. <<k + 1, f[k]>> \in (1 .. n) \X V
      BY <2>1
    <3>2. QED
      BY <3>1
  <2>4. g \in [0 .. k + 1 -> V]
    BY <2>3
  <2>5. g[0] = b
    BY <2>2
  <2>6. ASSUME NEW i \in 1 .. k + 1 PROVE g[i] = step[<<i, g[i - 1]>>]
    <3>1. g[i - 1] = f[i - 1]
      OBVIOUS
    <3>2. CASE i = k + 1
      BY <3>1, <3>2
    <3>3. CASE i # k + 1
      <4>1. i \in 1 .. k /\ g[i] = f[i]
        BY <3>3
      <4>2. QED
        BY <2>2, <3>1, <4>1
    <3>4. QED
      BY <3>2, <3>3
  <2> HIDE DEF g
  <2>7. QED
    BY <2>4, <2>5, <2>6
<1>3. n \in S
  <2> HIDE DEF S
  <2>1. Nat \subseteq S
    BY <1>1, <1>2, Induction
  <2>2. QED
    BY <2>1
<1>4. QED
  BY <1>3
=============================================================================
