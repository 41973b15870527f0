------------------------------- MODULE Lemmas -------------------------------
(***************************************************************************)
(* What the proofs share: induction and recursion on the natural numbers   *)
(* for a set or a function, where the library has them for an operator;    *)
(* counting; division; and what DataTypes makes of numbers and bytes.      *)
(***************************************************************************)
EXTENDS DataTypes, FiniteSets, WellFoundedInduction, FiniteSetTheorems, SequenceTheorems, TLAPS

\* A set of natural numbers that is not empty has a least element.
LEMMA Least ==
    ASSUME NEW S, S \subseteq Nat, S # {}
    PROVE  \E m \in S : \A k \in S : m <= k
  <1>1. IsWellFoundedOn(OpToRel(<, Nat), Nat)
    BY NatLessThanWellFounded
  <1>2. PICK m \in S : \A k \in S : ~(<<k, m>> \in OpToRel(<, Nat))
    BY <1>1, WFMin
  <1>3. \A k \in S : ~(k < m)
    BY <1>2 DEF OpToRel
  <1> QED
    BY <1>3

\* And one that is bounded a greatest.
LEMMA Greatest ==
    ASSUME NEW n \in Nat, NEW S, S \subseteq 0 .. n, S # {}
    PROVE  \E m \in S : \A k \in S : k <= m
  <1> DEFINE T == {i \in Nat : i <= n /\ n - i \in S}
  <1>1. T \subseteq Nat /\ T # {}
    <2>1. PICK k \in S : TRUE
      OBVIOUS
    <2>2. k \in Nat /\ k <= n
      BY <2>1
    <2>3. n - k \in Nat /\ n - k <= n /\ n - (n - k) = k
      BY <2>2
    <2> QED
      BY <2>1, <2>3
  <1> HIDE DEF T
  <1>2. PICK i \in T : \A j \in T : i <= j
    BY <1>1, Least
  <1>3. i \in Nat /\ n - i \in S
    BY <1>2 DEF T
  <1>4. ASSUME NEW k \in S PROVE k <= n - i
    <2>1. k \in Nat /\ k <= n
      OBVIOUS
    <2>2. n - k \in Nat /\ n - k <= n /\ n - (n - k) = k
      BY <2>1
    <2>3. i <= n - k
      BY <1>2, <2>2 DEF T
    <2> QED
      BY <1>3, <2>1, <2>3
  <1> QED
    BY <1>3, <1>4

LEMMA SetInduction ==
    ASSUME NEW T, 0 \in T, \A n \in Nat : n \in T => n + 1 \in T
    PROVE  \A n \in Nat : n \in T
  <1> DEFINE S == {n \in Nat : n \notin T}
  <1> SUFFICES ASSUME S # {} PROVE FALSE
    OBVIOUS
  <1>1. PICK m \in S : \A k \in S : m <= k
    BY Least
  <1>2. m \in Nat /\ m # 0 /\ m - 1 \in Nat /\ (m - 1) + 1 = m
    BY <1>1
  <1>3. m - 1 \in T
    BY <1>1, <1>2
  <1> QED
    BY <1>1, <1>2, <1>3

\* A finite set of integers that is not empty has a greatest.
LEMMA GreatestOfFinite ==
    ASSUME NEW S, IsFiniteSet(S), S \subseteq Int, S # {}
    PROVE  \E m \in S : \A k \in S : k <= m
  <1> DEFINE Has(R) == R # {} => \E m \in R : \A k \in R : k <= m
             T == {n \in Nat : \A R \in SUBSET S : Cardinality(R) = n => Has(R)}
  <1>1. \A R \in SUBSET S : IsFiniteSet(R) /\ Cardinality(R) \in Nat
    BY FS_Subset, FS_CardinalityType
  <1>2. 0 \in T
    <2>1. ASSUME NEW R \in SUBSET S, Cardinality(R) = 0 PROVE Has(R)
      BY <1>1, <2>1, FS_EmptySet
    <2> HIDE DEF Has
    <2> QED
      BY <2>1
  <1>3. ASSUME NEW n \in Nat, n \in T PROVE n + 1 \in T
    <2>1. ASSUME NEW R \in SUBSET S, Cardinality(R) = n + 1, R # {}
          PROVE  \E m \in R : \A k \in R : k <= m
      <3>1. PICK x \in R : TRUE
        BY <2>1
      <3> DEFINE Q == R \ {x}
      <3>2. Q \in SUBSET S /\ Cardinality(Q) = n /\ x \in Int
        <4>1. Cardinality(R \ {x}) = Cardinality(R) - 1
          BY <1>1, <3>1, FS_RemoveElement
        <4> QED
          BY <2>1, <4>1
      <3>3. Has(Q)
        <4> HIDE DEF Has, Q
        <4> QED
          BY <1>3, <3>2
      <3>4. CASE Q = {}
        <4>1. R = {x}
          BY <3>1, <3>4
        <4>2. x <= x
          BY <3>2
        <4> QED
          BY <4>1, <4>2
      <3>5. CASE Q # {}
        <4>1. PICK m \in Q : \A k \in Q : k <= m
          BY <3>3, <3>5
        <4>2. m \in R /\ m \in Int /\ x \in Int /\ \A k \in R : k = x \/ k <= m
          BY <3>2, <4>1
        <4>3. CASE x <= m
          BY <4>2, <4>3
        <4>4. CASE m <= x
          <5>1. \A k \in R : k <= x
            BY <4>2, <4>4
          <5> QED
            BY <5>1
        <4> QED
          BY <4>2, <4>3, <4>4
      <3> QED
        BY <3>4, <3>5
    <2>2. \A R \in SUBSET S : Cardinality(R) = n + 1 => Has(R)
      BY <2>1
    <2> HIDE DEF Has
    <2> QED
      BY <2>2
  <1> HIDE DEF T
  <1>4. \A n \in Nat : n \in T
    BY <1>2, <1>3, SetInduction
  <1>5. S \in SUBSET S /\ Cardinality(S) \in Nat /\ Cardinality(S) \in T
    BY <1>1, <1>4
  <1>6. Has(S)
    <2> HIDE DEF Has
    <2> QED
      BY <1>5 DEF T
  <1> QED
    BY <1>6

\* The same up to a bound.
LEMMA BoundedInduction ==
    ASSUME NEW N \in Nat, NEW T, 0 \in T,
           \A n \in 0 .. N - 1 : n \in T => n + 1 \in T
    PROVE  \A n \in 0 .. N : n \in T
  <1> DEFINE S == {n \in Nat : n <= N => n \in T}
  <1>1. 0 \in S
    OBVIOUS
  <1>2. \A n \in Nat : n \in S => n + 1 \in S
    OBVIOUS
  <1> HIDE DEF S
  <1>3. \A n \in Nat : n \in S
    BY <1>1, <1>2, SetInduction
  <1> QED
    BY <1>3 DEF S

\* A start and a step define a function.
Follows(f, base, step) == /\ f[0] = base
                          /\ \A n \in Nat : f[n + 1] = step[<<n, f[n]>>]

LEMMA Recursion ==
    ASSUME NEW S, NEW base \in S, NEW step \in [Nat \X S -> S]
    PROVE  \E f \in [Nat -> S] : Follows(f, base, step)
  <1> DEFINE Good(g, n) == /\ g[0] = base
                           /\ \A k \in 0 .. n - 1 : g[k + 1] = step[<<k, g[k]>>]
             T == {n \in Nat : \E g \in [0 .. n -> S] : Good(g, n)}
  <1>1. 0 \in T
    <2>1. Good([k \in 0 .. 0 |-> base], 0)
      OBVIOUS
    <2> QED
      BY <2>1
  <1>2. ASSUME NEW n \in Nat, n \in T PROVE n + 1 \in T
    <2>1. PICK g \in [0 .. n -> S] : Good(g, n)
      BY <1>2
    <2> DEFINE h == [k \in 0 .. n + 1 |-> IF k = n + 1 THEN step[<<n, g[n]>>] ELSE g[k]]
    <2>2. step[<<n, g[n]>>] \in S
      OBVIOUS
    <2>3. h \in [0 .. n + 1 -> S]
      BY <2>2
    <2>4. h[0] = base
      BY <2>1
    <2>5. ASSUME NEW k \in 0 .. n PROVE h[k + 1] = step[<<k, h[k]>>]
      <3>1. CASE k = n
        <4>1. h[n] = g[n] /\ h[n + 1] = step[<<n, g[n]>>]
          OBVIOUS
        <4> HIDE DEF h
        <4> QED
          BY <3>1, <4>1
      <3>2. CASE k # n
        <4>1. k \in 0 .. n - 1 /\ k + 1 \in 0 .. n /\ k + 1 # n + 1
          BY <3>2
        <4> QED
          BY <2>1, <4>1
      <3> QED
        BY <3>1, <3>2
    <2>6. 0 .. (n + 1) - 1 = 0 .. n
      OBVIOUS
    <2> HIDE DEF h
    <2>7. Good(h, n + 1)
      BY <2>4, <2>5, <2>6
    <2> QED
      BY <2>3, <2>7
  <1> HIDE DEF T
  <1>3. \A n \in Nat : n \in T
    BY <1>1, <1>2, SetInduction
  <1>4. ASSUME NEW n \in Nat, NEW m \in Nat,
               NEW g \in [0 .. n -> S], NEW h \in [0 .. m -> S],
               Good(g, n), Good(h, m)
        PROVE  \A k \in Nat : k <= n /\ k <= m => g[k] = h[k]
    <2> DEFINE U == {k \in Nat : k <= n /\ k <= m => g[k] = h[k]}
    <2>1. 0 \in U
      BY <1>4
    <2>2. ASSUME NEW k \in Nat, k \in U PROVE k + 1 \in U
      <3>1. CASE k + 1 <= n /\ k + 1 <= m
        <4>1. k \in 0 .. n - 1 /\ k \in 0 .. m - 1
          BY <3>1
        <4>2. g[k] = h[k]
          BY <2>2, <4>1
        <4>3. g[k + 1] = step[<<k, g[k]>>]
          BY <1>4, <4>1
        <4>4. h[k + 1] = step[<<k, h[k]>>]
          BY <1>4, <4>1
        <4> QED
          BY <4>2, <4>3, <4>4
      <3>2. CASE ~(k + 1 <= n /\ k + 1 <= m)
        BY <3>2
      <3> QED
        BY <3>1, <3>2
    <2> HIDE DEF U
    <2>3. \A k \in Nat : k \in U
      BY <2>1, <2>2, SetInduction
    <2> QED
      BY <2>3 DEF U
  <1> DEFINE G(n) == CHOOSE g \in [0 .. n -> S] : Good(g, n)
             f == [n \in Nat |-> G(n)[n]]
  <1>5. \A n \in Nat : G(n) \in [0 .. n -> S] /\ Good(G(n), n)
    BY <1>3 DEF T
  <1> HIDE DEF G
  <1>6. f \in [Nat -> S]
    BY <1>5
  <1>7. f[0] = base
    BY <1>5
  <1>8. ASSUME NEW n \in Nat PROVE f[n + 1] = step[<<n, f[n]>>]
    <2>1. G(n + 1)[n + 1] = step[<<n, G(n + 1)[n]>>]
      <3>1. n \in 0 .. (n + 1) - 1 /\ n + 1 \in Nat
        OBVIOUS
      <3> QED
        BY <1>5, <3>1
    <2>2. G(n + 1)[n] = G(n)[n]
      <3>1. n + 1 \in Nat /\ n <= n + 1 /\ n <= n
        OBVIOUS
      <3> HIDE DEF Good
      <3> QED
        BY <1>4, <1>5, <3>1
    <2> QED
      BY <2>1, <2>2
  <1> HIDE DEF f
  <1> QED
    BY <1>6, <1>7, <1>8 DEF Follows

\* How many elements of a set of numbers there are up to one.
UpTo(T, k) == T \cap (1 .. k)
CountTo(T, k) == Cardinality(UpTo(T, k))

LEMMA CountGrows ==
    ASSUME NEW T, NEW k \in Nat
    PROVE  /\ IsFiniteSet(UpTo(T, k))
           /\ CountTo(T, k) \in Nat
           /\ k + 1 \in T => CountTo(T, k + 1) = CountTo(T, k) + 1
           /\ k + 1 \notin T => CountTo(T, k + 1) = CountTo(T, k)
  <1>1. IsFiniteSet(UpTo(T, k))
    <2>1. IsFiniteSet(1 .. k) /\ UpTo(T, k) \subseteq 1 .. k
      BY FS_Interval DEF UpTo
    <2> QED
      BY <2>1, FS_Subset
  <1>2. CountTo(T, k) \in Nat
    BY <1>1, FS_CardinalityType DEF CountTo
  <1>3. ASSUME k + 1 \in T PROVE CountTo(T, k + 1) = CountTo(T, k) + 1
    <2>1. UpTo(T, k + 1) = UpTo(T, k) \cup {k + 1} /\ k + 1 \notin UpTo(T, k)
      BY <1>3 DEF UpTo
    <2> QED
      BY <1>1, <1>2, <2>1, FS_AddElement DEF CountTo
  <1>4. ASSUME k + 1 \notin T PROVE CountTo(T, k + 1) = CountTo(T, k)
    <2>1. UpTo(T, k + 1) = UpTo(T, k)
      BY <1>4 DEF UpTo
    <2> QED
      BY <2>1 DEF CountTo
  <1> QED
    BY <1>1, <1>2, <1>3, <1>4

LEMMA CountBounded ==
    ASSUME NEW T, NEW n \in Nat, NEW k \in 1 .. n, k \in T
    PROVE  CountTo(T, k) \in 1 .. CountTo(T, n)
  <1>1. /\ IsFiniteSet(UpTo(T, k)) /\ CountTo(T, k) \in Nat
        /\ IsFiniteSet(UpTo(T, n)) /\ CountTo(T, n) \in Nat
    BY CountGrows
  <1>2. UpTo(T, k) \subseteq UpTo(T, n) /\ k \in UpTo(T, k)
    BY DEF UpTo
  <1>3. CountTo(T, k) <= CountTo(T, n)
    BY <1>1, <1>2, FS_Subset DEF CountTo
  <1>4. CountTo(T, k) # 0
    BY <1>1, <1>2, FS_EmptySet DEF CountTo
  <1> QED
    BY <1>1, <1>3, <1>4

\* Each number up to the count of a set is the count up to one of its elements.
LEMMA CountReaches ==
    ASSUME NEW T, NEW n \in Nat
    PROVE  \A k \in 1 .. CountTo(T, n) : \E i \in T \cap (1 .. n) : CountTo(T, i) = k
  <1> DEFINE Reaches(m) == \A k \in 1 .. CountTo(T, m) : \E i \in T \cap (1 .. m) : CountTo(T, i) = k
             R == {m \in Nat : Reaches(m)}
  <1>1. 0 \in R
    <2>1. UpTo(T, 0) = {}
      BY DEF UpTo
    <2>2. CountTo(T, 0) = 0
      BY <2>1, FS_EmptySet DEF CountTo
    <2> QED
      BY <2>2
  <1>2. ASSUME NEW m \in Nat, m \in R PROVE m + 1 \in R
    <2>1. /\ CountTo(T, m) \in Nat
          /\ m + 1 \in T => CountTo(T, m + 1) = CountTo(T, m) + 1
          /\ m + 1 \notin T => CountTo(T, m + 1) = CountTo(T, m)
      BY CountGrows
    <2>2. ASSUME NEW k \in 1 .. CountTo(T, m + 1) PROVE \E i \in T \cap (1 .. m + 1) : CountTo(T, i) = k
      <3>1. CASE k \in 1 .. CountTo(T, m)
        <4>1. PICK i \in T \cap (1 .. m) : CountTo(T, i) = k
          BY <1>2, <3>1
        <4>2. i \in T \cap (1 .. m + 1)
          OBVIOUS
        <4> QED
          BY <4>1, <4>2
      <3>2. CASE k \notin 1 .. CountTo(T, m)
        <4>1. m + 1 \in T
          BY <2>1, <2>2, <3>2
        <4>2. k = CountTo(T, m + 1)
          BY <2>1, <2>2, <3>2, <4>1
        <4>3. m + 1 \in T \cap (1 .. m + 1)
          BY <4>1
        <4> QED
          BY <4>2, <4>3
      <3> QED
        BY <3>1, <3>2
    <2>3. Reaches(m + 1)
      BY <2>2
    <2> HIDE DEF Reaches
    <2> QED
      BY <2>3
  <1> HIDE DEF R
  <1>3. \A m \in Nat : m \in R
    BY <1>1, <1>2, SetInduction
  <1> QED
    BY <1>3 DEF R

\* No two elements have the same count.
LEMMA CountTells ==
    ASSUME NEW T, NEW i \in Nat, NEW j \in Nat, i < j, j \in T
    PROVE  CountTo(T, i) < CountTo(T, j)
  <1>1. j - 1 \in Nat /\ (j - 1) + 1 = j
    OBVIOUS
  <1>2. CountTo(T, j - 1) \in Nat /\ IsFiniteSet(UpTo(T, j - 1)) /\ CountTo(T, j) = CountTo(T, j - 1) + 1
    BY <1>1, CountGrows
  <1>3. CountTo(T, i) \in Nat
    BY CountGrows
  <1>4. UpTo(T, i) \subseteq UpTo(T, j - 1)
    BY DEF UpTo
  <1>5. CountTo(T, i) <= CountTo(T, j - 1)
    BY <1>2, <1>4, FS_Subset DEF CountTo
  <1> QED
    BY <1>2, <1>3, <1>5

-----------------------------------------------------------------------------
(* Division.                                                               *)

\* Division by a positive number.
LEMMA Divides ==
    ASSUME NEW p \in Int, NEW q \in Nat \ {0}
    PROVE  /\ p \div q \in Int
           /\ p % q \in 0 .. q - 1
           /\ p = q * (p \div q) + (p % q)
  OBVIOUS

\* The quotient and the remainder are the only ones.
LEMMA DividedAs ==
    ASSUME NEW p \in Int, NEW q \in Nat \ {0}, NEW d \in Int, NEW r \in 0 .. q - 1,
           p = q * d + r
    PROVE  p \div q = d /\ p % q = r
  <1>1. PICK e \in Int, s \in 0 .. q - 1 : e = p \div q /\ s = p % q /\ p = q * e + s
    BY Divides
  <1>2. q * d + r = q * e + s
    BY <1>1
  <1>3. q * (d - e) = s - r
    BY <1>2
  <1>4. d = e
    <2>1. ASSUME d > e PROVE FALSE
      <3>1. d - e \in Nat /\ d - e >= 1
        BY <2>1
      <3>2. q * (d - e) >= q
        BY <3>1
      <3> QED
        BY <1>3, <3>2
    <2>2. ASSUME e > d PROVE FALSE
      <3>1. e - d \in Nat /\ e - d >= 1
        BY <2>2
      <3>2. q * (e - d) >= q
        BY <3>1
      <3>3. q * (e - d) = r - s
        BY <1>2
      <3> QED
        BY <3>2, <3>3
    <2> QED
      BY <2>1, <2>2
  <1>5. r = s
    BY <1>2, <1>4
  <1> QED
    BY <1>1, <1>4, <1>5

\* Dividing twice is dividing by the product.
LEMMA DividedTwice ==
    ASSUME NEW p \in Nat, NEW q \in Nat \ {0}, NEW b \in Nat \ {0}
    PROVE  p \div q = b * (p \div (b * q)) + ((p \div q) % b)
  <1>1. b * q \in Nat \ {0}
    OBVIOUS
  <1>2. PICK d \in Int, r \in 0 .. (b * q) - 1 : d = p \div (b * q) /\ p = (b * q) * d + r
    BY <1>1, Divides
  <1>3. PICK e \in Int, s \in 0 .. q - 1 : e = r \div q /\ r = q * e + s
    BY Divides
  <1>4. e \in 0 .. b - 1
    <2>1. ASSUME e < 0 PROVE FALSE
      <3>1. q * e <= -q
        BY <2>1
      <3> QED
        BY <1>3, <3>1
    <2>2. ASSUME e >= b PROVE FALSE
      <3>1. e - b \in Nat
        BY <2>2
      <3>2. q * (e - b) >= 0
        BY <3>1
      <3>3. q * e = b * q + q * (e - b)
        OBVIOUS
      <3> QED
        BY <1>3, <3>2, <3>3
    <2> QED
      BY <2>1, <2>2
  <1>5. p = q * (b * d + e) + s
    <2>1. p = (b * q) * d + (q * e + s)
      BY <1>2, <1>3
    <2>2. (b * q) * d = q * (b * d)
      OBVIOUS
    <2>3. q * (b * d + e) = q * (b * d) + q * e
      OBVIOUS
    <2> QED
      BY <1>3, <2>1, <2>2, <2>3
  <1>6. p \div q = b * d + e
    BY <1>5, DividedAs
  <1>7. (b * d + e) % b = e
    BY <1>4, DividedAs
  <1> QED
    BY <1>2, <1>6, <1>7

LEMMA QuotientBelow ==
    ASSUME NEW p \in Nat, NEW q \in Nat \ {0}, NEW b \in Nat, p < q * b
    PROVE  p \div q \in Nat /\ p \div q < b
  <1>1. PICK e \in Int, s \in 0 .. q - 1 : e = p \div q /\ p = q * e + s
    BY Divides
  <1>2. ASSUME e < 0 PROVE FALSE
    <2>1. q * e <= -q
      BY <1>2
    <2> QED
      BY <1>1, <2>1
  <1>3. ASSUME e >= b PROVE FALSE
    <2>1. q * (e - b) >= 0
      BY <1>3
    <2> QED
      BY <1>1, <2>1
  <1> QED
    BY <1>1, <1>2, <1>3

-----------------------------------------------------------------------------
(* Numbers and their bytes.                                                *)

\* How many values there are for one byte more.
LEMMA PatternsGrow ==
    /\ Patterns \in [Nat -> Nat \ {0}]
    /\ Patterns[0] = 1
    /\ \A n \in Nat : Patterns[n + 1] = 256 * Patterns[n]
  <1> DEFINE body(f) == [n \in Nat |-> IF n = 0 THEN 1 ELSE 256 * f[n - 1]]
             step == [x \in Nat \X (Nat \ {0}) |-> 256 * x[2]]
  <1>1. step \in [Nat \X (Nat \ {0}) -> Nat \ {0}]
    OBVIOUS
  <1>2. \A i \in Nat, t \in Nat \ {0} : step[<<i, t>>] = 256 * t
    OBVIOUS
  <1> HIDE DEF step
  <1>3. PICK g \in [Nat -> Nat \ {0}] : Follows(g, 1, step)
    <2>1. 1 \in Nat \ {0}
      OBVIOUS
    <2> DEFINE S == Nat \ {0}
    <2> HIDE DEF S
    <2>2. 1 \in S /\ step \in [Nat \X S -> S]
      BY <1>1, <2>1 DEF S
    <2>3. \E g \in [Nat -> S] : Follows(g, 1, step)
      BY <2>2, Recursion
    <2> QED
      BY <2>3 DEF S
  <1>4. g[0] = 1 /\ \A n \in Nat : g[n + 1] = 256 * g[n]
    <2>1. \A n \in Nat : g[n] \in Nat \ {0}
      BY <1>3
    <2>2. g[0] = 1 /\ \A n \in Nat : g[n + 1] = step[<<n, g[n]>>]
      BY <1>3 DEF Follows
    <2>3. \A n \in Nat : step[<<n, g[n]>>] = 256 * g[n]
      BY <1>2, <2>1
    <2> QED
      BY <2>2, <2>3
  <1>5. g = body(g)
    <2>1. \A n \in Nat : g[n] = IF n = 0 THEN 1 ELSE 256 * g[n - 1]
      <3> TAKE n \in Nat
      <3>1. CASE n = 0
        BY <1>4, <3>1
      <3>2. CASE n # 0
        <4>1. n - 1 \in Nat /\ (n - 1) + 1 = n
          BY <3>2
        <4> QED
          BY <1>4, <3>2, <4>1
      <3> QED
        BY <3>1, <3>2
    <2> QED
      BY <2>1
  <1>6. Patterns = body(Patterns)
    <2>1. Patterns = CHOOSE f : f = body(f)
      BY DEF Patterns
    <2> HIDE DEF body
    <2> QED
      BY <1>5, <2>1
  <1>7. Patterns[0] = 1 /\ \A n \in Nat : Patterns[n + 1] = 256 * Patterns[n]
    <2>1. ASSUME NEW n \in Nat PROVE Patterns[n + 1] = 256 * Patterns[n]
      <3>1. n + 1 \in Nat /\ n + 1 # 0 /\ (n + 1) - 1 = n
        OBVIOUS
      <3> QED
        BY <1>6, <3>1
    <2> QED
      BY <1>6, <2>1
  <1> DEFINE T == {n \in Nat : Patterns[n] \in Nat \ {0}}
  <1>8. \A n \in Nat : n \in T
    <2>1. 0 \in T
      BY <1>7
    <2>2. \A n \in Nat : n \in T => n + 1 \in T
      BY <1>7
    <2> HIDE DEF T
    <2> QED
      BY <2>1, <2>2, SetInduction
  <1>9. Patterns = [n \in Nat |-> Patterns[n]]
    <2> HIDE DEF body
    <2>1. DOMAIN body(Patterns) = Nat /\ body(Patterns) = [n \in Nat |-> body(Patterns)[n]]
      BY DEF body
    <2> QED
      BY <1>6, <2>1
  <1> QED
    BY <1>7, <1>8, <1>9

LEMMA PatternsAre ==
    ASSUME NEW n \in Nat
    PROVE  Patterns[n] \in Nat \ {0} /\ Patterns[n + 1] = 256 * Patterns[n]
  BY PatternsGrow

\* Half of them.
LEMMA HalfOfPatterns ==
    ASSUME NEW n \in Nat \ {0}
    PROVE  /\ Patterns[n] \div 2 \in Nat \ {0}
           /\ Patterns[n] = 2 * (Patterns[n] \div 2)
  <1>1. PICK q \in Nat \ {0} : Patterns[n] = 256 * q
    <2>1. PICK m \in Nat : m + 1 = n
      <3>1. n - 1 \in Nat /\ (n - 1) + 1 = n
        OBVIOUS
      <3> QED
        BY <3>1
    <2>2. Patterns[m] \in Nat \ {0} /\ Patterns[m + 1] = 256 * Patterns[m]
      BY PatternsAre
    <2> QED
      BY <2>1, <2>2
  <1>2. Patterns[n] \div 2 = 128 * q
    BY <1>1
  <1> QED
    BY <1>1, <1>2

LEMMA BytesAre ==
    ASSUME NEW n \in Nat, NEW p \in Nat
    PROVE  /\ BytesOf(n, p) \in Seq(Byte)
           /\ Len(BytesOf(n, p)) = n
           /\ \A i \in 1 .. n : BytesOf(n, p)[i] = (p \div Patterns[n - i]) % 256
  <1>1. ASSUME NEW i \in 1 .. n PROVE (p \div Patterns[n - i]) % 256 \in Byte
    <2>1. n - i \in Nat
      OBVIOUS
    <2>2. Patterns[n - i] \in Nat \ {0}
      BY <2>1, PatternsAre
    <2>3. p \div Patterns[n - i] \in Int
      BY <2>2
    <2> QED
      BY <2>3 DEF Byte
  <1>2. BytesOf(n, p) \in [1 .. n -> Byte]
    BY <1>1 DEF BytesOf
  <1> QED
    BY <1>2 DEF BytesOf

\* The number of bytes, one byte after the other.
Reads(bytes, f) == /\ f[0] = 0
                   /\ \A i \in 1 .. Len(bytes) : f[i] = 256 * f[i - 1] + bytes[i]

LEMMA NumberIs ==
    ASSUME NEW bytes \in Seq(Byte), NEW f \in [0 .. Len(bytes) -> Nat], Reads(bytes, f)
    PROVE  NumberOf(bytes) = f[Len(bytes)]
  <1> DEFINE n == Len(bytes)
             body(t) == [i \in 0 .. n |-> IF i = 0 THEN 0 ELSE 256 * t[i - 1] + bytes[i]]
             upTo == CHOOSE t : t = body(t)
  <1>1. n \in Nat /\ \A i \in 1 .. n : bytes[i] \in Nat
    <2>1. n \in Nat /\ bytes \in [1 .. n -> Byte]
      BY LenProperties
    <2>2. \A b \in Byte : b \in Nat /\ b < 256
      BY DEF Byte
    <2> QED
      BY <2>1, <2>2
  <1>2. NumberOf(bytes) = upTo[n]
    BY DEF NumberOf
  <1>3. f = body(f)
    <2>1. f = [i \in 0 .. n |-> f[i]]
      OBVIOUS
    <2>2. \A i \in 0 .. n : f[i] = IF i = 0 THEN 0 ELSE 256 * f[i - 1] + bytes[i]
      BY <1>1 DEF Reads
    <2> HIDE DEF n
    <2> QED
      BY <2>1, <2>2
  <1>4. upTo = body(upTo)
    <2> HIDE DEF body
    <2> QED
      BY <1>3
  <1> HIDE DEF upTo
  <1> DEFINE T == {i \in Nat : i <= n => upTo[i] = f[i]}
  <1>5. 0 \in T
    BY <1>1, <1>4 DEF Reads
  <1>6. ASSUME NEW i \in Nat, i \in T PROVE i + 1 \in T
    <2>1. CASE i + 1 <= n
      <3>1. i + 1 \in 1 .. n /\ i + 1 \in 0 .. n /\ (i + 1) - 1 = i /\ i + 1 # 0 /\ i <= n
        BY <1>1, <2>1
      <3> HIDE DEF n
      <3>2. upTo[i + 1] = 256 * upTo[i] + bytes[i + 1]
        BY <1>4, <3>1
      <3>3. f[i + 1] = 256 * f[i] + bytes[i + 1]
        BY <3>1 DEF Reads, n
      <3> QED
        BY <1>6, <3>1, <3>2, <3>3
    <2>2. CASE ~(i + 1 <= n)
      BY <2>2
    <2> QED
      BY <2>1, <2>2
  <1> HIDE DEF T
  <1>7. \A i \in Nat : i \in T
    BY <1>5, <1>6, SetInduction
  <1> QED
    BY <1>1, <1>2, <1>7 DEF T

LEMMA ByteBelow ==
    ASSUME NEW t \in Nat, NEW m \in Nat, NEW b \in Nat, t < m, b < 256
    PROVE  256 * t + b < 256 * m
  OBVIOUS

\* There is such a number, of as many patterns.
LEMMA NumberReads ==
    ASSUME NEW bytes \in Seq(Byte)
    PROVE  \E f \in [0 .. Len(bytes) -> Nat] :
              Reads(bytes, f) /\ \A i \in 0 .. Len(bytes) : f[i] < Patterns[i]
  <1> DEFINE n == Len(bytes)
             step == [x \in Nat \X Nat |-> 256 * x[2] + (IF x[1] + 1 \in 1 .. n THEN bytes[x[1] + 1] ELSE 0)]
  <1>1. n \in Nat /\ \A i \in 1 .. n : bytes[i] \in Nat /\ bytes[i] < 256
    <2>1. n \in Nat /\ bytes \in [1 .. n -> Byte]
      BY LenProperties
    <2>2. \A b \in Byte : b \in Nat /\ b < 256
      BY DEF Byte
    <2> QED
      BY <2>1, <2>2
  <1>2. step \in [Nat \X Nat -> Nat]
    <2> HIDE DEF n
    <2> QED
      BY <1>1
  <1>3. \A i \in Nat, t \in Nat : i + 1 \in 1 .. n => step[<<i, t>>] = 256 * t + bytes[i + 1]
    <2> HIDE DEF n
    <2> QED
      OBVIOUS
  <1> HIDE DEF step
  <1>4. PICK g \in [Nat -> Nat] : Follows(g, 0, step)
    BY <1>2, Recursion
  <1> DEFINE f == [i \in 0 .. n |-> g[i]]
  <1>5. f \in [0 .. n -> Nat] /\ f[0] = 0
    BY <1>1, <1>4 DEF Follows
  <1>6. ASSUME NEW i \in 1 .. n PROVE f[i] = 256 * f[i - 1] + bytes[i]
    <2> HIDE DEF n
    <2>1. i - 1 \in Nat /\ (i - 1) + 1 = i /\ i \in 0 .. n /\ i - 1 \in 0 .. n
      BY <1>1
    <2>2. g[(i - 1) + 1] = step[<<i - 1, g[i - 1]>>]
      BY <1>4, <2>1 DEF Follows
    <2>3. step[<<i - 1, g[i - 1]>>] = 256 * g[i - 1] + bytes[(i - 1) + 1]
      <3>1. i - 1 \in Nat /\ g[i - 1] \in Nat /\ (i - 1) + 1 \in 1 .. n
        BY <1>4, <2>1
      <3> QED
        BY <1>3, <3>1
    <2>4. g[i] = 256 * g[i - 1] + bytes[i]
      BY <2>1, <2>2, <2>3
    <2> QED
      BY <2>1, <2>4
  <1> HIDE DEF f
  <1>7. Reads(bytes, f)
    BY <1>5, <1>6 DEF Reads
  <1> DEFINE T == {i \in Nat : i <= n => f[i] < Patterns[i]}
  <1>8. 0 \in T
    BY <1>5, PatternsGrow
  <1>9. ASSUME NEW i \in Nat, i \in T PROVE i + 1 \in T
    <2>1. CASE i + 1 <= n
      <3> HIDE DEF n
      <3>1. i + 1 \in 1 .. n /\ (i + 1) - 1 = i /\ i <= n /\ i \in 0 .. n
        BY <1>1, <2>1
      <3>2. f[i + 1] = 256 * f[i] + bytes[i + 1]
        BY <1>6, <3>1
      <3>3. f[i] < Patterns[i] /\ f[i] \in Nat
        BY <1>5, <1>9, <3>1
      <3>4. Patterns[i] \in Nat /\ Patterns[i + 1] = 256 * Patterns[i]
        BY PatternsAre
      <3>5. bytes[i + 1] \in Nat /\ bytes[i + 1] < 256
        BY <1>1, <3>1
      <3>7. 256 * f[i] + bytes[i + 1] < 256 * Patterns[i]
        BY <3>3, <3>4, <3>5, ByteBelow, ZenonT(60)
      <3>8. f[i + 1] < Patterns[i + 1]
        BY <3>2, <3>4, <3>7
      <3> QED
        BY <3>8
    <2>2. CASE ~(i + 1 <= n)
      BY <2>2
    <2> QED
      BY <2>1, <2>2
  <1> HIDE DEF T
  <1>10. \A i \in Nat : i \in T
    BY <1>8, <1>9, SetInduction
  <1> QED
    BY <1>1, <1>5, <1>7, <1>10 DEF T

LEMMA NumberBounded ==
    ASSUME NEW bytes \in Seq(Byte)
    PROVE  NumberOf(bytes) \in Nat /\ NumberOf(bytes) < Patterns[Len(bytes)]
  <1>1. PICK f \in [0 .. Len(bytes) -> Nat] :
           Reads(bytes, f) /\ \A i \in 0 .. Len(bytes) : f[i] < Patterns[i]
    BY NumberReads
  <1>2. Len(bytes) \in Nat
    BY LenProperties
  <1>3. Len(bytes) \in 0 .. Len(bytes)
    BY <1>2
  <1> QED
    BY <1>1, <1>3, NumberIs

\* The bytes of a number are that number.
LEMMA NumberOfBytes ==
    ASSUME NEW n \in Nat, NEW p \in Nat, p < Patterns[n]
    PROVE  NumberOf(BytesOf(n, p)) = p
  <1> DEFINE f == [i \in 0 .. n |-> p \div Patterns[n - i]]
             bytes == BytesOf(n, p)
  <1>1. bytes \in Seq(Byte) /\ Len(bytes) = n
    BY BytesAre
  <1>2. \A i \in 0 .. n : n - i \in Nat /\ Patterns[n - i] \in Nat \ {0}
    BY PatternsGrow
  <1>3. f \in [0 .. n -> Nat]
    <2>1. ASSUME NEW i \in 0 .. n PROVE p \div Patterns[n - i] \in Nat
      <3>1. PICK q \in Nat \ {0} : q = Patterns[n - i]
        BY <1>2
      <3>2. p < q * (p + 1)
        BY <3>1
      <3>3. p \div q \in Nat
        BY <3>2, QuotientBelow
      <3> QED
        BY <3>1, <3>3
    <2> QED
      BY <2>1
  <1>4. f[0] = 0
    <2>1. PICK q \in Nat \ {0} : q = Patterns[n]
      BY <1>2, PatternsAre
    <2>2. p \div q = 0
      <3>1. p = q * 0 + p /\ p \in 0 .. q - 1
        BY <2>1
      <3> QED
        BY <3>1, DividedAs
    <2>3. n - 0 = n /\ 0 \in 0 .. n
      OBVIOUS
    <2> QED
      BY <2>1, <2>2, <2>3
  <1>5. f[n] = p
    <2>1. n \in 0 .. n /\ n - n = 0
      OBVIOUS
    <2>2. p \div 1 = p
      OBVIOUS
    <2> QED
      BY <2>1, <2>2, PatternsGrow
  <1>6. ASSUME NEW i \in 1 .. n PROVE f[i] = 256 * f[i - 1] + bytes[i]
    <2>1. i \in 0 .. n /\ i - 1 \in 0 .. n /\ n - (i - 1) = (n - i) + 1 /\ n - i \in Nat
      OBVIOUS
    <2>2. PICK q \in Nat \ {0} : q = Patterns[n - i] /\ Patterns[n - (i - 1)] = 256 * q
      BY <2>1, PatternsAre
    <2>3. p \div q = 256 * (p \div (256 * q)) + ((p \div q) % 256)
      <3>1. 256 \in Nat \ {0} /\ p \in Nat /\ q \in Nat \ {0}
        BY <2>2
      <3>2. \A b \in Nat \ {0} : p \div q = b * (p \div (b * q)) + ((p \div q) % b)
        BY <3>1, DividedTwice
      <3> QED
        BY <3>1, <3>2, Zenon
    <2>4. bytes[i] = (p \div q) % 256
      BY <2>2, BytesAre
    <2>5. f[i] = p \div q /\ f[i - 1] = p \div (256 * q)
      BY <2>1, <2>2
    <2> HIDE DEF f, bytes
    <2> QED
      BY <2>3, <2>4, <2>5
  <1> HIDE DEF f, bytes
  <1>7. Reads(bytes, f)
    BY <1>1, <1>4, <1>6 DEF Reads
  <1>8. NumberOf(bytes) = f[n]
    BY <1>1, <1>3, <1>7, NumberIs
  <1> QED
    BY <1>5, <1>8 DEF bytes

LEMMA InOrderTwice ==
    ASSUME NEW type, NEW bytes \in Seq(Byte)
    PROVE  /\ InOrderOf(type, bytes) \in Seq(Byte)
           /\ Len(InOrderOf(type, bytes)) = Len(bytes)
           /\ InOrderOf(type, InOrderOf(type, bytes)) = bytes
  <1> DEFINE n == Len(bytes)
             turned == [i \in 1 .. n |-> bytes[n + 1 - i]]
  <1>1. n \in Nat /\ bytes \in [1 .. n -> Byte]
    BY LenProperties
  <1>2. turned \in [1 .. n -> Byte]
    <2> HIDE DEF n
    <2>1. \A i \in 1 .. n : n + 1 - i \in 1 .. n
      BY <1>1
    <2> QED
      BY <1>1, <2>1
  <1>3. turned \in Seq(Byte) /\ Len(turned) = n
    <2> HIDE DEF turned, n
    <2> QED
      BY <1>1, <1>2
  <1>4. [i \in 1 .. n |-> turned[n + 1 - i]] = bytes
    <2> HIDE DEF n
    <2>1. \A i \in 1 .. n : n + 1 - i \in 1 .. n /\ n + 1 - (n + 1 - i) = i
      BY <1>1
    <2>2. \A i \in 1 .. n : turned[n + 1 - i] = bytes[i]
      BY <1>1, <2>1
    <2> HIDE DEF turned
    <2> QED
      BY <1>1, <2>2
  <1>5. CASE type.endian = "LSB"
    <2>1. InOrderOf(type, bytes) = turned
      BY <1>5 DEF InOrderOf
    <2> HIDE DEF turned
    <2>2. InOrderOf(type, turned) = [i \in 1 .. Len(turned) |-> turned[Len(turned) + 1 - i]]
      BY <1>5 DEF InOrderOf
    <2> QED
      BY <1>3, <1>4, <2>1, <2>2
  <1>6. CASE type.endian # "LSB"
    BY <1>6 DEF InOrderOf
  <1> QED
    BY <1>5, <1>6

\* A value becomes as many bytes as its type has.
LEMMA EncodedBytes ==
    ASSUME NEW type \in PrimitiveTypes, NEW value \in Int
    PROVE  encode(type, value) \in Seq(Byte) /\ Len(encode(type, value)) = type.nbytes
  <1>1. type.nbytes \in Nat
    BY DEF PrimitiveTypes
  <1>2. PICK q \in Nat \ {0} : q = Patterns[type.nbytes]
    BY <1>1, PatternsAre
  <1>3. value % q \in Nat
    BY Divides
  <1>4. /\ BytesOf(type.nbytes, value % q) \in Seq(Byte)
        /\ Len(BytesOf(type.nbytes, value % q)) = type.nbytes
    BY <1>1, <1>3, BytesAre
  <1> QED
    BY <1>2, <1>4, InOrderTwice DEF encode

\* What struct.pack() takes comes back from struct.unpack(), of either sign and order.
LEMMA DecodesEncoded ==
    ASSUME NEW type \in PrimitiveTypes, NEW value \in Int, Packs(type, value)
    PROVE  decode(type, encode(type, value)) = value
  <1>1. type.nbytes \in Nat \ {0} /\ type.signed \in BOOLEAN
    BY DEF PrimitiveTypes
  <1>2. PICK q \in Nat \ {0}, h \in Nat \ {0} :
           q = Patterns[type.nbytes] /\ h = q \div 2 /\ q = 2 * h
    <2>1. /\ Patterns[type.nbytes] \in Nat \ {0}
          /\ Patterns[type.nbytes] \div 2 \in Nat \ {0}
          /\ Patterns[type.nbytes] = 2 * (Patterns[type.nbytes] \div 2)
      BY <1>1, PatternsAre, HalfOfPatterns
    <2> QED
      BY <2>1
  <1> DEFINE p == value % q
  <1>3. p \in Nat /\ p < q
    BY Divides
  <1>4. decode(type, encode(type, value)) =
           IF type.signed /\ p >= h THEN p - q ELSE p
    <2>1. BytesOf(type.nbytes, p) \in Seq(Byte)
      BY <1>1, <1>3, BytesAre
    <2>2. InOrderOf(type, encode(type, value)) = BytesOf(type.nbytes, p)
      BY <1>2, <2>1, InOrderTwice DEF encode
    <2>3. NumberOf(BytesOf(type.nbytes, p)) = p
      BY <1>1, <1>2, <1>3, NumberOfBytes
    <2> HIDE DEF p
    <2> QED
      BY <1>2, <2>2, <2>3 DEF decode
  <1>5. CASE 0 <= value /\ value < q /\ (type.signed => value < h)
    <2>1. value = q * 0 + value /\ value \in 0 .. q - 1
      BY <1>5
    <2>2. p = value
      BY <2>1, DividedAs
    <2>3. ~(type.signed /\ value >= h)
      BY <1>2, <1>5
    <2> HIDE DEF p
    <2> QED
      BY <1>1, <1>4, <1>5, <2>2, <2>3
  <1>6. CASE type.signed /\ -h <= value /\ value < 0
    <2>1. value = q * (-1) + (value + q) /\ value + q \in 0 .. q - 1
      BY <1>2, <1>6
    <2>2. p = value + q
      BY <2>1, DividedAs
    <2> HIDE DEF p
    <2>3. value + q >= h /\ (value + q) - q = value
      BY <1>2, <1>6
    <2>4. p >= h /\ p - q = value
      BY <2>2, <2>3
    <2>5. decode(type, encode(type, value)) = p - q
      BY <1>4, <1>6, <2>4
    <2> QED
      BY <2>4, <2>5
  <1>7. \/ 0 <= value /\ value < q /\ (type.signed => value < h)
        \/ type.signed /\ -h <= value /\ value < 0
    <2>1. IF type.signed THEN -h <= value /\ value < h ELSE 0 <= value /\ value < q
      BY <1>2 DEF Packs
    <2>2. CASE type.signed
      BY <1>2, <2>1, <2>2
    <2>3. CASE ~type.signed
      BY <2>1, <2>3
    <2> QED
      BY <2>2, <2>3
  <1> QED
    BY <1>5, <1>6, <1>7

\* And what is decoded is a value of the type.
LEMMA DecodedPacks ==
    ASSUME NEW type \in PrimitiveTypes, NEW bytes \in Seq(Byte), Unpacks(type, bytes)
    PROVE  decode(type, bytes) \in Int /\ Packs(type, decode(type, bytes))
  <1>1. type.nbytes \in Nat \ {0} /\ type.signed \in BOOLEAN
    BY DEF PrimitiveTypes
  <1>2. PICK q \in Nat \ {0}, h \in Nat \ {0} :
           q = Patterns[type.nbytes] /\ h = q \div 2 /\ q = 2 * h
    <2>1. /\ Patterns[type.nbytes] \in Nat \ {0}
          /\ Patterns[type.nbytes] \div 2 \in Nat \ {0}
          /\ Patterns[type.nbytes] = 2 * (Patterns[type.nbytes] \div 2)
      BY <1>1, PatternsAre, HalfOfPatterns
    <2> QED
      BY <2>1
  <1>3. PICK p \in Nat : p = NumberOf(InOrderOf(type, bytes)) /\ p < q
    <2>1. PICK ordered \in Seq(Byte) : ordered = InOrderOf(type, bytes) /\ Len(ordered) = type.nbytes
      BY InOrderTwice DEF Unpacks
    <2>2. NumberOf(ordered) \in Nat /\ NumberOf(ordered) < Patterns[Len(ordered)]
      BY NumberBounded
    <2> QED
      BY <1>2, <2>1, <2>2
  <1>4. decode(type, bytes) = IF type.signed /\ p >= h THEN p - q ELSE p
    BY <1>2, <1>3 DEF decode
  <1>5. Packs(type, decode(type, bytes)) <=>
           IF type.signed THEN -h <= decode(type, bytes) /\ decode(type, bytes) < h
                          ELSE 0 <= decode(type, bytes) /\ decode(type, bytes) < q
    BY <1>2 DEF Packs
  <1>6. CASE type.signed /\ p >= h
    <2>1. decode(type, bytes) = p - q
      BY <1>4, <1>6
    <2>2. p - q \in Int /\ -h <= p - q /\ p - q < h
      BY <1>2, <1>3, <1>6
    <2> QED
      BY <1>5, <1>6, <2>1, <2>2
  <1>7. CASE type.signed /\ ~(p >= h)
    <2>1. decode(type, bytes) = p
      BY <1>4, <1>7
    <2>2. p \in Int /\ -h <= p /\ p < h
      BY <1>2, <1>3, <1>7
    <2> QED
      BY <1>5, <1>7, <2>1, <2>2
  <1>8. CASE ~type.signed
    <2>1. decode(type, bytes) = p
      BY <1>4, <1>8
    <2>2. p \in Int /\ 0 <= p /\ p < q
      BY <1>3
    <2> QED
      BY <1>5, <1>8, <2>1, <2>2
  <1> QED
    BY <1>6, <1>7, <1>8

-----------------------------------------------------------------------------
(* Slices of bytes.                                                        *)

LEMMA PartOf ==
    ASSUME NEW data \in Seq(Byte), NEW m \in Nat, NEW n \in Int, n <= Len(data), 1 <= m
    PROVE  /\ SubSeq(data, m, n) \in Seq(Byte)
           /\ Len(SubSeq(data, m, n)) = IF m <= n THEN n - m + 1 ELSE 0
           /\ \A k \in 1 .. n - m + 1 : SubSeq(data, m, n)[k] = data[m + k - 1]
  <1>1. Len(data) \in Nat /\ data \in [1 .. Len(data) -> Byte]
    BY LenProperties
  <1>2. \A k \in m .. n : data[k] \in Byte
    BY <1>1
  <1> QED
    BY <1>2, SubSeqProperties

\* A slice has the bytes from its start up to its stop.
LEMMA SliceIs ==
    ASSUME NEW data \in Seq(Byte), NEW start \in Nat, NEW stop \in Nat,
           start <= stop, stop <= Len(data)
    PROVE  /\ Slice(data, start, stop) \in Seq(Byte)
           /\ Len(Slice(data, start, stop)) = stop - start
           /\ \A k \in 1 .. stop - start : Slice(data, start, stop)[k] = data[start + k]
  <1>1. Len(data) \in Nat
    BY LenProperties
  <1>2. Upto(stop, Len(data)) = stop
    BY <1>1 DEF Upto
  <1>3. Slice(data, start, stop) = SubSeq(data, start + 1, stop)
    BY <1>2 DEF Slice
  <1>4. start + 1 \in Nat /\ 1 <= start + 1 /\ stop \in Int /\ stop - (start + 1) + 1 = stop - start
    OBVIOUS
  <1>5. Len(SubSeq(data, start + 1, stop)) = stop - start
    BY <1>4, PartOf
  <1>6. \A k \in 1 .. stop - start : SubSeq(data, start + 1, stop)[k] = data[start + k]
    <2>1. \A k \in 1 .. stop - start : SubSeq(data, start + 1, stop)[k] = data[(start + 1) + k - 1]
      BY <1>4, PartOf
    <2>2. \A k \in 1 .. stop - start : (start + 1) + k - 1 = start + k
      OBVIOUS
    <2> QED
      BY <2>1, <2>2
  <1>7. SubSeq(data, start + 1, stop) \in Seq(Byte)
    BY <1>4, PartOf
  <1> QED
    BY <1>3, <1>5, <1>6, <1>7

LEMMA SliceOfBytes ==
    ASSUME NEW data \in Seq(Byte), NEW start \in Nat, NEW stop \in Nat
    PROVE  Slice(data, start, stop) \in Seq(Byte)
  <1>1. Len(data) \in Nat
    BY LenProperties
  <1>2. Upto(stop, Len(data)) \in Int /\ Upto(stop, Len(data)) <= Len(data)
    BY <1>1 DEF Upto
  <1>3. start + 1 \in Nat /\ 1 <= start + 1
    OBVIOUS
  <1> QED
    BY <1>2, <1>3, PartOf DEF Slice

\* The assignment to a slice keeps bytes, whatever it does to the length.
LEMMA SetSliceOfBytes ==
    ASSUME NEW data \in Seq(Byte), NEW value \in Seq(Byte), NEW start \in Nat, NEW stop \in Nat
    PROVE  SetSlice(data, start, stop, value) \in Seq(Byte)
  <1>1. Len(data) \in Nat
    BY LenProperties
  <1> DEFINE m == Upto(start, Len(data))
             n == Upto(IF stop > start THEN stop ELSE start, Len(data)) + 1
  <1>2. m \in Int /\ m <= Len(data) /\ n \in Nat /\ 1 <= n /\ 1 \in Nat /\ Len(data) \in Int
    BY <1>1 DEF Upto
  <1>3. SetSlice(data, start, stop, value) = SubSeq(data, 1, m) \o value \o SubSeq(data, n, Len(data))
    BY DEF SetSlice
  <1> HIDE DEF m, n
  <1>4. SubSeq(data, 1, m) \in Seq(Byte) /\ SubSeq(data, n, Len(data)) \in Seq(Byte)
    BY <1>1, <1>2, PartOf
  <1> QED
    BY <1>3, <1>4, ConcatProperties

LEMMA FrontOf ==
    ASSUME NEW data \in Seq(Byte), NEW start \in Nat, start <= Len(data)
    PROVE  \E before \in Seq(Byte) : /\ before = SubSeq(data, 1, start)
                                     /\ Len(before) = start
                                     /\ \A k \in 1 .. start : before[k] = data[k]
  <1>1. Len(data) \in Nat
    BY LenProperties
  <1>2. 1 \in Nat /\ start \in Int /\ start <= Len(data) /\ start - 1 + 1 = start
    BY <1>1
  <1>3. SubSeq(data, 1, start) \in Seq(Byte) /\ Len(SubSeq(data, 1, start)) = IF 1 <= start THEN start - 1 + 1 ELSE 0
    BY <1>2, PartOf
  <1>4. \A k \in 1 .. start : SubSeq(data, 1, start)[k] = data[1 + k - 1]
    BY <1>2, PartOf
  <1>5. \A k \in 1 .. start : 1 + k - 1 = k
    OBVIOUS
  <1>6. Len(SubSeq(data, 1, start)) = start
    BY <1>2, <1>3
  <1> QED
    BY <1>3, <1>4, <1>5, <1>6

\* A value as long as the slice replaces it and nothing else, and makes the data longer
\* when it does not end before it.
Replaces(old, new, start, value) ==
    /\ new \in Seq(Byte)
    /\ Len(new) = IF start + Len(value) > Len(old) THEN start + Len(value) ELSE Len(old)
    /\ \A k \in 1 .. Len(value) : new[start + k] = value[k]
    /\ \A k \in 1 .. Len(old) : k <= start \/ k > start + Len(value) => new[k] = old[k]

LEMMA SetSliceAtEnd ==
    ASSUME NEW data \in Seq(Byte), NEW value \in Seq(Byte), NEW start \in Nat, NEW stop \in Nat,
           stop = start + Len(value), start <= Len(data), stop > Len(data)
    PROVE  Replaces(data, SetSlice(data, start, stop, value), start, value)
  <1> DEFINE new == SetSlice(data, start, stop, value)
  <1>1. Len(data) \in Nat /\ Len(value) \in Nat
    BY LenProperties
  <1>2. /\ Upto(start, Len(data)) = start
        /\ Upto(IF stop > start THEN stop ELSE start, Len(data)) = Len(data)
    BY <1>1 DEF Upto
  <1>3. PICK n \in Nat, v \in Nat : n = Len(data) /\ v = Len(value)
    BY <1>1
  <1>4. PICK before \in Seq(Byte) : /\ before = SubSeq(data, 1, start)
                                    /\ Len(before) = start
                                    /\ \A k \in 1 .. start : before[k] = data[k]
    BY FrontOf
  <1>5. SubSeq(data, n + 1, n) = <<>>
    BY <1>3, SubSeqEmpty
  <1>6. /\ before \o value \in Seq(Byte) /\ Len(before \o value) = Len(before) + Len(value)
        /\ \A k \in 1 .. Len(before) + Len(value) :
             (before \o value)[k] = IF k <= Len(before) THEN before[k] ELSE value[k - Len(before)]
    BY ConcatProperties
  <1>7. (before \o value) \o <<>> = before \o value
    BY <1>6, ConcatEmptySeq
  <1>8. new = before \o value
    BY <1>2, <1>3, <1>4, <1>5, <1>7 DEF SetSlice
  <1> HIDE DEF new
  <1>9. /\ new \in Seq(Byte) /\ Len(new) = stop
        /\ \A k \in 1 .. stop : new[k] = IF k <= start THEN before[k] ELSE value[k - start]
    BY <1>4, <1>6, <1>8
  <1>10. ASSUME NEW k \in 1 .. Len(value) PROVE new[start + k] = value[k]
    <2>1. start + k \in 1 .. stop /\ ~(start + k <= start) /\ (start + k) - start = k
      BY <1>1
    <2> QED
      BY <1>9, <2>1
  <1>11. ASSUME NEW k \in 1 .. Len(data), k <= start \/ k > start + Len(value)
         PROVE  new[k] = data[k]
    <2>1. k <= start /\ k \in 1 .. start /\ k \in 1 .. stop
      BY <1>1, <1>11
    <2> QED
      BY <1>4, <1>9, <2>1
  <1>12. Len(new) = IF start + Len(value) > Len(data) THEN start + Len(value) ELSE Len(data)
    BY <1>9
  <1> QED
    BY <1>9, <1>10, <1>11, <1>12 DEF Replaces, new

LEMMA SetSliceInside ==
    ASSUME NEW data \in Seq(Byte), NEW value \in Seq(Byte), NEW start \in Nat, NEW stop \in Nat,
           stop = start + Len(value), stop <= Len(data)
    PROVE  Replaces(data, SetSlice(data, start, stop, value), start, value)
  <1> DEFINE new == SetSlice(data, start, stop, value)
  <1>1. Len(data) \in Nat /\ Len(value) \in Nat
    BY LenProperties
  <1>2. Upto(start, Len(data)) = start /\ Upto(IF stop > start THEN stop ELSE start, Len(data)) = stop
    BY <1>1 DEF Upto
  <1>3. PICK n \in Nat, v \in Nat : n = Len(data) /\ v = Len(value)
    BY <1>1
  <1>4. PICK before \in Seq(Byte) : /\ before = SubSeq(data, 1, start)
                                    /\ Len(before) = start
                                    /\ \A k \in 1 .. start : before[k] = data[k]
    <2>1. start <= Len(data)
      BY <1>1
    <2> QED
      BY <2>1, FrontOf
  <1>5. PICK after \in Seq(Byte) : /\ after = SubSeq(data, stop + 1, n)
                                   /\ Len(after) = n - stop
                                   /\ \A k \in 1 .. n - stop : after[k] = data[stop + k]
    <2>1. stop + 1 \in Nat /\ n \in Int /\ n <= Len(data) /\ n - (stop + 1) + 1 = n - stop /\ 1 <= stop + 1 /\ stop <= n
      BY <1>3
    <2>2. SubSeq(data, stop + 1, n) \in Seq(Byte) /\ Len(SubSeq(data, stop + 1, n)) = n - stop
      BY <2>1, PartOf
    <2>3. \A k \in 1 .. n - stop : SubSeq(data, stop + 1, n)[k] = data[(stop + 1) + k - 1]
      BY <2>1, PartOf
    <2>4. \A k \in 1 .. n - stop : (stop + 1) + k - 1 = stop + k
      OBVIOUS
    <2>5. \A k \in 1 .. n - stop : SubSeq(data, stop + 1, n)[k] = data[stop + k]
      BY <2>3, <2>4
    <2> QED
      BY <2>2, <2>5, ZenonT(60)
  <1>6. new = before \o value \o after
    BY <1>2, <1>3, <1>4, <1>5 DEF SetSlice
  <1> HIDE DEF new
  <1>7. PICK front \in Seq(Byte) : /\ front = before \o value
                                   /\ Len(front) = stop
                                   /\ \A k \in 1 .. stop : front[k] = IF k <= start THEN before[k] ELSE value[k - start]
    <2>1. before \o value \in Seq(Byte) /\ Len(before \o value) = Len(before) + Len(value)
      BY ConcatProperties
    <2>2. \A k \in 1 .. Len(before) + Len(value) :
             (before \o value)[k] = IF k <= Len(before) THEN before[k] ELSE value[k - Len(before)]
      BY ConcatProperties
    <2>3. Len(before) + Len(value) = stop
      BY <1>4
    <2> QED
      BY <1>4, <2>1, <2>2, <2>3
  <1>8. /\ front \o after \in Seq(Byte) /\ Len(front \o after) = stop + (n - stop)
        /\ \A k \in 1 .. stop + (n - stop) : (front \o after)[k] = IF k <= stop THEN front[k] ELSE after[k - stop]
    <2>1. front \o after \in Seq(Byte) /\ Len(front \o after) = Len(front) + Len(after)
      BY ConcatProperties
    <2>2. \A k \in 1 .. Len(front) + Len(after) :
             (front \o after)[k] = IF k <= Len(front) THEN front[k] ELSE after[k - Len(front)]
      BY ConcatProperties
    <2>3. Len(front) = stop /\ Len(after) = n - stop
      BY <1>5, <1>7
    <2> QED
      BY <2>1, <2>2, <2>3
  <1>9. /\ new = front \o after
        /\ stop + (n - stop) = n
    BY <1>3, <1>6, <1>7
  <1>10. new \in Seq(Byte) /\ Len(new) = Len(data)
    BY <1>3, <1>8, <1>9
  <1>11. \A k \in 1 .. n : new[k] = IF k <= stop THEN front[k] ELSE after[k - stop]
    BY <1>8, <1>9
  <1>12. ASSUME NEW k \in 1 .. Len(value) PROVE new[start + k] = value[k]
    <2>1. start + k \in 1 .. stop /\ start + k \in 1 .. n /\ ~(start + k <= start) /\ (start + k) - start = k
      BY <1>1, <1>3
    <2>2. new[start + k] = front[start + k]
      BY <1>11, <2>1
    <2>3. front[start + k] = value[(start + k) - start]
      BY <1>7, <2>1
    <2> QED
      BY <2>1, <2>2, <2>3
  <1>13. ASSUME NEW k \in 1 .. Len(data), k <= start \/ k > start + Len(value)
         PROVE  new[k] = data[k]
    <2>1. CASE k <= start
      <3>1. k \in 1 .. n /\ k \in 1 .. stop /\ k \in 1 .. start /\ k <= stop
        BY <1>1, <1>3, <2>1
      <3> QED
        BY <1>4, <1>7, <1>11, <2>1, <3>1
    <2>2. CASE k > stop
      <3>1. k \in 1 .. n /\ ~(k <= stop) /\ k - stop \in 1 .. n - stop /\ stop + (k - stop) = k
        BY <1>1, <1>3, <2>2
      <3>2. new[k] = after[k - stop]
        BY <1>11, <3>1
      <3> QED
        BY <1>5, <3>1, <3>2
    <2> QED
      BY <1>13, <2>1, <2>2
  <1>14. Len(new) = IF start + Len(value) > Len(data) THEN start + Len(value) ELSE Len(data)
    BY <1>1, <1>10
  <1> QED
    BY <1>10, <1>12, <1>13, <1>14 DEF Replaces, new

LEMMA SetSliceIs ==
    ASSUME NEW data \in Seq(Byte), NEW value \in Seq(Byte), NEW start \in Nat, NEW stop \in Nat,
           stop = start + Len(value), start <= Len(data)
    PROVE  Replaces(data, SetSlice(data, start, stop, value), start, value)
  <1>1. Len(data) \in Nat
    BY LenProperties
  <1>2. stop <= Len(data) \/ stop > Len(data)
    BY <1>1
  <1> QED
    BY <1>2, SetSliceAtEnd, SetSliceInside

\* What is read where a value was written is the value, and elsewhere what was there.
LEMMA SliceOfReplaced ==
    ASSUME NEW old \in Seq(Byte), NEW new, NEW start \in Nat, NEW value \in Seq(Byte),
           Replaces(old, new, start, value)
    PROVE  Slice(new, start, start + Len(value)) = value
  <1>1. PICK n \in Nat, v \in Nat : v = Len(value) /\ n = Len(new) /\ start + v <= n
    <2>1. Len(old) \in Nat /\ Len(value) \in Nat
      BY LenProperties
    <2>2. Len(new) \in Nat
      BY LenProperties DEF Replaces
    <2>3. start + Len(value) <= Len(new)
      BY <2>1 DEF Replaces
    <2> QED
      BY <2>1, <2>2, <2>3
  <1>2. new \in Seq(Byte)
    BY DEF Replaces
  <1>3. start + v \in Nat /\ start <= start + v /\ start + v <= Len(new) /\ (start + v) - start = v
    BY <1>1
  <1>4. Slice(new, start, start + v) \in Seq(Byte) /\ Len(Slice(new, start, start + v)) = v
    BY <1>2, <1>3, SliceIs
  <1>5. \A k \in 1 .. v : Slice(new, start, start + v)[k] = new[start + k]
    <2>1. \A k \in 1 .. (start + v) - start : Slice(new, start, start + v)[k] = new[start + k]
      BY <1>2, <1>3, SliceIs
    <2> QED
      BY <1>3, <2>1
  <1>6. \A k \in 1 .. v : new[start + k] = value[k]
    BY <1>1 DEF Replaces
  <1>7. \A k \in 1 .. v : Slice(new, start, start + v)[k] = value[k]
    BY <1>5, <1>6
  <1> QED
    BY <1>1, <1>4, <1>7, SeqEqual

LEMMA SliceBesideReplaced ==
    ASSUME NEW old \in Seq(Byte), NEW new, NEW start \in Nat, NEW value \in Seq(Byte),
           Replaces(old, new, start, value),
           NEW from \in Nat, NEW to \in Nat, from <= to, to <= Len(old),
           to <= start \/ start + Len(value) <= from
    PROVE  Slice(new, from, to) = Slice(old, from, to)
  <1>1. PICK n \in Nat, v \in Nat : n = Len(old) /\ v = Len(value) /\ n <= Len(new)
    <2>1. Len(old) \in Nat /\ Len(value) \in Nat
      BY LenProperties
    <2> QED
      BY <2>1 DEF Replaces
  <1>2. new \in Seq(Byte)
    BY DEF Replaces
  <1>3. /\ Slice(new, from, to) \in Seq(Byte) /\ Len(Slice(new, from, to)) = to - from
        /\ \A k \in 1 .. to - from : Slice(new, from, to)[k] = new[from + k]
    <2>1. to <= Len(new)
      <3>1. Len(new) \in Nat
        BY <1>2, LenProperties
      <3> QED
        BY <1>1, <3>1
    <2> QED
      BY <1>2, <2>1, SliceIs
  <1>4. /\ Slice(old, from, to) \in Seq(Byte) /\ Len(Slice(old, from, to)) = to - from
        /\ \A k \in 1 .. to - from : Slice(old, from, to)[k] = old[from + k]
    BY SliceIs
  <1>5. ASSUME NEW k \in 1 .. to - from PROVE new[from + k] = old[from + k]
    <2>1. from + k \in 1 .. n /\ (from + k <= start \/ from + k > start + v)
      BY <1>1
    <2> QED
      BY <1>1, <2>1 DEF Replaces
  <1>6. \A k \in 1 .. to - from : Slice(new, from, to)[k] = Slice(old, from, to)[k]
    BY <1>3, <1>4, <1>5
  <1> QED
    BY <1>3, <1>4, <1>6, SeqEqual

-----------------------------------------------------------------------------
(* Bytes that are put together.                                            *)

\* That a part is found in some bytes, from a place on.
FoundAt(bytes, at, part) == /\ at + Len(part) <= Len(bytes)
                          /\ \A k \in 1 .. Len(part) : bytes[at + k] = part[k]

\* Parts of a part.
LEMMA FoundWithin ==
    ASSUME NEW bytes \in Seq(Byte), NEW part \in Seq(Byte), NEW piece \in Seq(Byte),
           NEW at \in Nat, NEW in \in Nat, FoundAt(bytes, at, part), FoundAt(part, in, piece)
    PROVE  FoundAt(bytes, at + in, piece)
  <1>1. PICK n \in Nat, m \in Nat, l \in Nat : n = Len(bytes) /\ m = Len(part) /\ l = Len(piece)
    <2>1. Len(bytes) \in Nat /\ Len(part) \in Nat /\ Len(piece) \in Nat
      BY LenProperties
    <2> QED
      BY <2>1
  <1>2. at + m <= n /\ \A k \in 1 .. m : bytes[at + k] = part[k]
    BY <1>1 DEF FoundAt
  <1>3. in + l <= m /\ \A k \in 1 .. l : part[in + k] = piece[k]
    BY <1>1 DEF FoundAt
  <1>4. ASSUME NEW k \in 1 .. l PROVE bytes[(at + in) + k] = piece[k]
    <2>1. in + k \in 1 .. m /\ at + (in + k) = (at + in) + k
      BY <1>3
    <2>2. bytes[at + (in + k)] = part[in + k]
      BY <1>2, <2>1
    <2> QED
      BY <1>3, <2>1, <2>2
  <1>5. (at + in) + l <= n
    BY <1>2, <1>3
  <1> QED
    BY <1>1, <1>4, <1>5 DEF FoundAt

LEMMA SliceFound ==
    ASSUME NEW bytes \in Seq(Byte), NEW part \in Seq(Byte), NEW at \in Nat, FoundAt(bytes, at, part)
    PROVE  Slice(bytes, at, at + Len(part)) = part
  <1>1. PICK n \in Nat, m \in Nat : n = Len(bytes) /\ m = Len(part)
    <2>1. Len(bytes) \in Nat /\ Len(part) \in Nat
      BY LenProperties
    <2> QED
      BY <2>1
  <1>2. at + m <= n /\ \A k \in 1 .. m : bytes[at + k] = part[k]
    BY <1>1 DEF FoundAt
  <1>3. at + m \in Nat /\ at <= at + m /\ (at + m) - at = m /\ at + m <= Len(bytes)
    BY <1>1, <1>2
  <1> DEFINE s == Slice(bytes, at, at + m)
  <1>4. s \in Seq(Byte) /\ Len(s) = (at + m) - at /\ \A k \in 1 .. (at + m) - at : s[k] = bytes[at + k]
    BY <1>3, SliceIs
  <1> HIDE DEF s
  <1>5. Len(s) = Len(part) /\ \A k \in 1 .. Len(s) : s[k] = part[k]
    BY <1>1, <1>2, <1>3, <1>4
  <1>6. s = part
    BY <1>4, <1>5, SeqEqual
  <1> QED
    BY <1>1, <1>6 DEF s

\* The sums of parts, one after the other.
AddsUp(parts, f) == /\ f[0] = <<>>
                   /\ \A i \in 1 .. Len(parts) : f[i] = f[i - 1] \o parts[i]

LEMMA TogetherIs ==
    ASSUME NEW parts \in Seq(Seq(Byte))
    PROVE  \E f \in [0 .. Len(parts) -> Seq(Byte)] : AddsUp(parts, f) /\ Together(parts) = f[Len(parts)]
  <1>1. PICK n \in Nat : n = Len(parts)
    BY LenProperties
  <1>2. \A i \in 1 .. n : parts[i] \in Seq(Byte)
    BY <1>1, LenProperties
  <1> DEFINE step == [x \in Nat \X Seq(Byte) |->
                         IF x[1] + 1 \in 1 .. n THEN x[2] \o parts[x[1] + 1] ELSE x[2]]
  <1>3. step \in [Nat \X Seq(Byte) -> Seq(Byte)]
    BY <1>2, ConcatProperties
  <1>4. \A i \in Nat, t \in Seq(Byte) : i + 1 \in 1 .. n => step[<<i, t>>] = t \o parts[i + 1]
    OBVIOUS
  <1> HIDE DEF step
  <1>5. <<>> \in Seq(Byte)
    OBVIOUS
  <1>6. PICK g \in [Nat -> Seq(Byte)] : Follows(g, <<>>, step)
    BY <1>3, <1>5, Recursion
  <1>7. g[0] = <<>>
    BY <1>6 DEF Follows
  <1>8. ASSUME NEW i \in 1 .. n PROVE g[i] = g[i - 1] \o parts[i]
    <2>1. i - 1 \in Nat /\ (i - 1) + 1 = i
      OBVIOUS
    <2>2. g[(i - 1) + 1] = step[<<i - 1, g[i - 1]>>]
      BY <1>6, <2>1 DEF Follows
    <2>3. g[i - 1] \in Seq(Byte)
      BY <2>1
    <2>4. step[<<i - 1, g[i - 1]>>] = g[i - 1] \o parts[(i - 1) + 1]
      BY <1>4, <2>1, <2>3
    <2> QED
      BY <2>1, <2>2, <2>4
  <1> DEFINE body(t) == [i \in 0 .. n |-> IF i = 0 THEN <<>> ELSE t[i - 1] \o parts[i]]
             upTo == CHOOSE t : t = body(t)
             f == [i \in 0 .. n |-> g[i]]
  <1>9. Together(parts) = upTo[n]
    BY <1>1 DEF Together
  <1>10. f \in [0 .. n -> Seq(Byte)] /\ f[0] = <<>> /\ \A i \in 1 .. n : f[i] = f[i - 1] \o parts[i]
    <2>1. \A i \in 0 .. n : f[i] = g[i] /\ g[i] \in Seq(Byte)
      BY <1>6
    <2>2. f \in [0 .. n -> Seq(Byte)]
      BY <2>1
    <2>3. ASSUME NEW i \in 1 .. n PROVE f[i] = f[i - 1] \o parts[i]
      <3>1. i \in 0 .. n /\ i - 1 \in 0 .. n
        OBVIOUS
      <3>2. f[i] = g[i] /\ f[i - 1] = g[i - 1]
        BY <2>1, <3>1
      <3> HIDE DEF f
      <3> QED
        BY <1>8, <3>2
    <2>4. f[0] = g[0]
      BY <2>1
    <2> HIDE DEF f
    <2> QED
      BY <1>7, <2>2, <2>3, <2>4
  <1>11. f = body(f)
    <2>1. f = [i \in 0 .. n |-> f[i]]
      OBVIOUS
    <2> HIDE DEF f
    <2>2. ASSUME NEW i \in 0 .. n PROVE f[i] = IF i = 0 THEN <<>> ELSE f[i - 1] \o parts[i]
      <3>1. CASE i = 0
        BY <1>10, <3>1
      <3>2. CASE i # 0
        <4>1. i \in 1 .. n
          BY <3>2
        <4>2. f[i] = f[i - 1] \o parts[i]
          BY <1>10, <4>1
        <4> QED
          BY <3>2, <4>2
      <3> QED
        BY <3>1, <3>2
    <2>3. [i \in 0 .. n |-> f[i]] = [i \in 0 .. n |-> IF i = 0 THEN <<>> ELSE f[i - 1] \o parts[i]]
      BY <2>2, Zenon
    <2> QED
      BY <2>1, <2>3, Zenon
  <1> HIDE DEF f
  <1>12. upTo = body(upTo)
    <2> HIDE DEF body
    <2> QED
      BY <1>11
  <1> HIDE DEF upTo
  <1> DEFINE Same(i) == upTo[i] = f[i]
             T == {i \in Nat : i <= n => Same(i)}
  <1>13. 0 \in T
    <2>1. Same(0)
      BY <1>10, <1>12
    <2> HIDE DEF Same
    <2> QED
      BY <2>1
  <1>14. ASSUME NEW i \in Nat, i \in T PROVE i + 1 \in T
    <2>1. CASE i + 1 <= n
      <3>1. i + 1 \in 0 .. n /\ i + 1 \in 1 .. n /\ (i + 1) - 1 = i /\ i + 1 # 0 /\ i <= n
        BY <2>1
      <3>2. upTo[i + 1] = upTo[i] \o parts[i + 1]
        BY <1>12, <3>1
      <3>3. f[i + 1] = f[i] \o parts[i + 1]
        <4>1. f[i + 1] = f[(i + 1) - 1] \o parts[i + 1]
          BY <1>10, <3>1
        <4> QED
          BY <3>1, <4>1
      <3>4. upTo[i] = f[i]
        BY <1>14, <3>1
      <3>5. Same(i + 1)
        BY <3>2, <3>3, <3>4
      <3> HIDE DEF Same
      <3> QED
        BY <3>5
    <2>2. CASE ~(i + 1 <= n)
      <3> HIDE DEF Same
      <3> QED
        BY <2>2
    <2> QED
      BY <2>1, <2>2
  <1> HIDE DEF T
  <1>15. \A i \in Nat : i \in T
    BY <1>13, <1>14, SetInduction
  <1>16. Together(parts) = f[n]
    BY <1>9, <1>15 DEF T
  <1>17. AddsUp(parts, f)
    BY <1>1, <1>10 DEF AddsUp
  <1> QED
    BY <1>1, <1>10, <1>16, <1>17

\* A sum has what its first parts have, and the last.
LEMMA FoundInLonger ==
    ASSUME NEW bytes \in Seq(Byte), NEW more \in Seq(Byte)
    PROVE  /\ \A at \in Nat, part \in Seq(Byte) : FoundAt(bytes, at, part) => FoundAt(bytes \o more, at, part)
           /\ FoundAt(bytes \o more, Len(bytes), more)
  <1>1. PICK n \in Nat, m \in Nat : n = Len(bytes) /\ m = Len(more)
    <2>1. Len(bytes) \in Nat /\ Len(more) \in Nat
      BY LenProperties
    <2> QED
      BY <2>1
  <1>2. /\ Len(bytes \o more) = n + m
        /\ \A i \in 1 .. n + m : (bytes \o more)[i] = IF i <= n THEN bytes[i] ELSE more[i - n]
    BY <1>1, ConcatProperties
  <1>3. ASSUME NEW at \in Nat, NEW part \in Seq(Byte), FoundAt(bytes, at, part)
        PROVE  FoundAt(bytes \o more, at, part)
    <2>1. PICK l \in Nat : l = Len(part)
      BY LenProperties
    <2>2. at + l <= n /\ \A k \in 1 .. l : bytes[at + k] = part[k]
      BY <1>1, <1>3, <2>1 DEF FoundAt
    <2>3. ASSUME NEW k \in 1 .. l PROVE (bytes \o more)[at + k] = part[k]
      <3>1. at + k \in 1 .. n + m /\ at + k <= n
        BY <2>2
      <3> QED
        BY <1>2, <2>2, <3>1
    <2>4. at + l <= n + m
      BY <2>2
    <2> QED
      BY <1>2, <2>1, <2>3, <2>4 DEF FoundAt
  <1>4. ASSUME NEW k \in 1 .. m PROVE (bytes \o more)[n + k] = more[k]
    <2>1. n + k \in 1 .. n + m /\ ~(n + k <= n) /\ (n + k) - n = k
      OBVIOUS
    <2> QED
      BY <1>2, <2>1
  <1> QED
    BY <1>1, <1>2, <1>3, <1>4 DEF FoundAt

\* Where the parts end.
PartsEnd(parts, ends) == /\ ends[0] = 0
                     /\ \A i \in 1 .. Len(parts) : ends[i] = ends[i - 1] + Len(parts[i])

\* What is put together has each part behind those before it.
LEMMA TogetherHas ==
    ASSUME NEW parts \in Seq(Seq(Byte))
    PROVE  /\ Together(parts) \in Seq(Byte)
           /\ \E ends \in [0 .. Len(parts) -> Nat] :
                 /\ PartsEnd(parts, ends)
                 /\ ends[Len(parts)] = Len(Together(parts))
                 /\ \A i \in 1 .. Len(parts) : FoundAt(Together(parts), ends[i - 1], parts[i])
  <1>1. PICK n \in Nat : n = Len(parts)
    BY LenProperties
  <1>2. \A i \in 1 .. n : parts[i] \in Seq(Byte)
    BY <1>1, LenProperties
  <1>3. PICK f \in [0 .. n -> Seq(Byte)] : AddsUp(parts, f) /\ Together(parts) = f[n]
    BY <1>1, TogetherIs
  <1>4. f[0] = <<>> /\ \A i \in 1 .. n : f[i] = f[i - 1] \o parts[i]
    BY <1>1, <1>3 DEF AddsUp
  <1> DEFINE ends == [i \in 0 .. n |-> Len(f[i])]
  <1>5. ends \in [0 .. n -> Nat]
    <2>1. \A i \in 0 .. n : Len(f[i]) \in Nat
      BY LenProperties
    <2> QED
      BY <2>1
  <1>6. ends[0] = 0
    <2>1. Len(<<>>) = 0
      OBVIOUS
    <2> QED
      BY <1>4, <2>1
  <1>7. ASSUME NEW i \in 1 .. n PROVE ends[i] = ends[i - 1] + Len(parts[i])
    <2>1. i - 1 \in 0 .. n /\ i \in 0 .. n
      OBVIOUS
    <2>2. f[i - 1] \in Seq(Byte) /\ parts[i] \in Seq(Byte)
      BY <1>2, <2>1
    <2>3. Len(f[i - 1] \o parts[i]) = Len(f[i - 1]) + Len(parts[i])
      BY <2>2, ConcatProperties
    <2> QED
      BY <1>4, <2>1, <2>3
  <1>8. ASSUME NEW i \in 1 .. n PROVE FoundAt(f[n], ends[i - 1], parts[i])
    <2> DEFINE at == Len(f[i - 1])
               T == {d \in Nat : i + d <= n => FoundAt(f[i + d], at, parts[i])}
    <2>1. i - 1 \in 0 .. n /\ i \in 0 .. n /\ n - i \in Nat /\ i + (n - i) = n
      OBVIOUS
    <2>2. f[i - 1] \in Seq(Byte) /\ parts[i] \in Seq(Byte) /\ f[i] = f[i - 1] \o parts[i]
      BY <1>2, <1>4, <2>1
    <2>3. at \in Nat
      BY <2>2, LenProperties
    <2>4. 0 \in T
      <3>1. FoundAt(f[i - 1] \o parts[i], at, parts[i])
        BY <2>2, FoundInLonger
      <3>2. i + 0 = i /\ FoundAt(f[i], at, parts[i])
        BY <2>2, <3>1
      <3>3. FoundAt(f[i + 0], at, parts[i])
        BY <3>2
      <3> HIDE DEF at
      <3> QED
        BY <3>3
    <2> HIDE DEF at
    <2>5. ASSUME NEW d \in Nat, d \in T PROVE d + 1 \in T
      <3>1. CASE i + (d + 1) <= n
        <4>1. i + d \in 0 .. n /\ i + (d + 1) \in 1 .. n /\ (i + (d + 1)) - 1 = i + d
          BY <3>1
        <4>2. f[i + d] \in Seq(Byte) /\ parts[i + (d + 1)] \in Seq(Byte)
          BY <1>2, <4>1
        <4>3. f[i + (d + 1)] = f[i + d] \o parts[i + (d + 1)]
          BY <1>4, <4>1
        <4>4. FoundAt(f[i + d], at, parts[i])
          BY <2>5, <4>1
        <4>5. FoundAt(f[i + d] \o parts[i + (d + 1)], at, parts[i])
          BY <2>2, <2>3, <4>2, <4>4, FoundInLonger
        <4>6. FoundAt(f[i + (d + 1)], at, parts[i])
          BY <4>3, <4>5
        <4> QED
          BY <4>6
      <3>2. CASE ~(i + (d + 1) <= n)
        BY <3>2
      <3> QED
        BY <3>1, <3>2
    <2> HIDE DEF T
    <2>6. \A d \in Nat : d \in T
      BY <2>4, <2>5, SetInduction
    <2>7. FoundAt(f[i + (n - i)], at, parts[i])
      <3>1. n - i \in T
        BY <2>1, <2>6
      <3>2. i + (n - i) <= n
        BY <2>1
      <3> QED
        BY <3>1, <3>2 DEF T
    <2>8. ends[i - 1] = at
      BY <2>1 DEF at
    <2> QED
      BY <2>1, <2>7, <2>8
  <1>9. ends[n] = Len(f[n]) /\ f[n] \in Seq(Byte)
    OBVIOUS
  <1> HIDE DEF ends
  <1>10. PartsEnd(parts, ends)
    BY <1>1, <1>6, <1>7 DEF PartsEnd
  <1> QED
    BY <1>1, <1>3, <1>5, <1>8, <1>9, <1>10

\* That leaves no doubt where they end.
LEMMA EndsAre ==
    ASSUME NEW parts, NEW n \in Nat, NEW f, NEW g, n = Len(parts), PartsEnd(parts, f), PartsEnd(parts, g)
    PROVE  \A i \in 0 .. n : f[i] = g[i]
  <1> DEFINE T == {i \in Nat : i <= n => f[i] = g[i]}
  <1>1. 0 \in T
    BY DEF PartsEnd
  <1>2. ASSUME NEW i \in Nat, i \in T PROVE i + 1 \in T
    <2>1. CASE i + 1 <= n
      <3>1. i + 1 \in 1 .. n /\ (i + 1) - 1 = i /\ i <= n
        BY <2>1
      <3>2. f[i + 1] = f[i] + Len(parts[i + 1]) /\ g[i + 1] = g[i] + Len(parts[i + 1])
        BY <3>1 DEF PartsEnd
      <3> QED
        BY <1>2, <3>1, <3>2
    <2>2. CASE ~(i + 1 <= n)
      BY <2>2
    <2> QED
      BY <2>1, <2>2
  <1> HIDE DEF T
  <1>3. \A i \in Nat : i \in T
    BY <1>1, <1>2, SetInduction
  <1> QED
    BY <1>3 DEF T

-----------------------------------------------------------------------------
(* Fields that follow each other.                                          *)

\* Where fields that follow each other end.
LEMMA FieldsEndIs ==
    ASSUME NEW a, NEW n \in Nat, \A i \in 1 .. n : a[i].type.nbytes \in Nat
    PROVE  /\ FieldsEnd(a, 0) = 0
           /\ \A i \in 0 .. n : FieldsEnd(a, i) \in Nat
           /\ \A i \in 1 .. n : FieldsEnd(a, i) = FieldsEnd(a, i - 1) + a[i].type.nbytes
  <1> DEFINE step == [x \in Nat \X Nat |-> x[2] + (IF x[1] + 1 \in 1 .. n THEN a[x[1] + 1].type.nbytes ELSE 0)]
  <1>1. step \in [Nat \X Nat -> Nat]
    OBVIOUS
  <1>2. \A i \in Nat, t \in Nat : i + 1 \in 1 .. n => step[<<i, t>>] = t + a[i + 1].type.nbytes
    OBVIOUS
  <1> HIDE DEF step
  <1>3. PICK g \in [Nat -> Nat] : Follows(g, 0, step)
    BY <1>1, Recursion
  <1>4. g[0] = 0
    BY <1>3 DEF Follows
  <1>5. ASSUME NEW i \in 1 .. n PROVE g[i] = g[i - 1] + a[i].type.nbytes
    <2>1. i - 1 \in Nat /\ (i - 1) + 1 = i
      OBVIOUS
    <2>2. g[(i - 1) + 1] = step[<<i - 1, g[i - 1]>>]
      BY <1>3, <2>1 DEF Follows
    <2> QED
      BY <1>2, <1>3, <2>1, <2>2
  <1>6. ASSUME NEW m \in 0 .. n PROVE FieldsEnd(a, m) = g[m]
    <2> DEFINE body(t) == [i \in 0 .. m |-> IF i = 0 THEN 0 ELSE t[i - 1] + a[i].type.nbytes]
               upTo == CHOOSE t : t = body(t)
               f == [i \in 0 .. m |-> g[i]]
    <2>1. FieldsEnd(a, m) = upTo[m]
      BY DEF FieldsEnd
    <2>2. f = body(f)
      <3>1. ASSUME NEW i \in 0 .. m PROVE f[i] = IF i = 0 THEN 0 ELSE f[i - 1] + a[i].type.nbytes
        <4>1. CASE i = 0
          BY <1>4, <4>1
        <4>2. CASE i # 0
          <5>1. i \in 1 .. n /\ i - 1 \in 0 .. m
            BY <4>2
          <5> QED
            BY <1>5, <4>2, <5>1
        <4> QED
          BY <4>1, <4>2
      <3> QED
        BY <3>1
    <2>3. upTo = body(upTo)
      <3> HIDE DEF body, f
      <3> QED
        BY <2>2
    <2> HIDE DEF upTo
    <2> DEFINE T == {i \in Nat : i <= m => upTo[i] = g[i]}
    <2>4. 0 \in T
      BY <1>4, <2>3
    <2>5. ASSUME NEW i \in Nat, i \in T PROVE i + 1 \in T
      <3>1. CASE i + 1 <= m
        <4>1. i + 1 \in 0 .. m /\ i + 1 \in 1 .. n /\ (i + 1) - 1 = i /\ i + 1 # 0 /\ i <= m
          BY <3>1
        <4>2. upTo[i + 1] = upTo[i] + a[i + 1].type.nbytes
          BY <2>3, <4>1
        <4>3. g[i + 1] = g[i] + a[i + 1].type.nbytes
          BY <1>5, <4>1
        <4> QED
          BY <2>5, <4>1, <4>2, <4>3
      <3>2. CASE ~(i + 1 <= m)
        BY <3>2
      <3> QED
        BY <3>1, <3>2
    <2> HIDE DEF T
    <2>6. \A i \in Nat : i \in T
      BY <2>4, <2>5, SetInduction
    <2>7. m \in Nat /\ m <= m
      OBVIOUS
    <2> QED
      BY <2>1, <2>6, <2>7 DEF T
  <1>7. FieldsEnd(a, 0) = 0
    BY <1>4, <1>6
  <1>8. \A i \in 0 .. n : FieldsEnd(a, i) \in Nat
    BY <1>3, <1>6
  <1>9. ASSUME NEW i \in 1 .. n PROVE FieldsEnd(a, i) = FieldsEnd(a, i - 1) + a[i].type.nbytes
    <2>1. i \in 0 .. n /\ i - 1 \in 0 .. n
      OBVIOUS
    <2> QED
      BY <1>5, <1>6, <2>1
  <1> QED
    BY <1>7, <1>8, <1>9

LEMMA FieldsEndGrows ==
    ASSUME NEW a, NEW n \in Nat, \A i \in 1 .. n : a[i].type.nbytes \in Nat,
           NEW i \in 0 .. n, NEW j \in i .. n
    PROVE  FieldsEnd(a, i) <= FieldsEnd(a, j)
  <1> DEFINE T == {k \in Nat : i + k <= n => FieldsEnd(a, i) <= FieldsEnd(a, i + k)}
  <1>1. 0 \in T
    <2>1. i + 0 = i /\ FieldsEnd(a, i) \in Nat
      BY FieldsEndIs
    <2> QED
      BY <2>1
  <1>2. ASSUME NEW k \in Nat, k \in T PROVE k + 1 \in T
    <2>1. CASE i + (k + 1) <= n
      <3>1. /\ i + (k + 1) \in 1 .. n /\ (i + (k + 1)) - 1 = i + k /\ i + k <= n
            /\ i + k \in 0 .. n
        BY <2>1
      <3>2. FieldsEnd(a, i + (k + 1)) = FieldsEnd(a, i + k) + a[i + (k + 1)].type.nbytes
        BY <3>1, FieldsEndIs
      <3>3. FieldsEnd(a, i) \in Nat /\ FieldsEnd(a, i + k) \in Nat
        BY <3>1, FieldsEndIs
      <3>4. FieldsEnd(a, i) <= FieldsEnd(a, i + k)
        BY <1>2, <3>1
      <3>5. a[i + (k + 1)].type.nbytes \in Nat
        BY <3>1
      <3> QED
        BY <3>2, <3>3, <3>4, <3>5
    <2>2. CASE ~(i + (k + 1) <= n)
      BY <2>2
    <2> QED
      BY <2>1, <2>2
  <1> HIDE DEF T
  <1>3. \A k \in Nat : k \in T
    BY <1>1, <1>2, SetInduction
  <1>4. j - i \in Nat /\ i + (j - i) = j /\ j <= n
    OBVIOUS
  <1>5. j - i \in T
    BY <1>3, <1>4
  <1> QED
    BY <1>4, <1>5 DEF T

-----------------------------------------------------------------------------
(* Bits.                                                                   *)

\* The powers of two.
LEMMA PowersGrow ==
    /\ Powers \in [Nat -> Nat \ {0}]
    /\ Powers[0] = 1
    /\ \A n \in Nat : Powers[n + 1] = 2 * Powers[n]
  <1> DEFINE body(f) == [n \in Nat |-> IF n = 0 THEN 1 ELSE 2 * f[n - 1]]
             S == Nat \ {0}
             step == [x \in Nat \X S |-> 2 * x[2]]
  <1>1. 1 \in S /\ step \in [Nat \X S -> S]
    OBVIOUS
  <1>2. \A i \in Nat, t \in S : step[<<i, t>>] = 2 * t
    OBVIOUS
  <1> HIDE DEF step, S
  <1>3. PICK g \in [Nat -> S] : Follows(g, 1, step)
    BY <1>1, Recursion
  <1>4. g[0] = 1 /\ \A n \in Nat : g[n + 1] = 2 * g[n]
    BY <1>2, <1>3 DEF Follows
  <1>5. g = body(g)
    <2>1. ASSUME NEW n \in Nat PROVE g[n] = IF n = 0 THEN 1 ELSE 2 * g[n - 1]
      <3>1. CASE n = 0
        BY <1>4, <3>1
      <3>2. CASE n # 0
        <4>1. n - 1 \in Nat /\ (n - 1) + 1 = n
          BY <3>2
        <4> QED
          BY <1>4, <3>2, <4>1
      <3> QED
        BY <3>1, <3>2
    <2> QED
      BY <2>1
  <1>6. Powers = body(Powers)
    <2>1. Powers = CHOOSE f : f = body(f)
      BY DEF Powers
    <2> HIDE DEF body
    <2> QED
      BY <1>5, <2>1
  <1>7. Powers[0] = 1 /\ \A n \in Nat : Powers[n + 1] = 2 * Powers[n]
    <2>1. ASSUME NEW n \in Nat PROVE Powers[n + 1] = 2 * Powers[n]
      <3>1. n + 1 \in Nat /\ n + 1 # 0 /\ (n + 1) - 1 = n
        OBVIOUS
      <3> QED
        BY <1>6, <3>1
    <2> QED
      BY <1>6, <2>1
  <1> DEFINE T == {n \in Nat : Powers[n] \in Nat \ {0}}
  <1>8. \A n \in Nat : n \in T
    <2>1. 0 \in T
      BY <1>7
    <2>2. \A n \in Nat : n \in T => n + 1 \in T
      BY <1>7
    <2> HIDE DEF T
    <2> QED
      BY <2>1, <2>2, SetInduction
  <1>9. Powers = [n \in Nat |-> Powers[n]]
    <2> HIDE DEF body
    <2>1. DOMAIN body(Powers) = Nat /\ body(Powers) = [n \in Nat |-> body(Powers)[n]]
      BY DEF body
    <2> QED
      BY <1>6, <2>1
  <1> QED
    BY <1>7, <1>8, <1>9

LEMMA PowersAre ==
    ASSUME NEW n \in Nat
    PROVE  Powers[n] \in Nat \ {0} /\ Powers[n + 1] = 2 * Powers[n]
  BY PowersGrow

\* A power of two is the product of two lower ones.
LEMMA PowersSplit ==
    ASSUME NEW a \in Nat, NEW b \in Nat
    PROVE  Powers[a + b] = Powers[a] * Powers[b]
  <1> DEFINE T == {n \in Nat : Powers[a + n] = Powers[a] * Powers[n]}
  <1>1. 0 \in T
    <2>1. a + 0 = a /\ Powers[0] = 1 /\ Powers[a] \in Nat
      BY PowersGrow
    <2> QED
      BY <2>1
  <1>2. ASSUME NEW n \in Nat, n \in T PROVE n + 1 \in T
    <2>1. PICK p \in Nat, q \in Nat, r \in Nat : p = Powers[a] /\ q = Powers[n] /\ r = Powers[a + n]
      <3>1. a + n \in Nat
        OBVIOUS
      <3>2. Powers[a] \in Nat /\ Powers[n] \in Nat /\ Powers[a + n] \in Nat
        BY <3>1, PowersAre
      <3> QED
        BY <3>2
    <2>2. a + n \in Nat /\ a + (n + 1) = (a + n) + 1
      OBVIOUS
    <2>3. Powers[a + (n + 1)] = 2 * r /\ Powers[n + 1] = 2 * q
      BY <2>1, <2>2, PowersAre
    <2>4. r = p * q
      BY <1>2, <2>1
    <2>5. 2 * (p * q) = p * (2 * q)
      OBVIOUS
    <2> QED
      BY <2>1, <2>3, <2>4, <2>5
  <1> HIDE DEF T
  <1>3. \A n \in Nat : n \in T
    BY <1>1, <1>2, SetInduction
  <1> QED
    BY <1>3 DEF T

\* Eight bits are a byte.
LEMMA PowersOfEight ==
    ASSUME NEW n \in Nat
    PROVE  Powers[n + 8] = 256 * Powers[n]
  <1>1. PICK p \in Nat : p = Powers[n]
    BY PowersAre
  <1>2. Powers[n + 1] = 2 * p
    BY <1>1, PowersAre
  <1>3. Powers[n + 2] = 4 * p
    <2>1. Powers[(n + 1) + 1] = 2 * Powers[n + 1]
      BY PowersAre
    <2> QED
      BY <1>2, <2>1
  <1>4. Powers[n + 4] = 16 * p
    <2>1. Powers[(n + 2) + 1] = 2 * Powers[n + 2]
      BY PowersAre
    <2>2. Powers[(n + 3) + 1] = 2 * Powers[n + 3]
      BY PowersAre
    <2> QED
      BY <1>3, <2>1, <2>2
  <1>5. Powers[n + 6] = 64 * p
    <2>1. Powers[(n + 4) + 1] = 2 * Powers[n + 4]
      BY PowersAre
    <2>2. Powers[(n + 5) + 1] = 2 * Powers[n + 5]
      BY PowersAre
    <2> QED
      BY <1>4, <2>1, <2>2
  <1>6. Powers[(n + 6) + 1] = 2 * Powers[n + 6]
    BY PowersAre
  <1>7. Powers[(n + 7) + 1] = 2 * Powers[n + 7]
    BY PowersAre
  <1> QED
    BY <1>1, <1>5, <1>6, <1>7

LEMMA PatternsArePowers ==
    ASSUME NEW n \in Nat
    PROVE  Patterns[n] = Powers[8 * n]
  <1> DEFINE T == {m \in Nat : Patterns[m] = Powers[8 * m]}
  <1>1. 0 \in T
    BY PatternsGrow, PowersGrow
  <1>2. ASSUME NEW m \in Nat, m \in T PROVE m + 1 \in T
    <2>1. 8 * m \in Nat /\ 8 * (m + 1) = 8 * m + 8
      OBVIOUS
    <2>2. Powers[8 * (m + 1)] = 256 * Powers[8 * m]
      BY <2>1, PowersOfEight
    <2>3. Patterns[m + 1] = 256 * Patterns[m]
      BY PatternsAre
    <2> QED
      BY <1>2, <2>2, <2>3
  <1> HIDE DEF T
  <1>3. \A m \in Nat : m \in T
    BY <1>1, <1>2, SetInduction
  <1> QED
    BY <1>3 DEF T

\* The bits below n are those of the remainder.
LEMMA BitsOfRemainder ==
    ASSUME NEW n \in Nat, NEW k \in 0 .. n - 1, NEW v \in Int
    PROVE  HasBit(v % Powers[n], k) <=> HasBit(v, k)
  <1>1. k \in Nat /\ n - k - 1 \in Nat /\ n = k + ((n - k - 1) + 1)
    OBVIOUS
  <1>2. PICK p \in Nat \ {0}, c \in Nat \ {0} : p = Powers[k] /\ c = Powers[n - k - 1]
    BY <1>1, PowersAre
  <1>3. Powers[n] = p * (2 * c)
    <2>1. (n - k - 1) + 1 \in Nat
      BY <1>1
    <2>2. Powers[k + ((n - k - 1) + 1)] = Powers[k] * Powers[(n - k - 1) + 1]
      BY <1>1, <2>1, PowersSplit
    <2>3. Powers[(n - k - 1) + 1] = 2 * Powers[n - k - 1]
      BY <1>1, PowersAre
    <2> QED
      BY <1>1, <1>2, <2>2, <2>3
  <1>4. PICK q \in Nat \ {0} : q = Powers[n] /\ q = p * (2 * c)
    <2>1. p * (2 * c) \in Nat \ {0}
      OBVIOUS
    <2> QED
      BY <1>3, <2>1
  <1>5. PICK d \in Int, r \in 0 .. q - 1 : d = v \div q /\ r = v % q /\ v = q * d + r
    BY Divides
  <1>6. PICK e \in Int, s \in 0 .. p - 1 : e = r \div p /\ r = p * e + s
    BY Divides
  <1>7. v \div p = 2 * (c * d) + e
    <2>1. q * d = p * (2 * (c * d))
      <3>1. (p * (2 * c)) * d = p * (2 * (c * d))
        OBVIOUS
      <3> QED
        BY <1>4, <3>1
    <2>2. p * (2 * (c * d) + e) = p * (2 * (c * d)) + p * e
      OBVIOUS
    <2>3. v = p * (2 * (c * d) + e) + s
      BY <1>5, <1>6, <2>1, <2>2
    <2>4. 2 * (c * d) + e \in Int
      OBVIOUS
    <2> QED
      BY <2>3, <2>4, DividedAs
  <1>8. PICK m \in Int : m = c * d
    OBVIOUS
  <1>9. (2 * m + e) % 2 = e % 2
    OBVIOUS
  <1>10. HasBit(v, k) <=> (2 * m + e) % 2 = 1
    BY <1>2, <1>7, <1>8 DEF HasBit
  <1>11. HasBit(v % Powers[n], k) <=> e % 2 = 1
    BY <1>2, <1>4, <1>5, <1>6 DEF HasBit
  <1> QED
    BY <1>9, <1>10, <1>11

\* What has some bits has no others.
LEMMA OfBitsAre ==
    ASSUME NEW n \in Nat, NEW S \in SUBSET (0 .. n - 1)
    PROVE  OfBits(n, S) \in Nat /\ OfBits(n, S) < Powers[n] /\ Bits(n, OfBits(n, S)) = S
  <1> DEFINE body(t) == [i \in 0 .. n |-> IF i = 0 THEN 0
                                          ELSE t[i - 1] + (IF i - 1 \in S THEN Powers[i - 1] ELSE 0)]
             upTo == CHOOSE t : t = body(t)
             step == [x \in Nat \X Nat |-> x[2] + (IF x[1] \in S THEN Powers[x[1]] ELSE 0)]
  <1>1. step \in [Nat \X Nat -> Nat]
    <2>1. \A k \in Nat : Powers[k] \in Nat
      BY PowersAre
    <2> QED
      BY <2>1
  <1>2. \A i \in Nat, t \in Nat : step[<<i, t>>] = t + (IF i \in S THEN Powers[i] ELSE 0)
    OBVIOUS
  <1> HIDE DEF step
  <1>3. PICK g \in [Nat -> Nat] : Follows(g, 0, step)
    BY <1>1, Recursion
  <1>4. g[0] = 0 /\ \A i \in Nat : g[i + 1] = g[i] + (IF i \in S THEN Powers[i] ELSE 0)
    BY <1>2, <1>3 DEF Follows
  <1>5. upTo = body(upTo)
    <2> DEFINE f == [i \in 0 .. n |-> g[i]]
    <2>1. f = body(f)
      <3>1. ASSUME NEW i \in 0 .. n
            PROVE  f[i] = IF i = 0 THEN 0 ELSE f[i - 1] + (IF i - 1 \in S THEN Powers[i - 1] ELSE 0)
        <4>1. CASE i = 0
          BY <1>4, <4>1
        <4>2. CASE i # 0
          <5>1. i - 1 \in Nat /\ (i - 1) + 1 = i /\ i - 1 \in 0 .. n
            BY <4>2
          <5>2. g[i] = g[i - 1] + (IF i - 1 \in S THEN Powers[i - 1] ELSE 0)
            BY <1>4, <5>1
          <5> QED
            BY <4>2, <5>1, <5>2
        <4> QED
          BY <4>1, <4>2
      <3> QED
        BY <3>1
    <2> HIDE DEF body, f
    <2> QED
      BY <2>1
  <1>6. OfBits(n, S) = upTo[n]
    BY DEF OfBits
  <1> HIDE DEF upTo
  <1> DEFINE T == {i \in Nat : i <= n => /\ upTo[i] \in Nat
                                         /\ upTo[i] < Powers[i]
                                         /\ \A k \in 0 .. i - 1 : HasBit(upTo[i], k) <=> k \in S}
  <1>7. 0 \in T
    <2>1. upTo[0] = 0
      BY <1>5
    <2>2. 0 < Powers[0] /\ \A k \in 0 .. 0 - 1 : FALSE
      BY PowersGrow
    <2> QED
      BY <2>1, <2>2
  <1>8. ASSUME NEW i \in Nat, i \in T PROVE i + 1 \in T
    <2> SUFFICES ASSUME i + 1 <= n
                 PROVE  /\ upTo[i + 1] \in Nat
                        /\ upTo[i + 1] < Powers[i + 1]
                        /\ \A k \in 0 .. i : HasBit(upTo[i + 1], k) <=> k \in S
      OBVIOUS
    <2>1. PICK u \in Nat, p \in Nat \ {0} : u = upTo[i] /\ p = Powers[i] /\ u < p
      <3>1. upTo[i] \in Nat /\ upTo[i] < Powers[i]
        BY <1>8
      <3> QED
        BY <3>1, PowersAre
    <2>2. upTo[i + 1] = u + (IF i \in S THEN p ELSE 0)
      <3>1. i + 1 \in 0 .. n /\ (i + 1) - 1 = i /\ i + 1 # 0
        OBVIOUS
      <3> QED
        BY <1>5, <2>1, <3>1
    <2>3. PICK d \in 0 .. 1 : (d = 1 <=> i \in S) /\ upTo[i + 1] = p * d + u
      <3>1. CASE i \in S
        <4>1. p * 1 = p
          OBVIOUS
        <4>2. upTo[i + 1] = p * 1 + u /\ 1 \in 0 .. 1
          BY <2>2, <3>1, <4>1
        <4> QED
          BY <3>1, <4>2
      <3>2. CASE i \notin S
        <4>1. p * 0 = 0
          OBVIOUS
        <4>2. upTo[i + 1] = p * 0 + u /\ 0 \in 0 .. 1
          BY <2>2, <3>2, <4>1
        <4> QED
          BY <3>2, <4>2
      <3> QED
        BY <3>1, <3>2
    <2>4. upTo[i + 1] \in Nat /\ upTo[i + 1] < 2 * p
      <3>1. CASE d = 0
        BY <2>1, <2>3, <3>1
      <3>2. CASE d = 1
        BY <2>1, <2>3, <3>2
      <3> QED
        BY <3>1, <3>2
    <2>5. upTo[i + 1] \div p = d /\ upTo[i + 1] % p = u
      <3>1. PICK w \in Int : w = upTo[i + 1] /\ w = p * d + u
        BY <2>3, <2>4
      <3>2. d \in Int /\ u \in 0 .. p - 1
        BY <2>1
      <3>3. w \div p = d /\ w % p = u
        BY <3>1, <3>2, DividedAs
      <3> QED
        BY <3>1, <3>3
    <2>6. HasBit(upTo[i + 1], i) <=> i \in S
      <3>1. d % 2 = d
        OBVIOUS
      <3> QED
        BY <2>1, <2>3, <2>5, <3>1 DEF HasBit
    <2>7. ASSUME NEW k \in 0 .. i - 1 PROVE HasBit(upTo[i + 1], k) <=> k \in S
      <3>1. upTo[i + 1] \in Int
        BY <2>4
      <3>2. HasBit(upTo[i + 1] % Powers[i], k) <=> HasBit(upTo[i + 1], k)
        BY <3>1, BitsOfRemainder
      <3>3. HasBit(upTo[i], k) <=> k \in S
        BY <1>8
      <3> QED
        BY <2>1, <2>5, <3>2, <3>3
    <2>8. Powers[i + 1] = 2 * p
      BY <2>1, PowersAre
    <2>9. \A k \in 0 .. i : k = i \/ k \in 0 .. i - 1
      OBVIOUS
    <2> QED
      BY <2>4, <2>6, <2>7, <2>8, <2>9
  <1> HIDE DEF T
  <1>9. n \in T
    BY <1>7, <1>8, SetInduction
  <1>10. PICK w : w = OfBits(n, S) /\ w \in Nat /\ w < Powers[n] /\ \A k \in 0 .. n - 1 : HasBit(w, k) <=> k \in S
    BY <1>6, <1>9 DEF T
  <1>11. Bits(n, w) = S
    BY <1>10 DEF Bits
  <1> QED
    BY <1>10, <1>11

\* A number is no other than that of its bits.
LEMMA SameBits ==
    ASSUME NEW n \in Nat, NEW x \in 0 .. Powers[n] - 1, NEW y \in 0 .. Powers[n] - 1,
           Bits(n, x) = Bits(n, y)
    PROVE  x = y
  <1> DEFINE Alike(m, a, b) == \A k \in 0 .. m - 1 : HasBit(a, k) <=> HasBit(b, k)
             T == {m \in Nat : \A a \in 0 .. Powers[m] - 1, b \in 0 .. Powers[m] - 1 :
                                  Alike(m, a, b) => a = b}
  <1>1. 0 \in T
    BY PowersGrow
  <1>2. ASSUME NEW m \in Nat, m \in T PROVE m + 1 \in T
    <2> SUFFICES ASSUME NEW a \in 0 .. Powers[m + 1] - 1, NEW b \in 0 .. Powers[m + 1] - 1,
                        Alike(m + 1, a, b)
                 PROVE  a = b
      OBVIOUS
    <2>1. PICK p \in Nat \ {0} : p = Powers[m] /\ Powers[m + 1] = 2 * p
      BY PowersAre
    <2>2. a \in Int /\ b \in Int /\ 0 <= a /\ a < 2 * p /\ 0 <= b /\ b < 2 * p
      BY <2>1
    <2>3. PICK d \in Int, r \in 0 .. p - 1 : d = a \div p /\ r = a % p /\ a = p * d + r
      <3>1. a \in Int
        BY <2>2
      <3>2. a \div p \in Int /\ a % p \in 0 .. p - 1 /\ a = p * (a \div p) + (a % p)
        BY <3>1, Divides
      <3> QED
        BY <3>2
    <2>4. PICK e \in Int, s \in 0 .. p - 1 : e = b \div p /\ s = b % p /\ b = p * e + s
      <3>1. b \in Int
        BY <2>2
      <3>2. b \div p \in Int /\ b % p \in 0 .. p - 1 /\ b = p * (b \div p) + (b % p)
        BY <3>1, Divides
      <3> QED
        BY <3>2
    <2>5. d \in 0 .. 1
      <3>1. a < p * 2 /\ a \in Nat /\ p * 2 = 2 * p
        BY <2>2
      <3>2. a \div p \in Nat /\ a \div p < 2
        BY <3>1, QuotientBelow
      <3> QED
        BY <2>3, <3>2
    <2>6. e \in 0 .. 1
      <3>1. b < p * 2 /\ b \in Nat /\ p * 2 = 2 * p
        BY <2>2
      <3>2. b \div p \in Nat /\ b \div p < 2
        BY <3>1, QuotientBelow
      <3> QED
        BY <2>4, <3>2
    <2>7. d = e
      <3>1. HasBit(a, m) <=> HasBit(b, m)
        <4>1. m \in 0 .. (m + 1) - 1
          OBVIOUS
        <4> QED
          BY <4>1
      <3>2. (HasBit(a, m) <=> d % 2 = 1) /\ (HasBit(b, m) <=> e % 2 = 1)
        BY <2>1, <2>3, <2>4 DEF HasBit
      <3>3. d % 2 = d /\ e % 2 = e
        BY <2>5, <2>6
      <3> QED
        BY <2>5, <2>6, <3>1, <3>2, <3>3
    <2>8. r = s
      <3>1. Alike(m, r, s)
        <4>1. ASSUME NEW k \in 0 .. m - 1 PROVE HasBit(r, k) <=> HasBit(s, k)
          <5>1. HasBit(a % Powers[m], k) <=> HasBit(a, k)
            BY <2>2, BitsOfRemainder
          <5>2. HasBit(b % Powers[m], k) <=> HasBit(b, k)
            BY <2>2, BitsOfRemainder
          <5>3. k \in 0 .. (m + 1) - 1
            OBVIOUS
          <5>4. HasBit(a, k) <=> HasBit(b, k)
            BY <5>3
          <5> QED
            BY <2>1, <2>3, <2>4, <5>1, <5>2, <5>4
        <4> QED
          BY <4>1
      <3>2. \A u \in 0 .. p - 1, w \in 0 .. p - 1 : Alike(m, u, w) => u = w
        BY <1>2, <2>1
      <3> HIDE DEF Alike
      <3> QED
        BY <3>1, <3>2
    <2> QED
      BY <2>3, <2>4, <2>7, <2>8
  <1>3. Alike(n, x, y)
    BY DEF Bits
  <1> HIDE DEF T, Alike
  <1>4. n \in T
    BY <1>1, <1>2, SetInduction
  <1> QED
    BY <1>3, <1>4 DEF T

\* The bits of a number are those of its bytes.
LEMMA ShiftedByte ==
    ASSUME NEW v \in Nat, NEW b \in Byte, NEW k \in Nat
    PROVE  (256 * v + b) \div Powers[k + 8] = v \div Powers[k]
  <1>1. PICK p \in Nat \ {0} : p = Powers[k] /\ Powers[k + 8] = 256 * p
    BY PowersAre, PowersOfEight
  <1>2. PICK d \in Int, r \in 0 .. p - 1 : d = v \div p /\ v = p * d + r
    BY Divides
  <1>3. PICK m \in Int : m = p * d
    OBVIOUS
  <1>4. PICK q \in Nat \ {0} : q = 256 * p
    OBVIOUS
  <1>5. 256 * v + b = q * d + (256 * r + b)
    <2>1. (256 * p) * d = 256 * (p * d)
      OBVIOUS
    <2>2. q * d = 256 * m
      BY <1>3, <1>4, <2>1
    <2>3. v = m + r
      BY <1>2, <1>3
    <2>4. b \in Nat
      BY DEF Byte
    <2> QED
      BY <2>2, <2>3, <2>4
  <1>6. 256 * r + b \in 0 .. q - 1
    BY <1>4 DEF Byte
  <1>7. PICK w \in Int : w = 256 * v + b
    <2>1. 256 * v + b \in Int
      BY DEF Byte
    <2> QED
      BY <2>1
  <1>8. PICK t \in 0 .. q - 1 : w = q * d + t
    BY <1>5, <1>6, <1>7
  <1>9. w \div q = d
    BY <1>8, DividedAs
  <1> QED
    BY <1>1, <1>2, <1>4, <1>7, <1>9

LEMMA LastByteIs ==
    ASSUME NEW v \in Nat, NEW b \in Nat, b < 256
    PROVE  (256 * v + b) % 256 = b
  <1>1. PICK t \in Nat \ {0} : t = 256
    OBVIOUS
  <1>2. PICK w \in Int : w = 256 * v + b
    OBVIOUS
  <1>3. b \in 0 .. t - 1 /\ v \in Int
    BY <1>1
  <1>4. w = t * v + b
    BY <1>1, <1>2
  <1>5. w % t = b
    BY <1>3, <1>4, DividedAs
  <1> QED
    BY <1>1, <1>2, <1>5

LEMMA BitsOfBytes ==
    ASSUME NEW bytes \in Seq(Byte), NEW j \in 0 .. Len(bytes) - 1, NEW r \in 0 .. 7
    PROVE  HasBit(NumberOf(bytes), 8 * j + r) <=> HasBit(bytes[Len(bytes) - j], r)
  <1>1. PICK n \in Nat : n = Len(bytes)
    BY LenProperties
  <1>2. \A i \in 1 .. n : bytes[i] \in Byte
    BY <1>1, LenProperties
  <1>3. PICK f \in [0 .. n -> Nat] : Reads(bytes, f)
    BY <1>1, NumberReads
  <1>4. NumberOf(bytes) = f[n]
    BY <1>1, <1>3, NumberIs
  <1> DEFINE Agrees(i) == \A q \in 0 .. i - 1, s \in 0 .. 7 : HasBit(f[i], 8 * q + s) <=> HasBit(bytes[i - q], s)
             T == {i \in Nat : i <= n => Agrees(i)}
  <1>5. 0 \in T
    OBVIOUS
  <1>6. ASSUME NEW i \in Nat, i \in T PROVE i + 1 \in T
    <2> SUFFICES ASSUME i + 1 <= n, NEW q \in 0 .. i, NEW s \in 0 .. 7
                 PROVE  HasBit(f[i + 1], 8 * q + s) <=> HasBit(bytes[(i + 1) - q], s)
      OBVIOUS
    <2>1. i \in 0 .. n /\ i + 1 \in 1 .. n /\ (i + 1) - 1 = i /\ i <= n
      OBVIOUS
    <2>2. PICK v \in Nat, b \in Byte : v = f[i] /\ b = bytes[i + 1]
      BY <1>2, <1>3, <2>1
    <2>3. f[i + 1] = 256 * v + b
      BY <1>1, <1>3, <2>1, <2>2 DEF Reads
    <2>4. CASE q = 0
      <3>1. b \in Nat /\ b < 256 /\ Powers[8] = 256
        <4>1. Powers[0 + 8] = 256 * Powers[0]
          BY PowersOfEight
        <4>2. b \in Nat /\ b < 256
          BY DEF Byte
        <4> QED
          BY <4>1, <4>2, PowersGrow
      <3>2. (256 * v + b) % 256 = b
        BY <3>1, LastByteIs
      <3>3. 256 * v + b \in Int /\ 8 \in Nat /\ s \in 0 .. 8 - 1
        BY <3>1
      <3>4. HasBit((256 * v + b) % Powers[8], s) <=> HasBit(256 * v + b, s)
        BY <3>3, BitsOfRemainder
      <3>5. 8 * q + s = s /\ (i + 1) - q = i + 1
        BY <2>4
      <3> QED
        BY <2>2, <2>3, <3>1, <3>2, <3>4, <3>5
    <2>5. CASE q # 0
      <3>1. q - 1 \in 0 .. i - 1 /\ 8 * q + s = (8 * (q - 1) + s) + 8 /\ (i + 1) - q = i - (q - 1)
            /\ 8 * (q - 1) + s \in Nat
        BY <2>5
      <3>2. (256 * v + b) \div Powers[(8 * (q - 1) + s) + 8] = v \div Powers[8 * (q - 1) + s]
        BY <3>1, ShiftedByte
      <3>3. HasBit(f[i], 8 * (q - 1) + s) <=> HasBit(bytes[i - (q - 1)], s)
        BY <1>6, <2>1, <3>1
      <3> QED
        BY <2>2, <2>3, <3>1, <3>2, <3>3 DEF HasBit
    <2> QED
      BY <2>4, <2>5
  <1> HIDE DEF T, Agrees
  <1>7. n \in T
    BY <1>5, <1>6, SetInduction
  <1>8. Agrees(n)
    BY <1>7 DEF T
  <1>9. HasBit(f[n], 8 * j + r) <=> HasBit(bytes[n - j], r)
    BY <1>1, <1>8 DEF Agrees
  <1> QED
    BY <1>1, <1>4, <1>9

\* The byte of a value of the type that has its bits 8 * j and up.
Place(type, j) == IF type.endian = "LSB" THEN j + 1 ELSE type.nbytes - j

LEMMA PlaceIs ==
    ASSUME NEW type \in PrimitiveTypes
    PROVE  /\ \A j \in 0 .. type.nbytes - 1 : Place(type, j) \in 1 .. type.nbytes
           /\ \A b \in 1 .. type.nbytes : \E j \in 0 .. type.nbytes - 1 : Place(type, j) = b
  <1>1. PICK n \in Nat : n = type.nbytes
    BY DEF PrimitiveTypes
  <1>2. CASE type.endian = "LSB"
    <2>1. \A b \in 1 .. n : b - 1 \in 0 .. n - 1 /\ (b - 1) + 1 = b
      OBVIOUS
    <2> QED
      BY <1>1, <1>2, <2>1 DEF Place
  <1>3. CASE type.endian # "LSB"
    <2>1. \A b \in 1 .. n : n - b \in 0 .. n - 1 /\ n - (n - b) = b
      OBVIOUS
    <2> QED
      BY <1>1, <1>3, <2>1 DEF Place
  <1> QED
    BY <1>2, <1>3

LEMMA BitsOfWord ==
    ASSUME NEW type \in PrimitiveTypes, NEW bytes \in Seq(Byte), Unpacks(type, bytes),
           NEW v \in Int, v % Patterns[type.nbytes] = NumberOf(InOrderOf(type, bytes)),
           NEW j \in 0 .. type.nbytes - 1, NEW r \in 0 .. 7
    PROVE  HasBit(v, 8 * j + r) <=> HasBit(bytes[Place(type, j)], r)
  <1>1. PICK n \in Nat : n = type.nbytes /\ n = Len(bytes)
    BY LenProperties DEF Unpacks
  <1>2. PICK ordered \in Seq(Byte) : ordered = InOrderOf(type, bytes) /\ Len(ordered) = n
    BY <1>1, InOrderTwice
  <1>3. HasBit(NumberOf(ordered), 8 * j + r) <=> HasBit(ordered[n - j], r)
    BY <1>1, <1>2, BitsOfBytes
  <1>4. ordered[n - j] = bytes[Place(type, j)]
    <2>1. n - j \in 1 .. n /\ n + 1 - (n - j) = j + 1
      BY <1>1
    <2>2. CASE type.endian = "LSB"
      <3>1. ordered = [i \in 1 .. n |-> bytes[n + 1 - i]]
        BY <1>1, <1>2, <2>2 DEF InOrderOf
      <3> QED
        BY <2>1, <2>2, <3>1 DEF Place
    <2>3. CASE type.endian # "LSB"
      BY <1>1, <1>2, <2>3 DEF InOrderOf, Place
    <2> QED
      BY <2>2, <2>3
  <1>5. 8 * n \in Nat /\ 8 * j + r \in 0 .. 8 * n - 1
    BY <1>1
  <1>6. HasBit(v % Powers[8 * n], 8 * j + r) <=> HasBit(v, 8 * j + r)
    BY <1>5, BitsOfRemainder
  <1>7. v % Powers[8 * n] = NumberOf(ordered)
    BY <1>1, <1>2, PatternsArePowers
  <1> QED
    BY <1>3, <1>4, <1>6, <1>7

LEMMA DecodedWord ==
    ASSUME NEW type \in PrimitiveTypes, NEW bytes \in Seq(Byte), Unpacks(type, bytes)
    PROVE  /\ decode(type, bytes) \in Int
           /\ decode(type, bytes) % Patterns[type.nbytes] = NumberOf(InOrderOf(type, bytes))
  <1>1. type.nbytes \in Nat \ {0} /\ type.signed \in BOOLEAN
    BY DEF PrimitiveTypes
  <1>2. PICK q \in Nat \ {0} : q = Patterns[type.nbytes]
    BY <1>1, PatternsAre
  <1>3. PICK p \in Nat : p = NumberOf(InOrderOf(type, bytes)) /\ p < q
    <2>1. PICK ordered \in Seq(Byte) : ordered = InOrderOf(type, bytes) /\ Len(ordered) = type.nbytes
      BY InOrderTwice DEF Unpacks
    <2>2. NumberOf(ordered) \in Nat /\ NumberOf(ordered) < Patterns[Len(ordered)]
      BY NumberBounded
    <2> QED
      BY <1>2, <2>1, <2>2
  <1>4. decode(type, bytes) = p \/ decode(type, bytes) = p - q
    BY <1>2, <1>3 DEF decode
  <1>5. p \in 0 .. q - 1 /\ p = q * 0 + p /\ p - q = q * (-1) + p
    BY <1>3
  <1>6. p % q = p
    BY <1>5, DividedAs
  <1>7. (p - q) % q = p
    <2>1. PICK w \in Int : w = p - q /\ w = q * (-1) + p
      BY <1>5
    <2>2. w % q = p
      BY <1>5, <2>1, DividedAs
    <2> QED
      BY <2>1, <2>2
  <1>8. p \in Int /\ p - q \in Int
    OBVIOUS
  <1> QED
    BY <1>2, <1>3, <1>4, <1>6, <1>7, <1>8

LEMMA EncodedWord ==
    ASSUME NEW type \in PrimitiveTypes, NEW value \in Int
    PROVE  /\ Unpacks(type, encode(type, value))
           /\ value % Patterns[type.nbytes] = NumberOf(InOrderOf(type, encode(type, value)))
  <1>1. PICK n \in Nat : n = type.nbytes
    BY DEF PrimitiveTypes
  <1>2. PICK q \in Nat \ {0} : q = Patterns[n]
    BY PatternsAre
  <1>3. PICK p \in Nat : p = value % q /\ p < q
    <2>1. value % q \in 0 .. q - 1
      BY Divides
    <2> QED
      BY <2>1
  <1>4. BytesOf(n, p) \in Seq(Byte)
    BY BytesAre
  <1>5. InOrderOf(type, encode(type, value)) = BytesOf(n, p)
    BY <1>1, <1>2, <1>3, <1>4, InOrderTwice DEF encode
  <1>6. NumberOf(BytesOf(n, p)) = p
    BY <1>2, <1>3, NumberOfBytes
  <1> QED
    BY <1>1, <1>2, <1>3, <1>5, <1>6, EncodedBytes DEF Unpacks

\* The bits of what is encoded and of what is decoded are those of the bytes.
LEMMA EncodedBits ==
    ASSUME NEW type \in PrimitiveTypes, NEW value \in Int,
           NEW j \in 0 .. type.nbytes - 1, NEW r \in 0 .. 7
    PROVE  HasBit(value, 8 * j + r) <=> HasBit(encode(type, value)[Place(type, j)], r)
  <1>1. encode(type, value) \in Seq(Byte)
    BY EncodedBytes
  <1> QED
    BY <1>1, EncodedWord, BitsOfWord

LEMMA DecodedBits ==
    ASSUME NEW type \in PrimitiveTypes, NEW bytes \in Seq(Byte), Unpacks(type, bytes),
           NEW j \in 0 .. type.nbytes - 1, NEW r \in 0 .. 7
    PROVE  HasBit(decode(type, bytes), 8 * j + r) <=> HasBit(bytes[Place(type, j)], r)
  BY DecodedWord, BitsOfWord

LEMMA BitOfByte ==
    ASSUME NEW n \in Nat, NEW k \in 0 .. 8 * n - 1
    PROVE  \E j \in 0 .. n - 1, r \in 0 .. 7 : k = 8 * j + r
  <1>1. PICK e \in Int, t \in 0 .. 8 - 1 : k = 8 * e + t
    <2>1. k \in Int /\ 8 \in Nat \ {0}
      OBVIOUS
    <2> QED
      BY <2>1, Divides
  <1> QED
    BY <1>1

\* Bytes that are alike in some bits decode to values that are alike in them.
AlikeUnder(type, old, new, mask) ==
    \A j \in 0 .. type.nbytes - 1, r \in 0 .. 7 :
        8 * j + r \in mask => (HasBit(old[Place(type, j)], r) <=> HasBit(new[Place(type, j)], r))

LEMMA DecodedAlike ==
    ASSUME NEW type \in PrimitiveTypes, NEW old \in Seq(Byte), NEW new \in Seq(Byte),
           Unpacks(type, old), Unpacks(type, new), NEW mask, AlikeUnder(type, old, new, mask)
    PROVE  Bits(8 * type.nbytes, decode(type, new)) \cap mask = Bits(8 * type.nbytes, decode(type, old)) \cap mask
  <1>1. PICK n \in Nat : n = type.nbytes
    BY DEF PrimitiveTypes
  <1>2. ASSUME NEW k \in 0 .. 8 * n - 1, k \in mask
        PROVE  HasBit(decode(type, new), k) <=> HasBit(decode(type, old), k)
    <2>1. PICK j \in 0 .. n - 1, r \in 0 .. 7 : k = 8 * j + r
      BY BitOfByte
    <2>2. HasBit(decode(type, new), 8 * j + r) <=> HasBit(new[Place(type, j)], r)
      BY <1>1, DecodedBits
    <2>3. HasBit(decode(type, old), 8 * j + r) <=> HasBit(old[Place(type, j)], r)
      BY <1>1, DecodedBits
    <2> QED
      BY <1>1, <1>2, <2>1, <2>2, <2>3 DEF AlikeUnder
  <1> QED
    BY <1>1, <1>2 DEF Bits

\* A byte is no other than that of its bits.
LEMMA SameByte ==
    ASSUME NEW x \in Byte, NEW y \in Byte, \A r \in 0 .. 7 : HasBit(x, r) <=> HasBit(y, r)
    PROVE  x = y
  <1>1. Powers[8] = 256
    <2>1. Powers[0 + 8] = 256 * Powers[0]
      BY PowersOfEight
    <2> QED
      BY <2>1, PowersGrow
  <1>2. PICK n \in Nat : n = 8 /\ Powers[n] = 256
    BY <1>1
  <1>3. Bits(n, x) = Bits(n, y)
    BY <1>2 DEF Bits
  <1>4. x \in 0 .. Powers[n] - 1 /\ y \in 0 .. Powers[n] - 1
    BY <1>2 DEF Byte
  <1> QED
    BY <1>3, <1>4, SameBits

\* A byte that has some bits.
LEMMA ByteOfBits ==
    ASSUME NEW S \in SUBSET (0 .. 7)
    PROVE  OfBits(8, S) \in Byte /\ \A r \in 0 .. 7 : HasBit(OfBits(8, S), r) <=> r \in S
  <1>1. Powers[8] = 256
    <2>1. Powers[0 + 8] = 256 * Powers[0]
      BY PowersOfEight
    <2> QED
      BY <2>1, PowersGrow
  <1>2. PICK n \in Nat : n = 8 /\ Powers[n] = 256 /\ S \in SUBSET (0 .. n - 1)
    BY <1>1
  <1>3. PICK w : w = OfBits(n, S) /\ w \in Nat /\ w < 256 /\ Bits(n, w) = S
    BY <1>2, OfBitsAre
  <1>4. \A r \in 0 .. 7 : HasBit(w, r) <=> r \in S
    BY <1>2, <1>3 DEF Bits
  <1> QED
    BY <1>2, <1>3, <1>4 DEF Byte

=============================================================================
