--------------------------- MODULE HedgeFundsProofs ---------------------------
(***************************************************************************)
(* No pair is sent uncovered, and both legs of every pair trade the largest *)
(* common quantity, for any task, any markets, purses and prices.          *)
(***************************************************************************)
EXTENDS HedgeFunds, FiniteSetTheorems, WellFoundedInduction, SequenceTheorems, TLAPS

-----------------------------------------------------------------------------
(* Least and greatest numbers.                                             *)

\* A set of numbers that is not empty has a least one.
LEMMA Least ==
  ASSUME NEW S \in SUBSET Nat, NEW top \in S
  PROVE  \E k \in S : \A j \in S : k <= j
<1> DEFINE T == S \cap (0..top)
           Below(k) == {j \in T : j <= k}
           F == {Below(k) : k \in T}
<1>1. IsFiniteSet(T)
  <2>1. IsFiniteSet(0..top)
    BY FS_Interval
  <2> QED BY <2>1, FS_Subset
<1>2. IsWellFoundedOn(StrictSubsetOrdering(T), FiniteSubsetsOf(T))
  BY <1>1, FS_StrictSubsetOrderingWellFounded
<1>3. F \subseteq FiniteSubsetsOf(T) /\ F # {}
  <2>1. \A k \in T : IsFiniteSet(Below(k)) /\ Below(k) \subseteq T
    <3>1. \A k \in T : Below(k) \subseteq T
      OBVIOUS
    <3> QED BY <1>1, <3>1, FS_Subset
  <2>2. top \in T
    OBVIOUS
  <2> HIDE DEF T, Below
  <2> QED BY <2>1, <2>2 DEF FiniteSubsetsOf, F
<1> HIDE DEF F
<1>4. PICK x \in F : \A y \in F : <<y, x>> \notin StrictSubsetOrdering(T)
  BY <1>2, <1>3, WFMin
<1>5. PICK k \in T : x = Below(k)
  BY <1>4 DEF F
<1>6. \A j \in T : k <= j
  <2> SUFFICES ASSUME NEW j \in T, j < k PROVE FALSE
    OBVIOUS
  <2>1. Below(j) \in F
    BY DEF F
  <2>2. Below(j) \subseteq Below(k) /\ k \in Below(k) /\ k \notin Below(j)
    OBVIOUS
  <2>3. Below(j) \subseteq T /\ Below(k) \subseteq T /\ Below(j) # Below(k)
    BY <2>2
  <2>4. <<Below(j), Below(k)>> \in StrictSubsetOrdering(T)
    BY <2>2, <2>3 DEF StrictSubsetOrdering
  <2> QED BY <1>4, <1>5, <2>1, <2>4
<1>7. ASSUME NEW j \in S PROVE k <= j
  <2>1. k <= top /\ k \in Nat /\ j \in Nat /\ top \in Nat
    BY <1>6
  <2>2. CASE j <= top
    BY <1>6, <2>1, <2>2
  <2> QED BY <2>1, <2>2
<1> QED BY <1>7

\* A bounded set of numbers that is not empty has its maximum.
LEMMA Greatest ==
  ASSUME NEW n \in Nat, NEW S \in SUBSET (0..n), S # {}
  PROVE  Max(S) \in S /\ \A y \in S : Max(S) >= y
<1> DEFINE R == {n - y : y \in S}
<1>1. R \in SUBSET Nat
  OBVIOUS
<1>2. PICK z \in S : TRUE
  OBVIOUS
<1>3. n - z \in R
  OBVIOUS
<1> HIDE DEF R
<1>4. PICK k \in R : \A j \in R : k <= j
  BY <1>1, <1>3, Least
<1>5. PICK x \in S : k = n - x
  BY <1>4 DEF R
<1>6. ASSUME NEW y \in S PROVE x >= y
  <2>1. k <= n - y
    BY <1>4 DEF R
  <2> QED BY <1>5, <2>1
<1> QED BY <1>6 DEF Max

\* What is in a set and no less than any of it is its maximum.
LEMMA IsMax ==
  ASSUME NEW n \in Nat, NEW S \in SUBSET (0..n), NEW x \in S, \A y \in S : x >= y
  PROVE  Max(S) = x
<1>1. Max(S) \in S /\ Max(S) >= x
  BY Greatest
<1>2. x >= Max(S) /\ x \in Int /\ Max(S) \in Int
  <2>1. \A y \in S : y \in Int
    OBVIOUS
  <2> QED BY <1>1, <2>1
<1> QED BY <1>1, <1>2

\* The smaller of two numbers.
LEMMA MinOfTwo ==
  ASSUME NEW a \in Nat, NEW b \in Nat
  PROVE  Min({a, b}) = IF a <= b THEN a ELSE b
<1>1. \A x \in {a, b} : (\A y \in {a, b} : x <= y) <=> x = IF a <= b THEN a ELSE b
  OBVIOUS
<1> QED BY <1>1 DEF Min

-----------------------------------------------------------------------------
(* Multiples.                                                              *)

\* A greater factor gives a greater product.
LEMMA Times ==
  ASSUME NEW d \in Nat, NEW j \in Nat, NEW k \in Nat, j <= k
  PROVE  d * j <= d * k /\ d * j \in Nat /\ d * k \in Nat
<1>1. PICK i \in Nat : k = j + i
  <2>1. k - j \in Nat /\ k = j + (k - j)
    OBVIOUS
  <2> QED BY <2>1
<1>2. d * k = d * j + d * i /\ d * i \in Nat /\ d * j \in Nat
  BY <1>1
<1> QED BY <1>2

LEMMA TimesStrictly ==
  ASSUME NEW d \in Nat, d > 0, NEW j \in Nat, NEW k \in Nat, j < k
  PROVE  d * j + d <= d * k
<1>1. d * (j + 1) <= d * k
  BY Times
<1>2. d * (j + 1) = d * j + d
  OBVIOUS
<1> QED BY <1>1, <1>2

\* Division with a remainder.
LEMMA Division ==
  ASSUME NEW n \in Nat, NEW d \in Nat, d > 0
  PROVE  /\ n \div d \in Nat /\ n % d \in 0..(d - 1)
         /\ d * (n \div d) \in Nat
         /\ n = d * (n \div d) + (n % d)
OBVIOUS

\* Division is the only way to write a number as a multiple and a remainder.
LEMMA DivisionUnique ==
  ASSUME NEW n \in Nat, NEW d \in Nat, d > 0, NEW k \in Nat, NEW r \in 0..(d - 1),
         n = d * k + r
  PROVE  n \div d = k /\ n % d = r
<1> DEFINE q == n \div d
<1>1. q \in Nat /\ n % d \in 0..(d - 1) /\ d * q \in Nat /\ n = d * q + (n % d)
  BY Division
<1>2. d * k \in Nat
  OBVIOUS
<1> HIDE DEF q
<1>3. CASE q < k
  <2>1. d * q + d <= d * k
    BY <1>1, <1>3, TimesStrictly
  <2> QED BY <1>1, <1>2, <2>1
<1>4. CASE k < q
  <2>1. d * k + d <= d * q
    BY <1>1, <1>4, TimesStrictly
  <2> QED BY <1>1, <1>2, <2>1
<1>5. CASE q = k
  BY <1>1, <1>2, <1>5 DEF q
<1> QED BY <1>1, <1>3, <1>4, <1>5

\* A number that leaves no remainder is a multiple.
Fits(n, d) == n % d = 0

LEMMA Multiple ==
  ASSUME NEW n \in Nat, NEW d \in Nat, d > 0
  PROVE  Fits(n, d) <=> \E k \in Nat : n = d * k
<1>1. ASSUME Fits(n, d) PROVE \E k \in Nat : n = d * k
  BY <1>1, Division DEF Fits
<1>2. ASSUME NEW k \in Nat, n = d * k PROVE Fits(n, d)
  <2>1. d * k \in Nat /\ n = d * k + 0 /\ 0 \in 0..(d - 1)
    BY <1>2
  <2> QED BY <2>1, DivisionUnique DEF Fits
<1> QED BY <1>1, <1>2

\* A product is a multiple of its factor.
LEMMA MultipleOf ==
  ASSUME NEW d \in Nat, d > 0, NEW k \in Nat
  PROVE  Fits(d * k, d) /\ d * k \in Nat /\ (k > 0 => d * k > 0)
<1>1. d * k \in Nat
  OBVIOUS
<1>2. Fits(d * k, d)
  BY <1>1, Multiple
<1>3. k > 0 => d * 0 + d <= d * k
  BY TimesStrictly
<1>4. d * 0 = 0
  OBVIOUS
<1> QED BY <1>1, <1>2, <1>3, <1>4

Common(a, b) == {m \in Nat \ {0} : Fits(m, a) /\ Fits(m, b)}

\* The least common multiple divides every other.
LEMMA LeastDivides ==
  ASSUME NEW a \in Nat \ {0}, NEW b \in Nat \ {0}, NEW m \in Common(a, b),
         \A y \in Common(a, b) : m <= y,
         NEW x \in Nat, Fits(x, a), Fits(x, b)
  PROVE  Fits(x, m)
<1> DEFINE q == x \div m
           r == x % m
<1>1. m \in Nat /\ m > 0 /\ Fits(m, a) /\ Fits(m, b)
  BY DEF Common
<1>2. q \in Nat /\ r \in 0..(m - 1) /\ m * q \in Nat /\ x = m * q + r
  BY <1>1, Division
<1> HIDE DEF q, r
<1>3. ASSUME NEW d \in Nat \ {0}, Fits(m, d), Fits(x, d) PROVE Fits(r, d)
  <2>1. PICK i \in Nat : m = d * i
    BY <1>1, <1>3, Multiple
  <2>2. PICK j \in Nat : x = d * j
    <3>1. d \in Nat /\ d > 0
      OBVIOUS
    <3> QED BY <1>3, <3>1, Multiple, Zenon
  <2>3. m * q = d * (i * q) /\ i * q \in Nat
    BY <1>2, <2>1
  <2>4. i * q <= j
    <3>1. CASE i * q > j
      <4>1. d * j + d <= d * (i * q)
        BY <2>3, <3>1, TimesStrictly
      <4>2. d * j \in Nat /\ d * (i * q) \in Nat
        BY <2>3
      <4> QED BY <1>2, <2>2, <2>3, <4>1, <4>2
    <3> QED BY <2>3, <3>1
  <2>5. PICK k \in Nat : j = i * q + k
    <3>1. j - i * q \in Nat /\ j = i * q + (j - i * q)
      BY <2>3, <2>4
    <3> QED BY <3>1
  <2>6. d * j = d * (i * q) + d * k /\ d * k \in Nat /\ d * (i * q) \in Nat
    BY <2>3, <2>5
  <2>7. r = d * k
    BY <1>2, <2>2, <2>3, <2>6
  <2>8. d \in Nat /\ d > 0
    OBVIOUS
  <2>9. Fits(d * k, d)
    BY <2>8, MultipleOf, Zenon
  <2> QED BY <2>7, <2>9
<1>4. Fits(r, a) /\ Fits(r, b)
  BY <1>1, <1>3
<1>5. r = 0
  <2>1. CASE r > 0
    <3>1. r \in Common(a, b)
      BY <1>2, <1>4, <2>1 DEF Common
    <3> QED BY <1>1, <1>2, <3>1
  <2> QED BY <1>2, <2>1
<1> QED BY <1>5 DEF r, Fits

\* Gcd returns the greatest common divisor.
LEMMA GcdDivides ==
  ASSUME NEW a \in Nat \ {0}, NEW b \in Nat \ {0}
  PROVE  /\ Gcd(a, b) \in Nat \ {0}
         /\ Fits(a, Gcd(a, b)) /\ Fits(b, Gcd(a, b))
         /\ \A d \in 1..a : Fits(a, d) /\ Fits(b, d) => d <= Gcd(a, b)
<1> DEFINE D == {d \in 1..a : Fits(a, d) /\ Fits(b, d)}
<1>1. D \in SUBSET (0..a)
  OBVIOUS
<1>2. 1 \in D
  <2>1. Fits(a, 1) /\ Fits(b, 1)
    <3>1. a = 1 * a + 0 /\ b = 1 * b + 0
      OBVIOUS
    <3> QED BY <3>1, DivisionUnique DEF Fits
  <2> QED BY <2>1
<1>3. Gcd(a, b) = Max(D)
  BY DEF Gcd, Fits
<1>4. Max(D) \in D /\ \A y \in D : Max(D) >= y
  BY <1>1, <1>2, Greatest
<1> QED BY <1>3, <1>4

\* The grid is the least common multiple of the two steps: it is a multiple of both
\* and divides every common multiple (decimal_lcm).
LEMMA GridIsCommon ==
  ASSUME NEW a \in Nat \ {0}, NEW b \in Nat \ {0}
  PROVE  /\ Grid(a, b) \in Nat \ {0}
         /\ Fits(Grid(a, b), a) /\ Fits(Grid(a, b), b)
         /\ \A x \in Nat : Fits(x, a) /\ Fits(x, b) => Fits(x, Grid(a, b))
<1> DEFINE g == Gcd(a, b)
           G == Grid(a, b)
<1>1. /\ g \in Nat \ {0} /\ Fits(a, g) /\ Fits(b, g)
      /\ \A d \in 1..a : Fits(a, d) /\ Fits(b, d) => d <= g
  BY GcdDivides
<1> HIDE DEF g
<1>2. PICK a1 \in Nat : a = g * a1
  <2>1. g \in Nat /\ g > 0 /\ a \in Nat
    BY <1>1
  <2> QED BY <1>1, <2>1, Multiple, Zenon
<1>3. PICK b1 \in Nat : b = g * b1
  <2>1. g \in Nat /\ g > 0 /\ b \in Nat
    BY <1>1
  <2> QED BY <1>1, <2>1, Multiple, Zenon
<1>4. a1 > 0 /\ b1 > 0
  <2>1. g * 0 = 0
    BY <1>1
  <2> QED BY <1>2, <1>3, <2>1
<1>5. a * b \in Nat /\ a * b = g * (a1 * b) /\ a1 * b \in Nat /\ a1 * b = a * b1
  <2>1. a * b = g * (a1 * b)
    BY <1>1, <1>2
  <2>2. a1 * b = a * b1
    BY <1>1, <1>2, <1>3
  <2> QED BY <2>1, <2>2
<1>6. G = a1 * b
  <2>1. a * b = g * (a1 * b) + 0 /\ 0 \in 0..(g - 1)
    BY <1>1, <1>5
  <2>2. (a * b) \div g = a1 * b
    BY <1>1, <1>5, <2>1, DivisionUnique
  <2> QED BY <2>2 DEF Grid, g
<1>7. G = a * b1 /\ G = b * a1 /\ G \in Nat /\ a * b = g * G
  BY <1>5, <1>6
<1> HIDE DEF G
<1>8. Fits(G, a) /\ Fits(G, b) /\ G > 0
  <2>1. a \in Nat /\ a > 0 /\ b \in Nat /\ b > 0
    OBVIOUS
  <2>2. Fits(a * b1, a) /\ Fits(b * a1, b) /\ a * b1 > 0
    BY <1>4, <2>1, MultipleOf, Zenon
  <2> QED BY <1>7, <2>2
<1>9. G \in Common(a, b)
  BY <1>7, <1>8 DEF Common
<1>10. PICK m \in Common(a, b) : \A y \in Common(a, b) : m <= y
  <2>1. Common(a, b) \in SUBSET Nat
    BY DEF Common
  <2> QED BY <1>9, <2>1, Least
<1>11. m \in Nat /\ m > 0 /\ m <= G /\ Fits(m, a) /\ Fits(m, b)
  BY <1>9, <1>10 DEF Common
<1>12. PICK e \in Nat : a * b = m * e
  <2>1. Fits(a * b, a) /\ Fits(b * a, b) /\ b * a = a * b
    BY MultipleOf
  <2>2. Fits(a * b, m)
    BY <1>5, <1>10, <2>1, LeastDivides
  <2> QED BY <1>5, <1>11, <2>2, Multiple
<1>13. PICK k \in Nat : m = a * k
  BY <1>11, Multiple
<1>14. PICK j \in Nat : m = b * j
  BY <1>11, Multiple
<1>15. b = k * e /\ a = j * e
  <2>1. a * b = a * (k * e) /\ k * e \in Nat
    BY <1>12, <1>13
  <2>2. b * a = b * (j * e) /\ j * e \in Nat
    BY <1>12, <1>14
  <2>3. ASSUME NEW d \in Nat \ {0}, NEW x \in Nat, NEW y \in Nat, d * x = d * y PROVE x = y
    <3>1. CASE x < y
      <4>1. d * x + d <= d * y /\ d * x \in Nat
        BY <3>1, TimesStrictly
      <4> QED BY <2>3, <4>1
    <3>2. CASE y < x
      <4>1. d * y + d <= d * x /\ d * y \in Nat
        BY <3>2, TimesStrictly
      <4> QED BY <2>3, <4>1
    <3> QED BY <3>1, <3>2
  <2> QED BY <2>1, <2>2, <2>3
<1>16. e > 0 /\ e <= a /\ Fits(a, e) /\ Fits(b, e)
  <2>1. e > 0 /\ j > 0
    BY <1>15
  <2>2. a = e * j /\ b = e * k
    BY <1>15
  <2>3. e * 1 <= e * j
    BY <2>1, Times
  <2>4. e <= a
    BY <2>2, <2>3
  <2> QED BY <2>1, <2>2, <2>4, MultipleOf
<1>17. e <= g
  BY <1>1, <1>16
<1>18. m = G
  <2>1. CASE m < G
    <3>1. e * m + e <= e * G
      BY <1>7, <1>11, <1>16, <2>1, TimesStrictly
    <3>2. G * e <= G * g
      BY <1>1, <1>7, <1>17, Times
    <3>3. e * m = m * e /\ e * G = G * e /\ G * g = g * G
      BY <1>1, <1>7, <1>11
    <3>4. m * e = g * G
      BY <1>7, <1>12
    <3>5. m * e \in Nat /\ G * e \in Nat /\ g * G \in Nat
      BY <1>1, <1>7, <1>11
    <3> QED BY <1>16, <3>1, <3>2, <3>3, <3>4, <3>5
  <2> QED BY <1>7, <1>11, <2>1
<1>19. \A x \in Nat : Fits(x, a) /\ Fits(x, b) => Fits(x, G)
  BY <1>10, <1>18, LeastDivides
<1> QED BY <1>7, <1>8, <1>19 DEF G

\* Floored to the grid, an amount is the largest that fits both steps
\* (compute_preflight).
LEMMA FloorIsLargest ==
  ASSUME NEW amount \in Nat, NEW a \in Nat \ {0}, NEW b \in Nat \ {0}
  PROVE  /\ FloorToGrid(amount, Grid(a, b)) \in 0..amount
         /\ FloorToGrid(amount, Grid(a, b))
              = Max({x \in 0..amount : x % a = 0 /\ x % b = 0})
<1> DEFINE G == Grid(a, b)
           q == FloorToGrid(amount, G)
           S == {x \in 0..amount : Fits(x, a) /\ Fits(x, b)}
<1>1. /\ G \in Nat \ {0} /\ Fits(G, a) /\ Fits(G, b)
      /\ \A x \in Nat : Fits(x, a) /\ Fits(x, b) => Fits(x, G)
  BY GridIsCommon
<1> HIDE DEF G
<1>2. /\ amount \div G \in Nat /\ amount % G \in 0..(G - 1) /\ G * (amount \div G) \in Nat
      /\ amount = G * (amount \div G) + (amount % G)
  BY <1>1, Division
<1>3. q = G * (amount \div G)
  BY <1>1, <1>2 DEF FloorToGrid
<1>4. q \in 0..amount
  BY <1>1, <1>2, <1>3
<1> HIDE DEF q
<1>5. ASSUME NEW d \in Nat \ {0}, Fits(G, d) PROVE Fits(q, d)
  <2>1. d \in Nat /\ d > 0 /\ G \in Nat
    BY <1>1
  <2>2. PICK i \in Nat : G = d * i
    BY <1>5, <2>1, Multiple, Zenon
  <2>3. PICK c \in Nat : c = amount \div G
    BY <1>2
  <2>4. q = d * (i * c) /\ i * c \in Nat
    <3>1. G * c = d * (i * c) /\ i * c \in Nat
      BY <2>1, <2>2
    <3> QED BY <1>3, <2>3, <3>1
  <2>5. Fits(d * (i * c), d)
    BY <2>1, <2>4, MultipleOf, Zenon
  <2> QED BY <2>4, <2>5
<1>6. q \in S
  BY <1>1, <1>4, <1>5
<1>7. ASSUME NEW x \in S PROVE q >= x
  <2>1. PICK k \in Nat : x = G * k
    <3>1. G \in Nat /\ G > 0 /\ x \in Nat /\ Fits(x, G)
      BY <1>1
    <3> QED BY <3>1, Multiple, Zenon
  <2>2. CASE k <= amount \div G
    <3>1. G * k <= G * (amount \div G)
      BY <1>1, <1>2, <2>2, Times
    <3> QED BY <1>3, <2>1, <3>1
  <2>3. CASE k > amount \div G
    <3>1. G * (amount \div G) + G <= G * k
      BY <1>1, <1>2, <2>3, TimesStrictly
    <3> QED BY <1>1, <1>2, <2>1, <3>1
  <2> QED BY <1>2, <2>2, <2>3
<1>8. Max(S) = q
  <2> HIDE DEF S
  <2>1. S \in SUBSET (0..amount)
    BY DEF S
  <2> QED BY <1>6, <1>7, <2>1, IsMax
<1> QED BY <1>4, <1>8 DEF G, q, Fits

-----------------------------------------------------------------------------
(* Sums.                                                                   *)

\* The sum over a set adds the values one by one, in the order of Pick; this is the
\* function MapThenSumSet recurs with.
Pick(s) == CHOOSE x \in s : TRUE
Summed(g, F, s) == IF s = {} THEN 0 ELSE F[Pick(s)] + g[s \ {Pick(s)}]
Equation(g, F, S) == g = [s \in SUBSET S |-> Summed(g, F, s)]
Total(F, S) == MapThenSumSet(LAMBDA i : F[i], S)
Alike(F, G, S) == \A x \in S : F[x] = G[x]

\* What is picked is in the set, and without it the set is smaller.
LEMMA PickShrinks ==
  ASSUME NEW s, IsFiniteSet(s), s # {}
  PROVE  /\ Pick(s) \in s /\ IsFiniteSet(s \ {Pick(s)})
         /\ Cardinality(s) \in Nat /\ Cardinality(s) > 0
         /\ Cardinality(s \ {Pick(s)}) = Cardinality(s) - 1
<1>1. Pick(s) \in s
  BY DEF Pick
<1> HIDE DEF Pick
<1>2. Cardinality(s) \in Nat /\ Cardinality(s) # 0
  BY FS_CardinalityType, FS_EmptySet
<1> QED BY <1>1, <1>2, FS_RemoveElement

\* Two such functions agree where their values do.
LEMMA SumUnique ==
  ASSUME NEW S, IsFiniteSet(S), NEW T, S \subseteq T, NEW F, NEW G,
         Alike(F, G, S),
         NEW g, NEW h, Equation(g, F, S), Equation(h, G, T)
  PROVE  \A s \in SUBSET S : g[s] = h[s]
<1> DEFINE C == {Cardinality(s) : s \in {s \in SUBSET S : g[s] # h[s]}}
<1>1. \A s \in SUBSET S : IsFiniteSet(s) /\ Cardinality(s) \in Nat
  BY FS_Subset, FS_CardinalityType
<1>2. C \in SUBSET Nat
  BY <1>1
<1>3. \A s \in SUBSET S : g[s] = Summed(g, F, s) /\ h[s] = Summed(h, G, s)
  BY DEF Equation
<1>4. SUFFICES ASSUME NEW r \in SUBSET S, g[r] # h[r] PROVE FALSE
  OBVIOUS
<1>5. Cardinality(r) \in C
  BY <1>4
<1> HIDE DEF C
<1>6. PICK k \in C : \A j \in C : k <= j
  BY <1>2, <1>5, Least
<1>7. PICK s \in SUBSET S : g[s] # h[s] /\ k = Cardinality(s)
  BY <1>6 DEF C
<1>8. s # {}
  BY <1>3, <1>7 DEF Summed
<1> DEFINE x == Pick(s)
           u == s \ {x}
<1>9. x \in s /\ Cardinality(u) = k - 1 /\ k \in Nat
  BY <1>1, <1>7, <1>8, PickShrinks
<1>10. g[u] = h[u]
  <2>1. u \in SUBSET S
    OBVIOUS
  <2>2. CASE g[u] # h[u]
    <3>1. Cardinality(u) \in C
      BY <2>1, <2>2 DEF C
    <3> QED BY <1>6, <1>9, <3>1
  <2> QED BY <2>2
<1>11. F[x] = G[x]
  BY <1>9 DEF Alike
<1> QED BY <1>3, <1>7, <1>8, <1>10, <1>11 DEF Summed

\* There is such a function, and its values are numbers like those it adds.
LEMMA SumExists ==
  ASSUME NEW S, IsFiniteSet(S), NEW R, R = Nat \/ R = Int, NEW F, \A x \in S : F[x] \in R
  PROVE  \E g \in [SUBSET S -> R] : Equation(g, F, S)
<1> DEFINE Part(k) == {s \in SUBSET S : Cardinality(s) <= k}
           Solves(g, k) == \A s \in Part(k) : g[s] = Summed(g, F, s)
           Has(k) == \E g \in [Part(k) -> R] : Solves(g, k)
           N == {k \in Nat : ~Has(k)}
<1>1. \A s \in SUBSET S : IsFiniteSet(s) /\ Cardinality(s) \in Nat
  BY FS_Subset, FS_CardinalityType
<1>2. Cardinality(S) \in Nat /\ \A s \in SUBSET S : Cardinality(s) <= Cardinality(S)
  BY <1>1, FS_Subset
<1>3. 0 \in R /\ \A a, b \in R : a + b \in R
  OBVIOUS
<1>4. Has(0)
  <2> DEFINE g == [s \in Part(0) |-> 0]
  <2>1. g \in [Part(0) -> R]
    BY <1>3
  <2>2. ASSUME NEW s \in Part(0) PROVE g[s] = Summed(g, F, s)
    <3>1. s = {}
      <4>1. Cardinality(s) = 0 /\ IsFiniteSet(s)
        BY <1>1
      <4> QED BY <4>1, FS_EmptySet
    <3> QED BY <3>1 DEF Summed
  <2> QED BY <2>1, <2>2
<1>5. ASSUME NEW k \in Nat, Has(k) PROVE Has(k + 1)
  <2>1. PICK g \in [Part(k) -> R] : Solves(g, k)
    BY <1>5
  <2> DEFINE h == [s \in Part(k + 1) |-> Summed(g, F, s)]
  <2>2. ASSUME NEW s \in Part(k + 1), s # {}
        PROVE  Pick(s) \in S /\ s \ {Pick(s)} \in Part(k)
    <3>1. Pick(s) \in s /\ Cardinality(s \ {Pick(s)}) = Cardinality(s) - 1
      BY <1>1, <2>2, PickShrinks
    <3> QED BY <1>1, <3>1
  <2>3. \A s \in Part(k) : s \in Part(k + 1) /\ h[s] = g[s]
    <3>1. \A s \in Part(k) : s \in Part(k + 1)
      BY <1>1
    <3> QED BY <2>1, <3>1
  <2>4. h \in [Part(k + 1) -> R]
    <3>1. ASSUME NEW s \in Part(k + 1) PROVE Summed(g, F, s) \in R
      <4>1. CASE s = {}
        BY <1>3, <4>1 DEF Summed
      <4>2. CASE s # {}
        <5>1. F[Pick(s)] \in R /\ g[s \ {Pick(s)}] \in R
          BY <2>2, <4>2
        <5> QED BY <1>3, <4>2, <5>1 DEF Summed
      <4> QED BY <4>1, <4>2
    <3> QED BY <3>1
  <2>5. ASSUME NEW s \in Part(k + 1) PROVE h[s] = Summed(h, F, s)
    <3>1. CASE s = {}
      BY <3>1 DEF Summed
    <3>2. CASE s # {}
      <4>1. h[s \ {Pick(s)}] = g[s \ {Pick(s)}]
        BY <2>2, <2>3, <3>2
      <4> QED BY <3>2, <4>1 DEF Summed
    <3> QED BY <3>1, <3>2
  <2> QED BY <2>4, <2>5
<1> HIDE DEF Has
<1>6. \A k \in Nat : Has(k)
  <2> SUFFICES ASSUME NEW j \in N PROVE FALSE
    OBVIOUS
  <2>1. PICK k \in N : \A i \in N : k <= i
    <3>1. N \in SUBSET Nat
      OBVIOUS
    <3> HIDE DEF N
    <3> QED BY <3>1, Least
  <2>2. k # 0 /\ k \in Nat
    BY <1>4
  <2>3. Has(k - 1)
    BY <2>1, <2>2
  <2> QED BY <1>5, <2>2, <2>3
<1>7. PICK g \in [Part(Cardinality(S)) -> R] : Solves(g, Cardinality(S))
  BY <1>2, <1>6 DEF Has
<1>8. Part(Cardinality(S)) = SUBSET S
  BY <1>2
<1>9. g \in [SUBSET S -> R] /\ \A s \in SUBSET S : g[s] = Summed(g, F, s)
  BY <1>7, <1>8
<1>10. Equation(g, F, S)
  BY <1>9 DEF Equation
<1> QED BY <1>9, <1>10

\* MapThenSumSet takes one of the functions that satisfy the equation.
LEMMA TotalIsSome ==
  ASSUME NEW S, NEW F, NEW h, Equation(h, F, S)
  PROVE  \E g : Equation(g, F, S) /\ Total(F, S) = g[S]
BY DEF Total, MapThenSumSet, MapThenFoldSet, Equation, Summed, Pick

\* MapThenSumSet returns the value of such a function, also of one over more.
LEMMA TotalIs ==
  ASSUME NEW T, IsFiniteSet(T), NEW F, NEW g, Equation(g, F, T), NEW S \in SUBSET T,
         \A x \in T : F[x] \in Int
  PROVE  Total(F, S) = g[S]
<1>1. IsFiniteSet(S) /\ S \subseteq T /\ \A x \in S : F[x] \in Int
  BY FS_Subset
<1>2. PICK h : Equation(h, F, S)
  BY <1>1, SumExists
<1>3. PICK f : Equation(f, F, S) /\ Total(F, S) = f[S]
  BY <1>2, TotalIsSome
<1>4. \A s \in SUBSET S : f[s] = g[s]
  <2>1. Alike(F, F, S)
    BY DEF Alike
  <2> QED BY <1>1, <1>3, <2>1, SumUnique
<1> QED BY <1>3, <1>4

\* A sum of natural numbers is one, and nothing adds up to nothing.
LEMMA TotalTyped ==
  ASSUME NEW S, IsFiniteSet(S), NEW F, \A x \in S : F[x] \in Nat
  PROVE  Total(F, S) \in Nat /\ Total(F, {}) = 0
<1>1. PICK g \in [SUBSET S -> Nat] : Equation(g, F, S)
  BY SumExists
<1>2. Total(F, S) = g[S] /\ Total(F, {}) = g[{}]
  <2>1. \A x \in S : F[x] \in Int
    OBVIOUS
  <2> QED BY <1>1, <2>1, TotalIs
<1>3. g[{}] = Summed(g, F, {})
  BY <1>1 DEF Equation
<1> QED BY <1>1, <1>2, <1>3 DEF Summed

\* One more member adds its value.
LEMMA TotalAdds ==
  ASSUME NEW S, IsFiniteSet(S), NEW a, a \notin S, NEW F,
         \A x \in S \cup {a} : F[x] \in Int
  PROVE  Total(F, S \cup {a}) = Total(F, S) + F[a]
<1> DEFINE T == S \cup {a}
<1>1. IsFiniteSet(T)
  BY FS_AddElement
<1>2. PICK g \in [SUBSET T -> Int] : Equation(g, F, T)
  BY <1>1, SumExists
<1>3. \A s \in SUBSET T : g[s] = Summed(g, F, s) /\ g[s] \in Int
  BY <1>2 DEF Equation
<1>4. \A s \in SUBSET T : IsFiniteSet(s) /\ Cardinality(s) \in Nat
  BY <1>1, FS_Subset, FS_CardinalityType
<1> DEFINE Adds(s, b) == g[s \cup {b}] = g[s] + F[b]
           C == {Cardinality(s) : s \in {s \in SUBSET T : \E b \in T \ s : ~Adds(s, b)}}
<1>5. \A s \in SUBSET T : \A b \in T \ s : Adds(s, b)
  <2> SUFFICES ASSUME NEW r \in SUBSET T, NEW d \in T \ r, ~Adds(r, d) PROVE FALSE
    OBVIOUS
  <2> HIDE DEF Adds, T
  <2>1. Cardinality(r) \in C
    OBVIOUS
  <2>2. C \in SUBSET Nat
    BY <1>4
  <2> HIDE DEF C
  <2>3. PICK k \in C : \A j \in C : k <= j
    BY <2>1, <2>2, Least
  <2>4. PICK s \in SUBSET T : k = Cardinality(s) /\ \E b \in T \ s : ~Adds(s, b)
    BY <2>3 DEF C
  <2>5. PICK b \in T \ s : ~Adds(s, b)
    BY <2>4
  <2>6. ASSUME NEW t \in SUBSET T, Cardinality(t) < k, NEW e \in T \ t PROVE Adds(t, e)
    <3>1. CASE ~Adds(t, e)
      <4>1. Cardinality(t) \in C
        BY <3>1 DEF C
      <4> QED BY <1>4, <2>3, <2>4, <2>6, <4>1
    <3> QED BY <3>1
  <2> DEFINE u == s \cup {b}
             x == Pick(u)
             t == s \ {x}
  <2>7. u \in SUBSET T /\ u # {} /\ x \in u /\ g[u] = F[x] + g[u \ {x}]
    <3>1. u \in SUBSET T /\ u # {}
      OBVIOUS
    <3>2. x \in u
      BY <1>4, <3>1, PickShrinks
    <3> QED BY <1>3, <3>1, <3>2 DEF Summed
  <2> HIDE DEF x
  <2>8. CASE x = b
    <3>1. u \ {x} = s
      BY <2>8
    <3>2. g[s] \in Int /\ F[b] \in Int
      BY <1>3 DEF T
    <3>3. g[u] = F[b] + g[s]
      BY <2>7, <2>8, <3>1
    <3> QED BY <2>5, <3>2, <3>3 DEF Adds
  <2>9. CASE x # b
    <3>1. x \in s /\ u \ {x} = t \cup {b} /\ s = t \cup {x} /\ t \in SUBSET T
      BY <2>7, <2>9
    <3>2. Cardinality(t) < k
      <4>1. Cardinality(t) = Cardinality(s) - 1
        BY <1>4, <3>1, FS_RemoveElement
      <4> QED BY <1>4, <2>4, <4>1
    <3>3. Adds(t, b) /\ Adds(t, x)
      BY <2>6, <3>1, <3>2
    <3>4. g[t] \in Int /\ F[b] \in Int /\ F[x] \in Int
      BY <1>3, <2>7, <3>1 DEF T
    <3>5. g[u] = F[x] + (g[t] + F[b]) /\ g[s] = g[t] + F[x]
      BY <2>7, <3>1, <3>3 DEF Adds
    <3> QED BY <2>5, <3>4, <3>5 DEF Adds
  <2> QED BY <2>8, <2>9
<1>6. Total(F, T) = g[T] /\ Total(F, S) = g[S]
  BY <1>1, <1>2, TotalIs
<1> QED BY <1>5, <1>6

\* Values outside the set do not matter.
LEMMA TotalSame ==
  ASSUME NEW S, IsFiniteSet(S), NEW F, NEW G, Alike(F, G, S), \A x \in S : F[x] \in Int
  PROVE  Total(F, S) = Total(G, S)
<1>1. PICK g : Equation(g, F, S)
  BY SumExists
<1>2. (\A x \in S : G[x] \in Int) /\ \E h : Equation(h, G, S)
  <2>1. \A x \in S : G[x] \in Int
    BY DEF Alike
  <2> QED BY <2>1, SumExists
<1>5. PICK h : Equation(h, G, S)
  BY <1>2
<1>3. Total(F, S) = g[S] /\ Total(G, S) = h[S]
  BY <1>1, <1>2, <1>5, TotalIs
<1>4. g[S] = h[S]
  BY <1>1, <1>5, SumUnique
<1> QED BY <1>3, <1>4

-----------------------------------------------------------------------------
(* The inductive invariant.                                                *)

Routes == {"none", "regular_spot", "papi_margin"}
Steps == {"idle", "fund", "arm", "armTransfer", "gate", "gateTransfer", "leverage", "send", "back"}
PageNames == {"unified", "spot", "um", "pm", "cap", "price"}
PairRow == [q : Nat, spot : BOOLEAN, perp : BOOLEAN, quote : Nat, fee : Nat]
Sums == {"quote", "fee"}

Typed ==
  /\ plan \in Plans /\ market \in Markets
  /\ price \in Prices /\ capped \in BOOLEAN
  /\ wallet \in Accounts /\ transit \in [usdt : Nat, base : Nat]
  /\ task \in [status : Statuses, q : 0..plan.single, route : Routes, back : BOOLEAN]
  /\ pairs \in Seq(PairRow) /\ Len(pairs) <= plan.n
  /\ step \in Steps
  /\ hand \in [q : Nat, route : Routes, amount : Nat]

\* A page of the cache is empty or holds what could be read.
Page(name, values) == panel[name] # <<>> => panel[name][1] \in values
Paged ==
  /\ DOMAIN panel = PageNames
  /\ Page("unified", [usdt : Nat, base : Nat]) /\ Page("spot", [base : Nat])
  /\ Page("um", Nat) /\ Page("pm", Nat) /\ Page("cap", BOOLEAN) /\ Page("price", Prices)

\* Until the first pair no page overstates what the task will need.
Truthful ==
  Sent = 0 =>
    /\ Opens /\ panel["unified"] # <<>> => panel["unified"][1].base <= wallet.base
    /\ Closes /\ panel["um"] # <<>> => panel["um"][1] <= wallet.pos
    /\ Closes /\ panel["spot"] # <<>> => panel["spot"][1].base <= wallet.spotBase

\* The quantity every preflight of the task arrives at, and what it says of it.
SpotStep == EffectiveMarketStep(market.spot)
PerpStep == EffectiveMarketStep(market.perp)
Shared == FloorToGrid(plan.single, Grid(SpotStep, PerpStep))
Good(q) ==
  /\ SpotStep > 0 /\ PerpStep > 0
  /\ q = Shared /\ q > 0
  /\ LegFault(q, market.spot) = "none" /\ LegFault(q, market.perp) = "none"

Quantities ==
  /\ task.q # 0 => Good(task.q)
  /\ \A i \in 1..Len(pairs) : Good(pairs[i].q)
  /\ step \notin {"idle", "back"} => Good(hand.q)

\* Which step belongs to which task, and in which account its spot leg trades.
Account == IF Forward THEN "regular_spot" ELSE "papi_margin"
Flow ==
  /\ task.status = "none" => task.q = 0 /\ task.route = "none" /\ pairs = <<>>
                             /\ ~task.back /\ step \in {"idle", "fund"}
  /\ Opens /\ task.status # "none" => task.q # 0
  /\ step \in {"arm", "armTransfer", "gateTransfer"} => Closes
  /\ step \in {"armTransfer", "gateTransfer"} => Forward
  /\ step \in {"leverage", "fund"} => Opens
  /\ step = "fund" => Forward /\ hand.route = "regular_spot" /\ task.status = "none"
  /\ Closes /\ step \notin {"idle", "back"} => hand.route = Account
  /\ Closes /\ task.q # 0 => task.route = Account
  /\ Opens /\ step \notin {"idle", "fund"} =>
       (hand.route = "regular_spot" => task.route = "regular_spot")
  /\ Opens /\ task.route = "regular_spot" => Forward

\* What is still to be traded, and what is there for it.
Enough(more) ==
  /\ wallet.pos >= Shared * (plan.n - Sent)
  /\ Forward => wallet.spotBase + transit.base + more >= Shared * (plan.n - Sent)
Prepared == task.q # 0 \/ Sent > 0 \/ step \in {"arm", "gate", "send"}

Funded ==
  /\ step = "fund" => \A p \in Prices : hand.amount >= (Shared * plan.n) * p
  /\ Opens /\ task.route = "regular_spot" =>
       \A p \in Prices : wallet.spotUsdt + transit.usdt >= (Shared * (plan.n - Sent)) * p
  /\ Opens /\ ~Forward /\ task.status # "none" => wallet.base >= Shared * (plan.n - Sent)
  /\ Closes /\ Prepared => Enough(0)
  /\ step \in {"armTransfer", "gateTransfer"} => Enough(hand.amount)

\* The proceeds of a forward close, less what was withheld, lie in the standard account
\* until they go back.
Returned ==
  /\ Closes => transit.usdt = 0
  /\ step = "back" => Closes /\ Forward /\ task.status = "done" /\ ~task.back
  /\ task.back => Closes /\ Forward /\ task.status = "done" /\ step = "idle"
  /\ Closes /\ Forward => \A w \in Funds[plan] :
       wallet.spotUsdt + Withheld = w.spotUsdt + (IF task.back THEN 0 ELSE Proceeds(pairs))

Inv == Typed /\ Paged /\ Truthful /\ Quantities /\ Flow /\ Funded /\ Returned

-----------------------------------------------------------------------------
(* What a preflight reads and says.                                        *)

\* The task, its symbol and its purse are of the kinds the constants name.
LEMMA Kinds ==
  ASSUME Typed
  PROVE  /\ plan.type \in {"open", "close"} /\ plan.direction \in {"forward", "reverse"}
         /\ plan.single \in Nat /\ plan.n \in Nat /\ plan.n > 0
         /\ market.spot \in Filters /\ market.perp \in Filters
         /\ Opens <=> ~Closes
         /\ SpotStep \in Nat /\ PerpStep \in Nat
         /\ price \in Nat /\ price > 0 /\ Prices \subseteq Nat
         /\ Sent \in Nat /\ Sent <= plan.n /\ plan.n - Sent \in Nat
<1>1. plan \in Plan /\ market \in Market
  BY FundsAssumption DEF Typed
<1>2. /\ plan.type \in {"open", "close"} /\ plan.direction \in {"forward", "reverse"}
      /\ plan.single \in Nat /\ plan.n \in Nat /\ plan.n > 0
  BY <1>1 DEF Plan
<1>3. market.spot \in Filters /\ market.perp \in Filters
  BY <1>1 DEF Market
<1>4. SpotStep \in Nat /\ PerpStep \in Nat
  BY <1>3 DEF SpotStep, PerpStep, EffectiveMarketStep, Filters, LotSize
<1>5. price \in Nat /\ price > 0 /\ Prices \subseteq Nat
  BY FundsAssumption DEF Typed
<1>6. Sent \in Nat /\ Sent <= plan.n /\ plan.n - Sent \in Nat
  <2>1. Len(pairs) \in Nat
    BY LenProperties DEF Typed
  <2> QED BY <1>2, <2>1 DEF Typed, Sent
<1> QED BY <1>2, <1>3, <1>4, <1>5, <1>6 DEF Opens, Closes

\* Every fact is of its kind, whether it comes from a page or from the exchange.
LEMMA Reads ==
  ASSUME Typed, Paged
  PROVE  /\ EstPrice \in Prices /\ EstPrice \in Nat /\ EstPrice > 0
         /\ Balances.usdt \in Nat /\ Balances.base \in Nat
         /\ UmPosition \in Nat /\ CapHit \in BOOLEAN
         /\ Truthful /\ Opens /\ Sent = 0 => Balances.base <= wallet.base
         /\ Truthful /\ Closes /\ Sent = 0 => UmPosition <= wallet.pos
<1>1. /\ wallet.usdt \in Nat /\ wallet.base \in Nat /\ wallet.pos \in Nat
      /\ price \in Prices /\ capped \in BOOLEAN
  BY DEF Typed, Accounts
<1>2. /\ Live["unified"] = [usdt |-> wallet.usdt, base |-> wallet.base]
      /\ Live["um"] = wallet.pos /\ Live["cap"] = capped /\ Live["price"] = price
  BY DEF Live
<1>3. EstPrice \in Prices
  BY <1>1, <1>2 DEF EstPrice, Read, Paged, Page
<1>4. Balances.usdt \in Nat /\ Balances.base \in Nat
  BY <1>1, <1>2 DEF Balances, Read, Paged, Page
<1>5. UmPosition \in Nat /\ CapHit \in BOOLEAN
  BY <1>1, <1>2 DEF UmPosition, CapHit, Read, Paged, Page
<1>6. Truthful /\ Opens /\ Sent = 0 => Balances.base <= wallet.base
  BY <1>1, <1>2 DEF Balances, Read, Truthful
<1>7. Truthful /\ Closes /\ Sent = 0 => UmPosition <= wallet.pos
  BY <1>1, <1>2 DEF UmPosition, Read, Truthful
<1>8. EstPrice \in Nat /\ EstPrice > 0
  BY <1>3, FundsAssumption
<1> QED BY <1>3, <1>4, <1>5, <1>6, <1>7, <1>8

\* The spot order of a close and of a reverse opening has one account.
LEMMA RouteOf ==
  ASSUME Typed, NEW c, NEW r, r = SpotRoute(plan.type, plan.direction, market, c)
  PROVE  /\ r \in Routes
         /\ Closes => r = Account
         /\ Opens /\ ~Forward => r = "papi_margin"
BY Kinds DEF SpotRoute, Routes, Account, Opens, Closes, Forward

\* The shared quantity is the largest that both markets' steps allow.
LEMMA SharedIsLargest ==
  ASSUME Typed, SpotStep > 0, PerpStep > 0
  PROVE  /\ Shared \in Nat /\ Shared <= plan.single
         /\ Shared = Largest
<1>1. SpotStep \in Nat \ {0} /\ PerpStep \in Nat \ {0} /\ plan.single \in Nat
  BY Kinds
<1>2. /\ Shared \in 0..plan.single
      /\ Shared = Max({x \in 0..plan.single : x % SpotStep = 0 /\ x % PerpStep = 0})
  BY <1>1, FloorIsLargest DEF Shared
<1> QED BY <1>1, <1>2 DEF Largest, SpotStep, PerpStep

\* A preflight that passes names the shared quantity, which both markets accept.
LEMMA Passes ==
  ASSUME Typed, Paged, NEW tradable \in BOOLEAN, NEW oneWay \in BOOLEAN,
         NEW r, r = Judged(Snapshot(tradable, oneWay))
  PROVE  /\ r.route \in Routes
         /\ Closes => r.route = Account
         /\ Opens /\ ~Forward => r.route = "papi_margin"
         /\ r.rejection = "none" =>
              /\ Good(r.q)
              /\ Opens /\ ~Forward => Balances.base >= r.q * plan.n
<1> DEFINE s == Snapshot(tradable, oneWay)
           v == Verdict(s, plan)
           perp == PerpFilters(market.perp)
           q == FloorToGrid(plan.single, Grid(SpotStep, PerpStep))
<1>1. /\ s.tradable = tradable /\ s.spot = market.spot /\ s.perp = perp
      /\ s.price = EstPrice /\ s.base = Balances.base
      /\ s.route = SpotRoute(plan.type, plan.direction, market, Opens /\ Forward /\ CapHit)
  BY DEF Snapshot
<1>2. Judged(s).rejection = v.rejection /\ Judged(s).q = v.q /\ Judged(s).route = s.route
  BY DEF Judged
<1>3. /\ perp.market = market.perp.market /\ perp.lot = market.perp.lot
  BY Kinds DEF PerpFilters, Filters
<1>4. EffectiveMarketStep(s.spot) = SpotStep /\ EffectiveMarketStep(s.perp) = PerpStep
  BY <1>1, <1>3 DEF EffectiveMarketStep, SpotStep, PerpStep
<1>5. /\ LegFault(q, s.spot) = LegFault(q, market.spot)
      /\ LegFault(q, s.perp) = LegFault(q, market.perp)
  BY <1>1, <1>3 DEF LegFault, QtyBound
<1>6. ASSUME v.rejection = "none"
      PROVE  /\ v.q = q /\ SpotStep > 0 /\ PerpStep > 0
             /\ CheckQuantity(q, s.spot, s.perp, s.price) = "none"
             /\ Opens /\ ~Forward => ~(s.base < q * plan.n)
  <2> HIDE DEF s, q
  <2>1. SpotStep # 0 /\ PerpStep # 0
    BY <1>4, <1>6 DEF v, Verdict
  <2>2. /\ v.q = q
        /\ CheckQuantity(q, s.spot, s.perp, s.price) = "none"
    BY <1>4, <1>6 DEF v, q, Verdict
  <2>3. Opens /\ ~Forward => ~(s.base < q * plan.n)
    BY <1>4, <1>6 DEF v, q, Verdict, Opens, Forward
  <2> QED BY <2>1, <2>2, <2>3, Kinds
<1> HIDE DEF s, v, q
<1>7. ASSUME v.rejection = "none" PROVE Good(v.q)
  <2>2. q \in Nat
    BY <1>6, <1>7, SharedIsLargest DEF q, Shared
  <2>3. q > 0 /\ LegFault(q, s.spot) = "none" /\ LegFault(q, s.perp) = "none"
    BY <1>6, <1>7, <2>2 DEF CheckQuantity
  <2> QED BY <1>5, <1>6, <1>7, <2>3 DEF Good, Shared, q
<1>8. ASSUME v.rejection = "none", Opens, ~Forward PROVE Balances.base >= v.q * plan.n
  <2>1. q \in Nat /\ plan.n \in Nat
    BY <1>6, <1>8, SharedIsLargest, Kinds DEF q, Shared
  <2>2. q * plan.n \in Nat
    BY <2>1
  <2>3. Balances.base \in Nat /\ ~(Balances.base < q * plan.n)
    BY <1>1, <1>6, <1>8, Reads
  <2> QED BY <1>6, <1>8, <2>2, <2>3
<1>9. /\ s.route \in Routes
      /\ Closes => s.route = Account
      /\ Opens /\ ~Forward => s.route = "papi_margin"
  BY <1>1, RouteOf
<1>10. r = Judged(s)
  BY DEF s
<1>11. r.rejection = v.rejection /\ r.q = v.q /\ r.route = s.route
  BY <1>2, <1>10
<1> QED BY <1>7, <1>8, <1>9, <1>11

\* So it is with whatever a call reads.
LEMMA ReadingPasses ==
  ASSUME Typed, Paged, NEW fails \in BOOLEAN, NEW r \in Readings(fails), r.rejection = "none"
  PROVE  /\ Good(r.q) /\ r.q \in Nat /\ r.route \in Routes
         /\ Closes => r.route = Account
         /\ Opens /\ ~Forward => r.route = "papi_margin" /\ Balances.base >= r.q * plan.n
<1>1. \E tradable, oneWay \in BOOLEAN : r = Judged(Snapshot(tradable, oneWay))
  <2>1. r # [rejection |-> "incomplete", q |-> 0, route |-> "none"]
    OBVIOUS
  <2> QED BY <2>1 DEF Readings
<1>2. r.q \in Nat
  <2>1. Good(r.q)
    BY <1>1, Passes
  <2> QED BY <2>1, SharedIsLargest DEF Good
<1> QED BY <1>1, <1>2, Passes

-----------------------------------------------------------------------------
(* Steps that leave the money alone.                                       *)

\* The task and its symbol do not change, and with them what a good quantity is.
LEMMA StillGood ==
  ASSUME UNCHANGED <<plan, market>>
  PROVE  /\ Shared' = Shared /\ \A q : Good(q)' <=> Good(q)
         /\ Opens' = Opens /\ Closes' = Closes /\ Forward' = Forward /\ Account' = Account
BY DEF Shared, Good, SpotStep, PerpStep, Opens, Closes, Forward, Account

\* A call that ends, a status that changes, a restart: no row appears, and a finished
\* one stays as it is.
LEMMA StopStep ==
  ASSUME Inv, UNCHANGED <<plan, market, world, pairs>>, Paged', Truthful',
         \/ task' = task
         \/ /\ task.status \notin {"none", "done"}
            /\ \E s \in Statuses \ {"none"} : task' = [task EXCEPT !.status = s],
         \/ step' = "idle" /\ hand' = NoHand
         \/ step' = step /\ hand' = hand
  PROVE  Inv'
<1>1. Typed /\ Quantities /\ Flow /\ Funded /\ Returned
  BY DEF Inv
<1>2. /\ plan' = plan /\ market' = market /\ pairs' = pairs /\ Sent' = Sent
      /\ price' = price /\ capped' = capped /\ wallet' = wallet /\ transit' = transit
  BY DEF world, Sent
<1>3. /\ Shared' = Shared /\ \A q : Good(q)' <=> Good(q)
      /\ Opens' = Opens /\ Closes' = Closes /\ Forward' = Forward /\ Account' = Account
  BY StillGood
<1>4. /\ task' \in [status : Statuses, q : 0..plan.single, route : Routes, back : BOOLEAN]
      /\ task'.q = task.q /\ task'.route = task.route /\ task'.back = task.back
      /\ \/ task'.status = task.status
         \/ task.status \notin {"none", "done"} /\ task'.status # "none"
  BY <1>1 DEF Typed
<1>5. Typed'
  BY <1>1, <1>2, <1>4 DEF Typed, NoHand, Routes, Steps
<1>6. Quantities'
  BY <1>1, <1>2, <1>4 DEF Quantities, Good, Shared, SpotStep, PerpStep
<1>7. Flow'
  BY <1>1, <1>2, <1>3, <1>4 DEF Flow
<1>8. Funded'
  BY <1>1, <1>2, <1>3, <1>4 DEF Funded, Enough, Prepared
<1>9. Returned'
  <2>1. Proceeds(pairs)' = Proceeds(pairs) /\ Withheld' = Withheld
    BY <1>2 DEF Withheld
  <2>2. step' = "back" => Closes' /\ Forward' /\ task'.status = "done" /\ ~task'.back
    BY <1>1, <1>3, <1>4 DEF Returned
  <2>3. task'.back => Closes' /\ Forward' /\ task'.status = "done" /\ step' = "idle"
    BY <1>1, <1>3, <1>4 DEF Returned
  <2> QED BY <1>1, <1>2, <1>3, <1>4, <2>1, <2>2, <2>3 DEF Returned
<1> QED BY <1>5, <1>6, <1>7, <1>8, <1>9 DEF Inv

\* A call that goes on: what it carries is good, trades in its account and is covered.
LEMMA CarryStep ==
  ASSUME Inv, UNCHANGED <<plan, market, world, panel, task, pairs>>, ~task.back,
         step' \in Steps \ {"idle", "back"}, hand' \in [q : Nat, route : Routes, amount : Nat],
         Good(hand'.q),
         Closes => hand'.route = Account /\ step' \notin {"leverage", "fund"},
         Opens => step' \in {"fund", "leverage", "gate", "send"},
         Opens /\ step' # "fund" /\ hand'.route = "regular_spot" => task.route = "regular_spot",
         step' = "fund" => Forward /\ hand'.route = "regular_spot",
         step' = "fund" <=> task.status = "none",
         step' = "fund" => \A p \in Prices : hand'.amount >= (Shared * plan.n) * p,
         step' \in {"armTransfer", "gateTransfer"} => Forward /\ Enough(hand'.amount),
         Closes /\ step' \in {"arm", "gate", "send"} => Enough(0)
  PROVE  Inv'
<1>1. Typed /\ Paged /\ Truthful /\ Quantities /\ Flow /\ Funded /\ Returned
  BY DEF Inv
<1>2. /\ plan' = plan /\ market' = market /\ pairs' = pairs /\ Sent' = Sent
      /\ price' = price /\ capped' = capped /\ wallet' = wallet /\ transit' = transit
      /\ task' = task /\ panel' = panel
  BY DEF world, Sent
<1>3. /\ Shared' = Shared /\ \A q : Good(q)' <=> Good(q)
      /\ Opens' = Opens /\ Closes' = Closes /\ Forward' = Forward /\ Account' = Account
  BY StillGood
<1>4. Typed'
  BY <1>1, <1>2 DEF Typed
<1>5. Paged' /\ Truthful'
  BY <1>1, <1>2, <1>3 DEF Paged, Truthful, Page
<1>6. Quantities'
  BY <1>1, <1>2 DEF Quantities, Good, Shared, SpotStep, PerpStep
<1>7. Flow'
  <2>1. Opens <=> ~Closes
    BY <1>1, Kinds
  <2> QED BY <1>1, <1>2, <1>3, <2>1 DEF Flow
<1>8. Funded'
  <2>1. (Closes /\ Prepared => Enough(0))'
    BY <1>1, <1>2, <1>3 DEF Funded, Enough, Prepared
  <2>2. (step \in {"armTransfer", "gateTransfer"} => Enough(hand.amount))'
    BY <1>2, <1>3 DEF Enough
  <2> QED BY <1>1, <1>2, <1>3, <2>1, <2>2 DEF Funded
<1>9. Returned'
  <2>1. Proceeds(pairs)' = Proceeds(pairs) /\ Withheld' = Withheld
    BY <1>2 DEF Withheld
  <2> QED BY <1>1, <1>2, <1>3, <2>1 DEF Returned
<1> QED BY <1>4, <1>5, <1>6, <1>7, <1>8, <1>9 DEF Inv

-----------------------------------------------------------------------------
(* What the pairs earned and what was withheld of it.                      *)

Values(sent, f) == [i \in DOMAIN sent |-> sent[i][f]]
Adding(g, sent, f) ==
  g = [s \in SUBSET DOMAIN sent |-> IF s = {} THEN 0 ELSE sent[Pick(s)][f] + g[s \ {Pick(s)}]]

LEMMA SumIsSome ==
  ASSUME NEW sent, NEW f, NEW h, Adding(h, sent, f)
  PROVE  \E g : Adding(g, sent, f) /\ SumOf(sent, f) = g[DOMAIN sent]
BY DEF SumOf, MapThenSumSet, MapThenFoldSet, Adding, Pick

\* SumOf adds the values of the field.
LEMMA SumIs ==
  ASSUME NEW sent \in Seq(PairRow), NEW f \in Sums
  PROVE  /\ SumOf(sent, f) = Total(Values(sent, f), 1..Len(sent))
         /\ \A i \in 1..Len(sent) : Values(sent, f)[i] = sent[i][f] /\ Values(sent, f)[i] \in Nat
<1> DEFINE D == DOMAIN sent
<1>1. D = 1..Len(sent) /\ IsFiniteSet(D)
  <2>1. Len(sent) \in Nat /\ D = 1..Len(sent)
    BY LenProperties
  <2> QED BY <2>1, FS_Interval
<1>2. \A i \in D : Values(sent, f)[i] = sent[i][f] /\ Values(sent, f)[i] \in Nat
  <2>1. \A i \in D : sent[i] \in PairRow
    BY <1>1, ElementOfSeq
  <2> QED BY <2>1 DEF Values, PairRow, Sums
<1>3. \A g : Adding(g, sent, f) <=> Equation(g, Values(sent, f), D)
  <2>1. \A s \in SUBSET D : s # {} => Pick(s) \in D
    BY DEF Pick
  <2>2. \A s \in SUBSET D : s # {} => sent[Pick(s)][f] = Values(sent, f)[Pick(s)]
    BY <1>2, <2>1
  <2> HIDE DEF D
  <2>3. ASSUME NEW g
        PROVE  [s \in SUBSET D |-> IF s = {} THEN 0 ELSE sent[Pick(s)][f] + g[s \ {Pick(s)}]]
                 = [s \in SUBSET D |-> Summed(g, Values(sent, f), s)]
    BY <2>2 DEF Summed
  <2> QED BY <2>3 DEF Adding, Equation, D
<1>4. PICK h : Equation(h, Values(sent, f), D)
  BY <1>1, <1>2, SumExists
<1>5. PICK g : Adding(g, sent, f) /\ SumOf(sent, f) = g[D]
  BY <1>3, <1>4, SumIsSome
<1>6. Total(Values(sent, f), D) = g[D]
  <2>1. \A i \in D : Values(sent, f)[i] \in Int
    BY <1>2
  <2>2. D \in SUBSET D
    OBVIOUS
  <2> HIDE DEF D
  <2> QED BY <1>1, <1>3, <1>5, <2>1, <2>2, TotalIs
<1> QED BY <1>1, <1>2, <1>5, <1>6

\* Each pair adds its value.
LEMMA SumAdds ==
  ASSUME NEW sent \in Seq(PairRow), NEW f \in Sums, NEW p \in PairRow
  PROVE  SumOf(Append(sent, p), f) = SumOf(sent, f) + p[f]
<1> DEFINE more == Append(sent, p)
           n == Len(sent)
           S == 1..n
           F == Values(more, f)
<1>1. /\ more \in Seq(PairRow) /\ Len(more) = n + 1 /\ n \in Nat
      /\ more[n + 1] = p /\ \A i \in 1..n : more[i] = sent[i]
  BY AppendProperties, LenProperties
<1>2. /\ SumOf(more, f) = Total(F, 1..Len(more))
      /\ \A i \in 1..Len(more) : F[i] = more[i][f] /\ F[i] \in Nat
  BY <1>1, SumIs
<1>3. /\ SumOf(sent, f) = Total(Values(sent, f), S)
      /\ \A i \in S : Values(sent, f)[i] = sent[i][f] /\ Values(sent, f)[i] \in Nat
  BY SumIs
<1>4. IsFiniteSet(S) /\ 1..Len(more) = S \cup {n + 1} /\ n + 1 \notin S
  <2>1. IsFiniteSet(S)
    BY <1>1, FS_Interval
  <2> HIDE DEF more
  <2>2. n \in Nat /\ Len(more) = n + 1
    BY <1>1
  <2> HIDE DEF n
  <2> QED BY <2>1, <2>2
<1> HIDE DEF more, n, S, F
<1>5. Alike(Values(sent, f), F, S) /\ \A i \in S : Values(sent, f)[i] \in Int
  <2>1. ASSUME NEW i \in S PROVE Values(sent, f)[i] = F[i] /\ Values(sent, f)[i] \in Int
    <3>1. i \in 1..n /\ i \in 1..Len(more)
      BY <1>4 DEF S
    <3> QED BY <1>1, <1>2, <1>3, <3>1
  <2> QED BY <2>1 DEF Alike
<1>6. Total(Values(sent, f), S) = Total(F, S)
  BY <1>4, <1>5, TotalSame
<1>7. Total(F, S \cup {n + 1}) = Total(F, S) + F[n + 1]
  <2>1. \A i \in S \cup {n + 1} : F[i] \in Int
    BY <1>2, <1>4
  <2> QED BY <1>4, <2>1, TotalAdds
<1>8. F[n + 1] = p[f]
  BY <1>1, <1>2, <1>4
<1> QED BY <1>2, <1>3, <1>4, <1>6, <1>7, <1>8 DEF more

LEMMA SumTyped ==
  ASSUME NEW sent \in Seq(PairRow), NEW f \in Sums
  PROVE  SumOf(sent, f) \in Nat /\ SumOf(<<>>, f) = 0
<1>1. /\ SumOf(sent, f) = Total(Values(sent, f), 1..Len(sent))
      /\ \A i \in 1..Len(sent) : Values(sent, f)[i] \in Nat
  BY SumIs
<1>2. Len(sent) \in Nat /\ IsFiniteSet(1..Len(sent))
  BY LenProperties, FS_Interval
<1>3. SumOf(sent, f) \in Nat
  BY <1>1, <1>2, TotalTyped
<1>4. SumOf(<<>>, f) = Total(Values(<<>>, f), {})
  <2>1. <<>> \in Seq(PairRow) /\ 1..Len(<<>>) = {}
    BY EmptySeq
  <2> QED BY <2>1, SumIs
<1>5. Total(Values(<<>>, f), {}) = 0
  BY FS_EmptySet, TotalTyped
<1> QED BY <1>3, <1>4, <1>5

LEMMA ProceedsTyped ==
  ASSUME NEW sent \in Seq(PairRow)
  PROVE  Proceeds(sent) \in Nat /\ Proceeds(<<>>) = 0
BY SumTyped DEF Proceeds, Sums

LEMMA WithheldTyped ==
  ASSUME pairs \in Seq(PairRow)
  PROVE  Withheld \in Nat /\ (pairs = <<>> => Withheld = 0)
BY SumTyped DEF Withheld, Sums

-----------------------------------------------------------------------------
(* The start of a task.                                                    *)

LEMMA InitInv == Init => Inv
<1> SUFFICES ASSUME Init PROVE Inv
  OBVIOUS
<1>1. plan \in Plans /\ market \in Markets /\ wallet \in Funds[plan] /\ pairs = <<>>
  BY DEF Init
<1>2. plan \in Plan /\ wallet \in Accounts
  BY <1>1, FundsAssumption
<1>3. DOMAIN panel = PageNames /\ \A page \in PageNames : panel[page] = <<>>
  <2>1. DOMAIN Live = PageNames
    BY DEF Live, PageNames
  <2> QED BY <2>1 DEF Init
<1>4. pairs \in Seq(PairRow) /\ Len(pairs) = 0 /\ Proceeds(pairs) = 0 /\ Withheld = 0
  <2>1. <<>> \in Seq(PairRow) /\ Len(<<>>) = 0
    BY EmptySeq
  <2> QED BY <1>1, <2>1, ProceedsTyped, WithheldTyped
<1>5. /\ task \in [status : Statuses, q : 0..plan.single, route : Routes, back : BOOLEAN]
      /\ task.status = "none" /\ task.q = 0 /\ task.route = "none" /\ ~task.back
      /\ hand \in [q : Nat, route : Routes, amount : Nat]
      /\ transit \in [usdt : Nat, base : Nat] /\ transit.usdt = 0
      /\ step = "idle" /\ price \in Prices /\ capped \in BOOLEAN
  <2>1. plan.single \in Nat
    BY <1>2 DEF Plan
  <2>2. task = [status |-> "none", q |-> 0, route |-> "none", back |-> FALSE]
    BY DEF Init
  <2>3. hand = [q |-> 0, route |-> "none", amount |-> 0] /\ transit = [usdt |-> 0, base |-> 0]
    BY DEF Init, NoHand
  <2>4. step = "idle" /\ price \in Prices /\ capped \in BOOLEAN
    BY DEF Init
  <2> QED BY <2>1, <2>2, <2>3, <2>4 DEF Statuses, Routes
<1>6. Typed
  BY <1>1, <1>2, <1>4, <1>5 DEF Typed, Steps, Plan
<1>7. Paged /\ Truthful
  BY <1>3 DEF Paged, Page, Truthful, PageNames
<1>8. Quantities /\ Flow /\ Funded
  BY <1>1, <1>4, <1>5 DEF Quantities, Flow, Funded, Prepared, Opens, Closes, Sent
<1>9. Returned
  <2>1. wallet.spotUsdt \in Nat /\ \A w \in Funds[plan] : wallet.spotUsdt = w.spotUsdt
    BY <1>1, <1>2, FundsAssumption DEF Accounts
  <2>2. \A w \in Funds[plan] : wallet.spotUsdt + 0 = w.spotUsdt + 0
    BY <2>1
  <2> QED BY <1>4, <1>5, <2>2 DEF Returned
<1> QED BY <1>6, <1>7, <1>8, <1>9 DEF Inv

\* What is transferred for an open task pays for the whole plan at any price.
LEMMA NeedCovers ==
  ASSUME NEW q \in Nat, NEW n \in Nat, NEW r \in Nat, NEW p \in Nat, 100 * p <= 103 * r
  PROVE  OpenNeed(q, n, r) \in Nat /\ OpenNeed(q, n, r) >= (q * n) * p
<1>1. PICK m \in Nat : m = q * n
  OBVIOUS
<1>2. PICK d \in Nat : d = m * p
  BY <1>1
<1>3. PICK e \in Nat : e = 103 * q * n * r
  BY <1>1
<1>4. 100 * d <= e
  <2>1. m * (100 * p) <= m * (103 * r)
    BY Times
  <2>2. m * (100 * p) = 100 * d
    BY <1>2
  <2>3. m * (103 * r) = e
    BY <1>1, <1>3
  <2> QED BY <2>1, <2>2, <2>3
<1>5. e \div 100 \in Nat /\ e \div 100 >= d
  BY <1>4
<1> QED BY <1>1, <1>2, <1>3, <1>5 DEF OpenNeed

\* A row is stored: an open task's with its quantity and its money, a close's with neither.
LEMMA StoreStep ==
  ASSUME Inv, UNCHANGED <<plan, market, price, capped, panel, pairs>>, task.status = "none",
         wallet' \in Accounts, transit' \in [usdt : Nat, base : Nat],
         wallet'.base = wallet.base, wallet'.spotUsdt = wallet.spotUsdt,
         wallet'.spotBase = wallet.spotBase, wallet'.pos = wallet.pos,
         Closes => transit' = transit,
         step' = "idle", hand' \in [q : Nat, route : Routes, amount : Nat],
         NEW q \in Nat, NEW route \in Routes, task' = Stored(q, route),
         Closes => q = 0 /\ route = "none",
         Opens => Good(q),
         Opens /\ route = "regular_spot" =>
           Forward /\ \A p \in Prices : transit'.usdt >= (Shared * plan.n) * p,
         Opens /\ ~Forward => wallet.base >= Shared * plan.n
  PROVE  Inv'
<1>1. Typed /\ Paged /\ Truthful /\ Quantities /\ Flow /\ Funded /\ Returned
  BY DEF Inv
<1>2. /\ plan' = plan /\ market' = market /\ pairs' = pairs /\ Sent' = Sent
      /\ price' = price /\ capped' = capped /\ panel' = panel
  BY DEF Sent
<1>3. /\ Shared' = Shared /\ \A x : Good(x)' <=> Good(x)
      /\ Opens' = Opens /\ Closes' = Closes /\ Forward' = Forward /\ Account' = Account
  BY StillGood
<1>4. pairs = <<>> /\ Sent = 0 /\ Len(pairs) = 0
  BY <1>1 DEF Flow, Sent
<1>5. Opens <=> ~Closes
  BY <1>1, Kinds
<1>6. q \in 0..plan.single
  <2>1. CASE Opens
    <3>1. q = Shared /\ Shared \in Nat /\ Shared <= plan.single /\ plan.single \in Nat
      BY <1>1, <2>1, Kinds, SharedIsLargest DEF Good
    <3> QED BY <3>1
  <2> QED BY <1>1, <1>5, <2>1, Kinds
<1>7. /\ task' \in [status : Statuses, q : 0..plan.single, route : Routes, back : BOOLEAN]
      /\ task'.q = q /\ task'.route = route /\ task'.back = FALSE /\ task'.status = "paused"
  BY <1>6 DEF Stored, Statuses
<1>8. Typed'
  BY <1>1, <1>2, <1>7 DEF Typed, Steps
<1>9. Paged' /\ Truthful'
  BY <1>1, <1>2, <1>3 DEF Paged, Truthful, Page
<1>10. Quantities'
  <2>1. q # 0 => Good(q)
    BY <1>5
  <2> QED BY <1>1, <1>2, <1>4, <1>7, <2>1 DEF Quantities, Good, Shared, SpotStep, PerpStep
<1>11. Flow'
  <2>1. Opens => q # 0
    <3>1. Opens => q > 0
      BY DEF Good
    <3> QED BY <3>1
  <2> QED BY <1>1, <1>2, <1>3, <1>5, <1>7, <2>1 DEF Flow
<1>12. Funded'
  <2>1. plan.n - Sent = plan.n
    BY <1>1, <1>4, Kinds
  <2>2. ASSUME Opens, route = "regular_spot"
        PROVE  \A p \in Prices : wallet'.spotUsdt + transit'.usdt >= (Shared * plan.n) * p
    <3> SUFFICES ASSUME NEW p \in Prices
                 PROVE  wallet'.spotUsdt + transit'.usdt >= (Shared * plan.n) * p
      OBVIOUS
    <3>1. Shared \in Nat /\ plan.n \in Nat /\ p \in Nat
      BY <1>1, <2>2, Kinds, SharedIsLargest DEF Good
    <3>2. PICK d \in Nat : d = (Shared * plan.n) * p
      BY <3>1
    <3>3. transit'.usdt >= d /\ transit'.usdt \in Nat /\ wallet'.spotUsdt \in Nat
      BY <2>2, <3>2 DEF Accounts
    <3> QED BY <3>2, <3>3
  <2>3. ~Prepared' \/ Opens
    BY <1>2, <1>4, <1>5, <1>7 DEF Prepared
  <2> QED BY <1>2, <1>3, <1>5, <1>7, <2>1, <2>2, <2>3 DEF Funded
<1>13. Returned'
  <2>1. Proceeds(pairs)' = Proceeds(pairs) /\ Withheld' = Withheld /\ ~task.back
    BY <1>1, <1>2 DEF Flow, Withheld
  <2> QED BY <1>1, <1>2, <1>3, <1>5, <1>7, <2>1 DEF Returned
<1> QED BY <1>8, <1>9, <1>10, <1>11, <1>12, <1>13 DEF Inv

LEMMA CreateCloseInv == Inv /\ CreateClose => Inv'
<1> SUFFICES ASSUME Inv, CreateClose PROVE Inv'
  OBVIOUS
<1>1. Typed /\ Flow /\ Closes /\ ~Opens /\ task.status = "none"
  BY Kinds DEF Inv, CreateClose
<1>2. UNCHANGED <<plan, market, price, capped, wallet, transit, panel, pairs, step, hand>>
  BY DEF CreateClose, Stay, world
<1>3. step' = "idle" /\ hand' \in [q : Nat, route : Routes, amount : Nat]
  BY <1>1, <1>2 DEF Flow, Typed
<1>4. /\ wallet' \in Accounts /\ transit' \in [usdt : Nat, base : Nat]
      /\ wallet' = wallet /\ transit' = transit
  BY <1>1, <1>2 DEF Typed
<1>5. task' = Stored(0, "none")
  BY DEF CreateClose
<1> QED BY <1>1, <1>2, <1>3, <1>4, <1>5, StoreStep DEF Routes

LEMMA CreateOpenInv == Inv /\ CreateOpen => Inv'
<1> SUFFICES ASSUME Inv, CreateOpen PROVE Inv'
  OBVIOUS
<1>1. Typed /\ Paged /\ Truthful /\ Flow
  BY DEF Inv
<1>2. /\ Opens /\ ~Closes /\ task.status = "none" /\ step = "idle" /\ ~task.back
      /\ pairs = <<>> /\ Sent = 0
  BY <1>1, Kinds, EmptySeq DEF CreateOpen, Flow, Sent
<1>3. UNCHANGED <<plan, market, price, capped, wallet, transit, panel, pairs>>
  BY DEF CreateOpen, Stay, world
<1>4. PICK r \in Readings(FALSE) :
        /\ r.rejection = "none"
        /\ IF Forward /\ r.route = "regular_spot"
           THEN /\ Go("fund", [q |-> r.q, route |-> r.route,
                               amount |-> OpenNeed(r.q, plan.n, EstPrice)])
                /\ UNCHANGED task
           ELSE task' = Stored(r.q, r.route) /\ UNCHANGED <<step, hand>>
  BY DEF CreateOpen
<1>5. /\ Good(r.q) /\ r.q \in Nat /\ r.route \in Routes
      /\ ~Forward => r.route = "papi_margin" /\ Balances.base >= r.q * plan.n
  BY <1>1, <1>2, <1>4, ReadingPasses
<1>6. r.q = Shared
  BY <1>5 DEF Good
<1>7. CASE Forward /\ r.route = "regular_spot"
  <2>1. /\ step' = "fund" /\ task' = task
        /\ hand' = [q |-> r.q, route |-> r.route, amount |-> OpenNeed(r.q, plan.n, EstPrice)]
    BY <1>4, <1>7 DEF Go
  <2>2. /\ OpenNeed(r.q, plan.n, EstPrice) \in Nat
        /\ \A p \in Prices : OpenNeed(r.q, plan.n, EstPrice) >= (r.q * plan.n) * p
    <3>1. plan.n \in Nat /\ EstPrice \in Nat /\ EstPrice \in Prices /\ Prices \subseteq Nat
      BY <1>1, Kinds, Reads
    <3>2. \A p \in Prices : 100 * p <= 103 * EstPrice
      BY <3>1, FundsAssumption
    <3> HIDE DEF Opens
    <3>3. \A p \in Prices : /\ OpenNeed(r.q, plan.n, EstPrice) \in Nat
                            /\ OpenNeed(r.q, plan.n, EstPrice) >= (r.q * plan.n) * p
      BY <1>5, <3>1, <3>2, NeedCovers
    <3> QED BY <3>1, <3>3
  <2>3. /\ hand' \in [q : Nat, route : Routes, amount : Nat] /\ hand'.q = r.q
        /\ hand'.route = r.route /\ hand'.amount = OpenNeed(r.q, plan.n, EstPrice)
    BY <1>5, <2>1, <2>2
  <2>4. \A p \in Prices : hand'.amount >= (Shared * plan.n) * p
    BY <1>6, <2>2, <2>3
  <2>5. Good(hand'.q)
    BY <1>5, <2>3
  <2> QED BY <1>2, <1>3, <1>7, <2>1, <2>3, <2>4, <2>5, CarryStep DEF world, Steps
<1>8. CASE ~(Forward /\ r.route = "regular_spot")
  <2>1. step' = "idle" /\ hand' = hand /\ task' = Stored(r.q, r.route)
    BY <1>2, <1>4, <1>8
  <2>2. /\ hand' \in [q : Nat, route : Routes, amount : Nat]
        /\ wallet' \in Accounts /\ transit' \in [usdt : Nat, base : Nat]
        /\ wallet' = wallet /\ transit' = transit
    BY <1>1, <1>3, <2>1 DEF Typed
  <2>3. ~Forward => wallet.base >= Shared * plan.n
    <3>1. ASSUME ~Forward PROVE wallet.base >= Shared * plan.n
      <4>1. Balances.base >= Shared * plan.n /\ Balances.base <= wallet.base
        BY <1>1, <1>2, <1>5, <1>6, <3>1, Reads
      <4>2. Balances.base \in Nat /\ wallet.base \in Nat
        BY <1>1, Reads DEF Typed, Accounts
      <4>3. PICK d \in Nat : d = Shared * plan.n
        BY <1>1, <1>5, <1>6, Kinds
      <4> QED BY <4>1, <4>2, <4>3
    <3> QED BY <3>1
  <2>4. r.route # "regular_spot"
    BY <1>5, <1>8
  <2> QED BY <1>2, <1>3, <1>5, <2>1, <2>2, <2>3, <2>4, StoreStep
<1> QED BY <1>7, <1>8

LEMMA FundInv == Inv /\ Fund => Inv'
<1> SUFFICES ASSUME Inv, Fund PROVE Inv'
  OBVIOUS
<1>1. Typed /\ Paged /\ Truthful /\ Quantities /\ Flow /\ Funded /\ Returned
  BY DEF Inv
<1>2. /\ step = "fund" /\ Opens /\ ~Closes /\ Forward /\ hand.route = "regular_spot"
      /\ task.status = "none" /\ pairs = <<>> /\ Good(hand.q)
      /\ \A p \in Prices : hand.amount >= (Shared * plan.n) * p
  BY <1>1, Kinds DEF Fund, Flow, Quantities, Funded
<1>3. UNCHANGED <<plan, market, price, capped, panel, pairs>> /\ step' = "idle" /\ hand' = NoHand
  BY DEF Fund, Stay, Rest, Go
<1>4. /\ hand \in [q : Nat, route : Routes, amount : Nat] /\ wallet \in Accounts
      /\ transit \in [usdt : Nat, base : Nat]
  BY <1>1 DEF Typed
<1>5. /\ wallet.usdt \in Nat /\ transit.usdt \in Nat /\ hand.amount \in Nat /\ hand.q \in Nat
  BY <1>4 DEF Accounts
<1>6. ASSUME NEW moved \in BOOLEAN, Transfer("usdt", moved)
      PROVE  /\ wallet' \in Accounts /\ transit' \in [usdt : Nat, base : Nat]
             /\ wallet'.base = wallet.base /\ wallet'.spotUsdt = wallet.spotUsdt
             /\ wallet'.spotBase = wallet.spotBase /\ wallet'.pos = wallet.pos
             /\ moved => transit'.usdt = transit.usdt + hand.amount
  <2>1. CASE moved
    <3>1. /\ wallet.usdt >= hand.amount
          /\ wallet' = [wallet EXCEPT !["usdt"] = wallet["usdt"] - hand.amount]
          /\ transit' = [transit EXCEPT !["usdt"] = transit["usdt"] + hand.amount]
      BY <1>6, <2>1 DEF Transfer
    <3>2. wallet.usdt - hand.amount \in Nat /\ transit.usdt + hand.amount \in Nat
      BY <1>5, <3>1
    <3>3. wallet' \in Accounts /\ transit' \in [usdt : Nat, base : Nat]
      BY <1>4, <3>1, <3>2 DEF Accounts
    <3> QED BY <1>4, <3>1, <3>3 DEF Accounts
  <2>2. CASE ~moved
    BY <1>4, <1>6, <2>2 DEF Transfer
  <2> QED BY <2>1, <2>2
<1>7. CASE Transfer("usdt", TRUE) /\ task' = Stored(hand.q, hand.route)
  <2>1. hand' \in [q : Nat, route : Routes, amount : Nat]
    BY <1>3 DEF NoHand, Routes
  <2>2. \A p \in Prices : transit'.usdt >= (Shared * plan.n) * p
    <3> SUFFICES ASSUME NEW p \in Prices PROVE transit'.usdt >= (Shared * plan.n) * p
      OBVIOUS
    <3>1. Shared \in Nat /\ plan.n \in Nat /\ p \in Nat
      BY <1>1, <1>2, Kinds, SharedIsLargest DEF Good
    <3>2. PICK d \in Nat : d = (Shared * plan.n) * p
      BY <3>1
    <3>3. hand.amount >= d /\ transit'.usdt = transit.usdt + hand.amount
      BY <1>2, <1>6, <1>7, <3>2
    <3> QED BY <1>5, <3>2, <3>3
  <2>3. hand.route \in Routes
    BY <1>4
  <2> QED BY <1>2, <1>3, <1>5, <1>6, <1>7, <2>1, <2>2, <2>3, StoreStep
<1>8. CASE task' = task /\ \E moved \in BOOLEAN : Transfer("usdt", moved)
  <2>1. PICK moved \in BOOLEAN : Transfer("usdt", moved)
    BY <1>8
  <2>2. /\ wallet' \in Accounts /\ transit' \in [usdt : Nat, base : Nat]
        /\ wallet'.base = wallet.base /\ wallet'.spotUsdt = wallet.spotUsdt
        /\ wallet'.spotBase = wallet.spotBase /\ wallet'.pos = wallet.pos
    BY <1>6, <2>1
  <2>3. /\ plan' = plan /\ market' = market /\ pairs' = pairs /\ Sent' = Sent /\ task' = task
        /\ price' = price /\ capped' = capped /\ panel' = panel
    BY <1>3, <1>8 DEF Sent
  <2>4. /\ Shared' = Shared /\ \A x : Good(x)' <=> Good(x)
        /\ Opens' = Opens /\ Closes' = Closes /\ Forward' = Forward /\ Account' = Account
    BY <1>3, StillGood
  <2>5. Typed'
    BY <1>1, <1>3, <2>2, <2>3 DEF Typed, NoHand, Steps, Routes
  <2>6. Paged' /\ Truthful'
    BY <1>1, <2>2, <2>3, <2>4 DEF Paged, Truthful, Page
  <2>7. task.q = 0 /\ task.route = "none" /\ ~task.back
    BY <1>1, <1>2 DEF Flow
  <2>8. Quantities' /\ Flow'
    BY <1>1, <1>2, <1>3, <2>3, <2>4, <2>7
       DEF Quantities, Flow, Good, Shared, SpotStep, PerpStep
  <2>9. Funded'
    BY <1>2, <1>3, <2>3, <2>4, <2>7 DEF Funded
  <2>10. Returned'
    BY <1>2, <1>3, <2>3, <2>4, <2>7 DEF Returned
  <2> QED BY <2>5, <2>6, <2>8, <2>9, <2>10 DEF Inv
<1> QED BY <1>7, <1>8 DEF Fund

-----------------------------------------------------------------------------
(* The preparation of a close and the rounds of the worker.                *)

LEMMA SamePages ==
  ASSUME Inv, UNCHANGED <<plan, market, world, panel, pairs>>
  PROVE  Paged' /\ Truthful'
BY DEF Inv, Paged, Truthful, Page, world, Opens, Closes, Sent

\* A call that fails leaves the row paused or stopped, if it was active.
LEMMA FailStep ==
  ASSUME Inv, UNCHANGED <<plan, market, world, panel, pairs>>,
         NEW s \in Statuses \ {"none"}, SetIfActive(s),
         \/ step' = "idle" /\ hand' = NoHand
         \/ step' = step /\ hand' = hand
  PROVE  Inv'
<1>1. \/ task' = task
      \/ task.status \notin {"none", "done"} /\ task' = [task EXCEPT !.status = s]
  BY DEF SetIfActive, Set
<1> QED BY <1>1, SamePages, StopStep

LEMMA StartInv == Inv /\ Start => Inv'
<1> SUFFICES ASSUME Inv, Start PROVE Inv'
  OBVIOUS
<1>1. UNCHANGED <<plan, market, world, panel, pairs>> /\ step' = step /\ hand' = hand
  BY DEF Start, Stay
<1>2. task.status \in {"paused", "stopped"} /\ task' = [task EXCEPT !.status = "running"]
  BY DEF Start, Set
<1>3. "running" \in Statuses \ {"none"}
  BY DEF Statuses
<1> QED BY <1>1, <1>2, <1>3, SamePages, StopStep

\* The preparation of a close passes when what is left to trade is there, or says how
\* much is missing (_run_close_preparation).
LEMMA PreparePasses ==
  ASSUME Inv, Closes, NEW fails \in BOOLEAN, NEW r \in Readings(fails), r.rejection = "none",
         PositionCovers(r.q)
  PROVE  /\ ~Forward \/ SpotCovers(r.q) => Enough(0)
         /\ ~SpotCovers(r.q) => Shortage(r.q) \in Nat
         /\ Forward /\ ~SpotCovers(r.q) => Enough(Shortage(r.q))
<1>1. Typed /\ Paged /\ Truthful /\ Funded
  BY DEF Inv
<1>2. Good(r.q) /\ r.q = Shared /\ Shared \in Nat
  BY <1>1, ReadingPasses DEF Good
<1>3. Sent \in Nat /\ plan.n \in Nat /\ plan.n - Sent \in Nat
  BY <1>1, Kinds
<1>4. PICK d \in Nat : d = Shared * (plan.n - Sent)
  BY <1>2, <1>3
<1>5. Required(r.q) = d
  BY <1>2, <1>4 DEF Required
<1>6. /\ wallet.pos \in Nat /\ wallet.spotBase \in Nat /\ transit.base \in Nat
      /\ UmPosition \in Nat
  BY <1>1, Reads DEF Typed, Accounts
<1>7. UmPosition >= d
  BY <1>5 DEF PositionCovers
<1>8. Enough(0) <=> wallet.pos >= d /\ (Forward => wallet.spotBase + transit.base >= d)
  BY <1>4, <1>6 DEF Enough
<1>9. ASSUME ~SpotCovers(r.q) PROVE Shortage(r.q) = d - wallet.spotBase /\ Shortage(r.q) \in Nat
  BY <1>4, <1>5, <1>6, <1>9 DEF SpotCovers, Shortage
<1>10. ASSUME ~SpotCovers(r.q), Forward
       PROVE  Enough(Shortage(r.q)) <=> wallet.pos >= d
  <2>1. PICK e \in Nat : e = Shortage(r.q) /\ wallet.spotBase + transit.base + e >= d
    BY <1>4, <1>6, <1>9, <1>10
  <2>2. Enough(e) <=> wallet.pos >= d
    BY <1>4, <1>10, <2>1 DEF Enough
  <2> QED BY <2>1, <2>2
<1>11. CASE Sent = 0
  <2>1. wallet.pos >= d
    <3>1. UmPosition <= wallet.pos
      BY <1>1, <1>11, Reads
    <3> QED BY <1>4, <1>6, <1>7, <3>1
  <2>2. ASSUME SpotCovers(r.q) PROVE wallet.spotBase + transit.base >= d
    <3>1. CASE wallet.spotBase >= d
      BY <1>4, <1>6, <3>1
    <3>2. CASE panel["spot"] # <<>> /\ panel["spot"][1].base >= d
      <4>1. panel["spot"][1].base <= wallet.spotBase /\ panel["spot"][1].base \in Nat
        BY <1>1, <1>11, <3>2 DEF Truthful, Paged, Page
      <4> QED BY <1>4, <1>6, <3>2, <4>1
    <3> QED BY <1>5, <2>2, <3>1, <3>2 DEF SpotCovers
  <2> QED BY <1>8, <1>9, <1>10, <2>1, <2>2
<1>12. CASE Sent # 0
  <2>1. Enough(0)
    BY <1>1, <1>3, <1>12 DEF Funded, Prepared
  <2> QED BY <1>8, <1>9, <1>10, <2>1
<1> QED BY <1>11, <1>12

LEMMA PrepareInv ==
  ASSUME Inv, Closes, step = "idle", task.status \in {"paused", "running"},
         NEW next \in {"arm", "gate"}, Prepare(next)
  PROVE  Inv'
<1>1. Typed /\ Paged /\ ~Opens /\ ~task.back
  BY Kinds DEF Inv, Returned
<1>2. UNCHANGED <<plan, market, world, panel, pairs>>
  BY DEF Prepare, Stay
<1> DEFINE Outcome(r) ==
       \/ Refused(r) /\ Rest
       \/ /\ r.rejection = "none" /\ PositionCovers(r.q)
          /\ ~Forward \/ SpotCovers(r.q)
          /\ Go(next, [q |-> r.q, route |-> r.route, amount |-> 0]) /\ UNCHANGED task
       \/ /\ r.rejection = "none" /\ PositionCovers(r.q)
          /\ Forward /\ ~SpotCovers(r.q)
          /\ Go(TransferTo[next], [[q |-> r.q, route |-> r.route, amount |-> 0]
                                     EXCEPT !.amount = Shortage(r.q)])
          /\ UNCHANGED task
<1>3. PICK fails \in BOOLEAN : \E r \in Readings(fails) : Outcome(r)
  BY DEF Prepare
<1>4. PICK r \in Readings(fails) : Outcome(r)
  BY <1>3
<1>5. CASE Refused(r) /\ Rest
  BY <1>2, <1>5, FailStep DEF Refused, Rest, Go, Statuses
<1>6. ASSUME r.rejection = "none", PositionCovers(r.q), NEW amount \in Nat,
             NEW label \in {"arm", "gate", "armTransfer", "gateTransfer"},
             Go(label, [q |-> r.q, route |-> r.route, amount |-> amount]), UNCHANGED task,
             label \in {"arm", "gate"} => Enough(0),
             label \in {"armTransfer", "gateTransfer"} => Forward /\ Enough(amount)
      PROVE  Inv'
  <2>1. Good(r.q) /\ r.q \in Nat /\ r.route \in Routes /\ r.route = Account
    BY <1>1, <1>6, ReadingPasses
  <2>2. step' = label /\ hand' = [q |-> r.q, route |-> r.route, amount |-> amount]
    BY <1>6 DEF Go
  <2>3. /\ hand' \in [q : Nat, route : Routes, amount : Nat]
        /\ hand'.q = r.q /\ hand'.route = r.route /\ hand'.amount = amount
    BY <2>1, <2>2
  <2>4. Good(hand'.q)
    BY <2>1, <2>3
  <2>5. task' = task /\ task.status # "none" /\ step' # "fund" /\ step' # "leverage"
    BY <1>6, <2>2
  <2>6. step' \in {"armTransfer", "gateTransfer"} => Forward /\ Enough(hand'.amount)
    BY <1>6, <2>2, <2>3
  <2>7. step' \in {"arm", "gate", "send"} => Enough(0)
    BY <1>6, <2>2
  <2>8. step' \in Steps \ {"idle", "back"}
    BY <2>2 DEF Steps
  <2> QED BY <1>1, <1>2, <2>1, <2>3, <2>4, <2>5, <2>6, <2>7, <2>8, CarryStep
<1>7. CASE /\ r.rejection = "none" /\ PositionCovers(r.q)
           /\ ~Forward \/ SpotCovers(r.q)
           /\ Go(next, [q |-> r.q, route |-> r.route, amount |-> 0]) /\ UNCHANGED task
  <2>1. Enough(0)
    BY <1>7, PreparePasses
  <2> QED BY <1>6, <1>7, <2>1
<1>8. CASE /\ r.rejection = "none" /\ PositionCovers(r.q)
           /\ Forward /\ ~SpotCovers(r.q)
           /\ Go(TransferTo[next], [[q |-> r.q, route |-> r.route, amount |-> 0]
                                      EXCEPT !.amount = Shortage(r.q)])
           /\ UNCHANGED task
  <2>1. PICK amount \in Nat : amount = Shortage(r.q) /\ Enough(amount)
    BY <1>8, PreparePasses
  <2>2. TransferTo[next] \in {"armTransfer", "gateTransfer"}
    BY DEF TransferTo
  <2>3. Go(TransferTo[next], [q |-> r.q, route |-> r.route, amount |-> amount])
    BY <1>8, <2>1 DEF Go
  <2> QED BY <1>6, <1>8, <2>1, <2>2, <2>3
<1> QED BY <1>4, <1>5, <1>7, <1>8

LEMMA StartSmoothCloseInv == Inv /\ StartSmoothClose => Inv'
BY PrepareInv DEF StartSmoothClose

LEMMA RoundCloseInv == Inv /\ RoundClose => Inv'
BY PrepareInv DEF RoundClose, Round

\* What was transferred counts for what is left to trade.
LEMMA PrepareTransferInv ==
  ASSUME Inv, NEW next \in {"arm", "gate"}, PrepareTransfer(next)
  PROVE  Inv'
<1>1. Typed /\ Paged /\ Truthful /\ Quantities /\ Flow /\ Funded /\ Returned
  BY DEF Inv
<1>2. /\ step = TransferTo[next] /\ step \in {"armTransfer", "gateTransfer"}
      /\ Closes /\ ~Opens /\ Forward /\ Good(hand.q) /\ hand.route = Account /\ ~task.back
      /\ Enough(hand.amount) /\ task.status # "none"
  BY <1>1, Kinds DEF PrepareTransfer, TransferTo, Flow, Quantities, Funded, Returned
<1>3. UNCHANGED <<plan, market, price, capped, panel, pairs>> /\ Sent' = Sent
  BY DEF PrepareTransfer, Stay, Sent
<1>4. /\ hand \in [q : Nat, route : Routes, amount : Nat] /\ wallet \in Accounts
      /\ transit \in [usdt : Nat, base : Nat]
  BY <1>1 DEF Typed
<1>5. /\ wallet.base \in Nat /\ transit.base \in Nat /\ hand.amount \in Nat
      /\ wallet.spotBase \in Nat
  BY <1>4 DEF Accounts
<1>6. ASSUME NEW moved \in BOOLEAN, Transfer("base", moved)
      PROVE  /\ wallet' \in Accounts /\ transit' \in [usdt : Nat, base : Nat]
             /\ wallet'.spotUsdt = wallet.spotUsdt /\ transit'.usdt = transit.usdt
             /\ wallet'.spotBase = wallet.spotBase /\ wallet'.pos = wallet.pos
             /\ transit'.base >= transit.base
             /\ moved => transit'.base = transit.base + hand.amount
  <2>1. CASE moved
    <3>1. /\ wallet.base >= hand.amount
          /\ wallet' = [wallet EXCEPT !["base"] = wallet["base"] - hand.amount]
          /\ transit' = [transit EXCEPT !["base"] = transit["base"] + hand.amount]
      BY <1>6, <2>1 DEF Transfer
    <3>2. /\ wallet.base - hand.amount \in Nat /\ transit.base + hand.amount \in Nat
          /\ transit.base + hand.amount >= transit.base
      BY <1>5, <3>1
    <3>3. wallet' \in Accounts /\ transit' \in [usdt : Nat, base : Nat]
      BY <1>4, <3>1, <3>2 DEF Accounts
    <3> QED BY <1>4, <3>1, <3>2, <3>3 DEF Accounts
  <2>2. CASE ~moved
    BY <1>4, <1>5, <1>6, <2>2 DEF Transfer
  <2> QED BY <2>1, <2>2
<1>7. PICK moved \in BOOLEAN :
        /\ Transfer("base", moved)
        /\ \/ moved /\ Go(next, [hand EXCEPT !.amount = 0]) /\ UNCHANGED task
           \/ SetIfActive("paused") /\ Rest
  BY DEF PrepareTransfer
<1>8. /\ Shared' = Shared /\ \A q : Good(q)' <=> Good(q)
      /\ Opens' = Opens /\ Closes' = Closes /\ Forward' = Forward /\ Account' = Account
  BY <1>3, StillGood
<1>9. /\ task' \in [status : Statuses, q : 0..plan.single, route : Routes, back : BOOLEAN]
      /\ task'.q = task.q /\ task'.route = task.route /\ task'.back = task.back
      /\ task'.status # "none"
  BY <1>1, <1>2, <1>7 DEF Typed, SetIfActive, Set, Statuses
<1>10. /\ hand' \in [q : Nat, route : Routes, amount : Nat]
       /\ \/ step' = next /\ hand'.q = hand.q /\ hand'.route = hand.route
          \/ step' = "idle"
  BY <1>4, <1>7 DEF Go, Rest, NoHand, Routes
<1>11. PICK d \in Int : d = Shared * (plan.n - Sent)
  <2>1. Shared \in Nat /\ plan.n - Sent \in Nat
    BY <1>1, <1>2, Kinds, SharedIsLargest DEF Good
  <2> QED BY <2>1
<1>12. ASSUME NEW m \in Nat PROVE Enough(m) <=> /\ wallet.pos >= d
                                               /\ wallet.spotBase + transit.base + m >= d
  BY <1>2, <1>11, <1>12 DEF Enough
<1>13. Enough(0)' <=> /\ wallet.pos >= d
                      /\ wallet.spotBase + transit'.base + 0 >= d
  BY <1>2, <1>3, <1>6, <1>7, <1>8, <1>11 DEF Enough
<1>14. Prepared' => Enough(0)'
  <2>1. CASE step' = next
    <3>1. moved
      BY <1>2, <1>7, <2>1 DEF Rest, Go
    <3>2. transit'.base = transit.base + hand.amount
      BY <1>6, <1>7, <3>1
    <3> QED BY <1>2, <1>5, <1>11, <1>12, <1>13, <3>2
  <2>2. CASE step' = "idle"
    <3>1. Prepared' => Prepared
      BY <1>3, <1>9, <2>2 DEF Prepared
    <3>2. Prepared => Enough(0)
      BY <1>1, <1>2 DEF Funded
    <3>3. transit'.base >= transit.base /\ transit'.base \in Nat
      BY <1>6, <1>7
    <3> QED BY <1>5, <1>11, <1>12, <1>13, <3>1, <3>2, <3>3
  <2> QED BY <1>10, <2>1, <2>2
<1>15. Typed'
  BY <1>1, <1>3, <1>6, <1>7, <1>9, <1>10 DEF Typed, Steps
<1>16. Paged' /\ Truthful'
  BY <1>1, <1>2, <1>3, <1>6, <1>7, <1>8 DEF Paged, Truthful, Page
<1>17. Quantities'
  BY <1>1, <1>2, <1>3, <1>9, <1>10 DEF Quantities, Good, Shared, SpotStep, PerpStep
<1>18. Flow'
  BY <1>1, <1>2, <1>3, <1>8, <1>9, <1>10 DEF Flow
<1>19. Funded'
  BY <1>1, <1>2, <1>8, <1>10, <1>14 DEF Funded
<1>20. Returned'
  <2>1. Proceeds(pairs)' = Proceeds(pairs) /\ Withheld' = Withheld
    BY <1>3 DEF Withheld
  <2> QED BY <1>1, <1>2, <1>3, <1>6, <1>7, <1>8, <1>9, <1>10, <2>1 DEF Returned
<1> QED BY <1>15, <1>16, <1>17, <1>18, <1>19, <1>20 DEF Inv

\* A smooth close gets its quantity and its route with the start.
LEMMA ArmInv == Inv /\ Arm => Inv'
<1> SUFFICES ASSUME Inv, Arm PROVE Inv'
  OBVIOUS
<1>1. Typed /\ Paged /\ Truthful /\ Quantities /\ Flow /\ Funded /\ Returned
  BY DEF Inv
<1>2. /\ step = "arm" /\ Closes /\ ~Opens /\ Good(hand.q) /\ hand.route = Account
      /\ Enough(0) /\ ~task.back /\ task.status # "none"
  BY <1>1, Kinds DEF Arm, Flow, Quantities, Funded, Prepared, Returned
<1>3. UNCHANGED <<plan, market, world, panel, pairs>> /\ step' = "idle" /\ hand' = NoHand
  BY DEF Arm, Stay, Rest, Go
<1>4. CASE task' = task
  BY <1>3, <1>4, SamePages, StopStep
<1>5. CASE task.status = "paused" /\ task' = [task EXCEPT !.status = "running"]
  BY <1>3, <1>5, SamePages, StopStep DEF Statuses
<1>6. CASE task' = [task EXCEPT !.status = "running", !.q = hand.q, !.route = hand.route]
  <2>1. /\ plan' = plan /\ market' = market /\ pairs' = pairs /\ Sent' = Sent
        /\ price' = price /\ capped' = capped /\ wallet' = wallet /\ transit' = transit
    BY <1>3 DEF world, Sent
  <2>2. /\ Shared' = Shared /\ \A q : Good(q)' <=> Good(q)
        /\ Opens' = Opens /\ Closes' = Closes /\ Forward' = Forward /\ Account' = Account
    BY <1>3, StillGood
  <2>3. hand.q \in 0..plan.single /\ hand.route \in Routes
    <3>1. hand.q = Shared /\ Shared \in Nat /\ Shared <= plan.single /\ plan.single \in Nat
      BY <1>1, <1>2, Kinds, SharedIsLargest DEF Good
    <3> QED BY <1>1, <3>1 DEF Typed
  <2>4. /\ task' \in [status : Statuses, q : 0..plan.single, route : Routes, back : BOOLEAN]
        /\ task'.q = hand.q /\ task'.route = Account /\ task'.back = task.back
        /\ task'.status = "running"
    BY <1>1, <1>2, <1>6, <2>3 DEF Typed, Statuses
  <2>5. Typed'
    BY <1>1, <1>3, <2>1, <2>4 DEF Typed, NoHand, Routes, Steps
  <2>6. Paged' /\ Truthful'
    BY <1>3, SamePages
  <2>7. Quantities'
    BY <1>1, <1>2, <1>3, <2>1, <2>4 DEF Quantities, Good, Shared, SpotStep, PerpStep
  <2>8. Flow'
    BY <1>1, <1>2, <1>3, <2>2, <2>4 DEF Flow
  <2>9. Funded'
    BY <1>2, <1>3, <2>1, <2>2 DEF Funded, Enough
  <2>10. Returned'
    <3>1. Proceeds(pairs)' = Proceeds(pairs) /\ Withheld' = Withheld
      BY <2>1 DEF Withheld
    <3> QED BY <1>1, <1>2, <1>3, <2>1, <2>2, <2>4, <3>1 DEF Returned
  <2> QED BY <2>5, <2>6, <2>7, <2>8, <2>9, <2>10 DEF Inv
<1> QED BY <1>4, <1>5, <1>6 DEF Arm

\* An opening pair trades in the standard account only when the task was funded there.
LEMMA RoundOpenInv == Inv /\ RoundOpen => Inv'
<1> SUFFICES ASSUME Inv, RoundOpen PROVE Inv'
  OBVIOUS
<1>1. Typed /\ Paged /\ Returned
  BY DEF Inv
<1>2. /\ Opens /\ ~Closes /\ step = "idle" /\ task.status = "running" /\ ~task.back
      /\ UNCHANGED <<plan, market, world, panel, pairs>>
  BY <1>1, Kinds DEF RoundOpen, Round, Stay, Returned
<1> DEFINE Outcome(r) ==
       \/ r.rejection = "none" /\ RouteKept(r.route)
          /\ Go("leverage", [q |-> r.q, route |-> r.route, amount |-> 0])
          /\ UNCHANGED task
       \/ /\ step' = step /\ hand' = hand
          /\ SetIfActive("paused") \/ Refused(r)
<1>3. PICK fails \in BOOLEAN : \E r \in Readings(fails) : Outcome(r)
  BY DEF RoundOpen
<1>4. PICK r \in Readings(fails) : Outcome(r)
  BY <1>3
<1>5. CASE step' = step /\ hand' = hand /\ (SetIfActive("paused") \/ Refused(r))
  BY <1>2, <1>5, FailStep DEF Refused, Statuses
<1>6. CASE r.rejection = "none" /\ RouteKept(r.route)
           /\ Go("leverage", [q |-> r.q, route |-> r.route, amount |-> 0])
           /\ UNCHANGED task
  <2>1. Good(r.q) /\ r.q \in Nat /\ r.route \in Routes
    BY <1>1, <1>6, ReadingPasses
  <2>2. step' = "leverage" /\ hand' = [q |-> r.q, route |-> r.route, amount |-> 0]
    BY <1>6 DEF Go
  <2>3. /\ hand' \in [q : Nat, route : Routes, amount : Nat]
        /\ hand'.q = r.q /\ hand'.route = r.route
    BY <2>1, <2>2
  <2>4. Good(hand'.q)
    BY <2>1, <2>3
  <2>5. hand'.route = "regular_spot" => task.route = "regular_spot"
    BY <1>6, <2>3 DEF RouteKept
  <2>6. task' = task /\ task.status # "none" /\ step' \in Steps \ {"idle", "back"}
    BY <1>2, <1>6, <2>2 DEF Steps
  <2> QED BY <1>2, <2>2, <2>3, <2>4, <2>5, <2>6, CarryStep
<1> QED BY <1>4, <1>5, <1>6

LEMMA RoundSmoothInv == Inv /\ RoundSmooth => Inv'
<1> SUFFICES ASSUME Inv, RoundSmooth PROVE Inv'
  OBVIOUS
<1>1. Typed /\ Quantities /\ Flow /\ Funded /\ Returned
  BY DEF Inv
<1>2. /\ task.q # 0 /\ Good(task.q) /\ task.status = "running" /\ ~task.back
      /\ Closes => task.route = Account /\ Enough(0)
      /\ UNCHANGED <<plan, market, world, panel, pairs>> /\ task' = task
  BY <1>1 DEF RoundSmooth, Round, Stay, Returned, Quantities, Flow, Funded, Prepared
<1>3. step' = "gate" /\ hand' = [q |-> task.q, route |-> task.route, amount |-> 0]
  BY DEF RoundSmooth, Go
<1>4. /\ hand' \in [q : Nat, route : Routes, amount : Nat]
      /\ hand'.q = task.q /\ hand'.route = task.route
  <2>1. task.q \in Nat /\ task.route \in Routes
    BY <1>1, Kinds DEF Typed
  <2> QED BY <1>3, <2>1
<1>5. Good(hand'.q)
  BY <1>2, <1>4
<1> QED BY <1>2, <1>3, <1>4, <1>5, CarryStep DEF Steps

\* Its leverage set and its gate passed, the pair goes on with what it carries.
LEMMA GoOnStep ==
  ASSUME Inv, UNCHANGED <<plan, market, world, panel, pairs, task>>,
         step \in {"leverage", "gate"}, Go("send", hand)
  PROVE  Inv'
<1>1. Typed /\ Quantities /\ Flow /\ Funded /\ Returned
  BY DEF Inv
<1>2. /\ Good(hand.q) /\ task.status # "none" /\ ~task.back
      /\ Closes => hand.route = Account /\ Enough(0)
      /\ Opens /\ hand.route = "regular_spot" => task.route = "regular_spot"
      /\ hand \in [q : Nat, route : Routes, amount : Nat]
  BY <1>1, Kinds DEF Typed, Returned, Quantities, Flow, Funded, Prepared
<1>3. step' = "send" /\ hand' = hand
  BY DEF Go
<1>4. Good(hand'.q)
  BY <1>2, <1>3
<1> QED BY <1>2, <1>3, <1>4, CarryStep DEF Steps

LEMMA LeverageInv == Inv /\ Leverage => Inv'
<1> SUFFICES ASSUME Inv, Leverage PROVE Inv'
  OBVIOUS
<1>1. UNCHANGED <<plan, market, world, panel, pairs>> /\ step = "leverage"
  BY DEF Leverage, Stay
<1>2. CASE Go("send", hand) /\ UNCHANGED task
  BY <1>1, <1>2, GoOnStep
<1>3. CASE SetIfActive("paused") /\ Rest
  BY <1>1, <1>3, FailStep DEF Rest, Go, Statuses
<1> QED BY <1>2, <1>3 DEF Leverage

LEMMA GateInv == Inv /\ Gate => Inv'
<1> SUFFICES ASSUME Inv, Gate PROVE Inv'
  OBVIOUS
<1>1. UNCHANGED <<plan, market, world, panel, pairs>> /\ step = "gate"
  BY DEF Gate, Stay
<1>2. CASE Go("send", hand) /\ UNCHANGED task
  BY <1>1, <1>2, GoOnStep
<1>3. CASE SetIfActive("paused") /\ Rest
  BY <1>1, <1>3, FailStep DEF Rest, Go, Statuses
<1> QED BY <1>2, <1>3 DEF Gate

-----------------------------------------------------------------------------
(* The end of a task, and everybody else.                                  *)

LEMMA FinishInv == Inv /\ Finish => Inv'
<1> SUFFICES ASSUME Inv, Finish PROVE Inv'
  OBVIOUS
<1>1. Typed /\ Paged /\ Truthful /\ Quantities /\ Flow /\ Funded /\ Returned
  BY DEF Inv
<1>2. /\ UNCHANGED <<plan, market, world, panel, pairs>> /\ step = "idle" /\ Closes
      /\ task.status = "running" /\ ~task.back
  BY <1>1 DEF Finish, Stay, Returned
<1>3. CASE SetIfActive("paused") /\ UNCHANGED <<step, hand>>
  BY <1>2, <1>3, FailStep DEF Statuses
<1>4. CASE Set("done") /\ UNCHANGED <<step, hand>>
  BY <1>2, <1>4, SamePages, StopStep DEF Set, Statuses
<1>5. CASE Set("done") /\ Forward /\ Go("back", NoHand)
  <2>1. /\ plan' = plan /\ market' = market /\ pairs' = pairs /\ Sent' = Sent
        /\ price' = price /\ capped' = capped /\ wallet' = wallet /\ transit' = transit
        /\ step' = "back" /\ hand' = NoHand
    BY <1>2, <1>5 DEF world, Sent, Go
  <2>2. /\ Shared' = Shared /\ \A q : Good(q)' <=> Good(q)
        /\ Opens' = Opens /\ Closes' = Closes /\ Forward' = Forward /\ Account' = Account
    BY <1>2, StillGood
  <2>3. /\ task' \in [status : Statuses, q : 0..plan.single, route : Routes, back : BOOLEAN]
        /\ task'.q = task.q /\ task'.route = task.route /\ task'.back = task.back
        /\ task'.status = "done"
    BY <1>1, <1>5 DEF Typed, Set, Statuses
  <2>4. Typed'
    BY <1>1, <2>1, <2>3 DEF Typed, NoHand, Routes, Steps
  <2>5. Paged' /\ Truthful'
    BY <1>2, SamePages
  <2>6. Quantities'
    BY <1>1, <2>1, <2>3 DEF Quantities, Good, Shared, SpotStep, PerpStep
  <2>7. Flow'
    BY <1>1, <1>2, <2>1, <2>2, <2>3, Kinds DEF Flow
  <2>8. Funded'
    BY <1>1, <1>2, <2>1, <2>2, <2>3, Kinds DEF Funded, Enough, Prepared
  <2>9. Returned'
    <3>1. Proceeds(pairs)' = Proceeds(pairs) /\ Withheld' = Withheld
      BY <2>1 DEF Withheld
    <3> QED BY <1>1, <1>2, <1>5, <2>1, <2>2, <2>3, <3>1 DEF Returned
  <2> QED BY <2>4, <2>5, <2>6, <2>7, <2>8, <2>9 DEF Inv
<1> QED BY <1>3, <1>4, <1>5 DEF Finish

\* All that the pairs earned goes back, and only that.
LEMMA BackInv == Inv /\ Back => Inv'
<1> SUFFICES ASSUME Inv, Back PROVE Inv'
  OBVIOUS
<1>1. Typed /\ Paged /\ Truthful /\ Quantities /\ Flow /\ Funded /\ Returned
  BY DEF Inv
<1>2. /\ UNCHANGED <<plan, market, price, capped, transit, panel, pairs>>
      /\ step = "back" /\ step' = "idle" /\ hand' = NoHand
      /\ Closes /\ ~Opens /\ Forward /\ task.status = "done" /\ ~task.back
  BY <1>1, Kinds DEF Back, Stay, Rest, Go, Returned
<1>3. CASE UNCHANGED <<wallet, task>>
  <2>1. UNCHANGED <<plan, market, world, panel, pairs>>
    BY <1>2, <1>3 DEF world
  <2> QED BY <1>2, <1>3, <2>1, SamePages, StopStep
<1>4. CASE /\ wallet.spotUsdt >= Proceeds(pairs)
           /\ wallet' = [wallet EXCEPT !.spotUsdt = @ - Proceeds(pairs),
                                       !.usdt = @ + Proceeds(pairs)]
           /\ task' = [task EXCEPT !.back = TRUE]
  <2>1. PICK e \in Nat : e = Proceeds(pairs)
    BY <1>1, ProceedsTyped DEF Typed
  <2>2. wallet \in Accounts /\ wallet.spotUsdt \in Nat /\ wallet.usdt \in Nat
    BY <1>1 DEF Typed, Accounts
  <2>3. wallet.spotUsdt - e \in Nat /\ wallet.usdt + e \in Nat
    BY <1>4, <2>1, <2>2
  <2>4. /\ wallet' \in Accounts /\ wallet'.spotUsdt = wallet.spotUsdt - e
        /\ wallet'.base = wallet.base /\ wallet'.spotBase = wallet.spotBase
        /\ wallet'.pos = wallet.pos
    BY <1>4, <2>1, <2>2, <2>3 DEF Accounts
  <2>5. /\ plan' = plan /\ market' = market /\ pairs' = pairs /\ Sent' = Sent
        /\ price' = price /\ capped' = capped /\ transit' = transit /\ panel' = panel
    BY <1>2 DEF Sent
  <2>6. /\ Shared' = Shared /\ \A q : Good(q)' <=> Good(q)
        /\ Opens' = Opens /\ Closes' = Closes /\ Forward' = Forward /\ Account' = Account
    BY <1>2, StillGood
  <2>7. /\ task' \in [status : Statuses, q : 0..plan.single, route : Routes, back : BOOLEAN]
        /\ task'.q = task.q /\ task'.route = task.route /\ task'.back = TRUE
        /\ task'.status = "done"
    BY <1>1, <1>2, <1>4 DEF Typed
  <2>8. Typed'
    BY <1>1, <1>2, <2>4, <2>5, <2>7 DEF Typed, NoHand, Routes, Steps
  <2>9. Paged' /\ Truthful'
    BY <1>1, <2>4, <2>5, <2>6 DEF Paged, Truthful, Page
  <2>10. Quantities'
    BY <1>1, <1>2, <2>5, <2>7 DEF Quantities, Good, Shared, SpotStep, PerpStep
  <2>11. Flow'
    BY <1>1, <1>2, <2>5, <2>6, <2>7 DEF Flow
  <2>12. Funded'
    BY <1>1, <1>2, <2>4, <2>5, <2>6, <2>7 DEF Funded, Enough, Prepared
  <2>13. Returned'
    <3>1. ASSUME NEW w \in Funds[plan] PROVE wallet'.spotUsdt + Withheld' = w.spotUsdt + 0
      <4>1. w.spotUsdt \in Nat
        BY <1>1, FundsAssumption DEF Typed, Accounts
      <4>2. wallet.spotUsdt + Withheld = w.spotUsdt + e
        BY <1>1, <1>2, <2>1 DEF Returned
      <4>3. Withheld \in Nat /\ Withheld' = Withheld
        BY <1>1, <2>5, WithheldTyped DEF Typed, Withheld
      <4> QED BY <2>1, <2>2, <2>4, <4>1, <4>2, <4>3
    <3> QED BY <1>1, <1>2, <2>5, <2>6, <2>7, <3>1 DEF Returned
  <2> QED BY <2>8, <2>9, <2>10, <2>11, <2>12, <2>13 DEF Inv
<1> QED BY <1>3, <1>4 DEF Back

LEMMA InterveneInv == Inv /\ Intervene => Inv'
<1> SUFFICES ASSUME Inv, Intervene PROVE Inv'
  OBVIOUS
<1>1. UNCHANGED <<plan, market, world, panel, pairs>> /\ step' = step /\ hand' = hand
  BY DEF Intervene, Stay
<1>2. /\ task.status \notin {"none", "done"}
      /\ \E s \in Statuses \ {"none"} : task' = [task EXCEPT !.status = s]
  BY DEF Intervene, Set, Statuses
<1> QED BY <1>1, <1>2, SamePages, StopStep

LEMMA RestartInv == Inv /\ Restart => Inv'
<1> SUFFICES ASSUME Inv, Restart PROVE Inv'
  OBVIOUS
<1>1. /\ UNCHANGED <<plan, market, world, pairs>> /\ task' = task
      /\ step' = "idle" /\ hand' = NoHand
  BY DEF Restart, Stay, Rest, Go
<1>2. DOMAIN panel' = PageNames /\ \A page \in PageNames : panel'[page] = <<>>
  <2>1. DOMAIN Live = PageNames
    BY DEF Live, PageNames
  <2> QED BY <2>1 DEF Restart
<1>3. Paged' /\ Truthful'
  BY <1>2 DEF Paged, Page, Truthful, PageNames
<1> QED BY <1>1, <1>3, StopStep

LEMMA RefreshInv ==
  ASSUME Inv, NEW page \in Pages, Refresh(page)
  PROVE  Inv'
<1>1. Typed /\ Paged /\ Truthful
  BY DEF Inv
<1>2. UNCHANGED <<plan, market, world, pairs, task, step, hand>>
  BY DEF Refresh, Stay
<1>3. panel' = [panel EXCEPT ![page] = <<Live[page]>>]
  BY DEF Refresh
<1>4. /\ DOMAIN panel' = PageNames
      /\ \A name \in PageNames :
           panel'[name] = IF name = page THEN <<Live[name]>> ELSE panel[name]
  BY <1>1, <1>3 DEF Paged
<1>5. /\ Live["unified"] \in [usdt : Nat, base : Nat] /\ Live["unified"].base = wallet.base
      /\ Live["spot"] \in [base : Nat] /\ Live["spot"].base = wallet.spotBase
      /\ Live["um"] \in Nat /\ Live["um"] = wallet.pos
      /\ Live["pm"] \in Nat /\ Live["cap"] \in BOOLEAN /\ Live["price"] \in Prices
  BY <1>1 DEF Live, Typed, Accounts
<1>6. Paged'
  <2>1. \A name \in PageNames : panel'[name] # <<>> =>
          \/ panel[name] # <<>> /\ panel'[name][1] = panel[name][1]
          \/ panel'[name][1] = Live[name]
    BY <1>4
  <2>2. Prices' = Prices
    OBVIOUS
  <2> QED BY <1>1, <1>4, <1>5, <2>1 DEF Paged, Page, PageNames
<1>7. Truthful'
  <2>1. wallet.base \in Nat /\ wallet.pos \in Nat /\ wallet.spotBase \in Nat
    BY <1>1 DEF Typed, Accounts
  <2>2. wallet' = wallet /\ Opens' = Opens /\ Closes' = Closes /\ Sent' = Sent
    BY <1>2 DEF world, Opens, Closes, Sent
  <2>3. \A name \in PageNames : panel'[name] # <<>> =>
          \/ panel[name] # <<>> /\ panel'[name][1] = panel[name][1]
          \/ panel'[name][1] = Live[name]
    BY <1>4
  <2> QED BY <1>1, <1>5, <2>1, <2>2, <2>3 DEF Truthful, PageNames
<1> QED BY <1>2, <1>6, <1>7, StopStep

LEMMA LandInv == Inv /\ Land => Inv'
<1> SUFFICES ASSUME Inv, Land PROVE Inv'
  OBVIOUS
<1>1. Typed /\ Paged /\ Truthful /\ Quantities /\ Flow /\ Funded /\ Returned
  BY DEF Inv
<1>2. /\ plan' = plan /\ market' = market /\ pairs' = pairs /\ Sent' = Sent
      /\ price' = price /\ capped' = capped /\ panel' = panel
      /\ task' = task /\ step' = step /\ hand' = hand
  BY DEF Land, Stay, Sent
<1>3. /\ Shared' = Shared /\ \A q : Good(q)' <=> Good(q)
      /\ Opens' = Opens /\ Closes' = Closes /\ Forward' = Forward /\ Account' = Account
  BY <1>2, StillGood
<1>4. wallet \in Accounts /\ transit \in [usdt : Nat, base : Nat]
  BY <1>1 DEF Typed
<1>5. /\ transit' \in [usdt : Nat, base : Nat] /\ transit'.usdt = 0 /\ transit'.base = 0
      /\ wallet' \in Accounts /\ wallet'.base = wallet.base /\ wallet'.pos = wallet.pos
      /\ wallet'.spotUsdt = wallet.spotUsdt + transit.usdt
      /\ wallet'.spotBase = wallet.spotBase + transit.base
  <2>1. wallet.spotUsdt + transit.usdt \in Nat /\ wallet.spotBase + transit.base \in Nat
    BY <1>4 DEF Accounts
  <2>2. /\ wallet' = [wallet EXCEPT !.spotUsdt = @ + transit.usdt,
                                    !.spotBase = @ + transit.base]
        /\ transit' = [usdt |-> 0, base |-> 0]
    BY DEF Land
  <2> QED BY <1>4, <2>1, <2>2 DEF Accounts
<1>6. /\ wallet.spotUsdt \in Nat /\ wallet.spotBase \in Nat
      /\ transit.usdt \in Nat /\ transit.base \in Nat
  BY <1>4 DEF Accounts
<1>7. /\ wallet'.spotUsdt + transit'.usdt = wallet.spotUsdt + transit.usdt
      /\ wallet'.spotBase + transit'.base = wallet.spotBase + transit.base
      /\ wallet'.spotBase >= wallet.spotBase
  BY <1>5, <1>6
<1>8. Typed'
  BY <1>1, <1>2, <1>5 DEF Typed
<1>9. Paged' /\ Truthful'
  <2>1. panel["spot"] # <<>> => panel["spot"][1].base \in Nat
    BY <1>1 DEF Paged, Page
  <2>2. Closes /\ panel["spot"] # <<>> /\ Sent = 0 => panel["spot"][1].base <= wallet'.spotBase
    <3>1. Closes /\ panel["spot"] # <<>> /\ Sent = 0 => panel["spot"][1].base <= wallet.spotBase
      BY <1>1 DEF Truthful
    <3> QED BY <1>5, <1>6, <1>7, <2>1, <3>1
  <2> QED BY <1>1, <1>2, <1>3, <1>5, <2>2 DEF Paged, Truthful, Page
<1>10. Quantities' /\ Flow'
  BY <1>1, <1>2, <1>3 DEF Quantities, Flow, Good, Shared, SpotStep, PerpStep
<1>11. Funded'
  <2>1. ASSUME NEW m PROVE Enough(m)' <=> Enough(m)
    BY <1>2, <1>3, <1>5, <1>7 DEF Enough
  <2>2. Enough(0)' <=> Enough(0)
    BY <2>1
  <2>3. Enough(hand.amount)' <=> Enough(hand.amount)
    BY <1>2, <1>3, <1>5, <1>7 DEF Enough
  <2> QED BY <1>1, <1>2, <1>3, <1>5, <1>7, <2>2, <2>3 DEF Funded, Prepared
<1>12. Returned'
  <2>1. Proceeds(pairs)' = Proceeds(pairs) /\ Withheld' = Withheld
    BY <1>2 DEF Withheld
  <2>2. Closes => wallet'.spotUsdt = wallet.spotUsdt
    BY <1>1, <1>5, <1>6 DEF Returned
  <2> QED BY <1>1, <1>2, <1>3, <1>5, <2>1, <2>2 DEF Returned
<1> QED BY <1>8, <1>9, <1>10, <1>11, <1>12 DEF Inv

LEMMA MarketMovesInv == Inv /\ MarketMoves => Inv'
<1> SUFFICES ASSUME Inv, MarketMoves PROVE Inv'
  OBVIOUS
<1>1. Typed /\ Paged /\ Truthful /\ Quantities /\ Flow /\ Funded /\ Returned
  BY DEF Inv
<1>2. /\ plan' = plan /\ market' = market /\ pairs' = pairs /\ Sent' = Sent
      /\ wallet' = wallet /\ transit' = transit /\ panel' = panel
      /\ task' = task /\ step' = step /\ hand' = hand
  BY DEF MarketMoves, Stay, Sent
<1>3. /\ Shared' = Shared /\ \A q : Good(q)' <=> Good(q)
      /\ Opens' = Opens /\ Closes' = Closes /\ Forward' = Forward /\ Account' = Account
  BY <1>2, StillGood
<1>4. Typed'
  <2>1. price' \in Prices /\ capped' \in BOOLEAN
    BY <1>1 DEF MarketMoves, Typed
  <2> QED BY <1>1, <1>2, <2>1 DEF Typed
<1>5. Paged' /\ Truthful' /\ Quantities' /\ Flow'
  BY <1>1, <1>2, <1>3
     DEF Paged, Truthful, Page, Quantities, Flow, Good, Shared, SpotStep, PerpStep
<1>6. Funded'
  BY <1>1, <1>2, <1>3 DEF Funded, Enough, Prepared
<1>7. Returned'
  <2>1. Proceeds(pairs)' = Proceeds(pairs) /\ Withheld' = Withheld
    BY <1>2 DEF Withheld
  <2> QED BY <1>1, <1>2, <1>3, <2>1 DEF Returned
<1> QED BY <1>4, <1>5, <1>6, <1>7 DEF Inv

-----------------------------------------------------------------------------
(* The pair.                                                               *)

\* What pays for all the pairs to come at any price, less one pair at this one, pays for
\* the rest.
LEMMA RestIsPaid ==
  ASSUME NEW s \in Nat, NEW k \in Nat, NEW c \in Nat, NEW p \in Nat, NEW a \in Nat,
         a >= (s * (k + 1)) * c, a >= (s * (k + 1)) * p
  PROVE  s * c \in Nat /\ (s * k) * p \in Nat /\ a >= (s * k) * p + s * c
<1> DEFINE t == s * k
<1>1. t \in Nat /\ s * (k + 1) = t + s
  OBVIOUS
<1> HIDE DEF t
<1>2. t * p \in Nat /\ t * c \in Nat /\ s * p \in Nat /\ s * c \in Nat
  BY <1>1
<1>3. (t + s) * c = t * c + s * c /\ (t + s) * p = t * p + s * p
  BY <1>1
<1>4. a >= t * c + s * c /\ a >= t * p + s * p
  BY <1>1, <1>3
<1>5. CASE p <= c
  <2>1. t * p <= t * c
    BY <1>1, <1>5, Times
  <2> QED BY <1>2, <1>4, <2>1 DEF t
<1>6. CASE c <= p
  <2>1. s * c <= s * p
    BY <1>6, Times
  <2> QED BY <1>2, <1>4, <2>1 DEF t
<1> QED BY <1>5, <1>6

\* What a spot leg moves.
LEMMA TradedIs ==
  ASSUME wallet \in Accounts, hand.q \in Nat, Cost \in Nat, SpotPays,
         NEW fee \in Commissions, NEW w, w = Traded(wallet, fee)
  PROVE  /\ w \in Accounts /\ w.pos = wallet.pos
         /\ Standard => w.base = wallet.base /\ w.usdt = wallet.usdt
         /\ ~Standard => w.spotBase = wallet.spotBase /\ w.spotUsdt = wallet.spotUsdt
         /\ Standard /\ Buys => w.spotUsdt = wallet.spotUsdt - Cost
         /\ Standard /\ ~Buys => /\ w.spotUsdt + fee = wallet.spotUsdt + Cost
                                 /\ w.spotBase = wallet.spotBase - hand.q
         /\ ~Standard /\ ~Buys => w.base = wallet.base - hand.q
<1>1. /\ wallet.usdt \in Nat /\ wallet.base \in Nat
      /\ wallet.spotUsdt \in Nat /\ wallet.spotBase \in Nat
  BY DEF Accounts
<1>2. fee \in Nat /\ (Buys => fee <= hand.q) /\ (~Buys => fee <= Cost)
  BY FundsAssumption DEF Commissions
<1> HIDE DEF Cost
<1>3. CASE Buys /\ Standard
  <2>1. w = [wallet EXCEPT !.spotUsdt = wallet.spotUsdt + -Cost,
                           !.spotBase = wallet.spotBase + (hand.q - fee)]
    BY <1>3 DEF Traded
  <2>2. /\ wallet.spotUsdt + -Cost = wallet.spotUsdt - Cost
        /\ wallet.spotUsdt - Cost \in Nat /\ wallet.spotBase + (hand.q - fee) \in Nat
    BY <1>1, <1>2, <1>3 DEF SpotPays
  <2> QED BY <1>3, <2>1, <2>2 DEF Accounts
<1>4. CASE Buys /\ ~Standard
  <2>1. w = [wallet EXCEPT !.usdt = wallet.usdt + -Cost, !.base = wallet.base + (hand.q - fee)]
    BY <1>4 DEF Traded
  <2>2. wallet.usdt + -Cost \in Nat /\ wallet.base + (hand.q - fee) \in Nat
    BY <1>1, <1>2, <1>4 DEF SpotPays
  <2> QED BY <1>4, <2>1, <2>2 DEF Accounts
<1>5. CASE ~Buys /\ Standard
  <2>1. w = [wallet EXCEPT !.spotUsdt = wallet.spotUsdt + (Cost - fee),
                           !.spotBase = wallet.spotBase + -hand.q]
    BY <1>5 DEF Traded
  <2>2. /\ wallet.spotBase + -hand.q = wallet.spotBase - hand.q
        /\ wallet.spotUsdt + (Cost - fee) \in Nat /\ wallet.spotBase - hand.q \in Nat
        /\ wallet.spotUsdt + (Cost - fee) + fee = wallet.spotUsdt + Cost
    BY <1>1, <1>2, <1>5 DEF SpotPays
  <2> QED BY <1>5, <2>1, <2>2 DEF Accounts
<1>6. CASE ~Buys /\ ~Standard
  <2>1. w = [wallet EXCEPT !.usdt = wallet.usdt + (Cost - fee), !.base = wallet.base + -hand.q]
    BY <1>6 DEF Traded
  <2>2. /\ wallet.base + -hand.q = wallet.base - hand.q
        /\ wallet.usdt + (Cost - fee) \in Nat /\ wallet.base - hand.q \in Nat
    BY <1>1, <1>2, <1>6 DEF SpotPays
  <2> QED BY <1>6, <2>1, <2>2 DEF Accounts
<1> QED BY <1>3, <1>4, <1>5, <1>6

\* What a perp leg moves.
LEMMA PositionedIs ==
  ASSUME NEW w \in Accounts, hand.q \in Nat, NEW v, v = Positioned(w)
  PROVE  /\ v \in Accounts /\ v.pos >= w.pos - hand.q
         /\ v.base = w.base /\ v.spotBase = w.spotBase /\ v.spotUsdt = w.spotUsdt
<1>1. w.pos \in Nat
  BY DEF Accounts
<1>2. PICK x \in Nat : v = [w EXCEPT !.pos = x] /\ x >= w.pos - hand.q
  <2>1. CASE Opens
    <3>1. v = [w EXCEPT !.pos = w.pos + hand.q]
      BY <2>1 DEF Positioned
    <3> QED BY <1>1, <3>1
  <2>2. CASE ~Opens
    <3>1. v = [w EXCEPT !.pos = w.pos - Min({w.pos, hand.q})]
      BY <2>2 DEF Positioned
    <3>2. Min({w.pos, hand.q}) = IF w.pos <= hand.q THEN w.pos ELSE hand.q
      BY <1>1, MinOfTwo
    <3>3. w.pos - Min({w.pos, hand.q}) \in Nat /\ w.pos - Min({w.pos, hand.q}) >= w.pos - hand.q
      BY <1>1, <3>2
    <3> QED BY <3>1, <3>3
  <2> QED BY <2>1, <2>2
<1> QED BY <1>1, <1>2 DEF Accounts

\* What a pair takes at most from what the rest of the plan counts on.
LEMMA PairMoves ==
  ASSUME wallet \in Accounts, hand.q \in Nat, Cost \in Nat,
         NEW spot \in BOOLEAN, NEW perp \in BOOLEAN, NEW fee,
         IF spot THEN SpotPays /\ fee \in Commissions ELSE fee = 0,
         NEW w, w = (IF spot THEN Traded(wallet, fee) ELSE wallet),
         NEW v, v = (IF perp THEN Positioned(w) ELSE w)
  PROVE  /\ v \in Accounts /\ v.pos >= wallet.pos - hand.q
         /\ ~Buys /\ Standard =>
              /\ v.spotBase >= wallet.spotBase - hand.q
              /\ v.spotUsdt + fee = wallet.spotUsdt + (IF spot THEN Cost ELSE 0)
         /\ ~Buys => v.base >= wallet.base - hand.q
         /\ Buys => v.spotUsdt >= wallet.spotUsdt - (IF Standard THEN Cost ELSE 0)
<1>1. /\ wallet.base \in Nat /\ wallet.pos \in Nat
      /\ wallet.spotUsdt \in Nat /\ wallet.spotBase \in Nat
  BY DEF Accounts
<1>2. /\ w \in Accounts /\ w.pos = wallet.pos
      /\ ~Buys /\ Standard =>
           /\ w.spotBase >= wallet.spotBase - hand.q
           /\ w.spotUsdt + fee = wallet.spotUsdt + (IF spot THEN Cost ELSE 0)
      /\ ~Buys => w.base >= wallet.base - hand.q
      /\ Buys => w.spotUsdt >= wallet.spotUsdt - (IF Standard THEN Cost ELSE 0)
  <2>1. CASE ~spot
    BY <1>1, <2>1
  <2>2. CASE spot
    <3>1. /\ w \in Accounts /\ w.pos = wallet.pos
          /\ Standard => w.base = wallet.base /\ w.usdt = wallet.usdt
          /\ ~Standard => w.spotBase = wallet.spotBase /\ w.spotUsdt = wallet.spotUsdt
          /\ Standard /\ Buys => w.spotUsdt = wallet.spotUsdt - Cost
          /\ Standard /\ ~Buys => /\ w.spotUsdt + fee = wallet.spotUsdt + Cost
                                  /\ w.spotBase = wallet.spotBase - hand.q
          /\ ~Standard /\ ~Buys => w.base = wallet.base - hand.q
      BY <2>2, TradedIs
    <3> HIDE DEF Standard, Buys
    <3>2. CASE Standard
      BY <1>1, <2>2, <3>1, <3>2
    <3>3. CASE ~Standard
      BY <1>1, <2>2, <3>1, <3>3
    <3> QED BY <3>2, <3>3
  <2> QED BY <2>1, <2>2
<1>3. /\ v \in Accounts /\ v.pos >= w.pos - hand.q
      /\ v.base = w.base /\ v.spotBase = w.spotBase /\ v.spotUsdt = w.spotUsdt
  <2>1. CASE perp
    BY <1>2, <2>1, PositionedIs
  <2>2. CASE ~perp
    <3>1. w.pos \in Nat
      BY <1>2 DEF Accounts
    <3> QED BY <1>2, <2>2, <3>1
  <2> QED BY <2>1, <2>2
<1> QED BY <1>2, <1>3

\* Everything a pair needs is there, and what it leaves covers the pairs to come.
LEMMA SendInv == Inv /\ Send => Inv'
<1> SUFFICES ASSUME Inv, Send PROVE Inv'
  OBVIOUS
<1>1. Typed /\ Paged /\ Truthful /\ Quantities /\ Flow /\ Funded /\ Returned
  BY DEF Inv
<1>2. /\ UNCHANGED <<plan, market, price, capped, transit, panel>>
      /\ step = "send" /\ step' = "idle" /\ hand' = NoHand
  BY DEF Send, Stay, Rest, Go
<1>3. CASE UNCHANGED <<wallet, pairs, task>>
  <2>1. UNCHANGED <<plan, market, world, panel, pairs>>
    BY <1>2, <1>3 DEF world
  <2> QED BY <1>2, <1>3, <2>1, SamePages, StopStep
<1>4. CASE ~UNCHANGED <<wallet, pairs, task>>
  <2>1. task.status = "running" /\ Sent < plan.n
    BY <1>4 DEF Send
  <2>2. PICK spot \in BOOLEAN, perp \in BOOLEAN, fee \in Commissions \cup {0} :
          /\ IF spot THEN SpotPays /\ fee \in Commissions ELSE fee = 0
          /\ LET w == IF spot THEN Traded(wallet, fee) ELSE wallet
             IN  wallet' = IF perp THEN Positioned(w) ELSE w
          /\ pairs' = Append(pairs, [q |-> hand.q, spot |-> spot, perp |-> perp,
                                     quote |-> IF spot THEN Cost ELSE 0, fee |-> fee])
          /\ \/ Set(IF Opens /\ Sent + 1 >= plan.n THEN "done" ELSE "running")
             \/ Set("paused")
    BY <2>1 DEF Send
  <2> DEFINE row == [q |-> hand.q, spot |-> spot, perp |-> perp,
                     quote |-> IF spot THEN Cost ELSE 0, fee |-> fee]
  <2>3. /\ Good(hand.q) /\ hand.q = Shared /\ Shared \in Nat /\ hand.q \in Nat
        /\ Closes => hand.route = Account /\ Enough(0)
        /\ Opens /\ hand.route = "regular_spot" => task.route = "regular_spot"
    BY <1>1, <1>2, SharedIsLargest DEF Quantities, Good, Flow, Funded, Prepared
  <2>4. /\ price \in Nat /\ Cost \in Nat /\ Cost = Shared * price
    BY <1>1, <2>3, Kinds DEF Cost
  <2>5. PICK k \in Nat : /\ plan.n - Sent = k + 1 /\ plan.n - (Sent + 1) = k
                         /\ Sent \in Nat /\ plan.n \in Nat
    <3>1. Sent \in Nat /\ plan.n \in Nat /\ plan.n - Sent - 1 \in Nat
      BY <1>1, <2>1, Kinds
    <3> QED BY <3>1
  <2>6. PICK d \in Nat : d = Shared * k /\ Shared * (k + 1) = d + Shared
    BY <2>3
  <2>7. /\ wallet' \in Accounts /\ wallet'.pos >= wallet.pos - hand.q
        /\ ~Buys /\ Standard =>
             /\ wallet'.spotBase >= wallet.spotBase - hand.q
             /\ wallet'.spotUsdt + fee = wallet.spotUsdt + (IF spot THEN Cost ELSE 0)
        /\ ~Buys => wallet'.base >= wallet.base - hand.q
        /\ Buys => wallet'.spotUsdt >= wallet.spotUsdt - (IF Standard THEN Cost ELSE 0)
    <3>1. wallet \in Accounts
      BY <1>1 DEF Typed
    <3> DEFINE w == IF spot THEN Traded(wallet, fee) ELSE wallet
    <3>2. wallet' = IF perp THEN Positioned(w) ELSE w
      BY <2>2
    <3>3. IF spot THEN SpotPays /\ fee \in Commissions ELSE fee = 0
      BY <2>2
    <3>4. w = IF spot THEN Traded(wallet, fee) ELSE wallet
      OBVIOUS
    <3> HIDE DEF Buys, Standard, Cost, row, w
    <3> QED BY <2>3, <2>4, <3>1, <3>2, <3>3, <3>4, PairMoves
  <2>8. /\ wallet.base \in Nat /\ wallet.pos \in Nat /\ transit.base \in Nat
        /\ wallet.spotUsdt \in Nat /\ wallet.spotBase \in Nat /\ transit.usdt \in Nat
        /\ wallet'.base \in Nat /\ wallet'.pos \in Nat
        /\ wallet'.spotUsdt \in Nat /\ wallet'.spotBase \in Nat
    BY <1>1, <2>7 DEF Typed, Accounts
  <2>9. /\ row \in PairRow /\ row.q = hand.q /\ row["fee"] = fee /\ fee \in Nat
        /\ row["quote"] = IF spot THEN Cost ELSE 0
    <3> HIDE DEF Cost
    <3>1. fee \in Nat
      BY FundsAssumption DEF Commissions
    <3> QED BY <2>3, <2>4, <3>1 DEF PairRow
  <2>10. /\ pairs' \in Seq(PairRow) /\ Len(pairs') = Len(pairs) + 1 /\ Sent' = Sent + 1
         /\ pairs'[Len(pairs) + 1] = row /\ \A i \in 1..Len(pairs) : pairs'[i] = pairs[i]
         /\ Len(pairs) \in Nat
    <3> HIDE DEF row
    <3>1. pairs' = Append(pairs, row) /\ pairs \in Seq(PairRow)
      BY <1>1, <2>2 DEF row, Typed
    <3> QED BY <2>9, <3>1, AppendProperties, LenProperties DEF Sent
  <2>11. /\ Proceeds(pairs') = Proceeds(pairs) + (IF spot THEN Cost ELSE 0)
         /\ Withheld' = Withheld + fee
    <3> HIDE DEF row
    <3>1. pairs' = Append(pairs, row) /\ pairs \in Seq(PairRow)
      BY <1>1, <2>2 DEF row, Typed
    <3>2. \A f \in Sums : SumOf(pairs', f) = SumOf(pairs, f) + row[f]
      BY <2>9, <3>1, SumAdds
    <3> QED BY <2>9, <3>2 DEF Proceeds, Withheld, Sums
  <2>12. /\ Shared' = Shared /\ \A q : Good(q)' <=> Good(q)
         /\ Opens' = Opens /\ Closes' = Closes /\ Forward' = Forward /\ Account' = Account
         /\ Opens <=> ~Closes
    BY <1>1, <1>2, StillGood, Kinds
  <2>13. /\ task' \in [status : Statuses, q : 0..plan.single, route : Routes, back : BOOLEAN]
         /\ task'.q = task.q /\ task'.route = task.route /\ task'.back = FALSE
         /\ task'.status \in {"done", "running", "paused"}
    <3>1. PICK s \in {"done", "running", "paused"} : task' = [task EXCEPT !.status = s]
      BY <2>2 DEF Set
    <3>2. ~task.back
      BY <1>1, <2>1 DEF Returned
    <3> QED BY <1>1, <3>1, <3>2 DEF Typed, Statuses
  <2>14. Typed'
    <3>1. Len(pairs') <= plan.n
      BY <2>1, <2>5, <2>10 DEF Sent
    <3> QED BY <1>1, <1>2, <2>7, <2>10, <2>13, <3>1 DEF Typed, NoHand, Routes, Steps
  <2>15. Paged' /\ Truthful'
    <3>1. Sent' # 0
      BY <2>5, <2>10
    <3> QED BY <1>1, <1>2, <3>1 DEF Paged, Page, Truthful
  <2>16. Quantities'
    <3>1. \A i \in 1..Len(pairs') : Good(pairs'[i].q)
      <4> SUFFICES ASSUME NEW i \in 1..Len(pairs') PROVE Good(pairs'[i].q)
        OBVIOUS
      <4>1. i \in 1..Len(pairs) \/ i = Len(pairs) + 1
        BY <2>10
      <4> HIDE DEF row
      <4> QED BY <1>1, <2>3, <2>9, <2>10, <4>1 DEF Quantities
    <3>2. task'.q # 0 => Good(task'.q)
      BY <1>1, <2>13 DEF Quantities
    <3> QED BY <1>2, <3>1, <3>2 DEF Quantities, Good, Shared, SpotStep, PerpStep
  <2>17. Flow'
    BY <1>1, <1>2, <2>1, <2>12, <2>13 DEF Flow
  <2>18. Funded'
    <3>1. Closes => Enough(0)'
      <4> SUFFICES ASSUME Closes PROVE Enough(0)'
        OBVIOUS
      <4>1. /\ wallet.pos >= d + Shared
            /\ Forward => wallet.spotBase + transit.base + 0 >= d + Shared
        BY <2>3, <2>5, <2>6 DEF Enough
      <4>2. wallet'.pos >= d
        BY <2>3, <2>7, <2>8, <4>1
      <4>3. ASSUME Forward PROVE wallet'.spotBase + transit.base + 0 >= d
        <5>1. ~Buys /\ Standard
          BY <2>3, <2>12, <4>3 DEF Buys, Standard, Account
        <5>2. wallet'.spotBase >= wallet.spotBase - Shared
          BY <2>3, <2>7, <5>1
        <5> QED BY <2>3, <2>8, <4>1, <4>3, <5>2
      <4>4. plan.n' - Sent' = k
        BY <1>2, <2>5, <2>10
      <4> QED BY <1>2, <2>6, <2>12, <4>2, <4>3, <4>4 DEF Enough
    <3>2. ASSUME Opens, ~Forward PROVE wallet'.base >= Shared * k
      <4>1. wallet.base >= d + Shared
        BY <1>1, <2>1, <2>5, <2>6, <3>2 DEF Funded
      <4>2. wallet'.base >= wallet.base - Shared
        BY <2>3, <2>7, <3>2 DEF Buys
      <4> QED BY <2>3, <2>6, <2>8, <4>1, <4>2
    <3>3. ASSUME Opens, task.route = "regular_spot", NEW p \in Prices
          PROVE  wallet'.spotUsdt + transit.usdt >= (Shared * k) * p
      <4>1. Forward /\ Buys
        BY <1>1, <3>3 DEF Flow, Buys
      <4>2. p \in Nat /\ price \in Prices
        BY <1>1, Kinds DEF Typed
      <4>3. PICK a \in Nat : a = wallet.spotUsdt + transit.usdt
        BY <2>8
      <4>4. a >= (Shared * (k + 1)) * price /\ a >= (Shared * (k + 1)) * p
        BY <1>1, <2>5, <3>3, <4>2, <4>3 DEF Funded
      <4>5. /\ Shared * price \in Nat /\ (Shared * k) * p \in Nat
            /\ a >= (Shared * k) * p + Shared * price
        BY <2>3, <2>4, <4>2, <4>4, RestIsPaid
      <4>6. PICK e \in Nat : e = (Shared * k) * p
        BY <4>5
      <4>7. wallet'.spotUsdt >= wallet.spotUsdt - Cost
        BY <2>4, <2>7, <2>8, <4>1
      <4>8. a >= e + Cost
        BY <2>4, <4>5, <4>6
      <4> HIDE DEF Cost
      <4> QED BY <2>4, <2>8, <4>3, <4>6, <4>7, <4>8
    <3>4. plan.n' - Sent' = k
      BY <1>2, <2>5, <2>10
    <3>5. Prices' = Prices
      OBVIOUS
    <3> QED BY <1>2, <2>12, <2>13, <3>1, <3>2, <3>3, <3>4 DEF Funded
  <2>19. Returned'
    <3>1. ASSUME Closes, Forward, NEW w \in Funds[plan]
          PROVE  wallet'.spotUsdt + Withheld' = w.spotUsdt + Proceeds(pairs')
      <4>1. ~Buys /\ Standard
        BY <2>3, <2>12, <3>1 DEF Buys, Standard, Account
      <4>2. wallet.spotUsdt + Withheld = w.spotUsdt + Proceeds(pairs)
        BY <1>1, <1>2, <3>1, <2>1 DEF Returned
      <4>3. PICK e \in Nat : e = IF spot THEN Cost ELSE 0
        BY <2>4
      <4>4. wallet'.spotUsdt + fee = wallet.spotUsdt + e
        BY <2>7, <4>1, <4>3
      <4>5. Proceeds(pairs) \in Nat /\ Withheld \in Nat /\ w.spotUsdt \in Nat
        BY <1>1, ProceedsTyped, WithheldTyped, FundsAssumption DEF Typed, Accounts
      <4> QED BY <2>8, <2>9, <2>11, <4>2, <4>3, <4>4, <4>5
    <3> QED BY <1>1, <1>2, <2>12, <2>13, <3>1 DEF Returned
  <2> QED BY <2>14, <2>15, <2>16, <2>17, <2>18, <2>19 DEF Inv
<1> QED BY <1>3, <1>4

-----------------------------------------------------------------------------
(* The theorems.                                                           *)

LEMMA NextInv == Inv /\ [Next]_vars => Inv'
<1> SUFFICES ASSUME Inv, [Next]_vars PROVE Inv'
  OBVIOUS
<1>1. CASE CreateClose \/ CreateOpen \/ Fund \/ Start \/ StartSmoothClose
  BY <1>1, CreateCloseInv, CreateOpenInv, FundInv, StartInv, StartSmoothCloseInv
<1>2. CASE PrepareTransfer("arm") \/ PrepareTransfer("gate")
  BY <1>2, PrepareTransferInv
<1>3. CASE Arm \/ RoundClose \/ RoundOpen \/ RoundSmooth \/ Leverage \/ Gate
  BY <1>3, ArmInv, RoundCloseInv, RoundOpenInv, RoundSmoothInv, LeverageInv, GateInv
<1>4. CASE Send \/ Finish \/ Back \/ Intervene \/ Restart \/ Land \/ MarketMoves
  BY <1>4, SendInv, FinishInv, BackInv, InterveneInv, RestartInv, LandInv, MarketMovesInv
<1>5. CASE \E page \in Pages : Refresh(page)
  BY <1>5, RefreshInv
<1>6. CASE UNCHANGED vars
  <2>1. UNCHANGED <<plan, market, world, panel, pairs>> /\ UNCHANGED <<task, step, hand>>
    BY <1>6 DEF vars
  <2> QED BY <2>1, SamePages, StopStep
<1> QED BY <1>1, <1>2, <1>3, <1>4, <1>5, <1>6 DEF Next

\* For any task, markets, purses and prices the invariant holds: what is there, or on its
\* way, always covers what is left of the plan.
THEOREM FundsInvariant == Spec => []Inv
BY InitInv, NextInv, PTL DEF Spec

\* Only Send appends a pair.
LEMMA OnlySendSends ==
  ASSUME [Next]_vars, ~Send
  PROVE  pairs' = pairs
<1>1. CASE CreateClose \/ CreateOpen \/ Fund \/ Start \/ Arm \/ RoundOpen \/ RoundSmooth
  BY <1>1 DEF CreateClose, CreateOpen, Fund, Start, Arm, RoundOpen, RoundSmooth
<1>2. CASE \/ StartSmoothClose \/ RoundClose
           \/ PrepareTransfer("arm") \/ PrepareTransfer("gate")
  BY <1>2 DEF StartSmoothClose, RoundClose, Prepare, PrepareTransfer
<1>3. CASE \/ Leverage \/ Gate \/ Finish \/ Back \/ Intervene \/ Restart
           \/ Land \/ MarketMoves \/ \E page \in Pages : Refresh(page)
  BY <1>3 DEF Leverage, Gate, Finish, Back, Intervene, Restart, Land, MarketMoves, Refresh
<1>4. CASE UNCHANGED vars
  BY <1>4 DEF vars
<1> QED BY <1>1, <1>2, <1>3, <1>4 DEF Next

\* No pair is sent with nothing behind it, whatever page was old, whichever transfer
\* failed or came late (create_task, _run_close_preparation, the route guard).
LEMMA SentIsCovered ==
  ASSUME Inv, Send, Len(pairs') > Len(pairs)
  PROVE  Covered
<1>1. Typed /\ Quantities /\ Flow /\ Funded
  BY DEF Inv
<1>2. step = "send" /\ Sent < plan.n /\ task.status = "running"
  <2>1. CASE pairs' = pairs
    <3>1. Len(pairs) \in Nat
      BY <1>1, LenProperties DEF Typed
    <3> QED BY <2>1, <3>1
  <2> QED BY <2>1 DEF Send
<1>3. /\ hand.q = Shared /\ Shared \in Nat
      /\ Closes => hand.route = Account /\ Enough(0)
      /\ Opens /\ hand.route = "regular_spot" => task.route = "regular_spot"
  BY <1>1, <1>2, SharedIsLargest DEF Quantities, Good, Flow, Funded, Prepared
<1>4. /\ price \in Prices /\ price \in Nat /\ Sent \in Nat /\ plan.n \in Nat
      /\ plan.n - Sent \in Nat /\ plan.n - Sent >= 1
  BY <1>1, <1>2, Kinds DEF Typed
<1>5. PICK d \in Nat : d = Shared * (plan.n - Sent) /\ d >= Shared
  <2>1. Shared * 1 <= Shared * (plan.n - Sent)
    BY <1>3, <1>4, Times
  <2> QED BY <1>3, <1>4, <2>1
<1>6. /\ wallet.base \in Nat /\ wallet.pos \in Nat /\ transit.base \in Nat
      /\ wallet.spotUsdt \in Nat /\ wallet.spotBase \in Nat /\ transit.usdt \in Nat
  BY <1>1 DEF Typed, Accounts
<1>7. ASSUME Opens, Forward, Standard PROVE wallet.spotUsdt + transit.usdt >= Cost
  <2>1. wallet.spotUsdt + transit.usdt >= d * price
    BY <1>1, <1>3, <1>4, <1>5, <1>7 DEF Funded, Standard
  <2>2. price * Shared <= price * d
    BY <1>3, <1>4, <1>5, Times
  <2>3. price * Shared = Cost /\ price * d = d * price /\ Cost \in Nat /\ d * price \in Nat
    BY <1>3, <1>4 DEF Cost
  <2> HIDE DEF Cost
  <2>4. PICK e \in Nat : e = d * price
    BY <2>3
  <2> QED BY <1>6, <2>1, <2>2, <2>3, <2>4
<1>8. ASSUME Opens, ~Forward PROVE wallet.base >= hand.q
  <2>1. wallet.base >= d
    BY <1>1, <1>2, <1>5, <1>8 DEF Funded
  <2> QED BY <1>3, <1>5, <1>6, <2>1
<1>9. ASSUME Closes
      PROVE  wallet.pos >= hand.q /\ (Forward => wallet.spotBase + transit.base >= hand.q)
  <2>1. wallet.pos >= d /\ (Forward => wallet.spotBase + transit.base + 0 >= d)
    BY <1>3, <1>5, <1>9 DEF Enough
  <2> QED BY <1>3, <1>5, <1>6, <2>1
<1> QED BY <1>7, <1>8, <1>9 DEF Covered

THEOREM PairsAreCovered == Spec => PairIsCovered
<1>1. Inv /\ [Next]_vars => [Len(pairs') > Len(pairs) => Covered]_vars
  <2> SUFFICES ASSUME Inv, [Next]_vars, Len(pairs') > Len(pairs) PROVE Covered
    OBVIOUS
  <2>1. CASE Send
    BY <2>1, SentIsCovered
  <2>2. CASE ~Send
    <3>1. pairs' = pairs /\ Len(pairs) \in Nat
      BY <2>2, OnlySendSends, LenProperties DEF Inv, Typed
    <3> QED BY <3>1
  <2> QED BY <2>1, <2>2
<1> QED BY <1>1, FundsInvariant, PTL DEF Spec, PairIsCovered

\* Both legs of every pair trade the largest quantity that the steps of both markets
\* allow, within the bounds of both (compute_preflight).
THEOREM QuantitiesFit == Spec => []QuantityFits
<1>1. Inv => QuantityFits
  <2> SUFFICES ASSUME Inv PROVE QuantityFits
    OBVIOUS
  <2>1. Typed /\ Quantities
    BY DEF Inv
  <2>2. TypeOK
    <3>1. Sent <= plan.n
      BY <2>1 DEF Typed, Sent
    <3>2. \A amount \in {wallet.usdt, wallet.base, wallet.spotUsdt, wallet.spotBase,
                         wallet.pos, transit.usdt, transit.base} : amount \in Nat
      BY <2>1 DEF Typed, Accounts
    <3>3. step \in {"idle", "fund", "arm", "armTransfer", "gate", "gateTransfer",
                    "leverage", "send", "back"}
      BY <2>1 DEF Typed, Steps
    <3> QED BY <2>1, <3>1, <3>2, <3>3 DEF Typed, TypeOK, Routes
  <2>3. DOMAIN pairs = 1..Len(pairs)
    BY <2>1, LenProperties DEF Typed
  <2>4. ASSUME NEW i \in DOMAIN pairs
        PROVE  /\ pairs[i].q = Largest /\ Largest > 0
               /\ \A f \in {market.spot, market.perp} : LegFault(Largest, f) = "none"
    <3>1. Good(pairs[i].q)
      BY <2>1, <2>3 DEF Quantities
    <3>2. pairs[i].q = Largest
      BY <2>1, <3>1, SharedIsLargest DEF Good
    <3> QED BY <3>1, <3>2 DEF Good
  <2> QED BY <2>2, <2>4 DEF QuantityFits
<1> QED BY <1>1, FundsInvariant, PTL

\* When the proceeds of a finished close went back, all it earned is gone from the standard
\* account, and with the gross sum the commission too (close_task_spot_quote_total,
\* _transfer_back_usdt).
THEOREM ProceedsComeBack == Spec => []ProceedsReturn
<1>1. Inv => ProceedsReturn
  <2> SUFFICES ASSUME Inv, task.back, NEW w \in Funds[plan]
               PROVE  w.spotUsdt = wallet.spotUsdt + Withheld
    BY DEF ProceedsReturn
  <2>1. w.spotUsdt \in Nat
    BY FundsAssumption DEF Inv, Typed, Accounts
  <2>2. wallet.spotUsdt + Withheld = w.spotUsdt + 0
    BY DEF Inv, Returned
  <2> QED BY <2>1, <2>2
<1> QED BY <1>1, FundsInvariant, PTL
=============================================================================
