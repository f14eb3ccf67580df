-------------------------- MODULE ValuePath_proofs --------------------------
(***************************************************************************)
(* The way of a value, proved for words of every width, every quirk and    *)
(* every value: the arithmetic of the conversions (powers of ten, the      *)
(* digits of a number, timestamps, 128 bit integers, GUIDs, texts of       *)
(* numbers), what each operator of ScannerValues and ColumnTypes can give, *)
(* the inductive invariant of ValuePath and the properties it implies.     *)
(* Induction over numbers is by the least number of a set.                 *)
(***************************************************************************)
EXTENDS ValuePath, WellFoundedInduction, TLAPS

(* Every set of numbers that is not empty has a least one ...               *)
LEMMA LeastNumber ==
  ASSUME NEW T, T \subseteq Nat, T # {}
  PROVE  \E x \in T : \A y \in T : x <= y
<1> DEFINE R == OpToRel(<, Nat)
<1>1. IsWellFoundedOn(R, Nat)
  BY NatLessThanWellFounded, Zenon
<1>2. R = {p \in Nat \X Nat : p[1] < p[2]}
  BY Zenon DEF OpToRel
<1> HIDE DEF R
<1>3. PICK x \in T : \A y \in T : ~ (<<y, x>> \in R)
  BY <1>1, WFMin, Zenon
<1>4. ASSUME NEW y \in T PROVE x <= y
  <2>1. x \in Nat /\ y \in Nat
    OBVIOUS
  <2>2. y < x => <<y, x>> \in R
    BY <1>2, <2>1, SMT
  <2> QED
    BY <1>3, <2>1, <2>2
<1> QED
  BY <1>4

(* ... and so a set that has zero, and with each number the next, has all.  *)
LEMMA Induction ==
  ASSUME NEW G, 0 \in G, \A n \in Nat : n \in G => n + 1 \in G
  PROVE  Nat \subseteq G
<1> SUFFICES ASSUME Nat \ G # {} PROVE FALSE
  OBVIOUS
<1>1. PICK x \in Nat \ G : \A y \in Nat \ G : x <= y
  BY LeastNumber
<1>2. x # 0 /\ x - 1 \in Nat
  BY <1>1
<1>3. x - 1 \in G
  BY <1>1, <1>2
<1>4. (x - 1) + 1 \in G
  BY <1>2, <1>3
<1> QED
  BY <1>1, <1>4

-----------------------------------------------------------------------------
(* The recursion of Power has a solution, found step by step.               *)
LEMMA PowerRecursion ==
  ASSUME NEW b
  PROVE  \E f : f = [i \in Nat |-> IF i = 0 THEN 1 ELSE b * f[i - 1]]
<1> DEFINE Up(n, g) == g = [i \in 0 .. n |-> IF i = 0 THEN 1 ELSE b * g[i - 1]]
           G == {n \in Nat : \E g : Up(n, g)}
<1>1. 0 \in G
  <2>1. Up(0, [i \in 0 .. 0 |-> 1])
    OBVIOUS
  <2> QED
    BY <2>1
<1>2. ASSUME NEW n \in Nat, n \in G PROVE n + 1 \in G
  <2>1. PICK g : Up(n, g)
    BY <1>2
  <2> DEFINE h == [i \in 0 .. n + 1 |-> IF i = n + 1 THEN b * g[n] ELSE g[i]]
  <2>2. ASSUME NEW i \in 0 .. n + 1 PROVE h[i] = IF i = 0 THEN 1 ELSE b * h[i - 1]
    BY <2>1
  <2>3. Up(n + 1, h)
    BY <2>2
  <2> HIDE DEF h, Up
  <2> QED
    BY <2>3
<1>3. Nat \subseteq G
  <2> HIDE DEF G
  <2> QED
    BY <1>1, <1>2, Induction
<1>4. ASSUME NEW g, NEW h, NEW m \in Nat, NEW n \in Nat, m <= n, Up(m, g), Up(n, h)
      PROVE  g[m] = h[m]
  <2> DEFINE E == {k \in Nat : k <= m => g[k] = h[k]}
  <2>1. 0 \in E
    BY <1>4
  <2>2. ASSUME NEW k \in Nat, k \in E PROVE k + 1 \in E
    <3>1. k + 1 <= m => g[k + 1] = b * g[k] /\ h[k + 1] = b * h[k]
      BY <1>4
    <3> QED
      BY <2>2, <3>1
  <2>3. Nat \subseteq E
    <3> HIDE DEF E
    <3> QED
      BY <2>1, <2>2, Induction
  <2> QED
    BY <2>3
<1> DEFINE c == [n \in Nat |-> CHOOSE g : Up(n, g)]
           f == [n \in Nat |-> c[n][n]]
<1>5. \A n \in Nat : Up(n, c[n])
  BY <1>3
<1>6. ASSUME NEW n \in Nat PROVE f[n] = IF n = 0 THEN 1 ELSE b * f[n - 1]
  <2>1. Up(n, c[n])
    BY <1>5
  <2>2. f[n] = c[n][n] /\ (n # 0 => f[n - 1] = c[n - 1][n - 1])
    OBVIOUS
  <2> HIDE DEF c, f
  <2>3. n \in 0 .. n /\ c[n][n] = IF n = 0 THEN 1 ELSE b * c[n][n - 1]
    BY <2>1
  <2>4. CASE n # 0
    <3>1. n - 1 \in Nat /\ n - 1 <= n
      BY <2>4
    <3> HIDE DEF Up
    <3>2. Up(n - 1, c[n - 1])
      BY <1>5, <3>1
    <3>3. c[n - 1][n - 1] = c[n][n - 1]
      BY <1>4, <2>1, <3>1, <3>2
    <3> QED
      BY <2>2, <2>3, <2>4, <3>3
  <2> QED
    BY <2>2, <2>3, <2>4
<1>7. f = [i \in Nat |-> IF i = 0 THEN 1 ELSE b * f[i - 1]]
  BY <1>6
<1> QED
  BY <1>7

(* Power is the recursion it is written as.                                 *)
LEMMA PowerStep ==
  ASSUME NEW b
  PROVE  /\ Power(b, 0) = 1
         /\ \A k \in Nat : Power(b, k + 1) = b * Power(b, k)
<1> DEFINE P(f) == f = [i \in Nat |-> IF i = 0 THEN 1 ELSE b * f[i - 1]]
           f == CHOOSE f : P(f)
<1>1. P(f)
  BY PowerRecursion
<1>2. \A k \in Nat : Power(b, k) = f[k]
  BY DEF Power
<1> HIDE DEF f
<1>3. f[0] = 1 /\ \A k \in Nat : f[k + 1] = b * f[k]
  BY <1>1
<1> QED
  BY <1>2, <1>3

(* A recursion over 0 .. n with values in V has a solution.                 *)
Recursion(f, V, c, n, step) ==
  /\ f \in [0 .. n -> V]
  /\ f = [i \in 0 .. n |-> IF i = 0 THEN c ELSE step[i][f[i - 1]]]

(* ... found step by step: the loops over the bytes and the digits end.     *)
LEMMA FiniteRecursion ==
  ASSUME NEW V, NEW c \in V, NEW n \in Nat, NEW step \in [1 .. n -> [V -> V]]
  PROVE  \E f : Recursion(f, V, c, n, step)
<1> DEFINE Up(m, g) ==
             g = [i \in 0 .. m |-> IF i = 0 THEN c ELSE step[i][g[i - 1]]]
           G == {m \in Nat : m <= n => \E g \in [0 .. m -> V] : Up(m, g)}
<1>1. 0 \in G
  <2>1. Up(0, [i \in 0 .. 0 |-> c]) /\ [i \in 0 .. 0 |-> c] \in [0 .. 0 -> V]
    OBVIOUS
  <2> HIDE DEF Up
  <2> QED
    BY <2>1
<1>2. ASSUME NEW m \in Nat, m \in G PROVE m + 1 \in G
  <2> SUFFICES ASSUME m + 1 <= n PROVE \E h \in [0 .. m + 1 -> V] : Up(m + 1, h)
    OBVIOUS
  <2>1. PICK g \in [0 .. m -> V] : Up(m, g)
    BY <1>2
  <2> DEFINE h == [i \in 0 .. m + 1 |-> IF i = m + 1 THEN step[i][g[m]] ELSE g[i]]
  <2>2. g[m] \in V /\ step[m + 1] \in [V -> V]
    OBVIOUS
  <2>3. h \in [0 .. m + 1 -> V]
    BY <2>2
  <2>4. ASSUME NEW i \in 0 .. m + 1
        PROVE  h[i] = IF i = 0 THEN c ELSE step[i][h[i - 1]]
    <3>1. CASE i = m + 1
      BY <3>1
    <3>2. CASE i # m + 1
      <4>1. i \in 0 .. m /\ g[i] = IF i = 0 THEN c ELSE step[i][g[i - 1]]
        BY <2>1, <3>2
      <4> QED
        BY <3>2, <4>1
    <3> QED
      BY <3>1, <3>2
  <2>5. Up(m + 1, h)
    BY <2>4
  <2> HIDE DEF h, Up
  <2> QED
    BY <2>3, <2>5
<1>3. n \in G
  <2> HIDE DEF G
  <2> QED
    BY <1>1, <1>2, Induction
<1> QED
  BY <1>3 DEF Recursion

-----------------------------------------------------------------------------
(* A power of a positive number is a positive number.                       *)
LEMMA PowerType ==
  ASSUME NEW b \in Nat, b > 0, NEW k \in Nat
  PROVE  Power(b, k) \in Nat /\ Power(b, k) > 0
<1> DEFINE G == {j \in Nat : Power(b, j) \in Nat /\ Power(b, j) > 0}
<1>1. 0 \in G
  BY PowerStep
<1>2. ASSUME NEW j \in Nat, j \in G PROVE j + 1 \in G
  <2> DEFINE p == Power(b, j)
  <2>1. Power(b, j + 1) = b * p /\ p \in Nat /\ p > 0
    BY <1>2, PowerStep
  <2> HIDE DEF p
  <2>2. b * p \in Nat /\ b * p > 0
    BY <2>1
  <2> QED
    BY <2>1, <2>2
<1> HIDE DEF G
<1>3. k \in G
  BY <1>1, <1>2, Induction
<1> QED
  BY <1>3 DEF G

(* Powers of one base multiply by adding their exponents, and grow.         *)
LEMMA PowerSum ==
  ASSUME NEW b \in Nat, b > 0, NEW j \in Nat, NEW k \in Nat
  PROVE  Power(b, j + k) = Power(b, j) * Power(b, k)
<1> DEFINE G == {i \in Nat : Power(b, j + i) = Power(b, j) * Power(b, i)}
<1>1. 0 \in G
  BY PowerStep, PowerType
<1>2. ASSUME NEW i \in Nat, i \in G PROVE i + 1 \in G
  <2> DEFINE p == Power(b, i)
             q == Power(b, j)
  <2>1. p \in Nat /\ q \in Nat /\ Power(b, j + i) = q * p
    BY <1>2, PowerType
  <2>2. Power(b, i + 1) = b * p /\ Power(b, (j + i) + 1) = b * Power(b, j + i)
    BY PowerStep
  <2>3. j + (i + 1) = (j + i) + 1
    OBVIOUS
  <2>4. Power(b, j + (i + 1)) = b * (q * p)
    BY <2>1, <2>2, <2>3
  <2> HIDE DEF p, q
  <2>5. b * (q * p) = q * (b * p)
    BY <2>1
  <2>6. Power(b, j + (i + 1)) = q * Power(b, i + 1)
    BY <2>2, <2>4, <2>5
  <2> QED
    BY <2>6 DEF q
<1> HIDE DEF G
<1>3. k \in G
  BY <1>1, <1>2, Induction
<1> QED
  BY <1>3 DEF G

(* A larger exponent gives no smaller power.                                *)
LEMMA PowerMonotonic ==
  ASSUME NEW b \in Nat, b > 0, NEW j \in Nat, NEW k \in Nat, j <= k
  PROVE  Power(b, j) <= Power(b, k)
<1>1. k - j \in Nat /\ j + (k - j) = k
  OBVIOUS
<1> DEFINE p == Power(b, j)
           q == Power(b, k - j)
<1>2. Power(b, k) = p * q
  BY <1>1, PowerSum
<1>3. p \in Nat /\ q \in Nat /\ q > 0
  BY <1>1, PowerType
<1> HIDE DEF p, q
<1>4. p <= p * q
  BY <1>3
<1> QED
  BY <1>2, <1>4 DEF p

(* The digits of a number: the power of ten it has just reached.            *)
LEMMA PowerBracket ==
  ASSUME NEW n \in Nat, n > 0, NEW m \in Nat, n < Power10(m)
  PROVE  \E k \in 1 .. m : Power10(k - 1) <= n /\ n < Power10(k)
<1> DEFINE T == {k \in Nat : n < Power10(k)}
<1>1. PICK k \in T : \A j \in T : k <= j
  BY LeastNumber
<1>2. k \in Nat /\ n < Power10(k) /\ k <= m
  BY <1>1
<1>3. k # 0
  BY <1>2, PowerStep DEF Power10
<1>4. k - 1 \in Nat /\ k - 1 \notin T
  BY <1>1, <1>2, <1>3
<1>5. Power10(k - 1) \in Nat
  BY <1>4, PowerType DEF Power10
<1>6. Power10(k - 1) <= n
  BY <1>4, <1>5
<1> QED
  BY <1>2, <1>3, <1>6

-----------------------------------------------------------------------------
(* A number is its quotient, times the divisor, and its remainder.          *)
LEMMA Division ==
  ASSUME NEW n \in Int, NEW d \in Nat, d > 0
  PROVE  /\ n = d * (n \div d) + (n % d)
         /\ n \div d \in Int
         /\ n % d \in Nat /\ n % d < d
OBVIOUS

(* There is one such quotient and one such remainder.                       *)
LEMMA Quotients ==
  ASSUME NEW d \in Nat, d > 0, NEW q \in Int, NEW r \in Nat, r < d
  PROVE  (d * q + r) \div d = q /\ (d * q + r) % d = r
OBVIOUS

(* Dividing twice is dividing by the product.                               *)
LEMMA DivideTwice ==
  ASSUME NEW n \in Int, NEW c \in Nat, c > 0, NEW d \in Nat, d > 0
  PROVE  /\ n \div (c * d) = (n \div d) \div c
         /\ n % (c * d) = d * ((n \div d) % c) + (n % d)
<1> DEFINE q == n \div d
           r == n % d
           s == q \div c
           t == q % c
<1>1. n = d * q + r /\ q \in Int /\ r \in Nat /\ r < d
  BY Division
<1>2. q = c * s + t /\ s \in Int /\ t \in Nat /\ t < c
  <2> HIDE DEF q
  <2> QED
    BY <1>1, Division
<1> HIDE DEF q, r, s, t
<1>3. n = (c * d) * s + (d * t + r)
  BY <1>1, <1>2
<1>4. d * t + r \in Nat /\ d * t + r < c * d
  <2>1. d * t + d <= d * c
    BY <1>2
  <2> QED
    BY <1>1, <1>2, <2>1
<1>5. c * d \in Nat /\ c * d > 0
  OBVIOUS
<1>6. n \div (c * d) = s /\ n % (c * d) = d * t + r
  BY <1>2, <1>3, <1>4, <1>5, Quotients
<1> QED
  BY <1>6 DEF s, t, q, r

(* The power Pow finds through the square of its half is the power that     *)
(* multiplies step by step.                                                 *)
THEOREM PowerBySquares ==
  ASSUME NEW b \in Nat, b > 0, NEW k \in Nat
  PROVE  Pow(b, k) = Power(b, k)
<1> DEFINE Halved(f, q) == IF q = 0 THEN 1
                           ELSE IF q = 1 THEN b
                           ELSE IF q % 2 = 0 THEN f[q \div 2] * f[q \div 2]
                           ELSE b * f[q \div 2] * f[q \div 2]
           P(f) == f = [q \in Nat |-> Halved(f, q)]
           g == [q \in Nat |-> Power(b, q)]
           f == CHOOSE h : P(h)
<1>1. ASSUME NEW q \in Nat, q > 1
      PROVE  /\ q \div 2 \in Nat /\ q \div 2 < q
             /\ q % 2 \in {0, 1}
             /\ q = (q \div 2) + (q \div 2) + (q % 2)
  <2>1. q = 2 * (q \div 2) + (q % 2) /\ q \div 2 \in Int /\ q % 2 \in Nat /\ q % 2 < 2
    BY Division
  <2> QED
    BY <1>1, <2>1
<1>2. ASSUME NEW q \in Nat PROVE Power(b, q) = Halved(g, q)
  <2>1. CASE q = 0
    BY <2>1, PowerStep
  <2>2. CASE q = 1
    <3>1. Power(b, 0) = 1 /\ Power(b, 0 + 1) = b * Power(b, 0)
      BY PowerStep
    <3> QED
      BY <2>2, <3>1
  <2>3. CASE q > 1
    <3> DEFINE h == q \div 2
               p == Power(b, h)
    <3>1. h \in Nat /\ q % 2 \in {0, 1} /\ q = h + h + (q % 2)
      BY <1>1, <2>3
    <3> HIDE DEF h
    <3>2. p \in Nat /\ Power(b, h + h) = p * p /\ Power(b, (h + h) + 1) = b * (p * p)
      BY <3>1, PowerType, PowerSum, PowerStep
    <3>3. g[h] = p
      BY <3>1
    <3>4. Halved(g, q) = IF q % 2 = 0 THEN g[h] * g[h] ELSE b * g[h] * g[h]
      <4> HIDE DEF g
      <4> QED
        BY <2>3, <3>1 DEF h
    <3> HIDE DEF p, g, Halved
    <3>5. b * p * p = b * (p * p)
      BY <3>2
    <3>6. CASE q % 2 = 0
      BY <3>1, <3>2, <3>3, <3>4, <3>6
    <3>7. CASE q % 2 = 1
      BY <3>1, <3>2, <3>3, <3>4, <3>5, <3>7
    <3> QED
      BY <3>1, <3>6, <3>7
  <2> QED
    BY <2>1, <2>2, <2>3
<1>3. P(g)
  <2> HIDE DEF Halved
  <2> QED
    BY <1>2
<1>4. P(f)
  <2> HIDE DEF P
  <2> QED
    BY <1>3
<1>5. \A q \in Nat : f[q] = Halved(f, q) /\ g[q] = Halved(g, q)
  <2> HIDE DEF Halved, f, g
  <2> QED
    BY <1>3, <1>4
<1>6. ASSUME NEW q \in Nat PROVE f[q] = g[q]
  <2> HIDE DEF f, g
  <2> DEFINE T == {i \in Nat : f[i] # g[i]}
  <2> SUFFICES ASSUME T # {} PROVE FALSE
    OBVIOUS
  <2>1. PICK i \in T : \A j \in T : i <= j
    <3> T \subseteq Nat
      OBVIOUS
    <3> HIDE DEF T
    <3> QED
      BY LeastNumber
  <2>2. i > 1 => f[i \div 2] = g[i \div 2]
    BY <1>1, <2>1
  <2>3. Halved(f, i) = Halved(g, i)
    <3> DEFINE h == i \div 2
    <3> HIDE DEF h
    <3>1. CASE i = 0 \/ i = 1
      BY <2>1, <3>1
    <3>2. CASE i > 1
      BY <2>2, <3>2
    <3> QED
      BY <2>1, <3>1, <3>2
  <2> HIDE DEF Halved
  <2> QED
    BY <1>5, <2>1, <2>3
<1>7. Pow(b, k) = f[k]
  BY DEF Pow
<1> HIDE DEF f
<1> QED
  BY <1>6, <1>7

(* A second is that many microseconds, and a microsecond that many          *)
(* nanoseconds.                                                             *)
LEMMA Units ==
  /\ NanosPerMicro \in Nat /\ NanosPerMicro > 0
  /\ MicrosPerSecond \in Nat /\ MicrosPerSecond > 0
  /\ NanosPerSecond \in Nat /\ NanosPerSecond > 0
  /\ NanosPerSecond = MicrosPerSecond * NanosPerMicro
<1>1. MicroDigits \in Nat /\ NanoDigits - MicroDigits \in Nat /\ NanoDigits \in Nat
  BY TemporalAssumption
<1>2. MicroDigits + (NanoDigits - MicroDigits) = NanoDigits
  BY <1>1
<1>3. Power10(NanoDigits) = Power10(MicroDigits) * Power10(NanoDigits - MicroDigits)
  BY <1>1, <1>2, PowerSum DEF Power10
<1> QED
  BY <1>1, <1>3, PowerType DEF Power10, NanosPerMicro, MicrosPerSecond, NanosPerSecond

(* A time is its whole seconds and its fraction, whatever its sign.         *)
LEMMA SecondsAndFraction ==
  ASSUME NEW m \in Int
  PROVE  /\ m \div MicrosPerSecond \in Int
         /\ (m % MicrosPerSecond) * NanosPerMicro \in Nat
         /\ (m % MicrosPerSecond) * NanosPerMicro < NanosPerSecond
         /\ m * NanosPerMicro = (m \div MicrosPerSecond) * NanosPerSecond
                                + ((m % MicrosPerSecond) * NanosPerMicro)
<1> DEFINE d == MicrosPerSecond
           c == NanosPerMicro
           q == m \div d
           r == m % d
<1>1. d \in Nat /\ d > 0 /\ c \in Nat /\ c > 0 /\ NanosPerSecond = d * c
  BY Units
<1> HIDE DEF c, d
<1>2. m = d * q + r /\ q \in Int /\ r \in Nat /\ r < d
  BY <1>1, Division
<1> HIDE DEF q, r
<1>3. m * c = q * (d * c) + (r * c)
  BY <1>1, <1>2
<1>4. r * c \in Nat /\ r * c < d * c
  BY <1>1, <1>2
<1> QED
  BY <1>1, <1>2, <1>3, <1>4 DEF q, r, c, d

(* A fraction of a second has at most nine digits.                          *)
LEMMA CountOfDigits ==
  ASSUME NEW n \in Nat, n < NanosPerSecond
  PROVE  DigitsCount(n) \in 0 .. NanoDigits
<1>1. Abs(n) = n
  BY DEF Abs
<1>2. CASE n = 0
  BY <1>2, TemporalAssumption DEF DigitsCount
<1>3. CASE n # 0
  <2> DEFINE P(k) == Power10(k - 1) <= n /\ n < Power10(k)
             k == CHOOSE k \in 1 .. NanoDigits + 1 : P(k)
  <2>1. NanoDigits \in Nat
    BY TemporalAssumption
  <2>2. \E j \in 1 .. NanoDigits : P(j)
    BY <1>3, <2>1, PowerBracket DEF NanosPerSecond
  <2>3. k \in 1 .. NanoDigits + 1 /\ P(k)
    <3> HIDE DEF P
    <3> QED
      BY <2>1, <2>2
  <2>4. DigitsCount(n) = k
    BY <1>1, <1>3 DEF DigitsCount
  <2> HIDE DEF k
  <2>5. k # NanoDigits + 1
    <3>1. k = NanoDigits + 1 => NanosPerSecond <= n
      BY <2>1, <2>3 DEF NanosPerSecond
    <3> QED
      BY <3>1, Units
  <2> QED
    BY <2>1, <2>3, <2>4, <2>5
<1> QED
  BY <1>2, <1>3

(* Rounding to a precision loses less than a unit of its last digit.        *)
LEMMA RoundingLoss ==
  ASSUME NEW precision \in Int, precision <= NanoDigits,
         NEW n \in Nat, n < NanosPerSecond
  PROVE  /\ RoundTimestampNanoFraction(precision, n) \in Nat
         /\ n - RoundTimestampNanoFraction(precision, n)
              \in 0 .. Power10(NanoDigits - precision) - 1
<1> DEFINE c == DigitsCount(n)
           u == Power10(NanoDigits - precision)
<1>1. c \in 0 .. NanoDigits /\ NanoDigits \in Nat
  BY CountOfDigits, TemporalAssumption
<1>2. u \in Nat /\ u > 0
  BY <1>1, PowerType DEF Power10
<1> HIDE DEF c
<1>3. CASE c <= precision
  BY <1>2, <1>3 DEF RoundTimestampNanoFraction, c
<1>4. CASE ~(c <= precision)
  <2> DEFINE p == Power10(c - precision)
  <2>1. c - precision \in Nat /\ NanoDigits - precision \in Nat
        /\ c - precision <= NanoDigits - precision
    BY <1>1, <1>4
  <2>2. p \in Nat /\ p > 0 /\ p <= u
    BY <2>1, PowerType, PowerMonotonic DEF Power10
  <2>3. RoundTimestampNanoFraction(precision, n) = n - Remainder(n, p)
    <3>1. Pow(10, c - precision) = p
      BY <2>1, PowerBySquares DEF Power10
    <3> QED
      BY <1>4, <3>1 DEF RoundTimestampNanoFraction, c
  <2> HIDE DEF p, u
  <2>4. Remainder(n, p) = n - p * (n \div p)
    BY DEF Remainder, Quotient
  <2>5. n = p * (n \div p) + (n % p) /\ n \div p \in Int /\ n % p \in Nat /\ n % p < p
    BY <2>2, Division
  <2>6. n \div p \in Nat /\ p * (n \div p) \in Nat
    BY <2>2, <2>5
  <2> QED
    BY <1>2, <2>2, <2>3, <2>4, <2>5, <2>6 DEF u
<1> QED
  BY <1>3, <1>4

(* What SQL_TIMESTAMP_STRUCT loses of a moment with a fraction of at most   *)
(* nine digits is less than one unit of the last digit it keeps.            *)
LEMMA StructOf ==
  ASSUME NEW precision \in Int, precision <= NanoDigits, NEW second \in Int,
         NEW n \in Nat, n < NanosPerSecond
  PROVE  (second * NanosPerSecond + n) - StructNanos(TimestampStruct(precision, second, n))
           \in 0 .. Power10(NanoDigits - precision) - 1
<1> DEFINE r == RoundTimestampNanoFraction(precision, n)
<1>1. r \in Nat /\ n - r \in 0 .. Power10(NanoDigits - precision) - 1
  BY RoundingLoss
<1>2. r < UInt /\ UInt \in Nat
  BY <1>1, Units, FractionAssumption, TemporalAssumption
<1>3. StructNanos(TimestampStruct(precision, second, n)) = second * NanosPerSecond + (r % UInt)
  BY DEF StructNanos, TimestampStruct, Struct
<1> HIDE DEF r
<1>4. r % UInt = r
  BY <1>1, <1>2
<1>5. second * NanosPerSecond \in Int
  BY Units
<1>6. (second * NanosPerSecond + n) - (second * NanosPerSecond + r) = n - r
  BY <1>1, <1>5
<1> QED
  BY <1>1, <1>3, <1>4, <1>6

(* A timestamp in microseconds loses only digits beyond the precision.      *)
LEMMA TimestampLoss ==
  ASSUME NEW precision \in Int, precision <= NanoDigits, NEW micros \in Int
  PROVE  micros * NanosPerMicro - StructNanos(TimestampParam(precision, micros))
           \in 0 .. Power10(NanoDigits - precision) - 1
BY SecondsAndFraction, StructOf DEF TimestampParam

(* And one in nanoseconds, but just before a whole second before 1970.      *)
LEMMA TimestampNsLoss ==
  ASSUME NEW precision \in Int, precision <= NanoDigits, NEW nanos \in Int,
         ~(nanos < 0 /\ (-nanos) % NanosPerSecond \in 1 .. NanosPerMicro - 1)
  PROVE  nanos - StructNanos(TimestampNsParam(precision, nanos))
           \in 0 .. Power10(NanoDigits - precision) - 1
<1> DEFINE c == NanosPerMicro
           d == MicrosPerSecond
           m == Quotient(nanos, c)
           r == Remainder(nanos, c)
           f == (m % d) * c + r
<1>1. c \in Nat /\ c > 0 /\ d \in Nat /\ d > 0 /\ NanosPerSecond = d * c
  BY Units
<1> HIDE DEF c, d
<1>2. m \in Int /\ r \in Int /\ nanos = c * m + r
      /\ (nanos >= 0 => r \in 0 .. c - 1)
      /\ (nanos < 0 => r \in -(c - 1) .. 0 /\ -m = (-nanos) \div c /\ -r = (-nanos) % c)
  <2>1. CASE nanos >= 0
    <3>1. m = nanos \div c /\ r = nanos - c * m
      BY <2>1 DEF Quotient, Remainder
    <3>2. nanos = c * (nanos \div c) + (nanos % c) /\ nanos \div c \in Int
          /\ nanos % c \in Nat /\ nanos % c < c
      BY <1>1, Division
    <3> QED
      BY <1>1, <2>1, <3>1, <3>2
  <2>2. CASE nanos < 0
    <3> DEFINE k == -nanos
    <3>1. m = -(k \div c) /\ r = nanos - c * m
      BY <2>2 DEF Quotient, Remainder, Abs
    <3>2. k = c * (k \div c) + (k % c) /\ k \div c \in Int
          /\ k % c \in Nat /\ k % c < c
      BY <1>1, Division
    <3> QED
      BY <1>1, <2>2, <3>1, <3>2
  <2> QED
    BY <2>1, <2>2
<1> HIDE DEF m, r
<1>3. /\ m \div d \in Int /\ (m % d) * c \in Nat
      /\ m % d \in Nat /\ m % d < d
      /\ m * c = (m \div d) * NanosPerSecond + (m % d) * c
  BY <1>1, <1>2, SecondsAndFraction, Division DEF c, d
<1>4. f \in Nat
  <2>1. CASE r >= 0
    BY <1>2, <1>3, <2>1
  <2>2. CASE r < 0
    <3>1. nanos < 0 /\ -m = (-nanos) \div c /\ -r = (-nanos) % c
      BY <1>1, <1>2, <2>2
    <3>2. (-nanos) % (d * c) = c * ((-m) % d) + (-r)
      <4> DEFINE k == -nanos
      <4>1. k \in Int /\ k \div c = -m /\ k % c = -r
        BY <3>1
      <4> HIDE DEF k
      <4>2. k % (d * c) = c * ((k \div c) % d) + (k % c)
        BY <1>1, <4>1, DivideTwice
      <4> QED
        BY <4>1, <4>2 DEF k
    <3>3. (-m) % d # 0
      <4> SUFFICES ASSUME (-m) % d = 0 PROVE FALSE
        OBVIOUS
      <4>1. (-nanos) % NanosPerSecond = -r
        BY <1>1, <1>2, <3>2
      <4> QED
        BY <1>1, <1>2, <2>2, <3>1, <4>1 DEF c
    <3>4. m % d # 0
      <4> SUFFICES ASSUME m % d = 0 PROVE FALSE
        OBVIOUS
      <4> DEFINE q == m \div d
      <4>1. q \in Int /\ m = d * q
        BY <1>1, <1>2, Division
      <4> HIDE DEF q
      <4>2. -m = d * (-q) + 0
        BY <1>1, <4>1
      <4>3. (-m) % d = 0
        BY <1>1, <4>1, <4>2, Quotients
      <4> QED
        BY <3>3, <4>3
    <3>5. (m % d) * c >= c
      <4> DEFINE p == m % d
      <4>1. p \in Nat /\ p > 0
        BY <1>3, <3>4
      <4> HIDE DEF p
      <4>2. p * c >= c
        BY <1>1, <4>1
      <4> QED
        BY <4>2 DEF p
    <3> QED
      BY <1>1, <1>2, <1>3, <3>1, <3>5
  <2> QED
    BY <1>2, <2>1, <2>2
<1>5. f < NanosPerSecond
  <2>1. (m % d) * c + c <= d * c
    BY <1>1, <1>3
  <2> QED
    BY <1>1, <1>2, <1>3, <2>1
<1>6. nanos = (m \div d) * NanosPerSecond + f
  BY <1>1, <1>2, <1>3
<1>7. TimestampNsParam(precision, nanos) = TimestampStruct(precision, m \div d, f)
  BY DEF TimestampNsParam, c, d, m, r
<1> HIDE DEF f
<1> QED
  BY <1>3, <1>4, <1>5, <1>6, <1>7, StructOf

(* A TIME keeps its nanoseconds as an SS_TIME2, its seconds without.        *)
LEMMA TimeLoss ==
  ASSUME NEW micros \in Int
  PROVE  /\ StructNanos(TimeParam(TRUE, micros)) = micros * NanosPerMicro
         /\ StructNanos(TimeParam(FALSE, micros)) =
              micros * NanosPerMicro - ((micros * NanosPerMicro) % NanosPerSecond)
<1> DEFINE q == micros \div MicrosPerSecond
           f == (micros % MicrosPerSecond) * NanosPerMicro
           n == micros * NanosPerMicro
           s == q * NanosPerSecond
<1>1. q \in Int /\ f \in Nat /\ f < NanosPerSecond /\ n = s + f
  BY SecondsAndFraction
<1>2. /\ StructNanos(TimeParam(TRUE, micros)) = s + f
      /\ StructNanos(TimeParam(FALSE, micros)) = s + 0
  BY DEF StructNanos, TimeParam, Struct
<1> HIDE DEF q, f, n
<1>3. NanosPerSecond \in Nat /\ NanosPerSecond > 0
  BY Units
<1>4. n = NanosPerSecond * q + f /\ s \in Int
  BY <1>1, <1>3
<1>5. n % NanosPerSecond = f
  BY <1>1, <1>3, <1>4, Quotients
<1> HIDE DEF s
<1>6. s + 0 = n - f
  BY <1>1, <1>4
<1>7. /\ StructNanos(TimeParam(TRUE, micros)) = n
      /\ StructNanos(TimeParam(FALSE, micros)) = n - (n % NanosPerSecond)
  BY <1>1, <1>2, <1>5, <1>6
<1> QED
  BY <1>7 DEF n

(* A year within the struct's range is kept.                                *)
LEMMA YearKept ==
  ASSUME NEW n \in -(Years \div 2) .. Years \div 2 - 1
  PROVE  YearParam(n) = n
<1>1. Years \in Nat /\ Years > 0
  BY TemporalAssumption
<1>2. CASE n >= 0
  <2>1. n < Years /\ n = Years * 0 + n
    BY <1>1, <1>2
  <2>2. n % Years = n
    BY <1>1, <1>2, <2>1
  <2> QED
    BY <1>1, <1>2, <2>2 DEF YearParam
<1>3. CASE n < 0
  <2> DEFINE r == n + Years
  <2>1. r \in Nat /\ r < Years /\ n = Years * (-1) + r
    BY <1>1, <1>3
  <2>2. n % Years = r
    <3> HIDE DEF r
    <3> QED
      BY <1>1, <2>1, Quotients
  <2> QED
    BY <1>1, <1>3, <2>1, <2>2 DEF YearParam
<1> QED
  BY <1>2, <1>3

-----------------------------------------------------------------------------
(* What a driver's struct becomes in microseconds and in nanoseconds.       *)
LEMMA StructInMicros ==
  ASSUME NEW n \in Int
  PROVE  /\ FetchMicros(DriverStruct(n)) = n \div NanosPerMicro
         /\ FetchMicros([DriverStruct(n) EXCEPT !.fraction = 0]) =
              (n - (n % NanosPerSecond)) \div NanosPerMicro
<1> DEFINE c == NanosPerMicro
           d == MicrosPerSecond
           q == n \div NanosPerSecond
           f == n % NanosPerSecond
           g == f \div c
           h == f % c
<1>1. c \in Nat /\ c > 0 /\ d \in Nat /\ d > 0 /\ NanosPerSecond = d * c
      /\ NanosPerSecond \in Nat /\ NanosPerSecond > 0
  BY Units
<1>2. n = NanosPerSecond * q + f /\ q \in Int /\ f \in Nat
  BY <1>1, Division
<1>3. /\ FetchMicros(DriverStruct(n)) = q * d + g
      /\ FetchMicros([DriverStruct(n) EXCEPT !.fraction = 0]) = q * d + (0 \div c)
  BY DEF FetchMicros, DriverStruct, Struct
<1> HIDE DEF c, d, q, f
<1>4. f = c * g + h /\ g \in Int /\ h \in Nat /\ h < c
  BY <1>1, <1>2, Division
<1> HIDE DEF g, h
<1>5. n = (d * c) * q + (c * g + h)
  BY <1>1, <1>2, <1>4
<1>6. n = c * (q * d + g) + h /\ q * d + g \in Int
  BY <1>1, <1>2, <1>4, <1>5
<1>7. n \div c = q * d + g
  BY <1>1, <1>4, <1>6, Quotients
<1>8. n - f = c * (q * d) + 0 /\ q * d \in Int
  BY <1>1, <1>2
<1>9. (n - f) \div c = q * d
  BY <1>1, <1>8, Quotients
<1>10. 0 \div c = 0
  BY <1>1
<1> QED
  BY <1>3, <1>7, <1>8, <1>9, <1>10 DEF c, f

(* The offset of a time zone is taken away in whole seconds.                *)
LEMMA OffsetInMicros ==
  ASSUME NEW n \in Int, NEW offset \in Int
  PROVE  FetchOffset(DriverStruct(n + offset * NanosPerSecond), offset)
           = n \div NanosPerMicro
<1> DEFINE c == NanosPerMicro
           d == MicrosPerSecond
           q == n \div c
           h == n % c
           m == n + offset * NanosPerSecond
<1>1. c \in Nat /\ c > 0 /\ d \in Nat /\ d > 0 /\ NanosPerSecond = d * c
  BY Units
<1>2. m \in Int
  BY <1>1
<1>3. FetchOffset(DriverStruct(m), offset) = (m \div c) - offset * d
  BY <1>2, StructInMicros DEF FetchOffset
<1>4. n = c * q + h /\ q \in Int /\ h \in Nat /\ h < c
  BY <1>1, Division
<1>5. m = n + offset * (d * c)
  BY <1>1
<1> HIDE DEF c, d, q, h, m
<1>6. offset * (d * c) = c * (offset * d) /\ offset * d \in Int
  BY <1>1
<1>7. m = c * (q + offset * d) + h
  BY <1>1, <1>4, <1>5, <1>6
<1>8. m \div c = q + offset * d
  BY <1>1, <1>4, <1>6, <1>7, Quotients
<1>9. FetchOffset(DriverStruct(m), offset) = q
  BY <1>3, <1>4, <1>6, <1>8
<1> QED
  BY <1>9 DEF q, c, m

(* Nanoseconds come out exact or, where an int64_t cannot count them, as    *)
(* its largest or smallest number; a fraction before 1970 is left out.      *)
LEMMA StructInNanos ==
  ASSUME NEW n \in Int, ~(n < 0 /\ n % NanosPerSecond # 0)
  PROVE  LET got == FetchNanos(DriverStruct(n))
         IN  got = n \/ (Abs(n) > MaxInt64 /\ Abs(got) = MaxInt64)
<1> DEFINE c == NanosPerMicro
           d == MicrosPerSecond
           q == n \div NanosPerSecond
           f == n % NanosPerSecond
           m == q * d
<1>1. c \in Nat /\ c > 0 /\ d \in Nat /\ d > 0 /\ NanosPerSecond = d * c
      /\ NanosPerSecond \in Nat /\ NanosPerSecond > 0
  BY Units
<1>2. n = NanosPerSecond * q + f /\ q \in Int /\ f \in Nat /\ f < NanosPerSecond
  BY <1>1, Division
<1>3. FetchNanos(DriverStruct(n)) = MicrosToNanos(m, f)
  BY DEF FetchNanos, DriverStruct, Struct
<1>4. n < 0 => f = 0
  OBVIOUS
<1> HIDE DEF c, d, q, f
<1>5. m * c + f = n /\ m \in Int
  <2>1. (q * d) * c = (d * c) * q
    BY <1>1, <1>2
  <2> QED
    BY <1>1, <1>2, <2>1
<1>6. m < 0 <=> n < 0
  <2>1. n < 0 => q < 0
    BY <1>1, <1>2
  <2>2. ~(n < 0) => q >= 0
    <3> SUFFICES ASSUME q < 0 PROVE n < 0
      BY <1>2
    <3>1. NanosPerSecond * q <= -NanosPerSecond
      BY <1>1, <1>2
    <3> QED
      BY <1>1, <1>2, <3>1
  <2>3. q < 0 => m < 0
    BY <1>1, <1>2
  <2>4. q >= 0 => m >= 0
    BY <1>1, <1>2
  <2> QED
    BY <1>2, <1>5, <2>1, <2>2, <2>3, <2>4
<1> HIDE DEF m
<1>7. Abs(m) * c + f = Abs(n)
  <2>1. CASE m < 0
    <3>1. n < 0 /\ f = 0 /\ m * c = n
      BY <1>1, <1>2, <1>4, <1>5, <1>6, <2>1
    <3>2. (-m) * c = -n
      BY <1>1, <1>5, <3>1
    <3> QED
      BY <1>1, <1>5, <2>1, <3>1, <3>2 DEF Abs
  <2>2. CASE ~(m < 0)
    BY <1>5, <1>6, <2>2 DEF Abs
  <2> QED
    BY <2>1, <2>2
<1>8. MaxInt64 \in Nat
  BY TemporalAssumption
<1>9. MicrosToNanos(m, f) =
        IF m < 0 THEN -Least(Abs(n), MaxInt64) ELSE Least(Abs(n), MaxInt64)
  BY <1>7 DEF MicrosToNanos, c
<1> QED
  BY <1>3, <1>6, <1>8, <1>9 DEF Abs, Least

(* The sign bit is half of a word.                                          *)
LEMMA Halves == Half \in Nat /\ Half + Half = M /\ Half > 0 /\ M \in Nat /\ M > 1
BY WordAssumption DEF Half

(* A hugeint_t is two words of the width of its fields.                     *)
LEMMA HugeintFields ==
  ASSUME NEW h \in Hugeint
  PROVE  /\ h.lower \in Nat /\ h.upper \in Nat /\ h.lower < M /\ h.upper < M
         /\ h = [lower |-> h.lower, upper |-> h.upper]
<1>1. h.lower \in 0 .. M - 1 /\ h.upper \in 0 .. M - 1
  BY DEF Hugeint, Word
<1>2. h = [lower |-> h.lower, upper |-> h.upper]
  BY DEF Hugeint
<1> QED
  BY <1>1, <1>2, Halves

(* ~x + 1 word by word, with the carry written as the code writes it.       *)
LEMMA NegateFields ==
  ASSUME NEW h \in Hugeint
  PROVE  /\ Negate(h) \in Hugeint
         /\ Negate(h) = [lower |-> Negate(h).lower, upper |-> Negate(h).upper]
         /\ Negate(h).lower = IF h.lower = 0 THEN 0 ELSE M - h.lower
         /\ Negate(h).upper = IF h.lower # 0 THEN M - 1 - h.upper
                              ELSE IF h.upper = 0 THEN 0 ELSE M - h.upper
<1> DEFINE l == IF h.lower = 0 THEN 0 ELSE M - h.lower
           u == IF h.lower # 0 THEN M - 1 - h.upper
                ELSE IF h.upper = 0 THEN 0 ELSE M - h.upper
<1>1. l \in Word /\ u \in Word /\ (l = 0 <=> h.lower = 0)
  BY HugeintFields, Halves DEF Word
<1>2. Negate(h) = [lower |-> l, upper |-> u]
  BY <1>1 DEF Negate
<1>3. [lower |-> l, upper |-> u] \in Hugeint
  BY <1>1 DEF Hugeint
<1> QED
  BY <1>2, <1>3

(* Negating a 128 bit number twice gives the number back.                   *)
THEOREM NegateTwice == \A h \in Hugeint : Negate(Negate(h)) = h
<1> SUFFICES ASSUME NEW h \in Hugeint PROVE Negate(Negate(h)) = h
  OBVIOUS
<1> DEFINE g == Negate(h)
           f == Negate(g)
<1>1. /\ g \in Hugeint
      /\ g.lower = IF h.lower = 0 THEN 0 ELSE M - h.lower
      /\ g.upper = IF h.lower # 0 THEN M - 1 - h.upper
                   ELSE IF h.upper = 0 THEN 0 ELSE M - h.upper
  BY NegateFields
<1> HIDE DEF g
<1>2. /\ f = [lower |-> f.lower, upper |-> f.upper]
      /\ f.lower = IF g.lower = 0 THEN 0 ELSE M - g.lower
      /\ f.upper = IF g.lower # 0 THEN M - 1 - g.upper
                   ELSE IF g.upper = 0 THEN 0 ELSE M - g.upper
  BY <1>1, NegateFields
<1> HIDE DEF f
<1>3. f.lower = h.lower /\ f.upper = h.upper
  BY <1>1, <1>2, HugeintFields, Halves
<1>4. f = h
  BY <1>2, <1>3, HugeintFields
<1> QED
  BY <1>4 DEF f, g

(* FetchDecimal reads back the DECIMAL that ScannerValue(DecimalChunk) has  *)
(* put into a SQL_NUMERIC_STRUCT, whatever the number, width and scale.     *)
THEOREM NumericStructReadsBack ==
  \A h \in Hugeint, width, scale \in Nat : FetchNumeric(NumericStruct(h, width, scale)) = h
<1> SUFFICES ASSUME NEW h \in Hugeint, NEW width \in Nat, NEW scale \in Nat
             PROVE  FetchNumeric(NumericStruct(h, width, scale)) = h
  OBVIOUS
<1> DEFINE ns == NumericStruct(h, width, scale)
<1>1. CASE h.upper < Half
  <2>1. ns.sign = 1 /\ ns.magnitude = h
    BY <1>1 DEF NumericStruct
  <2> QED
    BY <2>1 DEF FetchNumeric
<1>2. CASE ~(h.upper < Half)
  <2>1. ns.sign = 0 /\ ns.magnitude = Negate(h)
    BY <1>2 DEF NumericStruct
  <2>2. Negate(Negate(h)) = h
    BY NegateTwice
  <2> QED
    BY <2>1, <2>2 DEF FetchNumeric
<1> QED
  BY <1>1, <1>2

(* The sign and the magnitude in it stand for the number: a driver that     *)
(* reads SQL_NUMERIC_STRUCT as ODBC defines it receives the DECIMAL that    *)
(* was bound, carries between the two words included.                       *)
THEOREM NumericStructMeansTheNumber ==
  \A h \in Hugeint, width, scale \in Nat :
    NumericMeaning(NumericStruct(h, width, scale)) = HugeintValue(h)
<1> SUFFICES ASSUME NEW h \in Hugeint, NEW width \in Nat, NEW scale \in Nat
             PROVE  NumericMeaning(NumericStruct(h, width, scale)) = HugeintValue(h)
  OBVIOUS
<1> DEFINE ns == NumericStruct(h, width, scale)
<1>1. CASE h.upper < Half
  <2>1. ns.sign = 1 /\ ns.magnitude = h
    BY <1>1 DEF NumericStruct
  <2>2. NumericMeaning(ns) = h.upper * M + h.lower
    BY <2>1 DEF NumericMeaning, Unsigned
  <2>3. HugeintValue(h) = h.upper * M + h.lower
    BY <1>1 DEF HugeintValue
  <2> QED
    BY <2>2, <2>3, HugeintFields, Halves
<1>2. CASE ~(h.upper < Half)
  <2>1. ns.sign = 0 /\ ns.magnitude = Negate(h)
    BY <1>2 DEF NumericStruct
  <2>2. NumericMeaning(ns) = -(Negate(h).upper * M + Negate(h).lower)
    BY <2>1 DEF NumericMeaning, Unsigned
  <2>3. HugeintValue(h) = (h.upper - M) * M + h.lower
    BY <1>2 DEF HugeintValue
  <2>4. CASE h.lower # 0
    <3>1. Negate(h).upper = M - 1 - h.upper /\ Negate(h).lower = M - h.lower
      BY <2>4, NegateFields
    <3>2. (M - 1 - h.upper) * M = (M - h.upper) * M - M
      BY HugeintFields, Halves
    <3> DEFINE x == (M - h.upper) * M
    <3>3. (h.upper - M) * M = -x /\ x \in Int /\ (M - 1 - h.upper) * M = x - M
      BY <3>2, HugeintFields, Halves
    <3> HIDE DEF x
    <3>4. NumericMeaning(ns) = -((x - M) + (M - h.lower))
      BY <2>2, <3>1, <3>3
    <3>5. HugeintValue(h) = -x + h.lower
      BY <2>3, <3>3
    <3> QED
      BY <3>3, <3>4, <3>5, HugeintFields, Halves
  <2>5. CASE h.lower = 0
    <3>1. Negate(h).upper = M - h.upper /\ Negate(h).lower = 0
      BY <1>2, <2>5, NegateFields, HugeintFields, Halves
    <3> DEFINE x == (M - h.upper) * M
    <3>2. (h.upper - M) * M = -x /\ x \in Int
      BY HugeintFields, Halves
    <3>3. NumericMeaning(ns) = -(x + 0)
      BY <2>2, <3>1
    <3> HIDE DEF x
    <3> QED
      BY <2>3, <2>5, <3>2, <3>3
  <2> QED
    BY <2>4, <2>5
<1> QED
  BY <1>1, <1>2

(* Flipping the sign bit of the upper word leaves the lower one alone.      *)
LEMMA FlipFields ==
  ASSUME NEW h \in Hugeint
  PROVE  /\ Flip(h) \in Hugeint
         /\ Flip(h).lower = h.lower
         /\ Flip(h).upper = IF h.upper < Half THEN h.upper + Half ELSE h.upper - Half
<1> DEFINE u == IF h.upper < Half THEN h.upper + Half ELSE h.upper - Half
<1>1. u \in Word
  BY HugeintFields, Halves DEF Word
<1>2. Flip(h) = [h EXCEPT !.upper = u]
  BY DEF Flip
<1> HIDE DEF u
<1>3. /\ [h EXCEPT !.upper = u] \in Hugeint
      /\ [h EXCEPT !.upper = u].lower = h.lower
      /\ [h EXCEPT !.upper = u].upper = u
  BY <1>1 DEF Hugeint
<1> QED
  BY <1>2, <1>3 DEF u

(* DuckDB's flipped top bit is undone by flipping it once more.             *)
THEOREM FlipTwice == \A h \in Hugeint : Flip(Flip(h)) = h
<1> SUFFICES ASSUME NEW h \in Hugeint PROVE Flip(Flip(h)) = h
  OBVIOUS
<1> DEFINE g == Flip(h)
<1>1. /\ g \in Hugeint /\ g.lower = h.lower
      /\ g.upper = IF h.upper < Half THEN h.upper + Half ELSE h.upper - Half
  BY FlipFields
<1> HIDE DEF g
<1>2. /\ Flip(g) \in Hugeint /\ Flip(g).lower = g.lower
      /\ Flip(g).upper = IF g.upper < Half THEN g.upper + Half ELSE g.upper - Half
  BY <1>1, FlipFields
<1>3. Flip(g).upper = h.upper
  BY <1>1, <1>2, HugeintFields, Halves
<1>4. Flip(g) = [lower |-> Flip(g).lower, upper |-> Flip(g).upper]
  BY <1>2, HugeintFields
<1>5. Flip(g) = h
  BY <1>1, <1>2, <1>3, <1>4, HugeintFields
<1> QED
  BY <1>5 DEF g

-----------------------------------------------------------------------------
(* The remainder of a negative number, as a word in two's complement has it.*)
LEMMA WordOf ==
  ASSUME NEW q \in Int, -M <= q, q < M
  PROVE  q % M = IF q < 0 THEN q + M ELSE q
<1>1. q >= 0 => q = M * 0 + q
  BY Halves
<1>2. q < 0 => q = M * (-1) + (q + M)
  BY Halves
<1> QED
  BY <1>1, <1>2, Halves, Quotients

(* The words of a number are its remainder and its quotient.                *)
LEMMA HugeintOfFields ==
  ASSUME NEW n \in Int
  PROVE  /\ HugeintOf(n) \in Hugeint
         /\ HugeintOf(n).lower = n % M
         /\ HugeintOf(n).upper = (n \div M) % M
         /\ n = M * (n \div M) + (n % M)
         /\ n \div M \in Int /\ n % M \in Nat /\ n % M < M
<1>1. n = M * (n \div M) + (n % M) /\ n \div M \in Int /\ n % M \in Nat /\ n % M < M
  BY Halves, Division
<1>2. (n \div M) % M \in Nat /\ (n \div M) % M < M
  BY <1>1, Halves, Division
<1> QED
  BY <1>1, <1>2, Halves DEF HugeintOf, Hugeint, Word

(* A 128 bit number is the number it stands for, signed and unsigned.       *)
LEMMA HugeintOfValue ==
  ASSUME NEW n \in Int, -(M * M) <= 2 * n, 2 * n < M * M
  PROVE  HugeintValue(HugeintOf(n)) = n
<1> DEFINE q == n \div M
           r == n % M
<1>1. n = M * q + r /\ q \in Int /\ r \in Nat /\ r < M
  BY HugeintOfFields
<1>2. HugeintOf(n).lower = r /\ HugeintOf(n).upper = q % M
  BY HugeintOfFields
<1> HIDE DEF q, r
<1>3. q < Half
  <2> SUFFICES ASSUME q >= Half PROVE FALSE
    BY <1>1, Halves
  <2>1. M * q >= M * Half
    BY <1>1, Halves
  <2>2. 2 * (M * Half) = M * M
    BY Halves
  <2> QED
    BY <1>1, <2>1, <2>2, Halves
<1>4. q >= -Half
  <2> SUFFICES ASSUME q + 1 <= -Half PROVE FALSE
    BY <1>1, Halves
  <2>1. M * (q + 1) <= M * (-Half)
    BY <1>1, Halves
  <2>2. M * (q + 1) = M * q + M /\ 2 * (M * (-Half)) = -(M * M)
    BY <1>1, Halves
  <2> QED
    BY <1>1, <2>1, <2>2, Halves
<1>5. q % M = IF q < 0 THEN q + M ELSE q
  BY <1>1, <1>3, <1>4, WordOf, Halves
<1>6. (IF q % M < Half THEN q % M ELSE (q % M) - M) = q
  BY <1>1, <1>3, <1>4, <1>5, Halves
<1>7. HugeintValue(HugeintOf(n)) = q * M + r
  BY <1>2, <1>6 DEF HugeintValue
<1> QED
  BY <1>1, <1>7, Halves

(* Read without a sign, the words of a number of 128 bits are that number.  *)
LEMMA HugeintOfUnsigned ==
  ASSUME NEW n \in Nat, n < M * M
  PROVE  Unsigned(HugeintOf(n)) = n
<1> DEFINE q == n \div M
<1>1. n = M * q + (n % M) /\ q \in Int /\ n % M \in Nat /\ n % M < M
  BY HugeintOfFields
<1>2. HugeintOf(n).lower = n % M /\ HugeintOf(n).upper = q % M
  BY HugeintOfFields
<1> HIDE DEF q
<1>3. q >= 0 /\ q < M
  <2>1. q < 0 => M * q <= -M
    BY <1>1, Halves
  <2>2. q >= M => M * q >= M * M
    BY <1>1, Halves
  <2> QED
    BY <1>1, <2>1, <2>2, Halves
<1>4. q % M = q
  BY <1>1, <1>3, WordOf, Halves
<1>5. Unsigned(HugeintOf(n)) = q * M + (n % M)
  BY <1>2, <1>4 DEF Unsigned
<1> QED
  BY <1>1, <1>5, Halves

(* Two hugeint_t with the same words are one.                               *)
LEMMA OneHugeint ==
  ASSUME NEW g \in Hugeint, NEW h \in Hugeint, g.lower = h.lower, g.upper = h.upper
  PROVE  g = h
BY HugeintFields

-----------------------------------------------------------------------------
(* The widths of DECIMAL are numbers, and more digits hold larger numbers.  *)
LEMMA Widths ==
  /\ SmallDigits \in Nat /\ IntDigits \in Nat /\ BigDigits \in Nat /\ HugeDigits \in Nat
  /\ \A k \in Nat : Power10(k) \in Nat /\ Power10(k) > 0
  /\ \A j, k \in Nat : j <= k => Power10(j) <= Power10(k)
<1>1. SmallDigits \in Nat /\ IntDigits \in Nat /\ BigDigits \in Nat /\ HugeDigits \in Nat
  BY WordAssumption
<1>2. \A k \in Nat : Power10(k) \in Nat /\ Power10(k) > 0
  BY PowerType DEF Power10
<1>3. ASSUME NEW j \in Nat, NEW k \in Nat, j <= k PROVE Power10(j) <= Power10(k)
  BY <1>3, PowerMonotonic DEF Power10
<1> QED
  BY <1>1, <1>2, <1>3

(* A DECIMAL of a width fits 128 bits, and 64 when it is narrow.            *)
LEMMA DecimalFits ==
  ASSUME NEW width \in Nat, width <= HugeDigits, NEW n \in Int, Abs(n) < Power10(width)
  PROVE  /\ -(M * M) <= 2 * n /\ 2 * n < M * M
         /\ width <= BigDigits => -M <= 2 * n /\ 2 * n < M
<1>1. Power10(width) <= Power10(HugeDigits) /\ Power10(HugeDigits) \in Nat
  BY Widths
<1>2. width <= BigDigits => Power10(width) <= Power10(BigDigits) /\ Power10(BigDigits) \in Nat
  BY Widths
<1>3. Power10(width) \in Nat
  BY Widths
<1>4. -Power10(width) < n /\ n < Power10(width)
  BY <1>3 DEF Abs
<1>5. M * M \in Nat
  BY Halves
<1> QED
  BY <1>1, <1>2, <1>3, <1>4, <1>5, DigitsAssumption, Halves

(* A DECIMAL out of a vector is the number, sign extended when narrow.      *)
LEMMA DecimalOfVectorValue ==
  ASSUME NEW width \in Nat, width <= HugeDigits, NEW n \in Int, Abs(n) < Power10(width)
  PROVE  DecimalOfVector(width, n) = HugeintOf(n)
<1>1. CASE width <= BigDigits
  <2> DEFINE q == n \div M
  <2>1. n = M * q + (n % M) /\ q \in Int /\ n % M \in Nat /\ n % M < M
    BY HugeintOfFields
  <2>2. -M <= 2 * n /\ 2 * n < M
    BY <1>1, DecimalFits
  <2> HIDE DEF q
  <2>3. q < 1
    <3>1. q >= 1 => M * q >= M
      BY <2>1, Halves
    <3> QED
      BY <2>1, <2>2, <3>1, Halves
  <2>4. q > -2
    <3>1. q <= -2 => M * q <= -(2 * M)
      BY <2>1, Halves
    <3> QED
      BY <2>1, <2>2, <3>1, Halves
  <2>5. q = IF n >= 0 THEN 0 ELSE -1
    BY <2>1, <2>3, <2>4, Halves
  <2>6. q % M = IF n >= 0 THEN 0 ELSE M - 1
    BY <2>1, <2>5, WordOf, Halves
  <2> QED
    BY <1>1, <2>6 DEF DecimalOfVector, HugeintOf, q
<1>2. CASE ~(width <= BigDigits)
  BY <1>2 DEF DecimalOfVector
<1> QED
  BY <1>1, <1>2

(* A number is what is left of it in a signed type of enough values, out of *)
(* a word of at least as many.                                              *)
LEMMA SignedKeeps ==
  ASSUME NEW values \in Nat, values > 0, M % values = 0,
         NEW n \in Int, -values <= 2 * n, 2 * n < values - 1
  PROVE  Signed(n % M, values) = n
<1> DEFINE k == M \div values
           q == n \div M
           x == n % M
           r == IF n < 0 THEN n + values ELSE n
<1>1. M = values * k /\ k \in Int
  BY Halves, Division
<1>2. n = M * q + x /\ q \in Int /\ x \in Nat
  BY HugeintOfFields
<1>3. r \in Nat /\ r < values
  OBVIOUS
<1> HIDE DEF k, q, x
<1>4. M * q = values * (k * q) /\ k * q \in Int
  BY <1>1, <1>2
<1> DEFINE e == IF n < 0 THEN -1 ELSE 0
           t == e - k * q
<1>5. e \in Int /\ n = values * e + r
  OBVIOUS
<1>6. values * t = values * e - values * (k * q) /\ t \in Int
  BY <1>4, <1>5
<1> HIDE DEF e, t, r
<1>7. x = values * t + r
  <2> DEFINE a == values * e
             c == values * (k * q)
             b == values * t
  <2>1. a \in Int /\ c \in Int
    BY <1>4, <1>5
  <2>2. n = c + x /\ n = a + r /\ b = a - c
    BY <1>2, <1>4, <1>5, <1>6
  <2> HIDE DEF a, b, c
  <2>3. x = b + r
    BY <1>2, <1>3, <2>1, <2>2
  <2> QED
    BY <2>3 DEF b
<1>8. x % values = r
  BY <1>3, <1>6, <1>7, Quotients
<1>9. values \div 2 \in Nat /\ 2 * (values \div 2) <= values /\ values <= 2 * (values \div 2) + 1
  OBVIOUS
<1>10. Signed(x, values) = IF r >= values \div 2 THEN r - values ELSE r
  BY <1>8 DEF Signed
<1> QED
  BY <1>3, <1>9, <1>10 DEF r, x

(* What is written for a DECIMAL of a precision is the number, in the type  *)
(* that DuckDB keeps it in.                                                 *)
LEMMA ResultKeepsDecimal ==
  ASSUME NEW p \in Nat, p <= HugeDigits, NEW n \in Int, Abs(n) < Power10(p)
  PROVE  /\ SetResultType(p) = InternalType(p)
         /\ SetResultValue(SetResultType(p), HugeintOf(n)) = n
<1>1. Power10(p) \in Nat /\ -Power10(p) < n /\ n < Power10(p)
  BY Widths DEF Abs
<1>2. HugeintOf(n).lower = n % M
  BY HugeintOfFields
<1>3. CASE p <= SmallDigits
  <2>1. Power10(p) <= Power10(SmallDigits) /\ Power10(SmallDigits) \in Nat
    BY <1>3, Widths
  <2>2. SmallWord \in Nat /\ SmallWord > 0 /\ -SmallWord <= 2 * n /\ 2 * n < SmallWord - 1
    BY <1>1, <2>1, DigitsAssumption, WordAssumption
  <2>3. Signed(n % M, SmallWord) = n
    BY <2>2, SignedKeeps, DigitsAssumption
  <2> QED
    BY <1>2, <1>3, <2>3 DEF SetResultType, SetResultValue, InternalType
<1>4. CASE ~(p <= SmallDigits) /\ p <= IntDigits
  <2>1. Power10(p) <= Power10(IntDigits) /\ Power10(IntDigits) \in Nat
    BY <1>4, Widths
  <2>2. IntWord \in Nat /\ IntWord > 0 /\ -IntWord <= 2 * n /\ 2 * n < IntWord - 1
    BY <1>1, <2>1, DigitsAssumption, WordAssumption
  <2>3. Signed(n % M, IntWord) = n
    BY <2>2, SignedKeeps, DigitsAssumption
  <2> QED
    BY <1>2, <1>4, <2>3 DEF SetResultType, SetResultValue, InternalType
<1>5. CASE ~(p <= SmallDigits) /\ ~(p <= IntDigits) /\ p <= BigDigits
  <2>1. -M <= 2 * n /\ 2 * n < M - 1
    BY <1>5, DecimalFits, Halves
  <2>2. M % M = 0
    BY Halves
  <2>3. Signed(n % M, M) = n
    BY <2>1, <2>2, SignedKeeps, Halves
  <2> QED
    BY <1>2, <1>5, <2>3 DEF SetResultType, SetResultValue, InternalType
<1>6. CASE ~(p <= SmallDigits) /\ ~(p <= IntDigits) /\ ~(p <= BigDigits)
  <2>1. HugeintValue(HugeintOf(n)) = n
    BY DecimalFits, HugeintOfValue
  <2> QED
    BY <1>6, <2>1 DEF SetResultType, SetResultValue, InternalType
<1> QED
  BY <1>3, <1>4, <1>5, <1>6

(* Two's complement of a magnitude is the negative number.                  *)
LEMMA NegateIsNegative ==
  ASSUME NEW n \in Nat, 0 < n, n < M * M
  PROVE  Negate(HugeintOf(n)) = HugeintOf(-n)
<1> DEFINE q == n \div M
           r == n % M
           g == HugeintOf(n)
           h == HugeintOf(-n)
<1>1. n = M * q + r /\ q \in Int /\ r \in Nat /\ r < M
      /\ g \in Hugeint /\ g.lower = r /\ g.upper = q % M
  BY HugeintOfFields
<1>2. h \in Hugeint /\ h.lower = (-n) % M /\ h.upper = ((-n) \div M) % M
  BY HugeintOfFields
<1> HIDE DEF q, r, g, h
<1>3. q >= 0 /\ q < M
  <2>1. q < 0 => M * q <= -M
    BY <1>1, Halves
  <2>2. q >= M => M * q >= M * M
    BY <1>1, Halves
  <2> QED
    BY <1>1, <2>1, <2>2, Halves
<1>4. g.upper = q
  BY <1>1, <1>3, WordOf, Halves
<1>5. /\ Negate(g) \in Hugeint
      /\ Negate(g).lower = IF r = 0 THEN 0 ELSE M - r
      /\ Negate(g).upper = IF r # 0 THEN M - 1 - q ELSE IF q = 0 THEN 0 ELSE M - q
  BY <1>1, <1>4, NegateFields
<1>6. CASE r = 0
  <2>1. -n = M * (-q) + 0
    BY <1>1, <1>6, Halves
  <2>2. (-n) % M = 0 /\ (-n) \div M = -q
    BY <1>1, <2>1, Quotients, Halves
  <2>3. q # 0
    BY <1>1, <1>6, Halves
  <2>4. (-q) % M = M - q
    BY <1>1, <1>3, <2>3, WordOf, Halves
  <2> QED
    BY <1>2, <1>5, <1>6, <2>2, <2>3, <2>4, OneHugeint DEF g, h
<1>7. CASE r # 0
  <2>1. -n = M * (-q - 1) + (M - r)
    BY <1>1, <1>7, Halves
  <2>2. (-n) % M = M - r /\ (-n) \div M = -q - 1
    BY <1>1, <1>7, <2>1, Quotients, Halves
  <2>3. (-q - 1) % M = M - 1 - q
    BY <1>1, <1>3, WordOf, Halves
  <2> QED
    BY <1>2, <1>5, <1>7, <2>2, <2>3, OneHugeint DEF g, h
<1> QED
  BY <1>6, <1>7

(* A number in the driver's SQL_NUMERIC_STRUCT is read as that number.      *)
LEMMA NumericRead ==
  ASSUME NEW n \in Int, -(M * M) <= 2 * n, 2 * n < M * M
  PROVE  FetchNumeric(DriverNumeric(n)) = HugeintOf(n)
<1> DEFINE a == Abs(n)
           q == a \div M
<1>1. a \in Nat /\ a < M * M /\ (n < 0 => a > 0 /\ n = -a) /\ (~(n < 0) => n = a)
  BY Halves DEF Abs
<1>2. DriverNumeric(n).sign = (IF n < 0 THEN 0 ELSE 1)
      /\ DriverNumeric(n).magnitude = [lower |-> a % M, upper |-> q]
  BY DEF DriverNumeric
<1> HIDE DEF a
<1>3. a = M * q + (a % M) /\ q \in Int /\ a % M \in Nat /\ a % M < M
  BY <1>1, HugeintOfFields
<1>4. HugeintOf(a) = [lower |-> a % M, upper |-> q % M]
  BY DEF HugeintOf
<1> HIDE DEF q
<1>5. q >= 0 /\ q < M
  <2>1. q < 0 => M * q <= -M
    BY <1>3, Halves
  <2>2. q >= M => M * q >= M * M
    BY <1>3, Halves
  <2> QED
    BY <1>1, <1>3, <2>1, <2>2, Halves
<1>6. q % M = q
  <2>1. -M <= q
    BY <1>3, <1>5, Halves
  <2> QED
    BY <1>3, <1>5, <2>1, WordOf
<1>7. CASE n < 0
  BY <1>1, <1>2, <1>4, <1>6, <1>7, NegateIsNegative DEF FetchNumeric
<1>8. CASE ~(n < 0)
  BY <1>1, <1>2, <1>4, <1>6, <1>8 DEF FetchNumeric
<1> QED
  BY <1>7, <1>8

(* The upper half of a UUID in the first three fields of a GUID.            *)
LEMMA GuidUpper ==
  ASSUME NEW u \in Nat
  PROVE  LET data1 == u \div Guid1
             data2 == (u \div Guid2) % (Guid1 \div Guid2)
             data3 == u % Guid2
         IN  /\ (data1 * (Guid1 \div Guid2) + data2) * Guid2 + data3 = u
             /\ data1 * Guid1 + data2 * Guid2 + data3 = u
<1> DEFINE k == Guid1 \div Guid2
           y == u \div Guid2
           z == u % Guid2
           v == y \div k
           w == y % k
<1>1. Guid1 \in Nat /\ Guid1 > 0 /\ Guid2 \in Nat /\ Guid2 > 0 /\ Guid1 % Guid2 = 0
  BY WordAssumption, DigitsAssumption
<1>2. Guid1 = Guid2 * k /\ k \in Int
  BY <1>1, Division
<1>3. u = Guid2 * y + z /\ y \in Int /\ z \in Nat
  BY <1>1, Division
<1> HIDE DEF k, y, z
<1>4. k \in Nat /\ k > 0
  <2>1. k <= 0 => Guid2 * k <= 0
    BY <1>1, <1>2
  <2> QED
    BY <1>1, <1>2, <2>1
<1>5. y = k * v + w /\ v \in Int /\ w \in Nat
  BY <1>3, <1>4, Division
<1>6. u \div Guid1 = v
  <2>1. Guid1 = k * Guid2
    BY <1>1, <1>2
  <2>2. u \div (k * Guid2) = (u \div Guid2) \div k
    BY <1>1, <1>4, DivideTwice
  <2> QED
    BY <2>1, <2>2 DEF y
<1> HIDE DEF v, w
<1>7. (v * k + w) * Guid2 + z = u
  BY <1>1, <1>3, <1>4, <1>5
<1>8. v * Guid1 + w * Guid2 + z = u
  <2>1. v * Guid1 = (v * k) * Guid2
    BY <1>1, <1>2, <1>5
  <2>2. (v * k + w) * Guid2 = (v * k) * Guid2 + w * Guid2
    BY <1>1, <1>4, <1>5
  <2> QED
    BY <1>7, <2>1, <2>2
<1> QED
  BY <1>6, <1>7, <1>8 DEF k, w, y, z

(* What is left of a word in front of its last GuidBytes - i bytes: a byte  *)
(* more with every i.                                                       *)
LEMMA Bytes ==
  ASSUME NEW x \in Nat, x < M
  PROVE  LET head(i) == x \div Power(GuidByte, GuidBytes - i)
         IN  /\ head(0) = 0 /\ head(GuidBytes) = x
             /\ \A i \in 1 .. GuidBytes :
                  /\ head(i) \in Nat /\ head(i - 1) \in Nat
                  /\ head(i) = GuidByte * head(i - 1) + (head(i) % GuidByte)
                  /\ head(i) % GuidByte \in Nat
                  /\ Power(GuidByte, GuidBytes - i) \in Nat
                  /\ Power(GuidByte, GuidBytes - (i - 1)) =
                       GuidByte * Power(GuidByte, GuidBytes - i)
<1> DEFINE p(i) == Power(GuidByte, GuidBytes - i)
           head(i) == x \div p(i)
<1>1. GuidByte \in Nat /\ GuidByte > 0 /\ GuidBytes \in Nat
  BY WordAssumption
<1>2. head(0) = 0
  <2>1. p(0) = M
    BY <1>1, DigitsAssumption
  <2>2. x = M * 0 + x
    BY Halves
  <2>3. x \div M = 0
    BY <2>2, Halves, Quotients
  <2> QED
    BY <2>1, <2>3
<1>3. head(GuidBytes) = x
  <2>1. p(GuidBytes) = 1
    BY <1>1, PowerStep
  <2> HIDE DEF p
  <2> QED
    BY <2>1
<1>4. ASSUME NEW i \in 1 .. GuidBytes
      PROVE  /\ head(i) \in Nat /\ head(i - 1) \in Nat
             /\ head(i) = GuidByte * head(i - 1) + (head(i) % GuidByte)
             /\ head(i) % GuidByte \in Nat
             /\ p(i) \in Nat /\ p(i - 1) = GuidByte * p(i)
  <2>1. GuidBytes - i \in Nat /\ GuidBytes - (i - 1) = (GuidBytes - i) + 1
    BY <1>1
  <2>2. p(i) \in Nat /\ p(i) > 0
    BY <1>1, <2>1, PowerType
  <2>3. p(i - 1) = GuidByte * p(i)
    BY <2>1, PowerStep
  <2> DEFINE h == head(i)
             q == p(i)
  <2>4. head(i - 1) = h \div GuidByte
    <3> HIDE DEF p
    <3>1. x \div (GuidByte * p(i)) = (x \div p(i)) \div GuidByte
      BY <1>1, <2>2, DivideTwice
    <3> QED
      BY <2>3, <3>1
  <2>5. h \in Nat
    <3> HIDE DEF p
    <3> QED
      BY <2>2
  <2> HIDE DEF h
  <2>6. h = GuidByte * (h \div GuidByte) + (h % GuidByte) /\ h \div GuidByte \in Nat
        /\ h % GuidByte \in Nat
    BY <1>1, <2>5
  <2> QED
    BY <2>2, <2>3, <2>4, <2>5, <2>6 DEF h
<1> QED
  BY <1>2, <1>3, <1>4

(* A driver takes a GUID for the UUID it was made of.                       *)
LEMMA GuidMeant ==
  ASSUME NEW h \in Hugeint
  PROVE  GuidMeaning(Guid(h)) = Unsigned(h)
<1> DEFINE N == GuidBytes
           B == GuidByte
           head(i) == h.lower \div Power(B, N - i)
           d == [i \in 1 .. N |-> head(i) % B]
           Low(f) == f = [i \in 0 .. N |-> IF i = 0 THEN 0 ELSE f[i - 1] * B + d[i]]
           low == CHOOSE f : Low(f)
<1>1. B \in Nat /\ B > 0 /\ N \in Nat
  BY WordAssumption
<1>2. h.lower \in Nat /\ h.lower < M /\ h.upper \in Nat
  BY HugeintFields
<1>3. /\ head(0) = 0 /\ head(N) = h.lower
      /\ \A i \in 1 .. N : /\ head(i) \in Nat /\ head(i - 1) \in Nat
                           /\ head(i) = B * head(i - 1) + d[i] /\ d[i] \in Nat
  BY <1>2, Bytes
<1> HIDE DEF head, d
<1>4. Low(low)
  <2> DEFINE step == [i \in 1 .. N |-> [v \in Nat |-> v * B + d[i]]]
  <2>1. \A i \in 1 .. N, v \in Nat : v * B + d[i] \in Nat
    BY <1>1, <1>3
  <2>2. step \in [1 .. N -> [Nat -> Nat]]
    BY <2>1
  <2>3. PICK f : Recursion(f, Nat, 0, N, step)
    <3>1. 0 \in Nat /\ N \in Nat
      BY <1>1
    <3> HIDE DEF step, N
    <3> QED
      BY <2>2, <3>1, FiniteRecursion
  <2>5. f \in [0 .. N -> Nat] /\ f[0] = 0 /\ \A i \in 1 .. N : f[i] = step[i][f[i - 1]]
    <3>1. 0 \in Nat /\ N \in Nat
      BY <1>1
    <3> HIDE DEF step, N
    <3> QED
      BY <2>3, <3>1 DEF Recursion
  <2>4. ASSUME NEW i \in 0 .. N PROVE f[i] = IF i = 0 THEN 0 ELSE f[i - 1] * B + d[i]
    <3>1. CASE i # 0
      <4>1. i \in 1 .. N /\ i - 1 \in 0 .. N /\ f[i - 1] \in Nat
        BY <1>1, <2>5, <3>1
      <4> QED
        BY <2>5, <3>1, <4>1
    <3> QED
      BY <2>5, <3>1
  <2> HIDE DEF step
  <2>6. Low(f)
    BY <2>4, <2>5
  <2> HIDE DEF Low
  <2> QED
    BY <2>6
<1>5. GuidMeaning(Guid(h)) =
        (((h.upper \div Guid1) * (Guid1 \div Guid2) + ((h.upper \div Guid2) % (Guid1 \div Guid2)))
           * Guid2 + (h.upper % Guid2)) * M + low[N]
  <2>1. Guid(h) = [data1 |-> h.upper \div Guid1,
                   data2 |-> (h.upper \div Guid2) % (Guid1 \div Guid2),
                   data3 |-> h.upper % Guid2, data4 |-> d]
    BY DEF Guid, d, head
  <2> HIDE DEF d
  <2> QED
    BY <2>1 DEF GuidMeaning
<1> HIDE DEF low
<1>6. N \in {i \in Nat : i <= N => low[i] = head(i)}
  <2> DEFINE G == {i \in Nat : i <= N => low[i] = head(i)}
  <2>1. 0 \in G
    BY <1>3, <1>4
  <2>2. ASSUME NEW i \in Nat, i \in G PROVE i + 1 \in G
    <3> SUFFICES ASSUME i + 1 <= N PROVE low[i + 1] = head(i + 1)
      OBVIOUS
    <3>1. low[i] = head(i) /\ i + 1 \in 1 .. N /\ (i + 1) - 1 = i
      BY <1>1, <2>2
    <3>2. low[i + 1] = low[i] * B + d[i + 1]
      <4>1. i + 1 \in 0 .. N /\ i + 1 # 0
        BY <1>1, <3>1
      <4> QED
        BY <1>4, <3>1, <4>1
    <3>3. head(i + 1) = B * head(i) + d[i + 1] /\ head(i) \in Nat
      BY <1>3, <3>1
    <3> QED
      BY <1>1, <3>1, <3>2, <3>3
  <2> HIDE DEF G
  <2>3. N \in G
    BY <1>1, <2>1, <2>2, Induction
  <2> QED
    BY <2>3 DEF G
<1>7. low[N] = h.lower
  BY <1>1, <1>3, <1>6
<1> QED
  BY <1>2, <1>5, <1>7, GuidUpper DEF Unsigned

(* And the GUID of a UUID is put together again.                            *)
LEMMA GuidFetched ==
  ASSUME NEW h \in Hugeint
  PROVE  FetchGuid(Guid(h)) = h
<1> DEFINE N == GuidBytes
           B == GuidByte
           p(i) == Power(B, N - i)
           head(i) == h.lower \div p(i)
           d == [i \in 1 .. N |-> head(i) % B]
           Low(f) == f = [i \in 0 .. N |-> IF i = 0 THEN 0 ELSE f[i - 1] + d[i] * p(i)]
           low == CHOOSE f : Low(f)
<1>1. B \in Nat /\ B > 0 /\ N \in Nat
  BY WordAssumption
<1>2. h.lower \in Nat /\ h.lower < M /\ h.upper \in Nat
  BY HugeintFields
<1>3. /\ head(0) = 0 /\ head(N) = h.lower /\ p(N) = 1
      /\ \A i \in 1 .. N : /\ head(i) \in Nat /\ head(i - 1) \in Nat
                           /\ head(i) = B * head(i - 1) + d[i] /\ d[i] \in Nat
                           /\ p(i) \in Nat /\ p(i - 1) = B * p(i)
  BY <1>1, <1>2, Bytes, PowerStep
<1>4. FetchGuid(Guid(h)) =
        [upper |-> (h.upper \div Guid1) * Guid1
                   + ((h.upper \div Guid2) % (Guid1 \div Guid2)) * Guid2
                   + (h.upper % Guid2),
         lower |-> low[N]]
  <2>1. Guid(h) = [data1 |-> h.upper \div Guid1,
                   data2 |-> (h.upper \div Guid2) % (Guid1 \div Guid2),
                   data3 |-> h.upper % Guid2, data4 |-> d]
    BY DEF Guid
  <2> HIDE DEF d
  <2> QED
    BY <2>1 DEF FetchGuid
<1> HIDE DEF head, d, p
<1>5. Low(low)
  <2> DEFINE step == [i \in 1 .. N |-> [v \in Nat |-> v + d[i] * p(i)]]
  <2>1. ASSUME NEW i \in 1 .. N, NEW v \in Nat PROVE v + d[i] * p(i) \in Nat
    <3> DEFINE q == p(i)
               c == d[i]
    <3>1. q \in Nat /\ c \in Nat
      BY <1>3
    <3> HIDE DEF q, c
    <3>2. v + c * q \in Nat
      BY <3>1
    <3> QED
      BY <3>2 DEF q, c
  <2>2. step \in [1 .. N -> [Nat -> Nat]]
    BY <2>1
  <2>3. PICK f : Recursion(f, Nat, 0, N, step)
    <3>1. 0 \in Nat /\ N \in Nat
      BY <1>1
    <3> HIDE DEF step, N
    <3> QED
      BY <2>2, <3>1, FiniteRecursion
  <2>5. f \in [0 .. N -> Nat] /\ f[0] = 0 /\ \A i \in 1 .. N : f[i] = step[i][f[i - 1]]
    <3>1. 0 \in Nat /\ N \in Nat
      BY <1>1
    <3> HIDE DEF step, N
    <3> QED
      BY <2>3, <3>1 DEF Recursion
  <2>4. ASSUME NEW i \in 0 .. N PROVE f[i] = IF i = 0 THEN 0 ELSE f[i - 1] + d[i] * p(i)
    <3>1. CASE i # 0
      <4>1. i \in 1 .. N /\ i - 1 \in 0 .. N /\ f[i - 1] \in Nat
        BY <1>1, <2>5, <3>1
      <4> QED
        BY <2>5, <3>1, <4>1
    <3> QED
      BY <2>5, <3>1
  <2> HIDE DEF step
  <2>6. Low(f)
    BY <2>4, <2>5
  <2> HIDE DEF Low
  <2> QED
    BY <2>6
<1> HIDE DEF low
<1> DEFINE G == {i \in Nat : i <= N => low[i] = p(i) * head(i)}
<1>6. 0 \in G
  <2>1. low[0] = 0
    BY <1>1, <1>5
  <2>2. p(0) \in Int
    BY <1>1, PowerType DEF p
  <2> QED
    BY <1>3, <2>1, <2>2
<1>7. ASSUME NEW i \in Nat, i \in G PROVE i + 1 \in G
  <2> SUFFICES ASSUME i + 1 <= N PROVE low[i + 1] = p(i + 1) * head(i + 1)
    OBVIOUS
  <2> DEFINE q == p(i + 1)
             a == head(i)
             c == d[i + 1]
  <2>1. low[i] = p(i) * a /\ i + 1 \in 1 .. N /\ (i + 1) - 1 = i
    BY <1>1, <1>7
  <2>2. low[i + 1] = low[i] + c * q
    <3>1. i + 1 \in 0 .. N /\ i + 1 # 0
      BY <1>1, <2>1
    <3> QED
      BY <1>5, <2>1, <3>1
  <2>3. head(i + 1) = B * a + c /\ a \in Nat /\ c \in Nat /\ q \in Nat /\ p(i) = B * q
    BY <1>3, <2>1
  <2> HIDE DEF q, a, c
  <2>4. (B * q) * a + c * q = q * (B * a + c)
    BY <1>1, <2>3
  <2> QED
    BY <2>1, <2>2, <2>3, <2>4 DEF q
<1> HIDE DEF G
<1>8. N \in G
  BY <1>1, <1>6, <1>7, Induction
<1>9. low[N] = h.lower
  BY <1>1, <1>2, <1>3, <1>8 DEF G
<1>10. FetchGuid(Guid(h)) = [upper |-> h.upper, lower |-> h.lower]
  BY <1>2, <1>4, <1>9, GuidUpper
<1> QED
  BY <1>10, HugeintFields

(* A number and its value modulo d differ by a multiple of d.               *)
LEMMA SameRemainder ==
  ASSUME NEW d \in Nat, d > 0, NEW a \in Int, NEW k \in Int
  PROVE  (a + d * k) % d = a % d
<1>1. a = d * (a \div d) + (a % d) /\ a \div d \in Int /\ a % d \in Nat /\ a % d < d
  BY Division
<1> DEFINE q == a \div d
           r == a % d
<1> HIDE DEF q, r
<1>2. a = d * q + r /\ q \in Int /\ r \in Nat /\ r < d
  BY <1>1 DEF q, r
<1>3. a + d * k = d * (q + k) + r
  BY <1>2
<1>4. (d * (q + k) + r) % d = r
  BY <1>2, Quotients
<1> QED
  BY <1>3, <1>4 DEF r

(* The carry into the upper word when a digit is appended to the lower one. *)
LEMMA CarryOfDigit ==
  ASSUME NEW w \in Nat, w < M, NEW digit \in 0 .. 9,
         ~(w >= TenthOfWord /\ w % TenthOfWord <= 6)
  PROVE  (w * 10 + digit) \div M = IF w > TenthOfWord THEN w \div TenthOfWord ELSE 0
<1> DEFINE T == TenthOfWord
           q == w \div T
           r == w % T
<1>1. M \in Nat /\ M = 10 * T + 6 /\ T \in Nat /\ T > 9
  BY WordAssumption, TenthAssumption DEF TenthOfWord
<1> HIDE DEF T
<1>2. w = T * q + r /\ q \in Int /\ r \in Nat /\ r < T
  BY <1>1, Division
<1>3. ~(w >= T /\ r <= 6)
  BY DEF T
<1> HIDE DEF q, r
<1>4. CASE w < T
  <2>1. w * 10 + digit = M * 0 + (w * 10 + digit) /\ w * 10 + digit \in Nat
        /\ w * 10 + digit < M
    BY <1>1, <1>4
  <2>2. (w * 10 + digit) \div M = 0
    <3> DEFINE x == w * 10 + digit
    <3> HIDE DEF x
    <3>1. (M * 0 + x) \div M = 0
      BY <1>1, <2>1, Quotients DEF x
    <3> QED
      BY <2>1, <3>1 DEF x
  <2> QED
    BY <1>1, <1>4, <2>2 DEF T
<1>5. CASE w >= T
  <2>1. r > 6 /\ w > T
    <3>1. r > 6
      BY <1>2, <1>3, <1>5
    <3>2. w # T
      <4>1. q <= 0 => T * q <= 0
        BY <1>1, <1>2
      <4>2. q >= 1 => T * q >= T
        BY <1>1, <1>2
      <4> QED
        BY <1>1, <1>2, <3>1, <4>1, <4>2
    <3> QED
      BY <1>1, <1>5, <3>1, <3>2
  <2>2. q \in 1 .. 10
    <3>1. q <= 0 => T * q <= 0
      BY <1>1, <1>2
    <3>2. q >= 11 => T * q >= 11 * T
      BY <1>1, <1>2
    <3> DEFINE t == T * q
    <3>3. t \in Int
      BY <1>1, <1>2
    <3> HIDE DEF t
    <3>4. w = t + r
      BY <1>2 DEF t
    <3>5. q <= 0 => t <= 0
      BY <3>1 DEF t
    <3>6. q >= 11 => t >= 11 * T
      BY <3>2 DEF t
    <3> QED
      BY <1>1, <1>2, <1>5, <3>3, <3>4, <3>5, <3>6
  <2>3. w * 10 + digit = M * q + (10 * r + digit - 6 * q)
    <3>1. M * q = 10 * (T * q) + 6 * q
      BY <1>1, <1>2
    <3> DEFINE t == T * q
    <3>2. t \in Int
      BY <1>1, <1>2
    <3> HIDE DEF t
    <3>3. w = t + r /\ M * q = 10 * t + 6 * q
      BY <1>2, <3>1 DEF t
    <3> QED
      BY <1>2, <2>2, <3>2, <3>3
  <2>4. 10 * r + digit - 6 * q \in Nat /\ 10 * r + digit - 6 * q < M
    BY <1>1, <1>2, <2>1, <2>2
  <2>5. (M * q + (10 * r + digit - 6 * q)) \div M = q
    BY <1>1, <1>2, <2>4, Quotients
  <2> QED
    BY <2>1, <2>3, <2>5 DEF T, q
<1> QED
  BY <1>1, <1>4, <1>5

(* One digit more, without a carry in doubt.                                *)
LEMMA AppendDigit ==
  ASSUME NEW x \in Nat, NEW digit \in 0 .. 9,
         ~(x % M >= TenthOfWord /\ (x % M) % TenthOfWord <= 6)
  PROVE  Append10(HugeintOf(x), digit) = HugeintOf(10 * x + digit)
<1> DEFINE w == x % M
           u == x \div M
           c == (w * 10 + digit) \div M
           l == (w * 10 + digit) % M
<1>1. M \in Nat /\ M > 1
  BY WordAssumption
<1>2. x = M * u + w /\ u \in Int /\ w \in Nat /\ w < M
  BY <1>1, Division
<1>3. c = IF w > TenthOfWord THEN w \div TenthOfWord ELSE 0
  BY <1>2, CarryOfDigit
<1>4. Append10(HugeintOf(x), digit) =
        [lower |-> l, upper |-> ((u % M) * 10 + c) % M]
  <2>1. HugeintOf(x).lower = w /\ HugeintOf(x).upper = u % M
    BY DEF HugeintOf
  <2> HIDE DEF w, u, c
  <2>2. Append10(HugeintOf(x), digit) =
          [lower |-> (w * 10 + digit) % M, upper |-> ((u % M) * 10 + c) % M]
    BY <1>3, <2>1 DEF Append10
  <2> QED
    BY <2>2
<1> HIDE DEF w, u
<1>5. w * 10 + digit = M * c + l /\ c \in Int /\ l \in Nat /\ l < M
  <2> DEFINE y == w * 10 + digit
  <2>1. y \in Int
    BY <1>2
  <2> HIDE DEF y
  <2>2. y = M * (y \div M) + (y % M) /\ y \div M \in Int /\ y % M \in Nat /\ y % M < M
    BY <1>1, <2>1, Division
  <2> QED
    BY <2>2 DEF y
<1> HIDE DEF c, l
<1>6. 10 * x + digit = M * (10 * u + c) + l
  <2> DEFINE mu == M * u
             mc == M * c
  <2>1. M * (10 * u + c) = 10 * mu + mc
    BY <1>1, <1>2, <1>5
  <2>2. mu \in Int /\ mc \in Int
    BY <1>1, <1>2, <1>5
  <2>3. x = mu + w /\ w * 10 + digit = mc + l
    BY <1>2, <1>5
  <2> HIDE DEF mu, mc
  <2> QED
    BY <1>2, <1>5, <2>1, <2>2, <2>3
<1>7. 10 * u + c \in Int
  BY <1>2, <1>5
<1>8. (10 * x + digit) \div M = 10 * u + c /\ (10 * x + digit) % M = l
  BY <1>1, <1>5, <1>6, <1>7, Quotients
<1>9. ((u % M) * 10 + c) % M = (10 * u + c) % M
  <2> DEFINE a == u % M
             b == u \div M
  <2>1. u = M * b + a /\ b \in Int /\ a \in Nat
    BY <1>1, <1>2, Division
  <2> HIDE DEF a, b
  <2>2. 10 * u + c = (a * 10 + c) + M * (10 * b)
    BY <1>1, <1>5, <2>1
  <2> DEFINE y == a * 10 + c
             k == 10 * b
  <2>3. y \in Int /\ k \in Int
    BY <1>5, <2>1
  <2> HIDE DEF y, k
  <2>4. (y + M * k) % M = y % M
    <3>1. M > 0
      BY <1>1
    <3> QED
      BY <1>1, <2>3, <3>1, SameRemainder, Zenon
  <2> QED
    BY <2>2, <2>4 DEF a, y, k
<1> QED
  BY <1>4, <1>8, <1>9 DEF HugeintOf

(* Some power of ten is above any number: Digits always finds one.          *)
LEMMA NumberBelowPower ==
  ASSUME NEW n \in Nat
  PROVE  n < Power10(n)
<1> DEFINE G == {k \in Nat : k < Power10(k)}
<1>1. 0 \in G
  BY PowerStep DEF Power10
<1>2. ASSUME NEW k \in Nat, k \in G PROVE k + 1 \in G
  <2>1. Power10(k + 1) = 10 * Power10(k) /\ Power10(k) \in Nat
    BY PowerStep, Widths DEF Power10
  <2> QED
    BY <1>2, <2>1
<1> HIDE DEF G
<1>3. n \in G
  BY <1>1, <1>2, Induction
<1> QED
  BY <1>3 DEF G

(* A number that is not negative has the number of digits Digits looks for. *)
LEMMA DigitsLength ==
  ASSUME NEW n \in Nat
  PROVE  \E k \in 1 .. n + 1 : n < Power10(k) /\ (k = 1 \/ n >= Power10(k - 1))
<1>1. CASE n = 0
  <2>1. Power10(1) \in Nat /\ Power10(1) > 0
    BY Widths
  <2> QED
    BY <1>1, <2>1
<1>2. CASE n > 0
  <2>1. n < Power10(n)
    BY NumberBelowPower
  <2>2. PICK k \in 1 .. n : Power10(k - 1) <= n /\ n < Power10(k)
    BY <1>2, <2>1, PowerBracket
  <2>3. k \in 1 .. n + 1 /\ Power10(k - 1) \in Nat
    BY <2>2, Widths
  <2> QED
    BY <2>2, <2>3
<1> QED
  BY <1>1, <1>2

(* The text of a number that is not negative reads back as the number.      *)
LEMMA DigitsParsed ==
  ASSUME NEW n \in Nat, n < Power10(HugeDigits), ~CarryInDoubt(n)
  PROVE  ParseHugeInt(Digits(n)) = HugeintOf(n)
<1> DEFINE Fits(k) == n < Power10(k) /\ (k = 1 \/ n >= Power10(k - 1))
           len == CHOOSE k \in 1 .. n + 1 : Fits(k)
           head(i) == n \div Power10(len - i)
           d == [i \in 1 .. len |-> head(i) % 10]
           Parsed(f) == f = [i \in 0 .. len |-> IF i = 0 THEN Zero
                                                ELSE Append10(f[i - 1], d[i])]
           parsed == CHOOSE f : Parsed(f)
<1>1. \E k \in 1 .. n + 1 : Fits(k)
  BY DigitsLength
<1>2. len \in 1 .. HugeDigits + 1 /\ len \in Nat /\ n < Power10(len)
  <2>1. len \in 1 .. n + 1 /\ Fits(len)
    <3> HIDE DEF Fits
    <3> QED
      BY <1>1
  <2> HIDE DEF len
  <2>2. len - 1 \in Nat /\ HugeDigits \in Nat
    BY <2>1, Widths
  <2> DEFINE m == len - 1
  <2>3. HugeDigits <= m => Power10(HugeDigits) <= Power10(m)
    <3> HIDE DEF m
    <3>1. m \in Nat
      BY <2>2 DEF m
    <3> QED
      BY <2>2, <3>1, Widths
  <2>4. Power10(HugeDigits) \in Nat /\ Power10(len - 1) \in Nat
    BY <2>2, Widths
  <2> QED
    BY <2>1, <2>2, <2>3, <2>4
<1>3. Digits(n) = d /\ Len(d) = len
  <2>1. Digits(n) = d
    BY DEF Digits
  <2> HIDE DEF len, head
  <2> QED
    BY <1>2, <2>1
<1>4. ParseHugeInt(Digits(n)) = parsed[len]
  <2> HIDE DEF d, len
  <2> QED
    BY <1>3 DEF ParseHugeInt
<1> HIDE DEF len
<1>5. head(0) = 0 /\ head(len) = n
  <2> DEFINE p == Power10(len)
  <2>1. p \in Nat /\ p > 0 /\ n = p * 0 + n
    BY <1>2, Widths
  <2>2. len - 0 = len /\ len - len = 0
    BY <1>2
  <2> HIDE DEF p
  <2>3. (p * 0 + n) \div p = 0
    BY <1>2, <2>1, Quotients DEF p
  <2>4. Power10(0) = 1
    BY PowerStep DEF Power10
  <2> QED
    BY <2>1, <2>2, <2>3, <2>4 DEF p
<1>6. ASSUME NEW i \in 1 .. len
      PROVE  /\ head(i) \in Nat /\ head(i - 1) \in Nat /\ d[i] \in 0 .. 9
             /\ head(i) = 10 * head(i - 1) + d[i]
  <2>1. len - i \in Nat /\ len - (i - 1) = (len - i) + 1
    BY <1>2
  <2> DEFINE p == Power10(len - i)
             h == n \div p
  <2>2. p \in Nat /\ p > 0
    BY <2>1, Widths
  <2>3. Power10(len - (i - 1)) = 10 * p
    BY <2>1, PowerStep DEF Power10
  <2> HIDE DEF p
  <2>4. n \div (10 * p) = h \div 10
    BY <2>2, DivideTwice
  <2>5. h \in Nat
    BY <2>2
  <2> HIDE DEF h
  <2>6. h = 10 * (h \div 10) + (h % 10) /\ h \div 10 \in Nat /\ h % 10 \in 0 .. 9
    BY <2>5
  <2> QED
    BY <2>3, <2>4, <2>5, <2>6 DEF p, h
<1>7. ASSUME NEW i \in 1 .. len
      PROVE  Append10(HugeintOf(head(i - 1)), d[i]) = HugeintOf(head(i))
  <2> DEFINE x == head(i - 1)
             digit == d[i]
  <2>1. x \in Nat /\ digit \in 0 .. 9 /\ head(i) = 10 * x + digit
    BY <1>6
  <2>2. ~(x % M >= TenthOfWord /\ (x % M) % TenthOfWord <= 6)
    <3>1. CASE i = 1
      <4>1. x = 0
        BY <1>5, <3>1
      <4> HIDE DEF x
      <4>2. 0 % M = 0 /\ TenthOfWord > 0 /\ TenthOfWord \in Nat
        BY WordAssumption, TenthAssumption DEF TenthOfWord
      <4> QED
        BY <4>1, <4>2
    <3>2. CASE i # 1
      <4> DEFINE k == len - (i - 1)
      <4>1. k \in 0 .. HugeDigits
        BY <1>2, <3>2, Widths
      <4>2. Abs(n) = n
        BY DEF Abs
      <4> HIDE DEF k
      <4>3. LET word == (Abs(n) \div Power10(k)) % M
            IN  ~(word >= TenthOfWord /\ word % TenthOfWord <= 6)
        BY <4>1 DEF CarryInDoubt
      <4> QED
        BY <4>2, <4>3 DEF k
    <3> QED
      BY <3>1, <3>2
  <2> HIDE DEF x, digit
  <2>3. Append10(HugeintOf(x), digit) = HugeintOf(10 * x + digit)
    BY <2>1, <2>2, AppendDigit
  <2> QED
    BY <2>1, <2>3 DEF x, digit
<1>8. HugeintOf(0) = Zero
  <2>1. 0 % M = 0 /\ (0 \div M) % M = 0
    BY WordAssumption
  <2> QED
    BY <2>1 DEF HugeintOf, Zero
<1> HIDE DEF head, d
<1>9. Parsed(parsed)
  <2> DEFINE f == [i \in 0 .. len |-> HugeintOf(head(i))]
  <2>1. ASSUME NEW i \in 0 .. len
        PROVE  f[i] = IF i = 0 THEN Zero ELSE Append10(f[i - 1], d[i])
    <3>1. CASE i = 0
      BY <1>2, <1>5, <1>8, <3>1
    <3>2. CASE i # 0
      <4>1. i \in 1 .. len /\ i - 1 \in 0 .. len
        BY <1>2, <3>2
      <4>2. f[i] = HugeintOf(head(i)) /\ f[i - 1] = HugeintOf(head(i - 1))
        BY <4>1
      <4> HIDE DEF f
      <4> QED
        BY <1>7, <3>2, <4>1, <4>2
    <3> QED
      BY <3>1, <3>2
  <2>2. Parsed(f)
    BY <2>1
  <2> HIDE DEF Parsed, f
  <2> QED
    BY <2>2
<1> HIDE DEF parsed
<1> DEFINE G == {i \in Nat : i <= len => parsed[i] = HugeintOf(head(i))}
<1>10. 0 \in G
  BY <1>2, <1>5, <1>8, <1>9
<1>11. ASSUME NEW i \in Nat, i \in G PROVE i + 1 \in G
  <2> SUFFICES ASSUME i + 1 <= len PROVE parsed[i + 1] = HugeintOf(head(i + 1))
    OBVIOUS
  <2>1. i + 1 \in 1 .. len /\ i + 1 \in 0 .. len /\ i + 1 # 0 /\ (i + 1) - 1 = i
        /\ parsed[i] = HugeintOf(head(i))
    BY <1>2, <1>11
  <2>2. parsed[i + 1] = Append10(parsed[i], d[i + 1])
    BY <1>9, <2>1
  <2> QED
    BY <1>7, <2>1, <2>2
<1> HIDE DEF G
<1>12. len \in G
  BY <1>2, <1>10, <1>11, Induction
<1> QED
  BY <1>2, <1>4, <1>5, <1>12 DEF G

(* The text of a decimal is read as the number, unless a carry is in doubt. *)
LEMMA TextRead ==
  ASSUME NEW n \in Int, Abs(n) < Power10(HugeDigits),
         ~CarryInDoubt(n)
  PROVE  TextToHugeint(TextOf(n)) = HugeintOf(n)
<1>1. CASE n < 0
  <2>1. -n \in Nat /\ Abs(n) = -n /\ Abs(-n) = -n
    BY <1>1 DEF Abs
  <2>2. ParseHugeInt(Digits(-n)) = HugeintOf(-n)
    <3> DEFINE m == -n
    <3>1. m \in Nat /\ m < Power10(HugeDigits) /\ ~CarryInDoubt(m)
      BY <2>1 DEF CarryInDoubt
    <3> HIDE DEF m
    <3>2. ParseHugeInt(Digits(m)) = HugeintOf(m)
      BY <3>1, DigitsParsed
    <3> QED
      BY <3>2 DEF m
  <2>3. -n < M * M
    <3>1. 2 * Power10(HugeDigits) <= M * M /\ Power10(HugeDigits) \in Nat /\ M * M \in Nat
      BY DigitsAssumption, WordAssumption, Widths
    <3> QED
      BY <2>1, <3>1
  <2>4. Negate(HugeintOf(-n)) = HugeintOf(n)
    <3> DEFINE m == -n
    <3>1. m \in Nat /\ 0 < m /\ m < M * M /\ -m = n
      BY <1>1, <2>3
    <3> HIDE DEF m
    <3>2. Negate(HugeintOf(m)) = HugeintOf(-m)
      BY <3>1, NegateIsNegative
    <3> QED
      BY <3>1, <3>2 DEF m
  <2> QED
    BY <1>1, <2>2, <2>4 DEF TextToHugeint, TextOf, Text
<1>2. CASE n >= 0
  <2>1. n \in Nat /\ Abs(n) = n
    BY <1>2 DEF Abs
  <2>2. ParseHugeInt(Digits(n)) = HugeintOf(n)
    BY <2>1, DigitsParsed
  <2> QED
    BY <1>2, <2>2 DEF TextToHugeint, TextOf, Text
<1> QED
  BY <1>1, <1>2

(* A parameter as the record it is.                                         *)
Parameter(tag, val, len, expected) ==
  [tag |-> tag, val |-> val, len |-> len, expected |-> expected]

TextNumber(n) == [n |-> n]

(* The quirks that make DECIMALs of integrals.                              *)
Decimalised(q) ==
  "integral_params_as_decimals" \in q.flags /\ "decimal_params_as_chars" \notin q.flags

(* A text has a length.                                                     *)
LEMMA TextLengthType ==
  ASSUME NEW n \in Int
  PROVE  TextLength(n) \in Nat
<1>1. ASSUME NEW m \in Nat PROVE Len(Digits(m)) \in Nat
  <2> DEFINE Fits(k) == m < Power10(k) /\ (k = 1 \/ m >= Power10(k - 1))
             len == CHOOSE k \in 1 .. m + 1 : Fits(k)
  <2>1. \E k \in 1 .. m + 1 : Fits(k)
    BY DigitsLength
  <2>2. len \in 1 .. m + 1
    <3> HIDE DEF Fits
    <3> QED
      BY <2>1
  <2>3. Digits(m) = [i \in 1 .. len |-> (m \div Power10(len - i)) % 10]
    BY DEF Digits
  <2> HIDE DEF len
  <2>4. len \in Nat
    BY <2>2
  <2> QED
    BY <2>3, <2>4
<1>2. CASE n < 0
  <2>1. -n \in Nat
    BY <1>2
  <2> DEFINE m == -n
  <2>2. TextOf(n).digits = Digits(m)
    BY <1>2 DEF TextOf, Text
  <2> HIDE DEF m
  <2>3. Len(Digits(m)) \in Nat
    BY <1>1, <2>1 DEF m
  <2> QED
    BY <1>2, <2>2, <2>3 DEF TextLength
<1>3. CASE n >= 0
  <2>1. TextOf(n).digits = Digits(n)
    BY <1>3 DEF TextOf, Text
  <2>2. Len(Digits(n)) \in Nat
    BY <1>1, <1>3
  <2> QED
    BY <1>3, <2>1, <2>2 DEF TextLength
<1> QED
  BY <1>2, <1>3

(* What a parameter becomes with the type that is expected of it.           *)
MadeStruct(t, val) ==
  NumericStruct([lower |-> val.n % M, upper |-> 0], IntegralWidth(t), 0)

ExpectedAs(v, q, t, val, len, x) ==
  /\ Decimalised(q) /\ t \in Integrals =>
       v = Parameter("DECIMAL", MadeStruct(t, val), FixedSize, x)
  /\ ~(Decimalised(q) /\ t \in Integrals) =>
       IF x \in CharacterSqlTypes /\ t \in Integrals \cup Floats
       THEN v = Parameter("DECIMAL_AS_CHARS", TextNumber(val.n), TextLength(val.n), x)
       ELSE v = Parameter(t, val, len, x)

(* ... and SetExpectedType gives one of these.                              *)
LEMMA SetExpected ==
  ASSUME NEW q, NEW t, NEW val, NEW len, NEW y, NEW x
  PROVE  ExpectedAs(SetExpectedType(q, Parameter(t, val, len, y), x), q, t, val, len, x)
<1> DEFINE v == Parameter(t, val, len, y)
           made == Parameter("DECIMAL", MadeStruct(t, val), FixedSize, "UNKNOWN")
           c == CoalesceParameterType(q, v)
           w == [c EXCEPT !.expected = x]
<1>1. v.tag = t /\ v.val = val
  BY DEF Parameter
<1>2. SetExpectedType(q, v, x) = CoalesceNumericToChars(w)
  BY DEF SetExpectedType
<1>3. c = IF Decimalised(q) /\ t \in Integrals THEN made ELSE v
  <2> HIDE DEF v
  <2>1. TransformIntegralToDecimal(v) = IF t \in Integrals THEN made ELSE v
    BY <1>1 DEF TransformIntegralToDecimal, MadeStruct, Decimal, Tagged, Parameter
  <2> HIDE DEF made
  <2> QED
    BY <2>1 DEF CoalesceParameterType, Decimalised
<1>4. CASE Decimalised(q) /\ t \in Integrals
  <2>1. w = [made EXCEPT !.expected = x]
    BY <1>3, <1>4
  <2>2. w = Parameter("DECIMAL", MadeStruct(t, val), FixedSize, x)
    BY <2>1 DEF Parameter
  <2> HIDE DEF w, made, c, v
  <2>3. w.tag = "DECIMAL"
    BY <2>2 DEF Parameter
  <2>4. CoalesceNumericToChars(w) = w
    BY <2>3 DEF CoalesceNumericToChars, Integrals, Signeds, Unsigneds, Floats
  <2> QED
    BY <1>2, <1>4, <2>2, <2>4 DEF v, ExpectedAs
<1>5. CASE ~(Decimalised(q) /\ t \in Integrals)
  <2>1. w = Parameter(t, val, len, x)
    <3>1. c = v
      BY <1>3, <1>5
    <3> HIDE DEF c
    <3> QED
      BY <3>1 DEF Parameter
  <2> HIDE DEF w, made, c
  <2>2. w.tag = t /\ w.val = val /\ w.expected = x
    BY <2>1 DEF Parameter
  <2>3. TransformNumericToChars(w) =
          Parameter("DECIMAL_AS_CHARS", TextNumber(val.n), TextLength(val.n), x)
    BY <2>2 DEF TransformNumericToChars, Chars, Tagged, Parameter, TextNumber
  <2> HIDE DEF v
  <2> QED
    BY <1>2, <1>5, <2>1, <2>2, <2>3 DEF CoalesceNumericToChars, v, ExpectedAs
<1> QED
  BY <1>4, <1>5

WithTime2(q) == "time_params_as_ss_time2" \in q.flags
AsText(q) == "decimal_params_as_chars" \in q.flags

(* The value of the union for each type DuckDB hands over.                  *)
ExtractedAs(e, q, d, of_vector) ==
  /\ d.type \in Integrals \cup Floats \cup {"BOOLEAN"} =>
       e = Parameter(d.type, [n |-> d.n], FixedSize, "UNKNOWN")
  /\ d.type = "DECIMAL" /\ AsText(q) =>
       e = Parameter("DECIMAL_AS_CHARS", [n |-> d.n], TextLength(d.n), "UNKNOWN")
  /\ d.type = "DECIMAL" /\ ~AsText(q) =>
       e = Parameter("DECIMAL", NumericStruct(HugeintOf(d.n), d.width, d.scale),
                     FixedSize, "UNKNOWN")
  /\ d.type = "VARCHAR" =>
       LET chars == IF of_vector THEN d.n ELSE d.width
       IN  e = Parameter("VARCHAR", [n |-> chars], WcharBytes * chars, "UNKNOWN")
  /\ d.type = "BLOB" => e = Parameter("BLOB", [n |-> d.n], d.n, "UNKNOWN")
  /\ d.type = "UUID" =>
       e = Parameter("UUID", Guid(HugeintOf(d.n)), FixedSize, "UNKNOWN")
  /\ d.type = "DATE" =>
       e = Parameter("DATE", [n |-> YearParam(d.n)], FixedSize, "UNKNOWN")
  /\ d.type = "TIME" =>
       e = Parameter(IF WithTime2(q) THEN "TIME_WITH_NANOS" ELSE "TIME",
                     TimeParam(WithTime2(q), d.n), FixedSize, "UNKNOWN")
  /\ d.type \in {"TIMESTAMP", "TIMESTAMP_TZ"} =>
       e = Parameter("TIMESTAMP", TimestampParam(q.fraction, d.n), FixedSize, "UNKNOWN")
  /\ d.type = "TIMESTAMP_NS" =>
       e = Parameter("TIMESTAMP", TimestampNsParam(q.fraction, d.n), FixedSize, "UNKNOWN")
  /\ d.type = "SQLNULL" => e = Parameter("SQLNULL", [n |-> 0], NullLength, "UNKNOWN")

(* ... and Extract gives one of these.                                      *)
LEMMA ExtractedForm ==
  ASSUME NEW q, NEW d, DuckValue(d), d.type \in Extractable, NEW of_vector \in BOOLEAN
  PROVE  ExtractedAs(Extract(q, d, of_vector), q, d, of_vector)
<1> DEFINE e == Extract(q, d, of_vector)
<1> SUFFICES ExtractedAs(e, q, d, of_vector)
  OBVIOUS
<1> USE DEF Tagged, Scalar, Parameter
<1>1. CASE d.type \in Integrals \cup Floats \cup {"BOOLEAN"}
  <2>1. e = Parameter(d.type, [n |-> d.n], FixedSize, "UNKNOWN")
    BY <1>1 DEF Extract, Integrals, Signeds, Unsigneds, Floats
  <2> QED
    BY <1>1, <2>1 DEF ExtractedAs, Integrals, Signeds, Unsigneds, Floats
<1>2. CASE d.type = "DECIMAL"
  <2>1. e = ExtractDecimal(q, d, of_vector)
    BY <1>2 DEF Extract, Integrals, Signeds, Unsigneds, Floats
  <2>2. d.n \in Int /\ d.width \in Nat /\ d.width <= HugeDigits /\ Abs(d.n) < Power10(d.width)
    BY <1>2, Widths DEF DuckValue
  <2>3. DecimalOfVector(d.width, d.n) = HugeintOf(d.n)
    BY <2>2, DecimalOfVectorValue
  <2>4. e = Decimal(HugeintOf(d.n), d.width, d.scale, AsText(q))
    BY <2>1, <2>3 DEF ExtractDecimal, AsText
  <2>5. HugeintValue(HugeintOf(d.n)) = d.n
    BY <2>2, DecimalFits, HugeintOfValue
  <2> HIDE DEF e
  <2>6. AsText(q) => e = Parameter("DECIMAL_AS_CHARS", [n |-> d.n], TextLength(d.n), "UNKNOWN")
    BY <2>4, <2>5 DEF Decimal, Chars
  <2>7. ~AsText(q) => e = Parameter("DECIMAL", NumericStruct(HugeintOf(d.n), d.width, d.scale),
                                    FixedSize, "UNKNOWN")
    BY <2>4 DEF Decimal
  <2> HIDE DEF Parameter
  <2> QED
    BY <1>2, <2>6, <2>7 DEF ExtractedAs, Integrals, Signeds, Unsigneds, Floats
<1>3. CASE d.type = "VARCHAR"
  <2>1. e = ExtractVarchar(d, of_vector)
    BY <1>3 DEF Extract, Integrals, Signeds, Unsigneds, Floats
  <2> HIDE DEF e
  <2> QED
    BY <1>3, <2>1 DEF ExtractedAs, ExtractVarchar, Integrals, Signeds, Unsigneds, Floats
<1>4. CASE d.type = "BLOB"
  <2>1. e = ExtractBlob(d)
    BY <1>4 DEF Extract, Integrals, Signeds, Unsigneds, Floats
  <2> HIDE DEF e
  <2> QED
    BY <1>4, <2>1 DEF ExtractedAs, ExtractBlob, Integrals, Signeds, Unsigneds, Floats
<1>5. CASE d.type = "UUID"
  <2>1. e = ExtractUuid(d, of_vector)
    BY <1>5 DEF Extract, Integrals, Signeds, Unsigneds, Floats
  <2>2. d.n \in Int
    BY DEF DuckValue
  <2>3. Flip(StoredUuid(d.n)) = HugeintOf(d.n)
    BY <2>2, HugeintOfFields, FlipTwice DEF StoredUuid
  <2>4. e = Parameter("UUID", Guid(HugeintOf(d.n)), FixedSize, "UNKNOWN")
    BY <2>1, <2>3 DEF ExtractUuid
  <2> HIDE DEF e, Parameter
  <2> QED
    BY <1>5, <2>4 DEF ExtractedAs, Integrals, Signeds, Unsigneds, Floats
<1>6. CASE d.type = "DATE"
  <2>1. e = Parameter("DATE", [n |-> YearParam(d.n)], FixedSize, "UNKNOWN")
    BY <1>6 DEF Extract, Integrals, Signeds, Unsigneds, Floats
  <2> HIDE DEF e, Parameter
  <2> QED
    BY <1>6, <2>1 DEF ExtractedAs, Integrals, Signeds, Unsigneds, Floats
<1>7. CASE d.type = "TIME"
  <2>1. e = ExtractTime(q, d)
    BY <1>7 DEF Extract, Integrals, Signeds, Unsigneds, Floats
  <2> HIDE DEF e
  <2>2. e = Parameter(IF WithTime2(q) THEN "TIME_WITH_NANOS" ELSE "TIME",
                      TimeParam(WithTime2(q), d.n), FixedSize, "UNKNOWN")
    <3>1. CASE WithTime2(q)
      BY <2>1, <3>1 DEF ExtractTime, WithTime2, TimeParam
    <3>2. CASE ~WithTime2(q)
      BY <2>1, <3>2 DEF ExtractTime, WithTime2, TimeParam
    <3> QED
      BY <3>1, <3>2
  <2> HIDE DEF Parameter
  <2> QED
    BY <1>7, <2>2 DEF ExtractedAs, Integrals, Signeds, Unsigneds, Floats
<1>8. CASE d.type \in {"TIMESTAMP", "TIMESTAMP_TZ"}
  <2>1. e = Parameter("TIMESTAMP", TimestampParam(q.fraction, d.n), FixedSize, "UNKNOWN")
    BY <1>8 DEF Extract, Integrals, Signeds, Unsigneds, Floats
  <2> HIDE DEF e, Parameter
  <2> QED
    BY <1>8, <2>1 DEF ExtractedAs, Integrals, Signeds, Unsigneds, Floats
<1>9. CASE d.type = "TIMESTAMP_NS"
  <2>1. e = Parameter("TIMESTAMP", TimestampNsParam(q.fraction, d.n), FixedSize, "UNKNOWN")
    BY <1>9 DEF Extract, Integrals, Signeds, Unsigneds, Floats
  <2> HIDE DEF e, Parameter
  <2> QED
    BY <1>9, <2>1 DEF ExtractedAs, Integrals, Signeds, Unsigneds, Floats
<1>10. CASE d.type = "SQLNULL"
  <2>1. e = Parameter("SQLNULL", [n |-> 0], NullLength, "UNKNOWN")
    BY <1>10 DEF Extract, Integrals, Signeds, Unsigneds, Floats
  <2> HIDE DEF e, Parameter
  <2> QED
    BY <1>10, <2>1 DEF ExtractedAs, Integrals, Signeds, Unsigneds, Floats
<1> HIDE DEF Parameter, e
<1> QED
  BY <1>1, <1>2, <1>3, <1>4, <1>5, <1>6, <1>7, <1>8, <1>9, <1>10
     DEF Extractable, Timestamps

TimeMember2(q) == IF WithTime2(q) THEN "TIME_WITH_NANOS" ELSE "TIME"

(* What the driver is told of a parameter of each tag.                      *)
BoundAs(b, q, t, val, len, x) ==
  LET wide == t = "DECIMAL_AS_CHARS" /\ x \in WideSqlTypes
  IN
    /\ b.error = IF t \in {"TIME", "TIME_WITH_NANOS"} /\ t # TimeMember2(q)
                 THEN "mistyped" ELSE "none"
    /\ b.error = "none" =>
         b.len = IF wide THEN WcharBytes * TextLength(val.n) ELSE len
    /\ t \in Integrals \cup Floats \cup {"BOOLEAN", "DATE"} => b.reads = val.n
    /\ t = "DECIMAL" => b.reads = NumericMeaning(val) /\ b.precision = val.precision
    /\ t = "DECIMAL_AS_CHARS" =>
         /\ b.ctype = IF x \in WideSqlTypes THEN "WCHAR" ELSE "CHAR"
         /\ wide \/ len = TextLength(val.n) => b.reads = val.n
    /\ t = "VARCHAR" => b.reads = len \div WcharBytes
    /\ t = "BLOB" => b.reads = len
    /\ t = "UUID" => b.reads = GuidMeaning(val)
    /\ t \in {"TIME", "TIME_WITH_NANOS", "TIMESTAMP"} /\ b.error = "none" =>
         b.reads = StructNanos(val)
    /\ t = "SQLNULL" => b.reads = 0
    /\ b.ctype = "NUMERIC" => t = "DECIMAL"

(* ... and BindOdbcParam gives one of these.                                *)
LEMMA BoundForm ==
  ASSUME NEW q, NEW t \in Tags, NEW val, NEW len, NEW x
  PROVE  BoundAs(BindOdbcParam(q, Parameter(t, val, len, x)), q, t, val, len, x)
<1> DEFINE v == Parameter(t, val, len, x)
           b == BindOdbcParam(q, v)
<1> SUFFICES BoundAs(b, q, t, val, len, x)
  OBVIOUS
<1>1. v.tag = t /\ v.val = val /\ v.len = len /\ v.expected = x
  BY DEF Parameter
<1> HIDE DEF v
<1> USE DEF Bound
<1>2. CASE t \in Integrals \cup Floats \cup {"BOOLEAN"}
  <2>1. CASE t \in Integrals
    <3>1. b = BindIntegral(v)
      BY <1>1, <2>1 DEF BindOdbcParam, Integrals, Signeds, Unsigneds, Floats
    <3> HIDE DEF b
    <3>2. b.error = "none" /\ b.len = len /\ b.reads = val.n /\ b.ctype = t
      BY <1>1, <3>1 DEF BindIntegral
    <3> HIDE DEF Bound
    <3> QED
      BY <2>1, <3>2 DEF BoundAs, Integrals, Signeds, Unsigneds, Floats
  <2>2. CASE t \in Floats
    <3>1. b = BindFloat(v)
      BY <1>1, <2>2 DEF BindOdbcParam, Integrals, Signeds, Unsigneds, Floats
    <3> HIDE DEF b
    <3>2. b.error = "none" /\ b.len = len /\ b.reads = val.n /\ b.ctype = t
      BY <1>1, <3>1 DEF BindFloat
    <3> HIDE DEF Bound
    <3> QED
      BY <2>2, <3>2 DEF BoundAs, Integrals, Signeds, Unsigneds, Floats
  <2>3. CASE t = "BOOLEAN"
    <3>1. b = BindBoolean(v)
      BY <1>1, <2>3 DEF BindOdbcParam, Integrals, Signeds, Unsigneds, Floats
    <3> HIDE DEF b
    <3>2. b.error = "none" /\ b.len = len /\ b.reads = val.n /\ b.ctype = "BIT"
      BY <1>1, <3>1 DEF BindBoolean
    <3> HIDE DEF Bound
    <3> QED
      BY <2>3, <3>2 DEF BoundAs, Integrals, Signeds, Unsigneds, Floats
  <2> QED
    BY <1>2, <2>1, <2>2, <2>3
<1>3. CASE t = "DECIMAL"
  <2>1. b = BindNumeric(v)
    BY <1>1, <1>3 DEF BindOdbcParam, Integrals, Signeds, Unsigneds, Floats
  <2> HIDE DEF b
  <2>2. /\ b.error = "none" /\ b.len = len /\ b.reads = NumericMeaning(val)
        /\ b.precision = val.precision
    BY <1>1, <2>1 DEF BindNumeric
  <2> HIDE DEF Bound
  <2> QED
    BY <1>3, <2>2 DEF BoundAs, Integrals, Signeds, Unsigneds, Floats
<1>4. CASE t = "DECIMAL_AS_CHARS"
  <2>1. b = BindChars(v)
    BY <1>1, <1>4 DEF BindOdbcParam, Integrals, Signeds, Unsigneds, Floats
  <2> HIDE DEF b
  <2>2. CASE x \in WideSqlTypes
    <3>1. /\ b.error = "none" /\ b.len = WcharBytes * TextLength(val.n)
          /\ b.ctype = "WCHAR" /\ b.reads = val.n
      BY <1>1, <2>1, <2>2 DEF BindChars
    <3> HIDE DEF Bound
    <3> QED
      BY <1>4, <2>2, <3>1 DEF BoundAs, Integrals, Signeds, Unsigneds, Floats
  <2>3. CASE x \notin WideSqlTypes
    <3>1. /\ b.error = "none" /\ b.len = len /\ b.ctype = "CHAR"
          /\ len = TextLength(val.n) => b.reads = val.n
      BY <1>1, <2>1, <2>3 DEF BindChars
    <3> HIDE DEF Bound
    <3> QED
      BY <1>4, <2>3, <3>1 DEF BoundAs, Integrals, Signeds, Unsigneds, Floats
  <2> QED
    BY <2>2, <2>3
<1>5. CASE t = "VARCHAR"
  <2>1. b = BindVarchar(q, v)
    BY <1>1, <1>5 DEF BindOdbcParam, Integrals, Signeds, Unsigneds, Floats
  <2> HIDE DEF b
  <2>2. b.error = "none" /\ b.len = len /\ b.reads = len \div WcharBytes /\ b.ctype = "WCHAR"
    BY <1>1, <2>1 DEF BindVarchar
  <2> HIDE DEF Bound
  <2> QED
    BY <1>5, <2>2 DEF BoundAs, Integrals, Signeds, Unsigneds, Floats
<1>6. CASE t = "BLOB"
  <2>1. b = BindBlob(q, v)
    BY <1>1, <1>6 DEF BindOdbcParam, Integrals, Signeds, Unsigneds, Floats
  <2> HIDE DEF b
  <2>2. b.error = "none" /\ b.len = len /\ b.reads = len /\ b.ctype = "BINARY"
    BY <1>1, <2>1 DEF BindBlob
  <2> HIDE DEF Bound
  <2> QED
    BY <1>6, <2>2 DEF BoundAs, Integrals, Signeds, Unsigneds, Floats
<1>7. CASE t = "UUID"
  <2>1. b = BindUuid(v)
    BY <1>1, <1>7 DEF BindOdbcParam, Integrals, Signeds, Unsigneds, Floats
  <2> HIDE DEF b
  <2>2. b.error = "none" /\ b.len = len /\ b.reads = GuidMeaning(val) /\ b.ctype = "GUID"
    BY <1>1, <2>1 DEF BindUuid
  <2> HIDE DEF Bound
  <2> QED
    BY <1>7, <2>2 DEF BoundAs, Integrals, Signeds, Unsigneds, Floats
<1>8. CASE t = "DATE"
  <2>1. b = BindDate(v)
    BY <1>1, <1>8 DEF BindOdbcParam, Integrals, Signeds, Unsigneds, Floats
  <2> HIDE DEF b
  <2>2. b.error = "none" /\ b.len = len /\ b.reads = val.n /\ b.ctype = "TYPE_DATE"
    BY <1>1, <2>1 DEF BindDate
  <2> HIDE DEF Bound
  <2> QED
    BY <1>8, <2>2 DEF BoundAs, Integrals, Signeds, Unsigneds, Floats
<1>9. CASE t \in {"TIME", "TIME_WITH_NANOS"}
  <2>1. b = BindTime(q, v)
    BY <1>1, <1>9 DEF BindOdbcParam, Integrals, Signeds, Unsigneds, Floats
  <2> HIDE DEF b
  <2>2. CASE t = TimeMember2(q)
    <3>1. /\ b.error = "none" /\ b.len = len /\ b.reads = StructNanos(val)
          /\ b.ctype \in {"BINARY", "TYPE_TIME"}
      BY <1>1, <2>1, <2>2 DEF BindTime, HasMember, TimeMember2, WithTime2
    <3> HIDE DEF Bound
    <3> QED
      BY <1>9, <2>2, <3>1 DEF BoundAs, Integrals, Signeds, Unsigneds, Floats
  <2>3. CASE t # TimeMember2(q)
    <3>1. b = Refused("mistyped")
      BY <1>1, <2>1, <2>3 DEF BindTime, HasMember, TimeMember2, WithTime2
    <3>2. b.error = "mistyped" /\ b.ctype = "none"
      BY <3>1 DEF Refused
    <3> HIDE DEF Bound
    <3> QED
      BY <1>9, <2>3, <3>2 DEF BoundAs, Integrals, Signeds, Unsigneds, Floats
  <2> QED
    BY <2>2, <2>3
<1>10. CASE t = "TIMESTAMP"
  <2>1. b = BindTimestamp(q, v)
    BY <1>1, <1>10 DEF BindOdbcParam, Integrals, Signeds, Unsigneds, Floats
  <2> HIDE DEF b
  <2>2. /\ b.error = "none" /\ b.len = len /\ b.reads = StructNanos(val)
        /\ b.ctype = "TYPE_TIMESTAMP"
    BY <1>1, <2>1 DEF BindTimestamp
  <2> HIDE DEF Bound
  <2> QED
    BY <1>10, <2>2 DEF BoundAs, Integrals, Signeds, Unsigneds, Floats
<1>11. CASE t = "SQLNULL"
  <2>1. b = BindNull(v)
    BY <1>1, <1>11 DEF BindOdbcParam, Integrals, Signeds, Unsigneds, Floats
  <2> HIDE DEF b
  <2>2. b.error = "none" /\ b.len = len /\ b.reads = 0 /\ b.ctype = "DEFAULT"
    BY <1>1, <2>1 DEF BindNull
  <2> HIDE DEF Bound
  <2> QED
    BY <1>11, <2>2 DEF BoundAs, Integrals, Signeds, Unsigneds, Floats
<1> HIDE DEF Bound, b
<1> QED
  BY <1>2, <1>3, <1>4, <1>5, <1>6, <1>7, <1>8, <1>9, <1>10, <1>11 DEF Tags

(* A parameter that was bound is bound the same way again, with the length  *)
(* the first time left.                                                     *)
LEMMA BoundAgain ==
  ASSUME NEW q, NEW t \in Tags, NEW val, NEW len, NEW x,
         BindOdbcParam(q, Parameter(t, val, len, x)).error = "none"
  PROVE  LET b == BindOdbcParam(q, Parameter(t, val, len, x))
         IN  BindOdbcParam(q, Parameter(t, val, b.len, x)) = b
<1> DEFINE b == BindOdbcParam(q, Parameter(t, val, len, x))
<1>1. b.len = IF t = "DECIMAL_AS_CHARS" /\ x \in WideSqlTypes
              THEN WcharBytes * TextLength(val.n) ELSE len
  <2>1. BoundAs(b, q, t, val, len, x)
    BY BoundForm
  <2>2. b.error = "none"
    OBVIOUS
  <2> HIDE DEF b
  <2> QED
    BY <2>1, <2>2 DEF BoundAs
<1>2. CASE ~(t = "DECIMAL_AS_CHARS" /\ x \in WideSqlTypes)
  <2>1. b.len = len
    BY <1>1, <1>2
  <2> QED
    BY <2>1
<1>3. CASE t = "DECIMAL_AS_CHARS" /\ x \in WideSqlTypes
  <2>1. ASSUME NEW l PROVE BindOdbcParam(q, Parameter(t, val, l, x)) =
                             Bound("WCHAR", x, val.n, WcharBytes * TextLength(val.n))
    <3> DEFINE v == Parameter(t, val, l, x)
    <3>1. v.tag = "DECIMAL_AS_CHARS" /\ v.val = val /\ v.expected = x
      BY <1>3 DEF Parameter
    <3> HIDE DEF v
    <3>2. BindOdbcParam(q, v) = BindChars(v)
      BY <3>1 DEF BindOdbcParam, Integrals, Signeds, Unsigneds, Floats
    <3>3. BindChars(v) = Bound("WCHAR", x, val.n, WcharBytes * TextLength(val.n))
      BY <1>3, <3>1 DEF BindChars
    <3> QED
      BY <3>2, <3>3 DEF v
  <2> QED
    BY <2>1
<1> QED
  BY <1>2, <1>3

Lengths == Nat \cup {FixedSize, NullLength}

(* A parameter whose expected type is x.                                    *)
IsParameter(v, x) ==
  /\ v = Parameter(v.tag, v.val, v.len, x)
  /\ v.tag \in Tags /\ v.len \in Lengths

(* A parameter built for a tag and a length is one.                         *)
LEMMA ParameterIs ==
  ASSUME NEW t \in Tags, NEW val, NEW len \in Lengths, NEW x
  PROVE  IsParameter(Parameter(t, val, len, x), x)
BY DEF IsParameter, Parameter

(* Numbers and booleans keep their type as the tag of their value.          *)
LEMMA TagsOfTypes == Integrals \cup Floats \cup {"BOOLEAN"} \subseteq Tags
BY DEF Tags, Integrals, Signeds, Unsigneds, Floats

(* Every value of a type ExtractNotNullParam has a case for is one of the   *)
(* members of the union.                                                    *)
LEMMA ExtractedParameter ==
  ASSUME NEW q, NEW d, DuckValue(d), d.type \in Extractable, NEW of_vector \in BOOLEAN
  PROVE  IsParameter(Extract(q, d, of_vector), "UNKNOWN")
<1> DEFINE e == Extract(q, d, of_vector)
<1> SUFFICES IsParameter(e, "UNKNOWN")
  OBVIOUS
<1>g. ExtractedAs(e, q, d, of_vector)
  BY ExtractedForm
<1> HIDE DEF e
<1>0. FixedSize \in Lengths /\ NullLength \in Lengths
  BY DEF Lengths
<1>1. CASE d.type \in Integrals \cup Floats \cup {"BOOLEAN"}
  <2>1. e = Parameter(d.type, [n |-> d.n], FixedSize, "UNKNOWN")
    BY <1>1, <1>g DEF ExtractedAs
  <2> QED
    BY <1>0, <1>1, <2>1, TagsOfTypes, ParameterIs
<1>2. CASE d.type = "DECIMAL"
  <2>1. d.n \in Int
    BY DEF DuckValue
  <2>2. TextLength(d.n) \in Lengths /\ FixedSize \in Lengths
    BY <2>1, TextLengthType DEF Lengths
  <2>3. "DECIMAL" \in Tags /\ "DECIMAL_AS_CHARS" \in Tags
    BY DEF Tags
  <2>4. \/ e = Parameter("DECIMAL_AS_CHARS", [n |-> d.n], TextLength(d.n), "UNKNOWN")
        \/ e = Parameter("DECIMAL", NumericStruct(HugeintOf(d.n), d.width, d.scale),
                         FixedSize, "UNKNOWN")
    BY <1>2, <1>g DEF ExtractedAs
  <2> QED
    BY <2>2, <2>3, <2>4, ParameterIs
<1>3. CASE d.type = "VARCHAR"
  <2> DEFINE chars == IF of_vector THEN d.n ELSE d.width
  <2>1. WcharBytes * chars \in Lengths
    BY <1>3 DEF DuckValue, WcharBytes, Lengths
  <2>2. e = Parameter("VARCHAR", [n |-> chars], WcharBytes * chars, "UNKNOWN")
    BY <1>3, <1>g DEF ExtractedAs
  <2>3. "VARCHAR" \in Tags
    BY DEF Tags
  <2> QED
    BY <2>1, <2>2, <2>3, ParameterIs
<1>4. CASE d.type = "BLOB"
  <2>1. e = Parameter("BLOB", [n |-> d.n], d.n, "UNKNOWN")
    BY <1>4, <1>g DEF ExtractedAs
  <2>2. d.n \in Lengths /\ "BLOB" \in Tags
    BY <1>4 DEF DuckValue, Lengths, Tags
  <2> QED
    BY <2>1, <2>2, ParameterIs
<1>5. CASE d.type = "UUID"
  <2>1. e = Parameter("UUID", Guid(HugeintOf(d.n)), FixedSize, "UNKNOWN")
    BY <1>5, <1>g DEF ExtractedAs
  <2> QED
    BY <1>0, <2>1, ParameterIs DEF Tags
<1>6. CASE d.type = "DATE"
  <2>1. e = Parameter("DATE", [n |-> YearParam(d.n)], FixedSize, "UNKNOWN")
    BY <1>6, <1>g DEF ExtractedAs
  <2> QED
    BY <1>0, <2>1, ParameterIs DEF Tags
<1>7. CASE d.type = "TIME"
  <2>1. e = Parameter(IF WithTime2(q) THEN "TIME_WITH_NANOS" ELSE "TIME",
                      TimeParam(WithTime2(q), d.n), FixedSize, "UNKNOWN")
    BY <1>7, <1>g DEF ExtractedAs
  <2>2. (IF WithTime2(q) THEN "TIME_WITH_NANOS" ELSE "TIME") \in Tags
    BY DEF Tags
  <2> QED
    BY <1>0, <2>1, <2>2, ParameterIs
<1>8. CASE d.type \in Timestamps
  <2>1. \/ e = Parameter("TIMESTAMP", TimestampParam(q.fraction, d.n), FixedSize, "UNKNOWN")
        \/ e = Parameter("TIMESTAMP", TimestampNsParam(q.fraction, d.n), FixedSize, "UNKNOWN")
    BY <1>8, <1>g DEF ExtractedAs, Timestamps
  <2> QED
    BY <1>0, <2>1, ParameterIs DEF Tags
<1>9. CASE d.type = "SQLNULL"
  <2>1. e = Parameter("SQLNULL", [n |-> 0], NullLength, "UNKNOWN")
    BY <1>9, <1>g DEF ExtractedAs
  <2> QED
    BY <1>0, <2>1, ParameterIs DEF Tags
<1> QED
  BY <1>1, <1>2, <1>3, <1>4, <1>5, <1>6, <1>7, <1>8, <1>9 DEF Extractable

(* Once a type is expected it stays one of the members, and the same type   *)
(* expected once more, if it is not known, changes nothing.                 *)
StaysUnknown(q, v) ==
  \A k : LET w == Parameter(v.tag, v.val, k, "UNKNOWN")
         IN  SetExpectedType(q, w, "UNKNOWN") = w

(* What set_expected_type leaves is a parameter that expects what the       *)
(* database told, and an unknown expectation leaves a value no conversion   *)
(* touches.                                                                 *)
LEMMA ExpectedParameter ==
  ASSUME NEW q, NEW t \in Tags, NEW val, val.n \in Int \/ t \notin Integrals \cup Floats,
         NEW len \in Lengths, NEW x
  PROVE  LET v == SetExpectedType(q, Parameter(t, val, len, "UNKNOWN"), x)
         IN  IsParameter(v, x) /\ (x = "UNKNOWN" => StaysUnknown(q, v))
<1> DEFINE v == SetExpectedType(q, Parameter(t, val, len, "UNKNOWN"), x)
<1>1. FixedSize \in Lengths /\ "DECIMAL" \in Tags /\ "DECIMAL_AS_CHARS" \in Tags
  BY DEF Lengths, Tags
<1>2. /\ "DECIMAL" \notin Integrals \cup Floats
      /\ "UNKNOWN" \notin CharacterSqlTypes
  BY DEF Integrals, Signeds, Unsigneds, Floats, CharacterSqlTypes, WideSqlTypes
<1>3. CASE Decimalised(q) /\ t \in Integrals
  <2>1. v = Parameter("DECIMAL", MadeStruct(t, val), FixedSize, x)
    BY <1>3, SetExpected DEF ExpectedAs
  <2> HIDE DEF v
  <2>2. v.tag = "DECIMAL"
    BY <2>1 DEF Parameter
  <2>3. StaysUnknown(q, v)
    BY <1>2, <2>2, SetExpected DEF StaysUnknown, ExpectedAs
  <2>4. IsParameter(v, x)
    BY <1>1, <2>1, ParameterIs
  <2> QED
    BY <2>3, <2>4 DEF v
<1>4. CASE ~(Decimalised(q) /\ t \in Integrals) /\ x \in CharacterSqlTypes
           /\ t \in Integrals \cup Floats
  <2>1. v = Parameter("DECIMAL_AS_CHARS", TextNumber(val.n), TextLength(val.n), x)
    BY <1>4, SetExpected DEF ExpectedAs
  <2>2. TextLength(val.n) \in Lengths
    BY <1>4, TextLengthType DEF Lengths
  <2> HIDE DEF v
  <2>3. x # "UNKNOWN"
    BY <1>2, <1>4
  <2>4. IsParameter(v, x)
    BY <1>1, <2>1, <2>2, ParameterIs
  <2> QED
    BY <2>3, <2>4 DEF v
<1>5. CASE ~(Decimalised(q) /\ t \in Integrals) /\ ~(x \in CharacterSqlTypes
           /\ t \in Integrals \cup Floats)
  <2>1. v = Parameter(t, val, len, x)
    BY <1>5, SetExpected DEF ExpectedAs
  <2> HIDE DEF v
  <2>2. v.tag = t
    BY <2>1 DEF Parameter
  <2>3. StaysUnknown(q, v)
    BY <1>2, <1>5, <2>2, SetExpected DEF StaysUnknown, ExpectedAs
  <2>4. IsParameter(v, x)
    BY <2>1, ParameterIs
  <2> QED
    BY <2>3, <2>4 DEF v
<1> QED
  BY <1>3, <1>4, <1>5

(* The number a driver reads in a timestamp is a number, also where it is   *)
(* not the one that was meant.                                              *)
LEMMA StructTyped ==
  ASSUME NEW precision \in Int, NEW second \in Int, NEW n \in Int,
         -NanosPerSecond < n, n < NanosPerSecond
  PROVE  StructNanos(TimestampStruct(precision, second, n)) \in Int
<1> DEFINE a == Abs(n)
           r == RoundTimestampNanoFraction(precision, n)
<1>1. a \in Nat /\ a < NanosPerSecond /\ NanosPerSecond \in Nat
  BY Units DEF Abs
<1>2. Abs(a) = a /\ (n = 0 <=> a = 0)
  BY DEF Abs
<1>3. DigitsCount(n) \in Nat
  <2>1. DigitsCount(a) \in Nat
    <3> HIDE DEF a
    <3> QED
      BY <1>1, CountOfDigits, TemporalAssumption
  <2>2. DigitsCount(n) = DigitsCount(a)
    <3>1. DigitsCount(n) = IF n = 0 THEN 0 ELSE CHOOSE k \in 1 .. NanoDigits + 1 :
                             Power10(k - 1) <= a /\ a < Power10(k)
      BY DEF DigitsCount
    <3> HIDE DEF a
    <3>2. DigitsCount(a) = IF a = 0 THEN 0 ELSE CHOOSE k \in 1 .. NanoDigits + 1 :
                             Power10(k - 1) <= a /\ a < Power10(k)
      BY <1>2 DEF DigitsCount
    <3> QED
      BY <1>2, <3>1, <3>2
  <2> QED
    BY <2>1, <2>2
<1>4. r \in Int
  <2> DEFINE c == DigitsCount(n)
             p == Power10(c - precision)
  <2>1. CASE c <= precision
    BY <2>1 DEF RoundTimestampNanoFraction
  <2>2. CASE ~(c <= precision)
    <3>1. c - precision \in Nat
      BY <1>3, <2>2
    <3>2. p \in Nat /\ p > 0
      BY <3>1, Widths
    <3>3. r = n - Remainder(n, p)
      <4>1. Pow(10, c - precision) = p
        BY <3>1, PowerBySquares DEF Power10
      <4> QED
        BY <2>2, <4>1 DEF RoundTimestampNanoFraction
    <3> HIDE DEF p, r
    <3>4. Quotient(n, p) \in Int
      <4>1. a \div p \in Int /\ n \div p \in Int
        BY <1>1, <3>2, Division
      <4> QED
        BY <4>1 DEF Quotient
    <3>5. Remainder(n, p) \in Int
      BY <3>2, <3>4 DEF Remainder
    <3> QED
      BY <3>3, <3>5
  <2> QED
    BY <2>1, <2>2
<1> HIDE DEF r
<1>5. r % UInt \in Nat
  BY <1>4, TemporalAssumption
<1>6. StructNanos(TimestampStruct(precision, second, n)) = second * NanosPerSecond + (r % UInt)
  BY DEF StructNanos, TimestampStruct, Struct, r
<1>7. second * NanosPerSecond \in Int
  BY Units
<1> QED
  BY <1>5, <1>6, <1>7

(* The fields of a timestamp parameter make a moment.                       *)
LEMMA TimestampTyped ==
  ASSUME NEW precision \in Int, NEW n \in Int
  PROVE  /\ StructNanos(TimestampParam(precision, n)) \in Int
         /\ StructNanos(TimestampNsParam(precision, n)) \in Int
<1> DEFINE c == NanosPerMicro
           d == MicrosPerSecond
           m == Quotient(n, c)
           r == Remainder(n, c)
<1>1. c \in Nat /\ c > 0 /\ d \in Nat /\ d > 0 /\ NanosPerSecond = d * c
      /\ NanosPerSecond \in Nat
  BY Units
<1>2. StructNanos(TimestampParam(precision, n)) \in Int
  <2> DEFINE f == (n % MicrosPerSecond) * NanosPerMicro
             s == n \div MicrosPerSecond
  <2>1. s \in Int /\ f \in Nat /\ f < NanosPerSecond
    BY SecondsAndFraction
  <2>2. TimestampParam(precision, n) = TimestampStruct(precision, s, f)
    BY DEF TimestampParam
  <2> HIDE DEF f, s
  <2>3. -NanosPerSecond < f /\ f \in Int
    BY <1>1, <2>1
  <2> QED
    BY <2>1, <2>2, <2>3, StructTyped
<1>3. StructNanos(TimestampNsParam(precision, n)) \in Int
  <2>1. m \in Int /\ r \in Int /\ -c < r /\ r < c
    <3> HIDE DEF c
    <3>1. CASE n >= 0
      <4>1. m = n \div c /\ r = n - c * m
        BY <3>1 DEF Quotient, Remainder
      <4>2. n = c * (n \div c) + (n % c) /\ n \div c \in Int /\ n % c \in Nat /\ n % c < c
        BY <1>1, Division
      <4> QED
        BY <1>1, <4>1, <4>2
    <3>2. CASE n < 0
      <4> DEFINE k == -n
      <4>1. m = -(k \div c) /\ r = n - c * m
        BY <3>2 DEF Quotient, Remainder, Abs
      <4>2. k = c * (k \div c) + (k % c) /\ k \div c \in Int /\ k % c \in Nat /\ k % c < c
        BY <1>1, Division
      <4> QED
        BY <1>1, <3>2, <4>1, <4>2
    <3> QED
      BY <3>1, <3>2
  <2> DEFINE f == (m % d) * c
             s == m \div d
  <2> HIDE DEF m, r
  <2>2. s \in Int /\ f \in Nat /\ f + c <= d * c
    <3> DEFINE w == m % d
    <3>1. s \in Int /\ w \in Nat /\ w < d
      BY <1>1, <2>1, Division
    <3> HIDE DEF w, c, d, s
    <3>2. w * c \in Nat /\ w * c + c <= d * c
      BY <1>1, <3>1
    <3> QED
      BY <3>1, <3>2 DEF w
  <2>3. TimestampNsParam(precision, n) = TimestampStruct(precision, s, f + r)
    BY DEF TimestampNsParam, m, r
  <2> HIDE DEF f, s, c, d
  <2>4. f + r \in Int /\ -NanosPerSecond < f + r /\ f + r < NanosPerSecond
    <3>1. c <= NanosPerSecond
      BY <1>1, <2>2
    <3> QED
      BY <1>1, <2>1, <2>2, <3>1
  <2> DEFINE g == f + r
  <2> HIDE DEF g
  <2>5. StructNanos(TimestampStruct(precision, s, g)) \in Int
    BY <2>2, <2>4, StructTyped DEF g
  <2> QED
    BY <2>3, <2>5 DEF g
<1> QED
  BY <1>2, <1>3

(* The year of SQL_DATE_STRUCT is a number.                                 *)
LEMMA YearTyped ==
  ASSUME NEW n \in Int
  PROVE  YearParam(n) \in Int
BY TemporalAssumption DEF YearParam

(* A divisor of a positive number is no larger than it.                     *)
LEMMA DivisorIsLess ==
  ASSUME NEW m \in Nat, m > 0, NEW d \in Nat, d > 0, m % d = 0
  PROVE  d <= m
<1>1. m = d * (m \div d) + 0 /\ m \div d \in Int
  BY Division
<1> DEFINE q == m \div d
<1> HIDE DEF q
<1>2. q <= 0 => d * q <= 0
  BY <1>1 DEF q
<1>3. q >= 1 => d * q >= d
  BY <1>1 DEF q
<1> QED
  BY <1>1, <1>2, <1>3 DEF q

(* An integral fits a word, and its numbers the DECIMAL it may be made.     *)
LEMMA WordsFit ==
  ASSUME NEW type \in Signeds
  PROVE  /\ SqlValues(type) \in Nat /\ SqlValues(type) <= M
         /\ SqlValues(type) <= Power10(IntegralWidth(type))
         /\ IntegralWidth(type) \in Nat
<1>1. /\ TinyWord \in Nat /\ TinyWord <= Power10(SmallDigits)
      /\ SmallWord <= Power10(IntDigits) /\ IntWord <= Power10(BigDigits)
      /\ M <= Power10(HugeDigits)
  BY PathAssumption
<1>2. /\ M \in Nat /\ M > 0 /\ SmallWord \in Nat /\ SmallWord > 0
      /\ IntWord \in Nat /\ IntWord > 0
  BY WordAssumption
<1>3. SmallWord <= M /\ IntWord <= M
  BY <1>2, DigitsAssumption, DivisorIsLess
<1>4. TinyWord <= M
  <2>1. 2 * Power10(SmallDigits) <= SmallWord /\ Power10(SmallDigits) \in Nat
    BY DigitsAssumption, Widths
  <2> QED
    BY <1>1, <1>2, <1>3, <2>1
<1>5. CASE type = "TINYINT"
  BY <1>1, <1>4, <1>5, Widths DEF SqlValues, IntegralWidth
<1>6. CASE type = "SMALLINT"
  BY <1>1, <1>2, <1>3, <1>6, Widths DEF SqlValues, IntegralWidth
<1>7. CASE type = "INTEGER"
  BY <1>1, <1>2, <1>3, <1>7, Widths DEF SqlValues, IntegralWidth
<1>8. CASE type = "BIGINT"
  BY <1>1, <1>2, <1>8, Widths DEF SqlValues, IntegralWidth
<1> QED
  BY <1>5, <1>6, <1>7, <1>8 DEF Signeds

(* An unsigned column is read into the signed type of the same width.       *)
LEMMA SignedTypes ==
  ASSUME NEW type \in Integrals
  PROVE  SignedOf(type) \in Signeds /\ IntegralWidth(SignedOf(type)) = IntegralWidth(type)
<1> DEFINE P(t) == t = type \/ UnsignedOf(t) = type
           s == CHOOSE t \in Signeds : P(t)
<1>1. \E t \in Signeds : P(t)
  BY DEF Integrals, Signeds, Unsigneds, UnsignedOf
<1>2. s \in Signeds /\ P(s)
  <2> HIDE DEF P
  <2> QED
    BY <1>1
<1>3. SignedOf(type) = s
  BY DEF SignedOf
<1> HIDE DEF s
<1>4. IntegralWidth(s) = IntegralWidth(type)
  BY <1>2 DEF IntegralWidth, UnsignedOf, Signeds
<1> QED
  BY <1>2, <1>3, <1>4

(* An integer argument fits the digits its DECIMAL gets, read signed or     *)
(* unsigned.                                                                *)
LEMMA IntegralFits ==
  ASSUME NEW d, DuckValue(d), d.type \in Integrals
  PROVE  /\ d.n \in Int /\ IntegralWidth(d.type) \in Nat
         /\ d.n >= 0 => d.n % M = d.n /\ d.n < Power10(IntegralWidth(d.type))
         /\ d.n < 0 => d.n % M = d.n + M
<1> DEFINE s == SignedOf(d.type)
           w == SqlValues(s)
           p == Power10(IntegralWidth(d.type))
           n == d.n
<1>1. s \in Signeds /\ IntegralWidth(s) = IntegralWidth(d.type)
  BY SignedTypes
<1>2. w \in Nat /\ w <= M /\ w <= p /\ IntegralWidth(d.type) \in Nat
  <2> HIDE DEF s
  <2> QED
    BY <1>1, WordsFit
<1>3. n \in Int /\ n \in -(w \div 2) .. w - 1
  <2>1. n \in Int /\ n \in SqlRange(s, d.type \in Unsigneds)
    BY DEF DuckValue
  <2> HIDE DEF w, s, n
  <2>2. CASE d.type \in Unsigneds
    BY <1>2, <2>1, <2>2 DEF SqlRange, w
  <2>3. CASE d.type \notin Unsigneds
    BY <1>2, <2>1, <2>3 DEF SqlRange, w
  <2> QED
    BY <2>2, <2>3
<1>4. p \in Nat /\ M \in Nat /\ M > 0
  BY <1>2, Widths, WordAssumption
<1> HIDE DEF w, s, p, n
<1>5. n >= 0 => n % M = n /\ n < p
  BY <1>2, <1>3, <1>4
<1>6. n < 0 => n % M = n + M
  <2>1. n < 0 => n >= -M
    BY <1>2, <1>3, <1>4
  <2>2. -M <= n /\ n < 0 => n % M = n + M
    BY <1>3, <1>4, WordOf
  <2> QED
    BY <2>1, <2>2
<1> QED
  BY <1>2, <1>3, <1>5, <1>6 DEF n, p

(* An integral made a DECIMAL means its lower word.                         *)
LEMMA MadeMeaning ==
  ASSUME NEW n \in Int, NEW width \in Nat
  PROVE  LET ns == NumericStruct([lower |-> n % M, upper |-> 0], width, 0)
         IN  NumericMeaning(ns) = n % M /\ ns.precision = width
<1> DEFINE h == [lower |-> n % M, upper |-> 0]
<1>1. n % M \in Nat /\ n % M < M /\ M \in Nat /\ M > 1
  BY WordAssumption
<1>2. h \in Hugeint
  BY <1>1 DEF Hugeint, Word
<1>3. HugeintValue(h) = n % M
  BY <1>1, Halves DEF HugeintValue
<1> HIDE DEF h
<1>4. NumericMeaning(NumericStruct(h, width, 0)) = HugeintValue(h)
  BY <1>2, NumericStructMeansTheNumber
<1>5. NumericStruct(h, width, 0).precision = width
  BY DEF NumericStruct
<1> QED
  BY <1>3, <1>4, <1>5 DEF h

Made(q, d) == d.type \in Integrals /\ Decimalised(q)
MeantOf(d) ==
  IF d.type \in {"TIME", "TIMESTAMP", "TIMESTAMP_TZ"} THEN d.n * NanosPerMicro ELSE d.n
JustBefore(d) == d.n < 0 /\ (-d.n) % NanosPerSecond \in 1 .. NanosPerMicro - 1

(* ParamArrives of a value d that was bound as b: q are the quirks of the   *)
(* query, e those it was extracted with.                                    *)
ArrivesAs(b, q, e, d, of_vector) ==
  /\ b.reads \in Int
  /\ b.ctype = "NUMERIC" /\ ~(Made(q, d) /\ d.n < 0) => Abs(b.reads) < Power10(b.precision)
  /\ CASE Made(q, d) /\ d.n < 0 -> b.reads = d.n + M
       [] d.type = "VARCHAR" -> b.reads = IF of_vector THEN d.n ELSE d.width
       [] d.type = "DATE" ->
            d.n \in -(Years \div 2) .. Years \div 2 - 1 => b.reads = d.n
       [] d.type = "TIME" ->
            b.reads = IF WithTime2(q) THEN MeantOf(d)
                      ELSE MeantOf(d) - (MeantOf(d) % NanosPerSecond)
       [] d.type \in Timestamps ->
            \/ d.type = "TIMESTAMP_NS" /\ JustBefore(d)
            \/ MeantOf(d) - b.reads \in 0 .. Power10(NanoDigits - e.fraction) - 1
       [] OTHER -> b.reads = MeantOf(d)

(* ... for every argument that DuckDB can hand over, whatever the quirks of *)
(* its extraction and of its binding.                                       *)
LEMMA Arrives ==
  ASSUME NEW q, NEW e, e.fraction \in Int, e.fraction <= NanoDigits,
         NEW d, DuckValue(d), d.type \in Extractable, NEW of_vector \in BOOLEAN, NEW x,
         BindOdbcParam(q, SetExpectedType(q, Extract(e, d, of_vector), x)).error = "none"
  PROVE  ArrivesAs(BindOdbcParam(q, SetExpectedType(q, Extract(e, d, of_vector), x)),
                   q, e, d, of_vector)
<1> DEFINE g == Extract(e, d, of_vector)
           v == SetExpectedType(q, g, x)
           b == BindOdbcParam(q, v)
<1> SUFFICES ArrivesAs(b, q, e, d, of_vector)
  OBVIOUS
<1>0. b.error = "none"
  OBVIOUS
<1>1. d.n \in Int
  BY DEF DuckValue
<1>g. ExtractedAs(g, e, d, of_vector)
  BY ExtractedForm
<1> HIDE DEF g, v, b
(* A value that is neither a number nor made one is bound as it is.         *)
<1>2. ASSUME NEW t \in Tags, t \notin Integrals \cup Floats, NEW val, NEW len,
             g = Parameter(t, val, len, "UNKNOWN")
      PROVE  BoundAs(b, q, t, val, len, x)
  <2>1. v = Parameter(t, val, len, x)
    BY <1>2, SetExpected DEF v, ExpectedAs
  <2> QED
    BY <2>1, BoundForm DEF b
<1>3. CASE d.type \in Integrals \cup Floats
  <2> DEFINE val == [n |-> d.n]
  <2>0. val.n = d.n
    OBVIOUS
  <2>1. g = Parameter(d.type, val, FixedSize, "UNKNOWN")
    BY <1>3, <1>g DEF ExtractedAs
  <2> HIDE DEF val
  <2>2. ExpectedAs(v, q, d.type, val, FixedSize, x)
    BY <2>1, SetExpected DEF v
  <2>3. CASE Made(q, d)
    <3> DEFINE ns == MadeStruct(d.type, val)
    <3>1. v = Parameter("DECIMAL", ns, FixedSize, x)
      BY <2>2, <2>3 DEF ExpectedAs, Made
    <3>2. /\ IntegralWidth(d.type) \in Nat
          /\ d.n >= 0 => d.n % M = d.n /\ d.n < Power10(IntegralWidth(d.type))
          /\ d.n < 0 => d.n % M = d.n + M
      BY <2>3, IntegralFits DEF Made
    <3>3. NumericMeaning(ns) = d.n % M /\ ns.precision = IntegralWidth(d.type)
      BY <1>1, <2>0, <3>2, MadeMeaning DEF MadeStruct
    <3> HIDE DEF ns
    <3>4. BoundAs(b, q, "DECIMAL", ns, FixedSize, x)
      BY <3>1, BoundForm DEF b, Tags
    <3>5. b.reads = d.n % M /\ b.precision = IntegralWidth(d.type)
      BY <3>3, <3>4 DEF BoundAs
    <3>6. d.n + M \in Int
      BY <1>1, WordAssumption
    <3> QED
      BY <1>1, <2>3, <3>2, <3>5, <3>6
         DEF ArrivesAs, Made, MeantOf, Abs, Timestamps, Integrals, Signeds, Unsigneds
  <2>4. CASE ~Made(q, d)
    <3>1. b.reads = d.n /\ b.ctype # "NUMERIC"
      <4>1. CASE x \in CharacterSqlTypes
        <5>1. v = Parameter("DECIMAL_AS_CHARS", TextNumber(d.n), TextLength(d.n), x)
          BY <1>3, <2>0, <2>2, <2>4, <4>1 DEF ExpectedAs, Made
        <5>2. BoundAs(b, q, "DECIMAL_AS_CHARS", TextNumber(d.n), TextLength(d.n), x)
          BY <5>1, BoundForm DEF b, Tags
        <5>3. TextNumber(d.n).n = d.n
          BY DEF TextNumber
        <5> QED
          BY <5>2, <5>3 DEF BoundAs
      <4>2. CASE x \notin CharacterSqlTypes
        <5>1. v = Parameter(d.type, val, FixedSize, x)
          BY <1>3, <2>2, <2>4, <4>2 DEF ExpectedAs, Made
        <5>2. d.type \in Tags /\ d.type # "DECIMAL"
          BY <1>3, TagsOfTypes DEF Integrals, Signeds, Unsigneds, Floats
        <5>3. BoundAs(b, q, d.type, val, FixedSize, x)
          BY <5>1, <5>2, BoundForm DEF b
        <5> QED
          BY <1>3, <2>0, <5>2, <5>3 DEF BoundAs
      <4> QED
        BY <4>1, <4>2
    <3> QED
      BY <1>1, <1>3, <2>4, <3>1
         DEF ArrivesAs, MeantOf, Timestamps, Integrals, Signeds, Unsigneds, Floats
  <2> QED
    BY <2>3, <2>4
<1> HIDE DEF Made
<1>4. CASE d.type \notin Integrals \cup Floats
  <2>0. ~Made(q, d)
    BY <1>4 DEF Made
  <2> USE <2>0
  <2>1. CASE d.type = "BOOLEAN"
    <3>1. g = Parameter("BOOLEAN", [n |-> d.n], FixedSize, "UNKNOWN")
      BY <2>1, <1>g DEF ExtractedAs
    <3>2. BoundAs(b, q, "BOOLEAN", [n |-> d.n], FixedSize, x)
      BY <1>2, <1>4, <2>1, <3>1 DEF Tags
    <3>3. b.reads = d.n /\ b.ctype # "NUMERIC"
      BY <3>2 DEF BoundAs
    <3> QED
      BY <1>1, <2>1, <3>3 DEF ArrivesAs, MeantOf, Timestamps
  <2>2. CASE d.type = "DECIMAL"
    <3>1. /\ d.n \in Int /\ d.width \in Nat /\ d.width <= HugeDigits
          /\ Abs(d.n) < Power10(d.width) /\ d.scale \in Nat
      BY <2>2, Widths DEF DuckValue
    <3>2. CASE AsText(e)
      <4> DEFINE val == [n |-> d.n]
      <4>1. val.n = d.n
        OBVIOUS
      <4>2. g = Parameter("DECIMAL_AS_CHARS", val, TextLength(d.n), "UNKNOWN")
        BY <2>2, <3>2, <1>g DEF ExtractedAs
      <4> HIDE DEF val
      <4>3. BoundAs(b, q, "DECIMAL_AS_CHARS", val, TextLength(d.n), x)
        BY <1>2, <4>2 DEF Tags, Integrals, Signeds, Unsigneds, Floats
      <4>4. b.reads = d.n /\ b.ctype # "NUMERIC"
        BY <4>1, <4>3 DEF BoundAs
      <4> QED
        BY <1>1, <2>2, <4>4 DEF ArrivesAs, MeantOf, Timestamps
    <3>3. CASE ~AsText(e)
      <4> DEFINE ns == NumericStruct(HugeintOf(d.n), d.width, d.scale)
      <4>1. g = Parameter("DECIMAL", ns, FixedSize, "UNKNOWN")
        BY <2>2, <3>3, <1>g DEF ExtractedAs
      <4>2. ns.precision = d.width
        BY DEF NumericStruct
      <4>3. NumericMeaning(ns) = HugeintValue(HugeintOf(d.n))
        BY <3>1, HugeintOfFields, NumericStructMeansTheNumber
      <4>4. HugeintValue(HugeintOf(d.n)) = d.n
        BY <3>1, DecimalFits, HugeintOfValue
      <4> HIDE DEF ns
      <4>5. BoundAs(b, q, "DECIMAL", ns, FixedSize, x)
        BY <1>2, <4>1 DEF Tags, Integrals, Signeds, Unsigneds, Floats
      <4>6. b.reads = d.n /\ b.precision = d.width
        BY <4>2, <4>3, <4>4, <4>5 DEF BoundAs
      <4> QED
        BY <1>1, <2>2, <3>1, <4>6 DEF ArrivesAs, MeantOf, Timestamps
    <3> QED
      BY <3>2, <3>3
  <2>3. CASE d.type = "VARCHAR"
    <3> DEFINE chars == IF of_vector THEN d.n ELSE d.width
    <3>1. chars \in Nat
      BY <2>3 DEF DuckValue
    <3>2. g = Parameter("VARCHAR", [n |-> chars], WcharBytes * chars, "UNKNOWN")
      BY <2>3, <1>g DEF ExtractedAs
    <3>3. BoundAs(b, q, "VARCHAR", [n |-> chars], WcharBytes * chars, x)
      BY <1>2, <3>2 DEF Tags, Integrals, Signeds, Unsigneds, Floats
    <3> HIDE DEF chars
    <3>4. b.reads = (WcharBytes * chars) \div WcharBytes /\ b.ctype # "NUMERIC"
      BY <3>3 DEF BoundAs
    <3>5. b.reads = chars
      BY <3>1, <3>4 DEF WcharBytes
    <3> QED
      BY <2>3, <3>1, <3>4, <3>5 DEF ArrivesAs, chars, Timestamps
  <2>4. CASE d.type = "BLOB"
    <3>1. g = Parameter("BLOB", [n |-> d.n], d.n, "UNKNOWN")
      BY <2>4, <1>g DEF ExtractedAs
    <3>2. BoundAs(b, q, "BLOB", [n |-> d.n], d.n, x)
      BY <1>2, <3>1 DEF Tags, Integrals, Signeds, Unsigneds, Floats
    <3>3. b.reads = d.n /\ b.ctype # "NUMERIC"
      BY <3>2 DEF BoundAs
    <3> QED
      BY <1>1, <2>4, <3>3 DEF ArrivesAs, MeantOf, Timestamps
  <2>5. CASE d.type = "UUID"
    <3> DEFINE val == Guid(HugeintOf(d.n))
    <3>1. g = Parameter("UUID", val, FixedSize, "UNKNOWN")
      BY <2>5, <1>g DEF ExtractedAs
    <3>2. d.n \in Nat /\ d.n < M * M
      BY <2>5, WordAssumption DEF DuckValue
    <3>3. GuidMeaning(val) = d.n
      BY <1>1, <3>2, HugeintOfFields, HugeintOfUnsigned, GuidMeant
    <3> HIDE DEF val
    <3>4. BoundAs(b, q, "UUID", val, FixedSize, x)
      BY <1>2, <3>1 DEF Tags, Integrals, Signeds, Unsigneds, Floats
    <3>5. b.reads = d.n /\ b.ctype # "NUMERIC"
      BY <3>3, <3>4 DEF BoundAs
    <3> QED
      BY <1>1, <2>5, <3>5 DEF ArrivesAs, MeantOf, Timestamps
  <2>6. CASE d.type = "DATE"
    <3> DEFINE val == [n |-> YearParam(d.n)]
    <3>0. val.n = YearParam(d.n)
      OBVIOUS
    <3>1. g = Parameter("DATE", val, FixedSize, "UNKNOWN")
      BY <2>6, <1>g DEF ExtractedAs
    <3> HIDE DEF val
    <3>2. BoundAs(b, q, "DATE", val, FixedSize, x)
      BY <1>2, <3>1 DEF Tags, Integrals, Signeds, Unsigneds, Floats
    <3>3. b.reads = YearParam(d.n) /\ b.ctype # "NUMERIC"
      BY <3>0, <3>2 DEF BoundAs
    <3>4. YearParam(d.n) \in Int
      BY <1>1, YearTyped
    <3>5. d.n \in -(Years \div 2) .. Years \div 2 - 1 => b.reads = d.n
      BY <3>3, YearKept
    <3> QED
      BY <2>6, <3>3, <3>4, <3>5 DEF ArrivesAs, Timestamps
  <2>7. CASE d.type = "TIME"
    <3> DEFINE t == IF WithTime2(e) THEN "TIME_WITH_NANOS" ELSE "TIME"
               val == TimeParam(WithTime2(e), d.n)
    <3>1. g = Parameter(t, val, FixedSize, "UNKNOWN")
      BY <2>7, <1>g DEF ExtractedAs
    <3>2. t \in Tags /\ t \notin Integrals \cup Floats /\ t \in {"TIME", "TIME_WITH_NANOS"}
      BY DEF Tags, Integrals, Signeds, Unsigneds, Floats
    <3> HIDE DEF val, t
    <3>3. BoundAs(b, q, t, val, FixedSize, x)
      BY <1>2, <3>1, <3>2
    <3>4. t = TimeMember2(q) /\ b.reads = StructNanos(val) /\ b.ctype # "NUMERIC"
      BY <1>0, <3>2, <3>3 DEF BoundAs
    <3>5. d.n * NanosPerMicro \in Int
      BY <1>1, Units
    <3>6. MeantOf(d) = d.n * NanosPerMicro
      BY <2>7 DEF MeantOf
    <3>7. CASE WithTime2(q)
      <4>1. val = TimeParam(TRUE, d.n)
        BY <3>4, <3>7 DEF t, val, TimeMember2, TimeParam
      <4>2. b.reads = MeantOf(d)
        BY <1>1, <3>4, <3>6, <4>1, TimeLoss
      <4> HIDE DEF MeantOf
      <4> QED
        BY <2>7, <3>4, <3>5, <3>6, <3>7, <4>2 DEF ArrivesAs, Timestamps
    <3>8. CASE ~WithTime2(q)
      <4>1. val = TimeParam(FALSE, d.n)
        BY <3>4, <3>8 DEF t, val, TimeMember2, TimeParam
      <4>2. b.reads = MeantOf(d) - (MeantOf(d) % NanosPerSecond)
        BY <1>1, <3>4, <3>6, <4>1, TimeLoss
      <4>3. b.reads \in Int
        BY <3>5, <3>6, <4>2, Units
      <4> QED
        BY <2>7, <3>4, <3>8, <4>2, <4>3 DEF ArrivesAs, Timestamps
    <3> QED
      BY <3>7, <3>8
  <2>8. CASE d.type \in {"TIMESTAMP", "TIMESTAMP_TZ"}
    <3> DEFINE val == TimestampParam(e.fraction, d.n)
    <3>1. g = Parameter("TIMESTAMP", val, FixedSize, "UNKNOWN")
      BY <2>8, <1>g DEF ExtractedAs
    <3>2. StructNanos(val) \in Int
      BY <1>1, TimestampTyped
    <3>3. MeantOf(d) - StructNanos(val) \in 0 .. Power10(NanoDigits - e.fraction) - 1
      BY <1>1, <2>8, TimestampLoss DEF MeantOf
    <3> HIDE DEF val
    <3>4. BoundAs(b, q, "TIMESTAMP", val, FixedSize, x)
      BY <1>2, <3>1 DEF Tags, Integrals, Signeds, Unsigneds, Floats
    <3>5. b.reads = StructNanos(val) /\ b.ctype # "NUMERIC"
      BY <1>0, <3>4 DEF BoundAs
    <3> QED
      BY <2>8, <3>2, <3>3, <3>5 DEF ArrivesAs, Timestamps
  <2>9. CASE d.type = "TIMESTAMP_NS"
    <3> DEFINE val == TimestampNsParam(e.fraction, d.n)
    <3>1. g = Parameter("TIMESTAMP", val, FixedSize, "UNKNOWN")
      BY <2>9, <1>g DEF ExtractedAs
    <3>2. StructNanos(val) \in Int
      BY <1>1, TimestampTyped
    <3>3. \/ JustBefore(d)
          \/ MeantOf(d) - StructNanos(val) \in 0 .. Power10(NanoDigits - e.fraction) - 1
      BY <1>1, <2>9, TimestampNsLoss DEF MeantOf, JustBefore
    <3> HIDE DEF val
    <3>4. BoundAs(b, q, "TIMESTAMP", val, FixedSize, x)
      BY <1>2, <3>1 DEF Tags, Integrals, Signeds, Unsigneds, Floats
    <3>5. b.reads = StructNanos(val) /\ b.ctype # "NUMERIC"
      BY <1>0, <3>4 DEF BoundAs
    <3> QED
      BY <2>9, <3>2, <3>3, <3>5 DEF ArrivesAs, Timestamps
  <2>10. CASE d.type = "SQLNULL"
    <3>1. g = Parameter("SQLNULL", [n |-> 0], NullLength, "UNKNOWN")
      BY <2>10, <1>g DEF ExtractedAs
    <3>2. BoundAs(b, q, "SQLNULL", [n |-> 0], NullLength, x)
      BY <1>2, <3>1 DEF Tags, Integrals, Signeds, Unsigneds, Floats
    <3>3. b.reads = 0 /\ b.ctype # "NUMERIC"
      BY <3>2 DEF BoundAs
    <3>4. d.n = 0
      BY <2>10 DEF DuckValue
    <3> QED
      BY <2>10, <3>3, <3>4 DEF ArrivesAs, MeantOf, Timestamps
  <2> QED
    BY <1>4, <2>1, <2>2, <2>3, <2>4, <2>5, <2>6, <2>7, <2>8, <2>9, <2>10
       DEF Extractable, Timestamps
<1> QED
  BY <1>3, <1>4

ColumnSqlTypes ==
  CharacterSqlTypes \cup IntegralSqlTypes \cup
  {"NUMERIC", "REAL", "DOUBLE", "FLOAT", "BIT", "VARBINARY", "LONGVARBINARY", "GUID",
   "DB2_BLOB", "DB2_CLOB", "DB2_DBCLOB", "TYPE_DATE", "TYPE_TIME", "SS_TIME2",
   "TYPE_TIMESTAMP", "SS_TIMESTAMPOFFSET", "INTERVAL"}

Columns ==
  [type : ColumnSqlTypes, name : BOOLEAN, dated : BOOLEAN, unsigned : BOOLEAN,
   precision : Int, scale : Int]

(* The attributes of a column that has been described.                      *)
HasAttributes(c) ==
  /\ c.precision \in IF c.type \in Decimals THEN 1 .. HugeDigits ELSE {0}
  /\ c.scale \in 0 .. c.precision

(* What the vector for a column keeps its elements in.                      *)
ElementOf(q, c) == ElementType(ResolveColumnType(q, c), c.precision)

(* The columns a driver may return a value in.                              *)
LEMMA EchoTyped ==
  ASSUME NEW dbms, NEW d, DuckValue(d), NEW c \in Echoes(dbms, d)
  PROVE  c \in Columns /\ (c.type = "BIT" => d.type = "BOOLEAN")
<1> DEFINE Good(x) == x \in Columns /\ (x.type = "BIT" => d.type = "BOOLEAN")
<1>1. ASSUME NEW t \in ColumnSqlTypes, t = "BIT" => d.type = "BOOLEAN"
      PROVE  Good(Column(t))
  BY <1>1 DEF Column, Columns
<1>2. ASSUME NEW p \in Int, NEW s \in Int
      PROVE  Good(Numeric(p, s))
  BY <1>2 DEF Numeric, Column, Columns, ColumnSqlTypes
<1>3. ASSUME NEW t \in ColumnSqlTypes, t # "BIT", NEW f \in BOOLEAN
      PROVE  /\ Good([Column(t) EXCEPT !.unsigned = f])
             /\ Good([Column(t) EXCEPT !.name = f])
             /\ Good([Column(t) EXCEPT !.dated = f])
  <2> DEFINE k == Column(t)
  <2>1. k \in Columns /\ k.type = t
    BY DEF Column, Columns
  <2> HIDE DEF k
  <2>2. Good([k EXCEPT !.unsigned = f])
    BY <1>3, <2>1 DEF Columns
  <2>3. Good([k EXCEPT !.name = f])
    BY <1>3, <2>1 DEF Columns
  <2>4. Good([k EXCEPT !.dated = f])
    BY <1>3, <2>1 DEF Columns
  <2> QED
    BY <2>2, <2>3, <2>4 DEF k
<1> SUFFICES Good(c)
  OBVIOUS
<1> HIDE DEF Good
<1>4. CASE d.type \in Integrals
  <2>1. SignedOf(d.type) \in Signeds
    BY <1>4, SignedTypes
  <2>2. IntegralWidth(d.type) \in Int
    BY <1>4, IntegralFits
  <2>3. SignedOf(d.type) \in ColumnSqlTypes /\ SignedOf(d.type) # "BIT"
    BY <2>1 DEF ColumnSqlTypes, IntegralSqlTypes, Signeds
  <2>4. \/ c = [Column(SignedOf(d.type)) EXCEPT !.unsigned = d.type \in Unsigneds]
        \/ c = Numeric(IntegralWidth(d.type), 0)
        \/ c = Numeric(0, 0)
    <3>1. Echoes(dbms, d) =
            {[Column(SignedOf(d.type)) EXCEPT !.unsigned = d.type \in Unsigneds],
             Numeric(IntegralWidth(d.type), 0), Numeric(0, 0)}
      BY <1>4 DEF Echoes, Timestamps, Integrals, Signeds, Unsigneds
    <3> QED
      BY <3>1
  <2>5. (d.type \in Unsigneds) \in BOOLEAN
    OBVIOUS
  <2>6. Good([Column(SignedOf(d.type)) EXCEPT !.unsigned = d.type \in Unsigneds])
    BY <1>3, <2>3, <2>5
  <2> QED
    BY <1>2, <2>2, <2>4, <2>6
<1>5. CASE d.type \notin Integrals
  <2>1. CASE d.type \in {"FLOAT", "DOUBLE", "BOOLEAN"}
    <3>1. c \in {Column("REAL"), Column("DOUBLE"), Column("FLOAT")}
          \/ (d.type = "BOOLEAN" /\ c = Column("BIT"))
      BY <1>5, <2>1 DEF Echoes, Timestamps
    <3> QED
      BY <1>1, <3>1 DEF ColumnSqlTypes
  <2>2. CASE d.type = "DECIMAL"
    <3>1. d.width \in Int /\ d.scale \in Int
      BY <2>2, Widths DEF DuckValue
    <3>2. Echoes(dbms, d) = {Numeric(p, s) : p \in {d.width, 0}, s \in {d.scale, -1}}
      BY <1>5, <2>2 DEF Echoes, Timestamps
    <3>3. \E p \in {d.width, 0}, s \in {d.scale, -1} : c = Numeric(p, s)
      BY <3>2
    <3> QED
      BY <1>2, <3>1, <3>3
  <2>3. CASE d.type \in {"VARCHAR", "BLOB"}
    <3> DEFINE lobs == {[Column(t) EXCEPT !.name = b] :
                          t \in {"DB2_CLOB", "DB2_DBCLOB"}, b \in BOOLEAN}
               plain == {Column("VARCHAR"), Column("WVARCHAR"), Column("VARBINARY"),
                         Column("DB2_BLOB")}
    <3>0. Echoes(dbms, d) \subseteq plain \cup lobs
      <4>1. d.type = "VARCHAR" =>
              Echoes(dbms, d) = {Column("VARCHAR"), Column("WVARCHAR")} \cup
                                IF dbms = "DB2" THEN lobs ELSE {}
        BY DEF Echoes, Timestamps, Integrals, Signeds, Unsigneds
      <4>2. d.type = "BLOB" =>
              Echoes(dbms, d) = {Column("VARBINARY")} \cup
                                IF dbms = "DB2" THEN {Column("DB2_BLOB")} ELSE {}
        BY DEF Echoes, Timestamps, Integrals, Signeds, Unsigneds
      <4> HIDE DEF lobs
      <4> QED
        BY <2>3, <4>1, <4>2
    <3>1. \/ c \in {Column("VARCHAR"), Column("WVARCHAR"), Column("VARBINARY"),
                    Column("DB2_BLOB")}
          \/ \E t \in {"DB2_CLOB", "DB2_DBCLOB"}, b \in BOOLEAN :
               c = [Column(t) EXCEPT !.name = b]
      BY <3>0
    <3>2. CASE c \in {Column("VARCHAR"), Column("WVARCHAR"), Column("VARBINARY"),
                      Column("DB2_BLOB")}
      BY <1>1, <3>2 DEF ColumnSqlTypes, CharacterSqlTypes, WideSqlTypes
    <3>3. ASSUME NEW t \in {"DB2_CLOB", "DB2_DBCLOB"}, NEW b \in BOOLEAN,
                 c = [Column(t) EXCEPT !.name = b]
          PROVE  Good(c)
      BY <1>3, <3>3 DEF ColumnSqlTypes
    <3> QED
      BY <3>1, <3>2, <3>3
  <2>4. CASE d.type = "DATE"
    <3>1. \/ c = [Column("TYPE_TIMESTAMP") EXCEPT !.dated = TRUE]
          \/ c = Column("TYPE_DATE")
      BY <1>5, <2>4 DEF Echoes, Timestamps, Integrals, Signeds, Unsigneds
    <3> QED
      BY <1>1, <1>3, <3>1 DEF ColumnSqlTypes
  <2>5. CASE d.type \notin {"FLOAT", "DOUBLE", "BOOLEAN", "DECIMAL", "VARCHAR", "BLOB", "DATE"}
    <3>1. c \in {Column("GUID"), Column("TYPE_TIME"), Column("SS_TIME2"),
                 Column("TYPE_TIMESTAMP"), Column("SS_TIMESTAMPOFFSET"), Column("INTEGER"),
                 Column("INTERVAL")}
      BY <1>5, <2>5 DEF Echoes, Timestamps
    <3> QED
      BY <1>1, <3>1 DEF ColumnSqlTypes, IntegralSqlTypes, Signeds
  <2> QED
    BY <2>1, <2>2, <2>3, <2>4, <2>5
<1> QED
  BY <1>4, <1>5

(* The attributes of a column have the types SQLColAttribute gives them.    *)
LEMMA ColumnFields ==
  ASSUME NEW c \in Columns
  PROVE  /\ c.type \in ColumnSqlTypes /\ c.name \in BOOLEAN /\ c.dated \in BOOLEAN
         /\ c.unsigned \in BOOLEAN /\ c.precision \in Int /\ c.scale \in Int
BY DEF Columns

DescribedAs(k, c, p, s) ==
  k \in Columns /\ k.type = c.type /\ k.name = c.name /\ k.precision = p /\ k.scale = s

(* Changing the precision and the scale changes nothing else.               *)
LEMMA ColumnAgain ==
  ASSUME NEW c \in Columns, NEW p \in Int, NEW s \in Int
  PROVE  DescribedAs([c EXCEPT !.precision = p, !.scale = s], c, p, s)
BY DEF Columns, DescribedAs

(* A column that is described has attributes of a type DuckDB has.          *)
LEMMA DescribedColumn ==
  ASSUME NEW c \in Columns, ~(c.type \in Decimals /\ c.scale < 0)
  PROVE  /\ Described(c) \in Columns /\ HasAttributes(Described(c))
         /\ Described(c).type = c.type /\ Described(c).name = c.name
<1>0. HugeDigits \in Nat /\ HugeDigits >= 1
  <2>1. HugeDigits # 0
    <3>1. Power10(0) = 1
      BY PowerStep DEF Power10
    <3>2. M > 1 /\ M <= Power10(HugeDigits) /\ M \in Nat
      BY WordAssumption, PathAssumption
    <3> QED
      BY <3>1, <3>2
  <2> QED
    BY <2>1, Widths
<1>1. c.type \in ColumnSqlTypes /\ c.precision \in Int /\ c.scale \in Int
  BY ColumnFields
<1>2. CASE c.type \notin Decimals
  <2>1. Described(c) = [c EXCEPT !.precision = 0, !.scale = 0]
    BY <1>2 DEF Described
  <2>2. DescribedAs(Described(c), c, 0, 0)
    <3>1. DescribedAs([c EXCEPT !.precision = 0, !.scale = 0], c, 0, 0)
      BY 0 \in Int, ColumnAgain, Zenon
    <3> QED
      BY <2>1, <3>1
  <2> QED
    BY <1>2, <2>2 DEF HasAttributes, DescribedAs
<1>3. CASE c.type \in Decimals
  <2> DEFINE p == IF c.precision \in 1 .. HugeDigits THEN c.precision ELSE HugeDigits
             s == Least(c.scale, p)
  <2>1. Described(c) = [c EXCEPT !.precision = p, !.scale = s]
    BY <1>3 DEF Described
  <2>2. p \in 1 .. HugeDigits
    BY <1>0, <1>1
  <2> HIDE DEF p
  <2>3. s \in 0 .. p /\ s \in Int /\ p \in Int
    BY <1>0, <1>1, <1>3, <2>2 DEF Least
  <2> HIDE DEF s
  <2>4. DescribedAs(Described(c), c, p, s)
    BY <2>1, <2>3, ColumnAgain
  <2> QED
    BY <1>3, <2>2, <2>3, <2>4 DEF HasAttributes, DescribedAs
<1> QED
  BY <1>2, <1>3

(* ... and is not described otherwise when it is described again.           *)
LEMMA DescribedOnce ==
  ASSUME NEW c \in Columns, HasAttributes(c)
  PROVE  Described(c) = c
<1>1. ASSUME NEW p \in Int, NEW s \in Int, p = c.precision, s = c.scale
      PROVE  [c EXCEPT !.precision = p, !.scale = s] = c
  BY <1>1 DEF Columns
<1>2. c.precision \in Int /\ c.scale \in Int
  BY ColumnFields
<1>3. CASE c.type \notin Decimals
  <2>1. Described(c) = [c EXCEPT !.precision = 0, !.scale = 0]
    BY <1>3 DEF Described
  <2>2. c.precision = 0 /\ c.scale = 0
    BY <1>2, <1>3 DEF HasAttributes
  <2> QED
    BY <1>1, <1>2, <2>1, <2>2
<1>4. CASE c.type \in Decimals
  <2> DEFINE p == c.precision
             s == c.scale
  <2>1. p \in 1 .. HugeDigits /\ s \in 0 .. p
    BY <1>4 DEF HasAttributes
  <2>2. Least(s, p) = s
    BY <1>2, <2>1 DEF Least
  <2>3. Described(c) = [c EXCEPT !.precision = p, !.scale = Least(s, p)]
    BY <1>4, <2>1 DEF Described
  <2> HIDE DEF p, s
  <2>4. [c EXCEPT !.precision = p, !.scale = s] = c
    BY <1>1, <1>2 DEF p, s
  <2> QED
    BY <2>2, <2>3, <2>4
<1> QED
  BY <1>3, <1>4

(* The types a column can be coalesced to.                                  *)
CoalescedAs(k, q, c) ==
  /\ k \in Columns /\ HasAttributes(k) /\ CoalesceColumnType(q, k) = k
  /\ k.type = "BIT" => c.type = "BIT"
  /\ Specialisation(k) = "none" => c.type = "INTERVAL" \/ ~c.name

(* ... and coalesce_column_type gives one of these.                         *)
LEMMA CoalescedColumn ==
  ASSUME NEW q, NEW c \in Columns, HasAttributes(c)
  PROVE  CoalescedAs(CoalesceColumnType(q, c), q, c)
<1> DEFINE k == CoalesceColumnType(q, c)
<1> SUFFICES CoalescedAs(k, q, c)
  OBVIOUS
<1>1. c.type \in ColumnSqlTypes /\ c.precision \in Int /\ c.scale \in Int
      /\ c.unsigned \in BOOLEAN
  BY ColumnFields
<1>2. ASSUME NEW t \in {"LONGVARBINARY", "LONGVARCHAR", "WLONGVARCHAR", "TYPE_DATE"},
             c.type \in {"DB2_BLOB", "DB2_CLOB", "DB2_DBCLOB", "TYPE_TIMESTAMP"},
             k = [c EXCEPT !.type = t]
      PROVE  CoalescedAs(k, q, c)
  <2>1. t \in ColumnSqlTypes
    BY DEF ColumnSqlTypes, CharacterSqlTypes, WideSqlTypes
  <2> HIDE DEF k
  <2>2. /\ k \in Columns /\ k.type = t /\ k.precision = c.precision /\ k.scale = c.scale
    BY <1>2, <2>1 DEF Columns
  <2>3. HasAttributes(k)
    BY <1>2, <2>2 DEF HasAttributes, Decimals
  <2>4. CoalesceColumnType(q, k) = k
    BY <2>2 DEF CoalesceColumnType
  <2>5. Specialisation(k) # "none"
    BY <2>2 DEF Specialisation, Signeds, Decimals, CharacterSqlTypes, WideSqlTypes
  <2> QED
    BY <2>2, <2>3, <2>4, <2>5 DEF CoalescedAs
<1>3. CASE k # c
  <2>1. \E t \in {"LONGVARBINARY", "LONGVARCHAR", "WLONGVARCHAR", "TYPE_DATE"} :
          /\ c.type \in {"DB2_BLOB", "DB2_CLOB", "DB2_DBCLOB", "TYPE_TIMESTAMP"}
          /\ k = [c EXCEPT !.type = t]
    BY <1>3 DEF CoalesceColumnType
  <2> QED
    BY <1>2, <2>1
<1>4. CASE k = c
  <2>1. Specialisation(c) = "none" =>
          c.type \in {"DB2_BLOB", "DB2_CLOB", "DB2_DBCLOB", "INTERVAL"}
    BY <1>1 DEF Specialisation, UnsignedOf, ColumnSqlTypes, IntegralSqlTypes, Signeds, Decimals,
            CharacterSqlTypes, WideSqlTypes
  <2>2. c.type \in {"DB2_BLOB", "DB2_CLOB", "DB2_DBCLOB"} => ~c.name
    <3>1. CASE c.type \in {"DB2_BLOB", "DB2_CLOB", "DB2_DBCLOB"} /\ c.name
      <4>1. k.type \in {"LONGVARBINARY", "LONGVARCHAR", "WLONGVARCHAR"}
        <5>1. \E t \in {"LONGVARBINARY", "LONGVARCHAR", "WLONGVARCHAR"} :
                k = [c EXCEPT !.type = t]
          BY <3>1 DEF CoalesceColumnType
        <5> HIDE DEF k
        <5> QED
          BY <5>1 DEF Columns
      <4> QED
        BY <1>4, <3>1, <4>1
    <3> QED
      BY <3>1
  <2> QED
    BY <1>4, <2>1, <2>2 DEF CoalescedAs
<1> QED
  BY <1>3, <1>4

ClassAs(class, c) ==
  /\ class = "DECIMAL" <=> c.type \in Decimals
  /\ class = "BOOLEAN" <=> c.type = "BIT"
  /\ class \in Integrals \cup Floats \cup
       {"DECIMAL", "BOOLEAN", "UUID", "DATE", "TIME", "TIMESTAMP", "VARCHAR", "BLOB", "none"}

(* ... and Specialisation is the class of the column's type.                *)
LEMMA Classes ==
  ASSUME NEW c \in Columns
  PROVE  ClassAs(Specialisation(c), c)
<1>1. c.type \in ColumnSqlTypes /\ c.unsigned \in BOOLEAN
  BY ColumnFields
<1>2. CASE c.type \in Signeds
  <2>1. UnsignedOf(c.type) \in Unsigneds
    BY <1>2 DEF UnsignedOf, Signeds, Unsigneds
  <2>2. Specialisation(c) = IF c.unsigned THEN UnsignedOf(c.type) ELSE c.type
    BY <1>2 DEF Specialisation, Signeds, Decimals, CharacterSqlTypes, WideSqlTypes
  <2>3. Specialisation(c) \in Integrals
    BY <1>2, <2>1, <2>2 DEF Integrals
  <2> QED
    BY <1>2, <2>3 DEF ClassAs, Signeds, Unsigneds, Integrals, Decimals
<1>3. CASE c.type \notin Signeds
  BY <1>1, <1>3
     DEF ClassAs, Specialisation, ColumnSqlTypes, IntegralSqlTypes, Signeds, Unsigneds,
         Integrals, Floats, Decimals, CharacterSqlTypes, WideSqlTypes
<1> QED
  BY <1>2, <1>3

(* ColumnArrives and ElementMatches of an element w.                        *)
WrittenAs(w, u, q, c, x) ==
  /\ w.unit = u
  /\ CASE u = "UUID" -> w.n = Unsigned(StoredUuid(x.n))
       [] u = "MICROS" -> w.n = x.n \div NanosPerMicro
       [] u = "NANOS" ->
            \/ x.n < 0 /\ x.n % NanosPerSecond # 0
            \/ w.n = x.n
            \/ Abs(x.n) > MaxInt64 /\ Abs(w.n) = MaxInt64
       [] u = "TIME" ->
            w.n = (IF c.type = "SS_TIME2" THEN x.n
                   ELSE x.n - (x.n % NanosPerSecond)) \div NanosPerMicro
       [] OTHER -> (AsChars(q, c) /\ CarryInDoubt(x.n)) \/ w.n = x.n

(* ... for every column with attributes a driver gives, and every value the *)
(* database holds in such a column.                                         *)
LEMMA ElementWritten ==
  ASSUME NEW q, NEW c \in Columns, HasAttributes(c), ResolveColumnType(q, c) # "none",
         NEW x, x.n \in Int, x.offset \in Int,
         c.type \in Decimals => Abs(x.n) < Power10(c.precision),
         c.type = "BIT" => x.n \in {0, 1}
  PROVE  WrittenAs(FetchAndSetResult(q, c, x), ElementOf(q, c), q, c, x)
<1> DEFINE class == Specialisation(c)
           w == FetchAndSetResult(q, c, x)
           u == ElementOf(q, c)
<1> SUFFICES WrittenAs(w, u, q, c, x)
  OBVIOUS
<1>1. ClassAs(class, c)
  BY Classes
<1>2. class # "TIMESTAMP" => u = IF class = "DECIMAL" THEN InternalType(c.precision) ELSE class
  <2>1. ASSUME class # "TIMESTAMP" PROVE ResolveColumnType(q, c) = class
    BY <2>1 DEF ResolveColumnType
  <2> HIDE DEF class
  <2>2. class \notin {"TIMESTAMP_TZ", "TIMESTAMP_NS"}
    BY <1>1 DEF ClassAs, Integrals, Floats, Signeds, Unsigneds
  <2> QED
    BY <2>1, <2>2 DEF ElementOf, ElementType
<1>3. class # "none"
  <2>1. class = "none" => ResolveColumnType(q, c) = "none"
    BY DEF ResolveColumnType
  <2> QED
    BY <2>1
<1>4. w = CASE class = "DECIMAL"   -> FetchDecimal(q, c, x.n)
            [] class = "BOOLEAN"   -> FetchBoolean(x.n)
            [] class \in Integrals -> FetchInteger(class, x.n)
            [] class \in Floats    -> FetchFloat(class, x.n)
            [] class = "UUID"      -> FetchUuid(x.n)
            [] class = "DATE"      -> FetchDate(x.n)
            [] class = "TIME"      -> FetchTime(c, x.n)
            [] class = "TIMESTAMP" ->
                 IF c.type = "SS_TIMESTAMPOFFSET"
                 THEN FetchSSTimestampOffset(x)
                 ELSE FetchTimestamp(q, x.n)
            [] class \in {"VARCHAR", "BLOB"} -> Written(class, x.n)
  BY DEF FetchAndSetResult
<1>c. AsChars(q, c) => class = "DECIMAL"
  BY DEF AsChars
<1> HIDE DEF class, w, u
<1>5. CASE class = "DECIMAL"
  <2> DEFINE n == x.n
             p == c.precision
  <2>1. p \in Nat /\ p <= HugeDigits /\ n \in Int /\ Abs(n) < Power10(p)
    <3>1. c.type \in Decimals
      BY <1>1, <1>5 DEF ClassAs
    <3>2. p \in 1 .. HugeDigits
      BY <3>1 DEF HasAttributes
    <3> QED
      BY <3>1, <3>2, Widths
  <2>2. w = FetchDecimal(q, c, n)
    BY <1>4, <1>5 DEF Integrals, Floats, Signeds, Unsigneds
  <2>3. u = InternalType(p) /\ InternalType(p) \in {"INT16", "INT32", "INT64", "INT128"}
    BY <1>2, <1>5 DEF InternalType
  <2> HIDE DEF p, n
  <2>4. SetResultType(p) = InternalType(p) /\ SetResultValue(SetResultType(p), HugeintOf(n)) = n
    BY <2>1, ResultKeepsDecimal
  <2>5. w.unit = u
    BY <2>2, <2>3, <2>4 DEF FetchDecimal, Written, p
  <2>6. (AsChars(q, c) /\ CarryInDoubt(n)) \/ w.n = n
    <3>1. CASE AsChars(q, c) /\ ~CarryInDoubt(n)
      <4>1. Abs(n) < Power10(HugeDigits)
        <5>1. Power10(p) <= Power10(HugeDigits) /\ Power10(p) \in Nat /\ Power10(HugeDigits) \in Nat
          BY <2>1, Widths
        <5>2. Abs(n) \in Int
          BY <2>1 DEF Abs
        <5> QED
          BY <2>1, <5>1, <5>2
      <4>2. TextToHugeint(TextOf(n)) = HugeintOf(n)
        BY <2>1, <3>1, <4>1, TextRead
      <4>3. w.n = SetResultValue(SetResultType(p), HugeintOf(n))
        BY <2>2, <3>1, <4>2 DEF FetchDecimal, Written, p
      <4> QED
        BY <2>4, <4>3
    <3>2. CASE ~AsChars(q, c)
      <4>1. FetchNumeric(DriverNumeric(n)) = HugeintOf(n)
        BY <2>1, DecimalFits, NumericRead
      <4>2. w.n = SetResultValue(SetResultType(p), HugeintOf(n))
        BY <2>2, <3>2, <4>1 DEF FetchDecimal, Written, p
      <4> QED
        BY <2>4, <4>2
    <3> QED
      BY <3>1, <3>2
  <2> QED
    BY <2>3, <2>5, <2>6 DEF WrittenAs, n
<1>6. CASE class = "BOOLEAN"
  <2>1. w = FetchBoolean(x.n)
    BY <1>4, <1>6 DEF Integrals, Floats, Signeds, Unsigneds
  <2>2. x.n \in {0, 1}
    BY <1>1, <1>6 DEF ClassAs
  <2>3. w.unit = "BOOLEAN" /\ w.n = x.n
    BY <2>1, <2>2 DEF FetchBoolean, Written
  <2> QED
    BY <1>2, <1>6, <2>3 DEF WrittenAs
<1>7. CASE class \in Integrals \cup Floats \cup {"DATE", "VARCHAR", "BLOB"}
  <2>1. w = Written(class, x.n)
    BY <1>4, <1>7 DEF Integrals, Floats, Signeds, Unsigneds, FetchInteger, FetchFloat, FetchDate
  <2>2. w.unit = class /\ w.n = x.n
    BY <2>1 DEF Written
  <2>3. u = class /\ class \notin {"UUID", "MICROS", "NANOS", "TIME"}
    BY <1>2, <1>7 DEF Integrals, Floats, Signeds, Unsigneds
  <2> QED
    BY <2>2, <2>3 DEF WrittenAs
<1>8. CASE class = "UUID"
  <2>1. w = FetchUuid(x.n)
    BY <1>4, <1>8 DEF Integrals, Floats, Signeds, Unsigneds
  <2>2. FetchGuid(Guid(HugeintOf(x.n))) = HugeintOf(x.n)
    BY HugeintOfFields, GuidFetched
  <2>3. w.unit = "UUID" /\ w.n = Unsigned(StoredUuid(x.n))
    BY <2>1, <2>2 DEF FetchUuid, Written, StoredUuid
  <2>4. u = "UUID"
    BY <1>2, <1>8
  <2> QED
    BY <2>3, <2>4 DEF WrittenAs
<1>9. CASE class = "TIME"
  <2>1. w = FetchTime(c, x.n)
    BY <1>4, <1>9 DEF Integrals, Floats, Signeds, Unsigneds
  <2>2. w.unit = "TIME"
        /\ w.n = (IF c.type = "SS_TIME2" THEN x.n
                  ELSE x.n - (x.n % NanosPerSecond)) \div NanosPerMicro
    BY <2>1, StructInMicros DEF FetchTime, Written
  <2>3. u = "TIME"
    BY <1>2, <1>9
  <2> QED
    BY <2>2, <2>3 DEF WrittenAs
<1>10. CASE class = "TIMESTAMP"
  <2>1. w = IF c.type = "SS_TIMESTAMPOFFSET" THEN FetchSSTimestampOffset(x)
            ELSE FetchTimestamp(q, x.n)
    BY <1>4, <1>10 DEF Integrals, Floats, Signeds, Unsigneds
  <2>2. ResolveColumnType(q, c) = ResolveTimestamp(q, c)
    BY <1>10 DEF ResolveColumnType, class
  <2>3. CASE c.type = "SS_TIMESTAMPOFFSET"
    <3>1. u = "MICROS"
      BY <2>2, <2>3 DEF u, ElementOf, ElementType, ResolveTimestamp
    <3>2. w.unit = "MICROS" /\ w.n = x.n \div NanosPerMicro
      BY <2>1, <2>3, OffsetInMicros DEF FetchSSTimestampOffset, Written
    <3> QED
      BY <3>1, <3>2 DEF WrittenAs
  <2>4. CASE c.type # "SS_TIMESTAMPOFFSET" /\ "timestamp_columns_as_timestamp_ns" \in q.flags
    <3>1. u = "NANOS"
      BY <2>2, <2>4 DEF u, ElementOf, ElementType, ResolveTimestamp
    <3>2. w = Written("NANOS", FetchNanos(DriverStruct(x.n)))
      BY <2>1, <2>4 DEF FetchTimestamp
    <3>3. w.unit = "NANOS" /\ w.n = FetchNanos(DriverStruct(x.n))
      BY <3>2 DEF Written
    <3>4. \/ x.n < 0 /\ x.n % NanosPerSecond # 0
          \/ w.n = x.n
          \/ Abs(x.n) > MaxInt64 /\ Abs(w.n) = MaxInt64
      BY <3>3, StructInNanos
    <3> QED
      BY <3>1, <3>3, <3>4 DEF WrittenAs
  <2>5. CASE c.type # "SS_TIMESTAMPOFFSET" /\ "timestamp_columns_as_timestamp_ns" \notin q.flags
    <3>1. u = "MICROS"
      BY <2>2, <2>5 DEF u, ElementOf, ElementType, ResolveTimestamp
    <3>2. w = Written("MICROS", FetchMicros(DriverStruct(x.n)))
      BY <2>1, <2>5 DEF FetchTimestamp
    <3>3. w.unit = "MICROS" /\ w.n = x.n \div NanosPerMicro
      BY <3>2, StructInMicros DEF Written
    <3> QED
      BY <3>1, <3>3 DEF WrittenAs
  <2> QED
    BY <2>3, <2>4, <2>5
<1> QED
  BY <1>1, <1>3, <1>5, <1>6, <1>7, <1>8, <1>9, <1>10 DEF ClassAs

(* An element is never kept as the unset ones.                              *)
LEMMA BufferKept ==
  ASSUME NEW q, NEW c
  PROVE  LET read == FetchMember(q, c) IN read = "none" \/ read = BindColumn(q, c)
BY DEF FetchMember, BindColumn

(* A column that gets a type gets an element type and a specialisation to   *)
(* fetch it with.                                                           *)
LEMMA ElementDeclared ==
  ASSUME NEW q, NEW c \in Columns, ResolveColumnType(q, c) # "none"
  PROVE  ElementOf(q, c) # "none" /\ Specialisation(c) # "none"
<1>1. ClassAs(Specialisation(c), c)
  BY Classes
<1>2. Specialisation(c) # "none"
  <2>1. Specialisation(c) = "none" => ResolveColumnType(q, c) = "none"
    BY DEF ResolveColumnType
  <2> QED
    BY <2>1
<1>3. InternalType(c.precision) # "none"
  BY DEF InternalType
<1>4. ElementOf(q, c) # "none"
  <2>1. ASSUME NEW r, NEW p, r # "none", InternalType(p) # "none" PROVE ElementType(r, p) # "none"
    BY <2>1 DEF ElementType
  <2> QED
    BY <1>3, <2>1 DEF ElementOf
<1> QED
  BY <1>2, <1>4

(* What a value has of the type it is made of: the tag of a TIME follows the*)
(* quirks it was extracted with, and a number is the number given.          *)
TagAs(g, e, d) ==
  /\ g.tag \in {"TIME", "TIME_WITH_NANOS"} => d.type = "TIME" /\ g.tag = TimeMember2(e)
  /\ g.tag \in Integrals \cup Floats \cup {"DECIMAL_AS_CHARS"} => g.val.n = d.n

(* ... and Extract gives one of these.                                      *)
LEMMA ExtractedTag ==
  ASSUME NEW e, NEW d, DuckValue(d), d.type \in Extractable, NEW of_vector \in BOOLEAN
  PROVE  TagAs(Extract(e, d, of_vector), e, d)
<1> DEFINE g == Extract(e, d, of_vector)
<1> SUFFICES TagAs(g, e, d)
  OBVIOUS
<1>g. ExtractedAs(g, e, d, of_vector)
  BY ExtractedForm
<1> HIDE DEF g
<1>1. CASE d.type \in Integrals \cup Floats \cup {"BOOLEAN"}
  <2>1. g = Parameter(d.type, [n |-> d.n], FixedSize, "UNKNOWN")
    BY <1>1, <1>g DEF ExtractedAs
  <2>2. g.tag = d.type /\ g.val.n = d.n
    BY <2>1 DEF Parameter
  <2> QED
    BY <1>1, <2>2 DEF TagAs, Integrals, Signeds, Unsigneds, Floats
<1>2. ASSUME NEW t, NEW val, NEW len, g = Parameter(t, val, len, "UNKNOWN"),
             t \in {"DECIMAL", "VARCHAR", "BLOB", "UUID", "DATE",
                    "TIMESTAMP", "SQLNULL"}
      PROVE  TagAs(g, e, d)
  <2>1. g.tag = t
    BY <1>2 DEF Parameter
  <2> QED
    BY <1>2, <2>1 DEF TagAs, Integrals, Signeds, Unsigneds, Floats
<1>3. CASE d.type = "TIME"
  <2>1. g = Parameter(TimeMember2(e), TimeParam(WithTime2(e), d.n), FixedSize, "UNKNOWN")
    BY <1>3, <1>g DEF ExtractedAs, TimeMember2
  <2>2. g.tag = TimeMember2(e)
    BY <2>1 DEF Parameter
  <2> QED
    BY <1>3, <2>2 DEF TagAs, TimeMember2, Integrals, Signeds, Unsigneds, Floats
<1>4. CASE d.type = "DECIMAL"
  <2>1. CASE AsText(e)
    <3>1. g = Parameter("DECIMAL_AS_CHARS", [n |-> d.n], TextLength(d.n), "UNKNOWN")
      BY <1>4, <1>g, <2>1 DEF ExtractedAs
    <3>2. g.tag = "DECIMAL_AS_CHARS" /\ g.val.n = d.n
      BY <3>1 DEF Parameter
    <3> QED
      BY <3>2 DEF TagAs
  <2>2. CASE ~AsText(e)
    BY <1>2, <1>4, <1>g, <2>2 DEF ExtractedAs
  <2> QED
    BY <2>1, <2>2
<1>5. CASE d.type = "VARCHAR"
  BY <1>2, <1>5, <1>g DEF ExtractedAs
<1>6. CASE d.type = "BLOB"
  BY <1>2, <1>6, <1>g DEF ExtractedAs
<1>7. CASE d.type = "UUID"
  BY <1>2, <1>7, <1>g DEF ExtractedAs
<1>8. CASE d.type = "DATE"
  BY <1>2, <1>8, <1>g DEF ExtractedAs
<1>9. CASE d.type \in {"TIMESTAMP", "TIMESTAMP_TZ"}
  BY <1>2, <1>9, <1>g DEF ExtractedAs
<1>10. CASE d.type = "TIMESTAMP_NS"
  BY <1>2, <1>10, <1>g DEF ExtractedAs
<1>11. CASE d.type = "SQLNULL"
  BY <1>2, <1>11, <1>g DEF ExtractedAs
<1> QED
  BY <1>1, <1>3, <1>4, <1>5, <1>6, <1>7, <1>8, <1>9, <1>10, <1>11 DEF Extractable, Timestamps

(* The members a value can be, once a type is expected of it.               *)
TextMade(v, t, val) ==
  /\ v.tag \in {t, "DECIMAL", "DECIMAL_AS_CHARS"}
  /\ v.tag = "DECIMAL_AS_CHARS" =>
       t \in Integrals \cup Floats \cup {"DECIMAL_AS_CHARS"} /\ v.val.n = val.n

(* ... and SetExpectedType gives one of these.                              *)
LEMMA ExpectedTag ==
  ASSUME NEW q, NEW t, NEW val, NEW len, NEW x
  PROVE  TextMade(SetExpectedType(q, Parameter(t, val, len, "UNKNOWN"), x), t, val)
<1> DEFINE v == SetExpectedType(q, Parameter(t, val, len, "UNKNOWN"), x)
<1>1. ExpectedAs(v, q, t, val, len, x)
  BY SetExpected
<1> HIDE DEF v
<1>2. \/ v = Parameter("DECIMAL", MadeStruct(t, val), FixedSize, x)
      \/ /\ v = Parameter("DECIMAL_AS_CHARS", TextNumber(val.n), TextLength(val.n), x)
         /\ t \in Integrals \cup Floats
      \/ v = Parameter(t, val, len, x)
  BY <1>1 DEF ExpectedAs
<1>3. TextMade(v, t, val)
  BY <1>2 DEF Parameter, TextMade, TextNumber
<1> QED
  BY <1>3 DEF v

(* What holds of a value g on its way to the driver: v is what is made of   *)
(* it, b what the driver is told, w what is kept of it.                     *)
WayAs(g, v, b, w, q, e, d, x) ==
  /\ IsParameter(g, "UNKNOWN")
  /\ IsParameter(v, x)
  /\ b.error = "none" =>
       /\ IsParameter(w, x) /\ BindOdbcParam(q, w) = b
       /\ [w EXCEPT !.len = b.len] = w
       /\ x = "UNKNOWN" => SetExpectedType(q, w, x) = w
  /\ b.error # "none" =>
       b.error = "mistyped" /\ d.type = "TIME" /\ WithTime2(q) # WithTime2(e)

(* ... for every argument, every quirks and every expectation.              *)
LEMMA Way ==
  ASSUME NEW q, NEW e, NEW d, DuckValue(d), d.type \in Extractable,
         NEW of_vector \in BOOLEAN, NEW x
  PROVE  LET g == Extract(e, d, of_vector)
             v == SetExpectedType(q, g, x)
             b == BindOdbcParam(q, v)
         IN  WayAs(g, v, b, [v EXCEPT !.len = b.len], q, e, d, x)
<1> DEFINE g == Extract(e, d, of_vector)
           v == SetExpectedType(q, g, x)
           b == BindOdbcParam(q, v)
           w == [v EXCEPT !.len = b.len]
<1>1. IsParameter(g, "UNKNOWN") /\ TagAs(g, e, d)
  BY ExtractedParameter, ExtractedTag
<1> HIDE DEF g
<1>2. g = Parameter(g.tag, g.val, g.len, "UNKNOWN") /\ g.tag \in Tags /\ g.len \in Lengths
  BY <1>1 DEF IsParameter
<1>3. g.val.n \in Int \/ g.tag \notin Integrals \cup Floats
  BY <1>1 DEF TagAs, DuckValue
<1>4. IsParameter(v, x) /\ (x = "UNKNOWN" => StaysUnknown(q, v))
  <2> DEFINE t == g.tag
             val == g.val
             len == g.len
  <2>1. v = SetExpectedType(q, Parameter(t, val, len, "UNKNOWN"), x)
    BY <1>2
  <2>2. t \in Tags /\ len \in Lengths /\ (val.n \in Int \/ t \notin Integrals \cup Floats)
    BY <1>2, <1>3
  <2> HIDE DEF v, t, val, len
  <2> QED
    BY <2>1, <2>2, ExpectedParameter
<1>5. TextMade(v, g.tag, g.val)
  BY <1>2, ExpectedTag
<1> HIDE DEF v
<1>6. v = Parameter(v.tag, v.val, v.len, x) /\ v.tag \in Tags /\ v.len \in Lengths
  BY <1>4 DEF IsParameter
<1>7. BoundAs(b, q, v.tag, v.val, v.len, x)
  <2>1. BoundAs(BindOdbcParam(q, Parameter(v.tag, v.val, v.len, x)), q, v.tag, v.val, v.len, x)
    BY <1>6, BoundForm
  <2> QED
    BY <1>6, <2>1
<1>8. ASSUME b.error = "none"
      PROVE  /\ IsParameter(w, x) /\ BindOdbcParam(q, w) = b
             /\ [w EXCEPT !.len = b.len] = w
             /\ x = "UNKNOWN" => SetExpectedType(q, w, x) = w
  <2>1. w = Parameter(v.tag, v.val, b.len, x)
    <3> DEFINE k == b.len
    <3> HIDE DEF k
    <3>1. [v EXCEPT !.len = k] = Parameter(v.tag, v.val, k, x)
      BY <1>6 DEF Parameter
    <3> QED
      BY <3>1 DEF k
  <2>2. BindOdbcParam(q, Parameter(v.tag, v.val, b.len, x)) = b
    <3> DEFINE t == v.tag
               val == v.val
               len == v.len
    <3>1. v = Parameter(t, val, len, x) /\ t \in Tags
      BY <1>6
    <3> HIDE DEF t, val, len
    <3>2. BindOdbcParam(q, Parameter(t, val, len, x)) = b
      BY <3>1
    <3>3. BindOdbcParam(q, Parameter(t, val, b.len, x)) = b
      <4> HIDE DEF b
      <4> QED
        BY <1>8, <3>1, <3>2, BoundAgain
    <3> QED
      BY <3>3 DEF t, val
  <2>3. b.len \in Lengths
    <3>1. b.len \in {WcharBytes * TextLength(v.val.n), v.len}
          /\ (b.len # v.len => v.tag = "DECIMAL_AS_CHARS")
      <4> HIDE DEF b
      <4> QED
        BY <1>7, <1>8 DEF BoundAs
    <3>2. CASE b.len # v.len
      <4>1. v.val.n \in Int
        BY <1>1, <1>5, <3>1, <3>2 DEF TextMade, TagAs, DuckValue
      <4>2. TextLength(v.val.n) \in Nat
        BY <4>1, TextLengthType
      <4> HIDE DEF b
      <4> QED
        BY <3>1, <3>2, <4>2 DEF Lengths, WcharBytes
    <3> QED
      BY <1>6, <3>2
  <2> HIDE DEF b
  <2>4. IsParameter(w, x)
    <3> HIDE DEF w
    <3> QED
      BY <1>6, <2>1, <2>3, ParameterIs
  <2>5. [w EXCEPT !.len = b.len] = w
    <3> HIDE DEF w
    <3> QED
      BY <2>1 DEF Parameter
  <2>6. x = "UNKNOWN" => SetExpectedType(q, w, x) = w
    <3> HIDE DEF w
    <3> QED
      BY <1>4, <2>1 DEF StaysUnknown
  <2> HIDE DEF w
  <2> QED
    BY <2>1, <2>2, <2>4, <2>5, <2>6
<1>9. ASSUME b.error # "none"
      PROVE  b.error = "mistyped" /\ d.type = "TIME" /\ WithTime2(q) # WithTime2(e)
  <2> HIDE DEF b
  <2>1. b.error = "mistyped" /\ v.tag \in {"TIME", "TIME_WITH_NANOS"} /\ v.tag # TimeMember2(q)
    BY <1>7, <1>9 DEF BoundAs
  <2>2. v.tag = g.tag
    BY <1>5, <2>1 DEF TextMade
  <2>3. d.type = "TIME" /\ g.tag = TimeMember2(e)
    BY <1>1, <2>1, <2>2 DEF TagAs
  <2> QED
    BY <2>1, <2>2, <2>3 DEF TimeMember2
<1> HIDE DEF b, w
<1>10. WayAs(g, v, b, w, q, e, d, x)
  BY <1>1, <1>4, <1>8, <1>9 DEF WayAs
<1> QED
  BY <1>10 DEF g, v, b, w

(* NumbersStringified of a value that was bound as b.                       *)
LEMMA Stringified ==
  ASSUME NEW q, NEW e, NEW d, DuckValue(d), d.type \in Integrals \cup Floats,
         NEW of_vector \in BOOLEAN, NEW x \in CharacterSqlTypes, ~Made(q, d)
  PROVE  BindOdbcParam(q, SetExpectedType(q, Extract(e, d, of_vector), x)).ctype
           = IF x \in WideSqlTypes THEN "WCHAR" ELSE "CHAR"
<1> DEFINE g == Extract(e, d, of_vector)
           v == SetExpectedType(q, g, x)
           b == BindOdbcParam(q, v)
           val == [n |-> d.n]
<1>g. ExtractedAs(g, e, d, of_vector)
  BY ExtractedForm DEF Extractable
<1> HIDE DEF g, v, b
<1>0. val.n = d.n
  OBVIOUS
<1>1. g = Parameter(d.type, val, FixedSize, "UNKNOWN")
  BY <1>g DEF ExtractedAs
<1> HIDE DEF val
<1>2. ExpectedAs(v, q, d.type, val, FixedSize, x)
  BY <1>1, SetExpected DEF v
<1>3. v = Parameter("DECIMAL_AS_CHARS", TextNumber(d.n), TextLength(d.n), x)
  BY <1>0, <1>2 DEF ExpectedAs, Made
<1>4. BoundAs(b, q, "DECIMAL_AS_CHARS", TextNumber(d.n), TextLength(d.n), x)
  BY <1>3, BoundForm DEF b, Tags
<1>5. b.ctype = IF x \in WideSqlTypes THEN "WCHAR" ELSE "CHAR"
  BY <1>4 DEF BoundAs
<1> QED
  BY <1>5 DEF b, v, g

-----------------------------------------------------------------------------
(* What the value is made into on its way, and what the driver is told.     *)
Extracted == Extract(ExtractQuirks, given, source # "row")
Expected == SetExpectedType(QueryQuirks, Extracted, expects)
Told == BindOdbcParam(QueryQuirks, Expected)
Kept == [Expected EXCEPT !.len = Told.len]

KeptBefore == value = Kept /\ Told.error = "none"

Behind == {"collect", "declare", "expect", "bind", "execute", "fetch", "done"}
Untyped ==
  pc \in {"collect", "expect"} \/ (source = "handle" /\ pc \in {"options", "declare"})
Typed == pc = "bind" \/ (source = "row" /\ pc = "declare")

(* The value is what the steps so far have made of the value given; a second*)
(* run starts with what the first one kept.                                 *)
ValueInv ==
  /\ value # NoValue \/ Untyped \/ Typed \/ IsBound =>
       /\ given.type \in Extractable
       /\ value \in {Extracted, Expected} \/ KeptBefore
  /\ Untyped => value = Extracted \/ (KeptBefore /\ source = "handle" /\ run > 1)
  /\ Typed => value = Expected \/ KeptBefore
  /\ IsBound => KeptBefore /\ bound = Told

OptionsInv == source # "handle" /\ pc \notin {"options", "thrown"} => Accepted(setting.user)

(* A vector was declared for the column, and would be again.                *)
DeclaredFor(q, c, u) ==
  /\ HasAttributes(c) /\ CoalesceColumnType(q, c) = c
  /\ ResolveColumnType(q, c) # "none" /\ u = ElementOf(q, c)

DeclaredBefore ==
  pc \in {"bind", "execute", "fetch", "done"} \/ (source = "handle" /\ pc = "expect")

ColumnInv ==
  IF source = "copy"
  THEN /\ pc \in {"options", "extract", "expect", "bind", "done", "thrown"}
       /\ declared = "none" /\ stored = Nothing
  ELSE /\ column \in Columns
       /\ column.type = "BIT" => given.type = "BOOLEAN"
       /\ pc \in Behind \ {"collect"} => HasAttributes(column)
       /\ declared # "none" => DeclaredFor(QueryQuirks, column, declared)
       /\ DeclaredBefore => declared # "none"

(* The buffer the driver was given, and what it has for it.                 *)
DatumFor(c, a) ==
  /\ a.n \in Int /\ a.offset \in Int
  /\ c.type \in Decimals => Abs(a.n) < Power10(c.precision)
  /\ c.type = "BIT" => a.n \in {0, 1}

DatumInv ==
  pc \in {"fetch", "done"} /\ source # "copy" =>
    member = BindColumn(QueryQuirks, column) /\ DatumFor(column, datum)

StoredInv ==
  /\ pc # "done" => stored = Nothing
  /\ pc = "done" /\ source # "copy" =>
       stored = IF datum.null THEN NullWritten
                ELSE FetchAndSetResult(QueryQuirks, column, datum)

ErrorInv ==
  /\ pc \in Steps /\ error \in Errors /\ (pc = "thrown" <=> error # "none")
  /\ RefusalsExplained

StatementInv ==
  /\ setting \in Settings /\ given \in Values /\ expects \in Expectable(given)
  /\ source \in {"row", "handle", "copy"} /\ run \in 1 .. MaxRuns

Inv ==
  /\ StatementInv /\ ValueInv /\ OptionsInv /\ ColumnInv
  /\ DatumInv /\ StoredInv /\ ErrorInv

-----------------------------------------------------------------------------
Statics == <<setting, source, given, expects>>

(* The quirks of the two calls.                                             *)
LEMMA QuirksGiven ==
  ASSUME StatementInv
  PROVE  /\ DuckValue(given) /\ (source # "row") \in BOOLEAN
         /\ OptionsInv /\ pc \notin {"options", "thrown"} =>
              ExtractQuirks.fraction \in Int /\ ExtractQuirks.fraction <= NanoDigits
         /\ WithTime2(QueryQuirks) # WithTime2(ExtractQuirks) =>
              /\ source = "handle"
              /\ "time_params_as_ss_time2" \in setting.user.on \cup setting.user.off
<1>1. /\ DuckValue(given) /\ setting.dbms \in Dbms /\ setting.user \in Options
  BY PathAssumption DEF StatementInv
<1>2. NanoDigits \in Nat /\ SsDigits \in 0 .. NanoDigits
  BY TemporalAssumption, QuirksAssumption
<1>3. ASSUME NEW user \in Options
      PROVE  /\ Quirks(setting.dbms, user).fraction \in Int
             /\ Accepted(user) => Quirks(setting.dbms, user).fraction <= NanoDigits
             /\ Quirks(setting.dbms, user).flags = (DbmsFlags(setting.dbms) \cup user.on) \ user.off
  <2>1. user.fraction \in Int
    BY DEF Options
  <2> QED
    BY <1>2, <2>1 DEF Quirks, Given, Accepted
<1>4. NoOptions \in Options /\ Accepted(NoOptions)
      /\ NoOptions.on = {} /\ NoOptions.off = {}
  BY <1>2 DEF NoOptions, Options, Accepted, Unset
<1>5. OptionsInv /\ pc \notin {"options", "thrown"} =>
        ExtractQuirks.fraction \in Int /\ ExtractQuirks.fraction <= NanoDigits
  <2>1. CASE source = "handle"
    BY <1>3, <1>4, <2>1 DEF ExtractQuirks
  <2>2. CASE source # "handle"
    BY <1>1, <1>3, <2>2 DEF ExtractQuirks, QueryQuirks, OptionsInv
  <2> QED
    BY <2>1, <2>2
<1>6. WithTime2(QueryQuirks) # WithTime2(ExtractQuirks) =>
        /\ source = "handle"
        /\ "time_params_as_ss_time2" \in setting.user.on \cup setting.user.off
  <2>1. source # "handle" => ExtractQuirks = QueryQuirks
    BY DEF ExtractQuirks
  <2>2. CASE source = "handle"
    <3>1. /\ QueryQuirks.flags = (DbmsFlags(setting.dbms) \cup setting.user.on) \ setting.user.off
          /\ ExtractQuirks.flags = (DbmsFlags(setting.dbms) \cup {}) \ {}
      BY <1>1, <1>3, <1>4, <2>2 DEF ExtractQuirks, QueryQuirks
    <3> QED
      BY <2>2, <3>1 DEF WithTime2
  <2> QED
    BY <2>1, <2>2
<1> QED
  BY <1>1, <1>5, <1>6

(* The way of the value of this run.                                        *)
LEMMA WayHere ==
  ASSUME StatementInv, given.type \in Extractable
  PROVE  WayAs(Extracted, Expected, Told, Kept, QueryQuirks, ExtractQuirks, given, expects)
<1>1. DuckValue(given) /\ (source # "row") \in BOOLEAN
  BY QuirksGiven
<1>2. ASSUME NEW of_vector \in BOOLEAN, NEW q, NEW e, NEW x
      PROVE  LET g == Extract(e, given, of_vector)
                 v == SetExpectedType(q, g, x)
                 b == BindOdbcParam(q, v)
             IN  WayAs(g, v, b, [v EXCEPT !.len = b.len], q, e, given, x)
  BY <1>1, Way
<1> QED
  BY <1>1, <1>2 DEF Extracted, Expected, Told, Kept

(* A step that changes none of these changes nothing of the way.            *)
LEMMA SameWay ==
  ASSUME UNCHANGED Statics
  PROVE  /\ Extracted' = Extracted /\ Expected' = Expected /\ Told' = Told /\ Kept' = Kept
         /\ QueryQuirks' = QueryQuirks /\ ExtractQuirks' = ExtractQuirks
<1>1. QueryQuirks' = QueryQuirks
  BY DEF QueryQuirks, Statics
<1>2. ExtractQuirks' = ExtractQuirks
  BY <1>1 DEF ExtractQuirks, Statics
<1>3. Extracted' = Extracted
  BY <1>2 DEF Extracted, Statics
<1>4. Expected' = Expected
  BY <1>1, <1>3 DEF Expected, Statics
<1>5. Told' = Told
  BY <1>1, <1>4 DEF Told
<1>6. Kept' = Kept
  BY <1>4, <1>5 DEF Kept
<1> QED
  BY <1>1, <1>2, <1>3, <1>4, <1>5, <1>6

(* The invariant holds before anything is prepared.                         *)
LEMMA InitInv == Init => Inv
<1> SUFFICES ASSUME Init PROVE Inv
  OBVIOUS
<1>1. StatementInv
  BY DEF Init, StatementInv, MaxRuns
<1>2. pc = IF source = "handle" THEN "extract" ELSE "options"
  BY DEF Init
<1>3. value = NoValue /\ declared = "none" /\ stored = Nothing /\ error = "none"
  BY DEF Init
<1>4. ~Untyped /\ ~Typed /\ ~IsBound /\ ~DeclaredBefore
  BY <1>2 DEF Untyped, Typed, IsBound, DeclaredBefore
<1>5. ValueInv
  BY <1>3, <1>4 DEF ValueInv
<1>6. OptionsInv
  BY <1>2 DEF OptionsInv
<1>7. ColumnInv
  <2>1. CASE source = "copy"
    BY <1>2, <1>3, <2>1 DEF ColumnInv
  <2>2. CASE source # "copy"
    <3>1. column \in Echoes(setting.dbms, given)
      BY <2>2 DEF Init
    <3>2. column \in Columns /\ (column.type = "BIT" => given.type = "BOOLEAN")
      BY <1>1, <3>1, QuirksGiven, EchoTyped
    <3>3. pc \notin Behind
      BY <1>2 DEF Behind
    <3> QED
      BY <1>3, <1>4, <2>2, <3>2, <3>3 DEF ColumnInv
  <2> QED
    BY <2>1, <2>2
<1>8. DatumInv /\ StoredInv
  BY <1>2, <1>3 DEF DatumInv, StoredInv
<1>9. ErrorInv
  BY <1>2, <1>3 DEF ErrorInv, Steps, Errors, RefusalsExplained
<1> QED
  BY <1>1, <1>5, <1>6, <1>7, <1>8, <1>9 DEF Inv

-----------------------------------------------------------------------------
(* A step that throws leaves all but the error as it was.                   *)
Others == <<setting, source, given, expects, run, value, bound, column, declared, member,
            datum, stored>>

Explained(reason) ==
  /\ reason = "mistyped" =>
       /\ source = "handle" /\ given.type = "TIME"
       /\ "time_params_as_ss_time2" \in setting.user.on \cup setting.user.off
  /\ reason = "expected again" => source = "handle" /\ run > 1 /\ expects # "UNKNOWN"
  /\ reason = "column type" => column.type = "INTERVAL" \/ ~column.name
  /\ reason # "mistyped buffer"

(* Every exception the model throws, for a reason that is explained, leaves *)
(* the invariant: the error path.                                           *)
LEMMA ThrowStep ==
  ASSUME Inv, NEW reason \in Errors \ {"none"}, Explained(reason), Throw(reason),
         pc # "done", UNCHANGED Others
  PROVE  Inv'
<1>0. UNCHANGED Statics
  BY DEF Others, Statics
<1>1. /\ Extracted' = Extracted /\ Expected' = Expected /\ Told' = Told /\ Kept' = Kept
      /\ QueryQuirks' = QueryQuirks
  BY <1>0, SameWay
<1>2. pc' = "thrown" /\ error' = reason
  BY DEF Throw
<1>3. StatementInv'
  BY DEF Inv, StatementInv, Others
<1>4. ~Untyped' /\ ~Typed' /\ ~IsBound' /\ ~DeclaredBefore'
  BY <1>2 DEF Untyped, Typed, IsBound, DeclaredBefore
<1>5. ValueInv'
  BY <1>1, <1>4 DEF Inv, ValueInv, Others, KeptBefore
<1>6. OptionsInv'
  BY <1>2 DEF OptionsInv
<1>7. ColumnInv'
  BY <1>1, <1>2, <1>4 DEF Inv, ColumnInv, Others, Behind
<1>8. DatumInv' /\ StoredInv'
  BY <1>2 DEF Inv, DatumInv, StoredInv, Others
<1>9. ErrorInv'
  <2>1. RefusalsExplained'
    BY <1>2 DEF RefusalsExplained, Explained, Others
  <2> QED
    BY <1>2, <2>1 DEF ErrorInv, Steps
<1> QED
  BY <1>3, <1>5, <1>6, <1>7, <1>8, <1>9 DEF Inv

(* A call into the driver that fails leaves the invariant.                  *)
LEMMA DriverFailsStep == Inv /\ DriverFails => Inv'
<1> SUFFICES ASSUME Inv, DriverFails PROVE Inv'
  OBVIOUS
<1>1. pc # "done" /\ Throw("driver") /\ UNCHANGED Others
  BY DEF DriverFails, Statement, Others
<1>2. "driver" \in Errors \ {"none"} /\ Explained("driver")
  BY DEF Errors, Explained
<1> QED
  BY <1>1, <1>2, ThrowStep

(* What a step that goes on leaves of the parts of the invariant.           *)
LEMMA GoStep ==
  ASSUME Inv, UNCHANGED <<setting, source, given, expects, error>>,
         error = "none", pc' \in Steps \ {"thrown"}, pc' = "done" => source = "copy",
         run' \in 1 .. MaxRuns, stored' = Nothing
  PROVE  StatementInv' /\ StoredInv' /\ ErrorInv'
<1>1. StatementInv'
  BY DEF Inv, StatementInv
<1>2. StoredInv'
  BY DEF StoredInv, Statics
<1>3. ErrorInv'
  <2>1. RefusalsExplained'
    BY DEF RefusalsExplained
  <2> QED
    BY <2>1 DEF Inv, ErrorInv
<1> QED
  BY <1>1, <1>2, <1>3

(* Reading the named parameters of odbc_query leaves the invariant: refused *)
(* options are thrown, and the others are Accepted.                         *)
LEMMA ReadOptionsStep == Inv /\ ReadOptions => Inv'
<1> SUFFICES ASSUME Inv, ReadOptions PROVE Inv'
  OBVIOUS
<1>0. pc = "options" /\ UNCHANGED Others
  BY DEF ReadOptions, Statement, Others
<1>1. CASE ~Accepted(setting.user)
  <2>1. Throw("option")
    BY <1>1 DEF ReadOptions
  <2>2. "option" \in Errors \ {"none"} /\ Explained("option")
    BY DEF Errors, Explained
  <2> QED
    BY <1>0, <2>1, <2>2, ThrowStep
<1>2. CASE Accepted(setting.user)
  <2>1. /\ pc' = IF source = "handle" THEN "collect" ELSE "extract"
        /\ error' = error
    <3>1. Goto([row |-> "extract", handle |-> "collect", copy |-> "extract"])
      BY <1>2 DEF ReadOptions
    <3>2. source \in {"row", "handle", "copy"}
      BY DEF Inv, StatementInv
    <3> QED
      BY <3>1, <3>2 DEF Goto
  <2>2. UNCHANGED Statics
    BY <1>0 DEF Others, Statics
  <2>3. /\ Extracted' = Extracted /\ Expected' = Expected /\ Told' = Told /\ Kept' = Kept
        /\ QueryQuirks' = QueryQuirks
    BY <2>2, SameWay
  <2>4. StatementInv' /\ StoredInv' /\ ErrorInv'
    <3>1. error = "none" /\ stored = Nothing /\ run \in 1 .. MaxRuns
      BY <1>0 DEF Inv, ErrorInv, StoredInv, StatementInv
    <3>2. pc' \in Steps \ {"thrown", "done"}
      BY <2>1 DEF Steps
    <3> QED
      BY <1>0, <2>1, <3>1, <3>2, GoStep DEF Others
  <2>5. ValueInv'
    BY <1>0, <2>1, <2>3 DEF Inv, ValueInv, Untyped, Typed, IsBound, KeptBefore, Others
  <2>6. OptionsInv'
    BY <1>0, <1>2 DEF OptionsInv, Others
  <2>7. ColumnInv'
    BY <1>0, <2>1, <2>3 DEF Inv, ColumnInv, Behind, DeclaredBefore, Others
  <2>8. DatumInv'
    BY <2>1 DEF DatumInv
  <2> QED
    BY <2>4, <2>5, <2>6, <2>7, <2>8 DEF Inv
<1> QED
  BY <1>1, <1>2

(* Extracting the argument leaves the invariant: the value is Extracted.    *)
LEMMA ExtractParamStep == Inv /\ ExtractParam => Inv'
<1> SUFFICES ASSUME Inv, ExtractParam PROVE Inv'
  OBVIOUS
<1>0. pc = "extract"
  BY DEF ExtractParam
<1>1. CASE given.type \notin Extractable
  <2>1. Throw("parameter type") /\ UNCHANGED Others
    BY <1>1 DEF ExtractParam, Statement, Others
  <2>2. "parameter type" \in Errors \ {"none"} /\ Explained("parameter type")
    BY DEF Errors, Explained
  <2> QED
    BY <1>0, <2>1, <2>2, ThrowStep
<1>2. CASE given.type \in Extractable
  <2>0. /\ value' = Extracted
        /\ UNCHANGED <<setting, source, given, expects, run, bound, column, declared,
                       member, datum, stored>>
    BY <1>2 DEF ExtractParam, Statement, Extracted
  <2>1. /\ pc' = (CASE source = "row" -> "collect" [] source = "handle" -> "options"
                    [] source = "copy" -> "expect")
        /\ error' = error
    <3>1. Goto([row |-> "collect", handle |-> "options", copy |-> "expect"])
      BY <1>2 DEF ExtractParam
    <3>2. source \in {"row", "handle", "copy"}
      BY DEF Inv, StatementInv
    <3> QED
      BY <3>1, <3>2 DEF Goto
  <2>s. source \in {"row", "handle", "copy"}
    BY DEF Inv, StatementInv
  <2>2. UNCHANGED Statics
    BY <2>0 DEF Statics
  <2>3. /\ Extracted' = Extracted /\ Expected' = Expected /\ Told' = Told /\ Kept' = Kept
        /\ QueryQuirks' = QueryQuirks
    BY <2>2, SameWay
  <2>4. StatementInv' /\ StoredInv' /\ ErrorInv'
    <3>1. error = "none" /\ stored = Nothing /\ run \in 1 .. MaxRuns
      BY <1>0 DEF Inv, ErrorInv, StoredInv, StatementInv
    <3>2. pc' \in Steps \ {"thrown", "done"}
      BY <2>1, <2>s DEF Steps
    <3> QED
      BY <2>0, <2>1, <3>1, <3>2, GoStep
  <2>5. ValueInv'
    BY <1>2, <2>0, <2>1, <2>s, <2>3 DEF ValueInv, Untyped, Typed, IsBound
  <2>6. OptionsInv'
    BY <1>0, <2>0, <2>1 DEF Inv, OptionsInv
  <2>7. ColumnInv'
    BY <1>0, <2>0, <2>1, <2>s, <2>3 DEF Inv, ColumnInv, Behind, DeclaredBefore
  <2>8. DatumInv'
    BY <2>1, <2>s DEF DatumInv
  <2> QED
    BY <2>4, <2>5, <2>6, <2>7, <2>8 DEF Inv
<1> QED
  BY <1>1, <1>2

(* Describing and coalescing the column leaves the invariant.               *)
LEMMA CollectColumnStep == Inv /\ CollectColumn => Inv'
<1> SUFFICES ASSUME Inv, CollectColumn PROVE Inv'
  OBVIOUS
<1>0. pc = "collect" /\ source \in {"row", "handle"}
  <2>1. source # "copy"
    BY DEF CollectColumn, Inv, ColumnInv
  <2> QED
    BY <2>1 DEF CollectColumn, Inv, StatementInv
<1>1. CASE column.type \in Decimals /\ column.scale < 0
  <2>1. Throw("negative scale") /\ UNCHANGED Others
    BY <1>1 DEF CollectColumn, Statement, Others
  <2>2. "negative scale" \in Errors \ {"none"} /\ Explained("negative scale")
    BY DEF Errors, Explained
  <2> QED
    BY <1>0, <2>1, <2>2, ThrowStep
<1>2. CASE ~(column.type \in Decimals /\ column.scale < 0)
  <2>0. /\ column' = Described(column)
        /\ UNCHANGED <<setting, source, given, expects, run, value, bound, declared,
                       member, datum, stored>>
    BY <1>2 DEF CollectColumn, Statement
  <2>1. /\ pc' = IF source = "row" THEN "expect" ELSE "declare"
        /\ error' = error
    <3>1. Goto([row |-> "expect", handle |-> "declare", copy |-> "none"])
      BY <1>2 DEF CollectColumn
    <3> QED
      BY <1>0, <3>1 DEF Goto
  <2>2. UNCHANGED Statics
    BY <2>0 DEF Statics
  <2>3. /\ Extracted' = Extracted /\ Expected' = Expected /\ Told' = Told /\ Kept' = Kept
        /\ QueryQuirks' = QueryQuirks
    BY <2>2, SameWay
  <2>4. StatementInv' /\ StoredInv' /\ ErrorInv'
    <3>1. error = "none" /\ stored = Nothing /\ run \in 1 .. MaxRuns
      BY <1>0 DEF Inv, ErrorInv, StoredInv, StatementInv
    <3>2. pc' \in Steps \ {"thrown", "done"}
      BY <2>1 DEF Steps
    <3> QED
      BY <2>0, <2>1, <3>1, <3>2, GoStep
  <2>5. ValueInv'
    BY <1>0, <2>0, <2>1, <2>3 DEF Inv, ValueInv, Untyped, Typed, IsBound, KeptBefore
  <2>6. OptionsInv'
    BY <1>0, <2>0, <2>1 DEF Inv, OptionsInv
  <2>7. ColumnInv'
    <3>1. column \in Columns /\ (column.type = "BIT" => given.type = "BOOLEAN")
          /\ (declared # "none" => DeclaredFor(QueryQuirks, column, declared))
      BY <1>0 DEF Inv, ColumnInv
    <3>2. column' \in Columns /\ HasAttributes(column') /\ column'.type = column.type
      BY <1>2, <2>0, <3>1, DescribedColumn
    <3>3. declared # "none" => column' = column
      <4>1. ASSUME declared # "none" PROVE Described(column) = column
        <5>1. HasAttributes(column)
          BY <3>1, <4>1 DEF DeclaredFor
        <5> QED
          BY <3>1, <5>1, DescribedOnce
      <4> QED
        BY <2>0, <4>1
    <3>4. ~DeclaredBefore'
      BY <1>0, <2>0, <2>1 DEF DeclaredBefore
    <3> QED
      BY <1>0, <2>0, <2>3, <3>1, <3>2, <3>3, <3>4 DEF ColumnInv
  <2>8. DatumInv'
    BY <2>1 DEF DatumInv
  <2> QED
    BY <2>4, <2>5, <2>6, <2>7, <2>8 DEF Inv
<1> QED
  BY <1>1, <1>2

(* Describing the parameters leaves the invariant: the value is Expected.   *)
LEMMA SetExpectedTypesStep == Inv /\ SetExpectedTypes => Inv'
<1> SUFFICES ASSUME Inv, SetExpectedTypes PROVE Inv'
  OBVIOUS
<1>0. /\ pc = "expect" /\ given.type \in Extractable
      /\ source \in {"row", "handle", "copy"}
      /\ value = Extracted \/ (KeptBefore /\ source = "handle" /\ run > 1)
  BY DEF SetExpectedTypes, Inv, ValueInv, Untyped, StatementInv
<1>w. WayAs(Extracted, Expected, Told, Kept, QueryQuirks, ExtractQuirks, given, expects)
  BY <1>0, WayHere DEF Inv
<1>1. CASE ~MaySetExpectedType(value)
  <2>1. Throw("expected again") /\ UNCHANGED Others
    BY <1>1 DEF SetExpectedTypes, Statement, Others
  <2>2. MaySetExpectedType(Extracted)
    BY <1>w DEF WayAs, IsParameter, MaySetExpectedType, Parameter
  <2>3. KeptBefore /\ source = "handle" /\ run > 1
    BY <1>0, <1>1, <2>2
  <2>4. Kept.expected = expects
    BY <1>w, <2>3 DEF KeptBefore, WayAs, IsParameter, Parameter
  <2>5. expects # "UNKNOWN"
    BY <1>1, <2>3, <2>4 DEF KeptBefore, MaySetExpectedType
  <2>6. "expected again" \in Errors \ {"none"} /\ Explained("expected again")
    BY <2>3, <2>5 DEF Errors, Explained
  <2> QED
    BY <1>0, <2>1, <2>6, ThrowStep
<1>2. CASE MaySetExpectedType(value)
  <2>0. /\ value' = SetExpectedType(QueryQuirks, value, expects)
        /\ UNCHANGED <<setting, source, given, expects, run, bound, column, declared,
                       member, datum, stored>>
    BY <1>2 DEF SetExpectedTypes, Statement
  <2>1. /\ pc' = IF source = "row" THEN "declare" ELSE "bind"
        /\ error' = error
    <3>1. Goto([row |-> "declare", handle |-> "bind", copy |-> "bind"])
      BY <1>2 DEF SetExpectedTypes
    <3> QED
      BY <1>0, <3>1 DEF Goto
  <2>2. UNCHANGED Statics
    BY <2>0 DEF Statics
  <2>3. /\ Extracted' = Extracted /\ Expected' = Expected /\ Told' = Told /\ Kept' = Kept
        /\ QueryQuirks' = QueryQuirks
    BY <2>2, SameWay
  <2>4. StatementInv' /\ StoredInv' /\ ErrorInv'
    <3>1. error = "none" /\ stored = Nothing /\ run \in 1 .. MaxRuns
      BY <1>0 DEF Inv, ErrorInv, StoredInv, StatementInv
    <3>2. pc' \in Steps \ {"thrown", "done"}
      BY <2>1 DEF Steps
    <3> QED
      BY <2>0, <2>1, <3>1, <3>2, GoStep
  <2>5. value' = Expected \/ (value' = Kept /\ Told.error = "none")
    <3>1. CASE value = Extracted
      BY <2>0, <3>1 DEF Expected
    <3>2. CASE value # Extracted
      <4>1. value = Kept /\ Told.error = "none"
        BY <1>0, <3>2 DEF KeptBefore
      <4>2. expects = "UNKNOWN"
        BY <1>2, <1>w, <4>1 DEF WayAs, IsParameter, Parameter, MaySetExpectedType
      <4>3. SetExpectedType(QueryQuirks, Kept, expects) = Kept
        BY <1>w, <4>1, <4>2 DEF WayAs
      <4> QED
        BY <2>0, <4>1, <4>3
    <3> QED
      BY <3>1, <3>2
  <2>6. ValueInv'
    BY <1>0, <2>0, <2>1, <2>3, <2>5 DEF ValueInv, Untyped, Typed, IsBound, KeptBefore
  <2>7. OptionsInv'
    BY <1>0, <2>0, <2>1 DEF Inv, OptionsInv
  <2>8. ColumnInv'
    BY <1>0, <2>0, <2>1, <2>3 DEF Inv, ColumnInv, Behind, DeclaredBefore
  <2>9. DatumInv'
    BY <2>1 DEF DatumInv
  <2> QED
    BY <2>4, <2>6, <2>7, <2>8, <2>9 DEF Inv
<1> QED
  BY <1>1, <1>2

(* Declaring the column to DuckDB leaves the invariant: one with no element *)
(* type is thrown out here.                                                 *)
LEMMA DeclareColumnStep == Inv /\ DeclareColumn => Inv'
<1> SUFFICES ASSUME Inv, DeclareColumn PROVE Inv'
  OBVIOUS
<1> DEFINE c == CoalesceColumnType(QueryQuirks, column)
           resolved == ResolveColumnType(QueryQuirks, c)
<1>0. pc = "declare" /\ source \in {"row", "handle"}
  <2>1. source # "copy"
    BY DEF DeclareColumn, Inv, ColumnInv
  <2> QED
    BY <2>1 DEF DeclareColumn, Inv, StatementInv
<1>c. /\ column \in Columns /\ (column.type = "BIT" => given.type = "BOOLEAN")
      /\ HasAttributes(column)
  BY <1>0 DEF Inv, ColumnInv, Behind
<1>k. CoalescedAs(c, QueryQuirks, column)
  BY <1>c, CoalescedColumn
<1>1. CASE resolved = "none"
  <2>1. Throw("column type") /\ UNCHANGED Others
    BY <1>1 DEF DeclareColumn, Statement, Others
  <2>2. Specialisation(c) = "none"
    BY <1>1 DEF ResolveColumnType, ResolveTimestamp
  <2>3. column.type = "INTERVAL" \/ ~column.name
    BY <1>k, <2>2 DEF CoalescedAs
  <2>4. "column type" \in Errors \ {"none"} /\ Explained("column type")
    BY <2>3 DEF Errors, Explained
  <2> QED
    BY <1>0, <2>1, <2>4, ThrowStep
<1>2. CASE resolved # "none"
  <2>0. /\ column' = c /\ declared' = ElementOf(QueryQuirks, c)
        /\ UNCHANGED <<setting, source, given, expects, run, value, bound,
                       member, datum, stored>>
    BY <1>2 DEF DeclareColumn, Statement, ElementOf
  <2>1. /\ pc' = IF source = "row" THEN "bind" ELSE "expect"
        /\ error' = error
    <3>1. Goto([row |-> "bind", handle |-> "expect", copy |-> "none"])
      BY <1>2 DEF DeclareColumn
    <3> QED
      BY <1>0, <3>1 DEF Goto
  <2>2. UNCHANGED Statics
    BY <2>0 DEF Statics
  <2>3. /\ Extracted' = Extracted /\ Expected' = Expected /\ Told' = Told /\ Kept' = Kept
        /\ QueryQuirks' = QueryQuirks
    BY <2>2, SameWay
  <2>4. StatementInv' /\ StoredInv' /\ ErrorInv'
    <3>1. error = "none" /\ stored = Nothing /\ run \in 1 .. MaxRuns
      BY <1>0 DEF Inv, ErrorInv, StoredInv, StatementInv
    <3>2. pc' \in Steps \ {"thrown", "done"}
      BY <2>1 DEF Steps
    <3> QED
      BY <2>0, <2>1, <3>1, <3>2, GoStep
  <2>5. ValueInv'
    BY <1>0, <2>0, <2>1, <2>3 DEF Inv, ValueInv, Untyped, Typed, IsBound, KeptBefore
  <2>6. OptionsInv'
    BY <1>0, <2>0, <2>1 DEF Inv, OptionsInv
  <2>7. ColumnInv'
    <3>1. /\ c \in Columns /\ HasAttributes(c) /\ CoalesceColumnType(QueryQuirks, c) = c
          /\ c.type = "BIT" => given.type = "BOOLEAN"
      BY <1>c, <1>k DEF CoalescedAs
    <3>2. DeclaredFor(QueryQuirks, c, ElementOf(QueryQuirks, c))
      BY <1>2, <3>1 DEF DeclaredFor
    <3>3. ElementOf(QueryQuirks, c) # "none"
      BY <1>2, <3>1, ElementDeclared
    <3> HIDE DEF c
    <3> QED
      BY <1>0, <2>0, <2>3, <3>1, <3>2, <3>3 DEF ColumnInv
  <2>8. DatumInv'
    BY <2>1 DEF DatumInv
  <2> QED
    BY <2>4, <2>5, <2>6, <2>7, <2>8 DEF Inv
<1> QED
  BY <1>1, <1>2

(* Binding the parameter leaves the invariant: what the driver reads is     *)
(* Told, and the value is Kept.                                             *)
LEMMA BindParamStep == Inv /\ BindParam => Inv'
<1> SUFFICES ASSUME Inv, BindParam PROVE Inv'
  OBVIOUS
<1>0. /\ pc = "bind" /\ given.type \in Extractable
      /\ source \in {"row", "handle", "copy"}
      /\ value = Expected \/ KeptBefore
  BY DEF BindParam, Inv, ValueInv, Typed, StatementInv
<1>w. WayAs(Extracted, Expected, Told, Kept, QueryQuirks, ExtractQuirks, given, expects)
  BY <1>0, WayHere DEF Inv
<1>b. BindOdbcParam(QueryQuirks, value) = Told
  <2>1. CASE value = Expected
    BY <2>1 DEF Told
  <2>2. CASE KeptBefore
    BY <1>w, <2>2 DEF KeptBefore, WayAs
  <2> QED
    BY <1>0, <2>1, <2>2
<1>1. CASE Told.error # "none"
  <2>1. Throw(Told.error) /\ UNCHANGED Others
    BY <1>1, <1>b DEF BindParam, Statement, Others
  <2>2. /\ Told.error = "mistyped" /\ given.type = "TIME"
        /\ WithTime2(QueryQuirks) # WithTime2(ExtractQuirks)
    BY <1>1, <1>w DEF WayAs
  <2>3. /\ source = "handle"
        /\ "time_params_as_ss_time2" \in setting.user.on \cup setting.user.off
    BY <2>2, QuirksGiven DEF Inv
  <2>4. Told.error \in Errors \ {"none"} /\ Explained(Told.error)
    BY <2>2, <2>3 DEF Errors, Explained
  <2> QED
    BY <1>0, <2>1, <2>4, ThrowStep
<1>2. CASE Told.error = "none"
  <2>0. /\ bound' = Told /\ value' = [value EXCEPT !.len = Told.len]
        /\ UNCHANGED <<setting, source, given, expects, run, column, declared,
                       member, datum, stored>>
    BY <1>2, <1>b DEF BindParam, Statement
  <2>1. /\ pc' = IF source = "copy" THEN "done" ELSE "execute"
        /\ error' = error
    <3>1. Goto([row |-> "execute", handle |-> "execute", copy |-> "done"])
      BY <1>2, <1>b DEF BindParam
    <3> QED
      BY <1>0, <3>1 DEF Goto
  <2>2. UNCHANGED Statics
    BY <2>0 DEF Statics
  <2>3. /\ Extracted' = Extracted /\ Expected' = Expected /\ Told' = Told /\ Kept' = Kept
        /\ QueryQuirks' = QueryQuirks
    BY <2>2, SameWay
  <2>4. StatementInv' /\ StoredInv' /\ ErrorInv'
    <3>1. error = "none" /\ stored = Nothing /\ run \in 1 .. MaxRuns
      BY <1>0 DEF Inv, ErrorInv, StoredInv, StatementInv
    <3>2. pc' \in Steps \ {"thrown"} /\ (pc' = "done" => source = "copy")
      BY <2>1 DEF Steps
    <3> QED
      BY <2>0, <2>1, <3>1, <3>2, GoStep
  <2>5. value' = Kept
    <3>1. CASE value = Expected
      BY <2>0, <3>1 DEF Kept
    <3>2. CASE KeptBefore
      BY <1>2, <1>w, <2>0, <3>2 DEF KeptBefore, WayAs
    <3> QED
      BY <1>0, <3>1, <3>2
  <2>6. ValueInv'
    BY <1>0, <1>2, <2>0, <2>1, <2>3, <2>5 DEF ValueInv, Untyped, Typed, IsBound, KeptBefore
  <2>7. OptionsInv'
    BY <1>0, <2>0, <2>1 DEF Inv, OptionsInv
  <2>8. ColumnInv'
    BY <1>0, <2>0, <2>1, <2>3 DEF Inv, ColumnInv, Behind, DeclaredBefore
  <2>9. DatumInv'
    BY <2>0, <2>1 DEF DatumInv
  <2> QED
    BY <2>4, <2>6, <2>7, <2>8, <2>9 DEF Inv
<1> QED
  BY <1>1, <1>2

(* What was bound is the value given, as ParamArrives says it.              *)
LEMMA ArrivesHere ==
  ASSUME Inv, IsBound
  PROVE  ArrivesAs(bound, QueryQuirks, ExtractQuirks, given, source # "row")
<1>1. /\ given.type \in Extractable /\ Told.error = "none" /\ bound = Told
  BY DEF Inv, ValueInv, KeptBefore, IsBound
<1>2. DuckValue(given) /\ (source # "row") \in BOOLEAN
  BY QuirksGiven DEF Inv
<1>3. ExtractQuirks.fraction \in Int /\ ExtractQuirks.fraction <= NanoDigits
  BY QuirksGiven DEF Inv, IsBound
<1> QED
  BY <1>1, <1>2, <1>3, Arrives DEF Told, Expected, Extracted

(* What the driver has for a column it holds.                               *)
LEMMA AnswerFits ==
  ASSUME NEW c \in Columns, NEW d, NEW n \in Int, Holds(c, n),
         c.type = "BIT" => d.type = "BOOLEAN" /\ n \in {0, 1}
  PROVE  /\ Answer(c, d, n) \in Int
         /\ c.type \in Decimals => Abs(Answer(c, d, n)) < Power10(c.precision)
         /\ c.type = "BIT" => Answer(c, d, n) \in {0, 1}
<1>1. ClassAs(Specialisation(c), c)
  BY Classes
<1>2. n * YearSeconds * NanosPerSecond \in Int
  <2>1. YearSeconds \in Int /\ NanosPerSecond \in Int
    BY PathAssumption, Units
  <2> QED
    BY <2>1
<1>3. c.type \in Decimals => Answer(c, d, n) = n
  BY <1>1 DEF ClassAs, Answer
<1>4. c.type = "BIT" => Answer(c, d, n) = n
  BY DEF Answer
<1>5. c.type \in Decimals => Abs(n) < Power10(c.precision)
  BY DEF Holds, Signeds, Decimals
<1>6. Answer(c, d, n) \in Int
  BY <1>2 DEF Answer
<1> QED
  BY <1>3, <1>4, <1>5, <1>6

(* Executing leaves the invariant: the database returns a value of the      *)
(* column it described.                                                     *)
LEMMA ExecuteStep == Inv /\ Execute => Inv'
<1> SUFFICES ASSUME Inv, Execute PROVE Inv'
  OBVIOUS
<1>0. /\ pc = "execute" /\ source \in {"row", "handle"}
      /\ column \in Columns /\ (column.type = "BIT" => given.type = "BOOLEAN")
  <2>1. source # "copy"
    BY DEF Execute, Inv, ColumnInv
  <2> QED
    BY <2>1 DEF Execute, Inv, StatementInv, ColumnInv
<1>1. /\ pc' = "fetch" /\ member' = BindColumn(QueryQuirks, column) /\ error' = error
      /\ UNCHANGED <<setting, source, given, expects, run, value, bound, column, declared,
                     stored>>
  BY DEF Execute, Statement
<1>2. UNCHANGED Statics
  BY <1>1 DEF Statics
<1>3. /\ Extracted' = Extracted /\ Expected' = Expected /\ Told' = Told /\ Kept' = Kept
      /\ QueryQuirks' = QueryQuirks
  BY <1>2, SameWay
<1>4. StatementInv' /\ StoredInv' /\ ErrorInv'
  <2>1. error = "none" /\ stored = Nothing /\ run \in 1 .. MaxRuns
    BY <1>0 DEF Inv, ErrorInv, StoredInv, StatementInv
  <2>2. pc' \in Steps \ {"thrown"} /\ (pc' = "done" => source = "copy")
    BY <1>1 DEF Steps
  <2> QED
    BY <1>1, <2>1, <2>2, GoStep
<1>5. ValueInv'
  BY <1>0, <1>1, <1>3 DEF Inv, ValueInv, Untyped, Typed, IsBound, KeptBefore
<1>6. OptionsInv'
  BY <1>0, <1>1 DEF Inv, OptionsInv
<1>7. ColumnInv'
  BY <1>0, <1>1, <1>3 DEF Inv, ColumnInv, Behind, DeclaredBefore
<1>8. DatumInv'
  <2>1. PICK offset \in {0, Offset} :
          datum' = [n      |-> Answer(column, given, bound.reads),
                    offset |-> IF column.type = "SS_TIMESTAMPOFFSET" THEN offset ELSE 0,
                    null   |-> given.type = "SQLNULL"]
    BY DEF Execute
  <2>2. datum'.n = Answer(column, given, bound.reads) /\ datum'.offset \in Int
    <3>1. offset \in Int
      BY PathAssumption
    <3> QED
      BY <2>1, <3>1
  <2>3. ArrivesAs(bound, QueryQuirks, ExtractQuirks, given, source # "row")
    BY <1>0, ArrivesHere DEF IsBound
  <2>4. bound.reads \in Int /\ Holds(column, bound.reads)
    BY <2>3 DEF ArrivesAs, Execute
  <2>5. given.type = "BOOLEAN" => bound.reads \in {0, 1}
    <3>1. DuckValue(given)
      BY QuirksGiven DEF Inv
    <3>2. ASSUME given.type = "BOOLEAN" PROVE bound.reads = given.n
      BY <2>3, <3>2 DEF ArrivesAs, MeantOf, Made, Timestamps, Integrals, Signeds, Unsigneds
    <3> QED
      BY <3>1, <3>2 DEF DuckValue
  <2>6. DatumFor(column, datum')
    BY <1>0, <2>2, <2>4, <2>5, AnswerFits DEF DatumFor
  <2> QED
    BY <1>1, <1>3, <2>6 DEF DatumInv
<1> QED
  BY <1>4, <1>5, <1>6, <1>7, <1>8 DEF Inv

(* Fetching a value leaves the invariant: it is written with the element    *)
(* type declared.                                                           *)
LEMMA FetchResultStep == Inv /\ FetchResult => Inv'
<1> SUFFICES ASSUME Inv, FetchResult PROVE Inv'
  OBVIOUS
<1>0. /\ pc = "fetch" /\ source \in {"row", "handle"}
  <2>1. source # "copy"
    BY DEF FetchResult, Inv, ColumnInv
  <2> QED
    BY <2>1 DEF FetchResult, Inv, StatementInv
<1>1. /\ pc' = "done" /\ error' = error
      /\ stored' = (IF datum.null THEN NullWritten
                    ELSE FetchAndSetResult(QueryQuirks, column, datum))
      /\ UNCHANGED <<setting, source, given, expects, run, value, bound, column, declared,
                     member, datum>>
  <2>1. member = BindColumn(QueryQuirks, column)
    BY <1>0 DEF Inv, DatumInv
  <2>2. ~(FetchMember(QueryQuirks, column) # "none"
          /\ FetchMember(QueryQuirks, column) # member)
    BY <2>1, BufferKept
  <2> QED
    BY <2>2 DEF FetchResult, Statement
<1>2. UNCHANGED Statics
  BY <1>1 DEF Statics
<1>3. /\ Extracted' = Extracted /\ Expected' = Expected /\ Told' = Told /\ Kept' = Kept
      /\ QueryQuirks' = QueryQuirks
  BY <1>2, SameWay
<1>4. StatementInv'
  BY <1>1 DEF Inv, StatementInv
<1>5. ErrorInv'
  <2>1. error = "none"
    BY <1>0 DEF Inv, ErrorInv
  <2>2. RefusalsExplained'
    BY <1>1, <2>1 DEF RefusalsExplained
  <2> QED
    BY <1>1, <2>1, <2>2 DEF ErrorInv, Steps, Errors
<1>6. ValueInv'
  BY <1>0, <1>1, <1>3 DEF Inv, ValueInv, Untyped, Typed, IsBound, KeptBefore
<1>7. OptionsInv'
  BY <1>0, <1>1 DEF Inv, OptionsInv
<1>8. ColumnInv'
  BY <1>0, <1>1, <1>3 DEF Inv, ColumnInv, Behind, DeclaredBefore
<1>9. DatumInv'
  BY <1>0, <1>1, <1>3 DEF Inv, DatumInv
<1>10. StoredInv'
  BY <1>0, <1>1, <1>3 DEF StoredInv
<1> QED
  BY <1>4, <1>5, <1>6, <1>7, <1>8, <1>9, <1>10 DEF Inv

(* Executing the same statement again leaves the invariant: a value bound   *)
(* before is one that was expected and kept.                                *)
LEMMA AgainStep == Inv /\ Again => Inv'
<1> SUFFICES ASSUME Inv, Again PROVE Inv'
  OBVIOUS
<1>0. /\ pc = "done" /\ source \in {"row", "handle"} /\ run \in 1 .. MaxRuns
      /\ run < MaxRuns
  BY DEF Again, Inv, StatementInv
<1>1. /\ pc' = IF source = "row" THEN "bind" ELSE "options"
      /\ run' = run + 1 /\ stored' = Nothing
      /\ UNCHANGED <<setting, source, given, expects, value, bound, column, declared,
                     member, datum, error>>
  BY DEF Again
<1>2. UNCHANGED Statics
  BY <1>1 DEF Statics
<1>3. /\ Extracted' = Extracted /\ Expected' = Expected /\ Told' = Told /\ Kept' = Kept
      /\ QueryQuirks' = QueryQuirks
  BY <1>2, SameWay
<1>4. run' \in 1 .. MaxRuns /\ run' > 1
  BY <1>0, <1>1 DEF MaxRuns
<1>5. StatementInv' /\ StoredInv' /\ ErrorInv'
  <2>1. error = "none"
    BY <1>0 DEF Inv, ErrorInv
  <2>2. pc' \in Steps \ {"thrown"} /\ (pc' = "done" => source = "copy")
    BY <1>1 DEF Steps
  <2> QED
    BY <1>1, <1>4, <2>1, <2>2, GoStep
<1>6. ValueInv'
  BY <1>0, <1>1, <1>3, <1>4 DEF Inv, ValueInv, Untyped, Typed, IsBound, KeptBefore
<1>7. OptionsInv'
  BY <1>0, <1>1 DEF Inv, OptionsInv
<1>8. ColumnInv'
  BY <1>0, <1>1, <1>3 DEF Inv, ColumnInv, Behind, DeclaredBefore
<1>9. DatumInv'
  BY <1>1 DEF DatumInv
<1> QED
  BY <1>5, <1>6, <1>7, <1>8, <1>9 DEF Inv

(* The invariant depends on the variables only.                             *)
LEMMA StutterStep == Inv /\ UNCHANGED vars => Inv'
<1> SUFFICES ASSUME Inv, UNCHANGED vars PROVE Inv'
  OBVIOUS
<1>1. UNCHANGED Statics
  BY DEF vars, Statics
<1>2. /\ Extracted' = Extracted /\ Expected' = Expected /\ Told' = Told /\ Kept' = Kept
      /\ QueryQuirks' = QueryQuirks
  BY <1>1, SameWay
<1>3. StatementInv' /\ OptionsInv'
  BY DEF Inv, StatementInv, OptionsInv, vars
<1>4. ValueInv'
  BY <1>2 DEF Inv, ValueInv, Untyped, Typed, IsBound, KeptBefore, vars
<1>5. ColumnInv'
  BY <1>2 DEF Inv, ColumnInv, Behind, DeclaredBefore, vars
<1>6. DatumInv' /\ StoredInv'
  BY <1>2 DEF Inv, DatumInv, StoredInv, vars
<1>7. ErrorInv'
  BY DEF Inv, ErrorInv, RefusalsExplained, vars
<1> QED
  BY <1>3, <1>4, <1>5, <1>6, <1>7 DEF Inv

(* Every step leaves the invariant: it is inductive.                        *)
LEMMA NextInv == Inv /\ [Next]_vars => Inv'
<1> SUFFICES ASSUME Inv, [Next]_vars PROVE Inv'
  OBVIOUS
<1> QED
  BY ReadOptionsStep, ExtractParamStep, CollectColumnStep, SetExpectedTypesStep,
     DeclareColumnStep, BindParamStep, ExecuteStep, FetchResultStep, DriverFailsStep,
     AgainStep, StutterStep DEF Next

(* Every state of a statement, from its options to its last value,          *)
(* satisfies the invariant, for every width of word, every quirks and every *)
(* value.                                                                   *)
THEOREM ValuePathInvariant == Spec => []Inv
<1>1. Init => Inv
  BY InitInv
<1>2. Inv /\ [Next]_vars => Inv'
  BY NextInv
<1> QED
  BY <1>1, <1>2, PTL DEF Spec

(* Every variable has its type in every state, and a column that was        *)
(* declared has attributes of a type DuckDB has: the ScannerValue and the   *)
(* ResultColumn of scanner_value.cpp and columns.cpp never hold anything    *)
(* else.                                                                    *)
THEOREM ValuesTyped == Spec => []TypeOK
<1>1. ASSUME Inv PROVE TypeOK
  <2>1. value.tag \in Tags /\ value.len \in Lengths
    <3>1. CASE value = NoValue
      BY <3>1 DEF NoValue, Tagged, Tags, Lengths
    <3>2. CASE value # NoValue
      <4>1. given.type \in Extractable /\ (value \in {Extracted, Expected} \/ KeptBefore)
        BY <1>1, <3>2 DEF Inv, ValueInv
      <4>2. WayAs(Extracted, Expected, Told, Kept, QueryQuirks, ExtractQuirks, given, expects)
        BY <1>1, <4>1, WayHere DEF Inv
      <4> QED
        BY <4>1, <4>2 DEF WayAs, IsParameter, KeptBefore
    <3> QED
      BY <3>1, <3>2
  <2>2. ASSUME declared # "none"
        PROVE  /\ Specialisation(column) # "none"
               /\ column.precision \in IF column.type \in Decimals THEN 1 .. HugeDigits ELSE {0}
               /\ column.scale \in 0 .. column.precision
    <3>1. column \in Columns /\ DeclaredFor(QueryQuirks, column, declared)
      BY <1>1, <2>2 DEF Inv, ColumnInv
    <3> QED
      BY <3>1, ElementDeclared DEF DeclaredFor, HasAttributes
  <2> QED
    BY <1>1, <2>1, <2>2 DEF TypeOK, Inv, StatementInv, ErrorInv, Lengths
<1> QED
  BY <1>1, ValuePathInvariant, PTL

(* A call throws for what it says it does: a TIME of a handle is taken for  *)
(* the wrong struct only when the query's option differs from the default   *)
(* odbc_bind_params used, an expected type is set twice only by a second    *)
(* query with the handle, a column has no type only when it is an INTERVAL  *)
(* or the driver gave no name, and a bound buffer is never read as another  *)
(* type than it was bound for.                                              *)
THEOREM EveryRefusalExplained == Spec => []RefusalsExplained
<1>1. Inv => RefusalsExplained
  BY DEF Inv, ErrorInv
<1> QED
  BY <1>1, ValuePathInvariant, PTL

(* What is stored is what ColumnArrives says of the column declared.        *)
LEMMA StoredHere ==
  ASSUME Inv, pc = "done", source # "copy", ~datum.null
  PROVE  WrittenAs(stored, declared, QueryQuirks, column, datum)
<1>1. column \in Columns /\ DeclaredFor(QueryQuirks, column, declared)
  BY DEF Inv, ColumnInv, DeclaredBefore
<1>2. DatumFor(column, datum)
  BY DEF Inv, DatumInv
<1>3. stored = FetchAndSetResult(QueryQuirks, column, datum)
  BY DEF Inv, StoredInv
<1>4. declared = ElementOf(QueryQuirks, column)
  BY <1>1 DEF DeclaredFor
<1> QED
  BY <1>1, <1>2, <1>3, <1>4, ElementWritten DEF DeclaredFor, DatumFor

(* A result is written as the element the vector was declared with at bind  *)
(* time: the type switch of FetchAndSetResult and the one of                *)
(* odbc_query_bind never disagree, for any column a driver describes and    *)
(* any quirks.                                                              *)
THEOREM ElementAlwaysMatches == Spec => []ElementMatches
<1>1. ASSUME Inv PROVE ElementMatches
  <2>1. CASE pc # "done" \/ source = "copy"
    <3>1. stored = Nothing
      BY <1>1, <2>1 DEF Inv, StoredInv, ColumnInv
    <3> QED
      BY <3>1 DEF ElementMatches, Nothing, Written
  <2>2. CASE pc = "done" /\ source # "copy" /\ datum.null
    <3>1. stored = NullWritten
      BY <1>1, <2>2 DEF Inv, StoredInv
    <3> QED
      BY <3>1 DEF ElementMatches, NullWritten, Written
  <2>3. CASE pc = "done" /\ source # "copy" /\ ~datum.null
    BY <1>1, <2>3, StoredHere DEF WrittenAs, ElementMatches
  <2> QED
    BY <2>1, <2>2, <2>3
<1> QED
  BY <1>1, ValuePathInvariant, PTL

(* FetchAndSetResult leaves in the vector the value the driver had, in the  *)
(* unit of the column declared at bind time, but for the losses             *)
(* ColumnArrives names.                                                     *)
THEOREM EveryColumnArrives == Spec => []ColumnArrives
<1>1. ASSUME Inv PROVE ColumnArrives
  <2>1. CASE ~(pc = "done" /\ source # "copy")
    BY <2>1 DEF ColumnArrives
  <2>2. CASE pc = "done" /\ source # "copy" /\ datum.null
    <3>1. stored = NullWritten
      BY <1>1, <2>2 DEF Inv, StoredInv
    <3> QED
      BY <2>2, <3>1 DEF ColumnArrives
  <2>3. CASE pc = "done" /\ source # "copy" /\ ~datum.null
    <3>1. WrittenAs(stored, declared, QueryQuirks, column, datum)
      BY <1>1, <2>3, StoredHere
    <3> QED
      BY <2>3, <3>1 DEF WrittenAs, ColumnArrives
  <2> QED
    BY <2>1, <2>2, <2>3
<1> QED
  BY <1>1, ValuePathInvariant, PTL

(* The driver reads the value DuckDB handed to odbc_query, odbc_bind_params *)
(* or odbc_copy, with digits enough for it, also when the statement is run  *)
(* again, but for the six losses ParamArrives names.                        *)
THEOREM EveryParamArrives == Spec => []ParamArrives
<1>1. ASSUME Inv, IsBound
      PROVE  /\ EnoughDigits
             /\ CASE MadeDecimal /\ given.n < 0 -> bound.reads = given.n + M
                  [] given.type = "VARCHAR" ->
                       bound.reads = IF source = "row" THEN given.width ELSE given.n
                  [] given.type = "DATE" ->
                       given.n \in -(Years \div 2) .. Years \div 2 - 1 => bound.reads = given.n
                  [] given.type = "TIME" ->
                       bound.reads = IF "time_params_as_ss_time2" \in QueryQuirks.flags
                                     THEN Meant ELSE Meant - (Meant % NanosPerSecond)
                  [] given.type \in Timestamps ->
                       \/ given.type = "TIMESTAMP_NS" /\ JustBeforeSecond
                       \/ Meant - bound.reads
                            \in 0 .. Power10(NanoDigits - ExtractQuirks.fraction) - 1
                  [] OTHER -> bound.reads = Meant
  <2>1. ArrivesAs(bound, QueryQuirks, ExtractQuirks, given, source # "row")
    BY <1>1, ArrivesHere
  <2>2. MadeDecimal <=> Made(QueryQuirks, given)
    BY DEF MadeDecimal, Made, Decimalised
  <2>3. Meant = MeantOf(given) /\ (JustBeforeSecond <=> JustBefore(given))
        /\ (WithTime2(QueryQuirks) <=> "time_params_as_ss_time2" \in QueryQuirks.flags)
    BY DEF Meant, MeantOf, JustBeforeSecond, JustBefore, WithTime2
  <2>4. EnoughDigits
    BY <2>1, <2>2 DEF ArrivesAs, EnoughDigits
  <2> HIDE DEF Made, MeantOf, JustBefore
  <2> QED
    BY <2>1, <2>2, <2>3, <2>4 DEF ArrivesAs
<1>2. Inv => ParamArrives
  BY <1>1 DEF ParamArrives
<1> QED
  BY <1>2, ValuePathInvariant, PTL

(* A driver never converts a number to a character type itself:             *)
(* set_expected_type made it a text, wide for a wide type, unless it was    *)
(* made a DECIMAL.                                                          *)
THEOREM EveryNumberStringified == Spec => []NumbersStringified
<1>1. ASSUME Inv, IsBound, given.type \in Integrals \cup Floats,
             expects \in CharacterSqlTypes, ~MadeDecimal
      PROVE  bound.ctype = IF expects \in WideSqlTypes THEN "WCHAR" ELSE "CHAR"
  <2>1. bound = Told
    BY <1>1 DEF Inv, ValueInv
  <2>2. DuckValue(given) /\ (source # "row") \in BOOLEAN
    BY <1>1, QuirksGiven DEF Inv
  <2>3. ~Made(QueryQuirks, given)
    BY <1>1 DEF MadeDecimal, Made, Decimalised
  <2> QED
    BY <1>1, <2>1, <2>2, <2>3, Stringified DEF Told, Expected, Extracted
<1>2. Inv => NumbersStringified
  BY <1>1 DEF NumbersStringified
<1> QED
  BY <1>2, ValuePathInvariant, PTL

=============================================================================
