------------------------- MODULE Constructor_proofs -------------------------
(***************************************************************************)
(* The constructor of a cache and decode, for words of every width: what   *)
(* the code computes with bit tests, masks and shifts is the arithmetic    *)
(* CacheGeometry writes, unless block * associativity leaves the word.     *)
(***************************************************************************)
EXTENDS Constructor, CacheLevel_proofs

-----------------------------------------------------------------------------
(* Powers of two.                                                          *)

\* A power of two counts the sets of bits below it.
LEMMA PowerCounts ==
  ASSUME NEW n \in Nat
  PROVE  /\ IsFiniteSet(SUBSET (1 .. n)) /\ Cardinality(SUBSET (1 .. n)) = 2 ^ n
         /\ 2 ^ n \in Nat \ {0}
<1>1. IsFiniteSet(1 .. n) /\ Cardinality(1 .. n) = n
  BY FS_Interval
<1>2. IsFiniteSet(SUBSET (1 .. n)) /\ Cardinality(SUBSET (1 .. n)) = 2 ^ n
  BY <1>1, FS_SUBSET
<1>3. Cardinality(SUBSET (1 .. n)) # 0 /\ Cardinality(SUBSET (1 .. n)) \in Nat
  BY <1>2, FS_EmptySet, FS_CardinalityType
<1> QED BY <1>2, <1>3

LEMMA PowerDoubles ==
  ASSUME NEW n \in Nat
  PROVE  2 ^ (n + 1) = 2 * 2 ^ n
<1> DEFINE m == n + 1
           A == SUBSET (1 .. n)
           B == {T \in SUBSET (1 .. m) : m \in T}
           f == [T \in A |-> T \cup {m}]
<1>1. /\ IsFiniteSet(A) /\ Cardinality(A) = 2 ^ n /\ 2 ^ n \in Nat
      /\ Cardinality(SUBSET (1 .. m)) = 2 ^ m
  <2>1. m \in Nat
    OBVIOUS
  <2> HIDE DEF m
  <2> QED BY <2>1, PowerCounts
<1>2. \A x : x \in 1 .. m <=> x \in 1 .. n \/ x = m
  OBVIOUS
<1>3. m \notin 1 .. n
  OBVIOUS
<1>4. SUBSET (1 .. m) = A \cup B /\ A \cap B = {}
  BY <1>2, <1>3
<1>5. f \in Bijection(A, B)
  <2>1. \A T \in A : T \cup {m} \in B
    BY <1>2
  <2>2. ASSUME NEW S \in A, NEW T \in A, S \cup {m} = T \cup {m} PROVE S = T
    BY <1>3, <2>2
  <2>3. ASSUME NEW T \in B PROVE T \ {m} \in A /\ (T \ {m}) \cup {m} = T
    BY <1>2
  <2> HIDE DEF A, B, m
  <2>4. f \in [A -> B] /\ \A T \in A : f[T] = T \cup {m}
    BY <2>1
  <2> HIDE DEF f
  <2>5. \A T \in B : \E S \in A : f[S] = T
    BY <2>3, <2>4
  <2>6. \A S, T \in A : f[S] = f[T] => S = T
    BY <2>2, <2>4
  <2> QED BY <2>4, <2>5, <2>6 DEF Bijection, Injection, Surjection, IsInjective
<1> HIDE DEF f
<1>6. IsFiniteSet(B) /\ Cardinality(B) = Cardinality(A)
  BY <1>1, <1>5, FS_Bijection DEF ExistsBijection
<1> HIDE DEF A, B
<1>7. Cardinality(A \cup B) = Cardinality(A) + Cardinality(B) - Cardinality({})
  BY <1>1, <1>4, <1>6, FS_Union
<1>8. Cardinality({}) = 0
  BY FS_EmptySet
<1> DEFINE x == 2 ^ n
           y == 2 ^ m
<1>9. x \in Nat /\ y = x + x - 0
  BY <1>1, <1>4, <1>6, <1>7, <1>8
<1> HIDE DEF x, y
<1>10. y = 2 * x
  BY <1>9
<1> QED BY <1>10 DEF m, x, y

LEMMA PowerOfSum ==
  ASSUME NEW m \in Nat, NEW n \in Nat
  PROVE  2 ^ (m + n) = 2 ^ m * 2 ^ n
<1> DEFINE Bad == {k \in Nat : 2 ^ (m + k) # 2 ^ m * 2 ^ k}
           k == First(Bad)
<1> SUFFICES ASSUME Bad # {} PROVE FALSE
  OBVIOUS
<1>1. k \in Bad /\ \A i \in Bad : k <= i
  BY FirstIsLeast
<1> HIDE DEF k
<1>2. k # 0
  <2> DEFINE x == 2 ^ m
  <2>1. x \in Nat
    BY PowerCounts
  <2>2. x * 1 = x /\ m + 0 = m
    <3> HIDE DEF x
    <3> QED BY <2>1
  <2>3. 2 ^ 0 = 1
    OBVIOUS
  <2>4. 2 ^ (m + 0) = 2 ^ m * 2 ^ 0
    BY <2>2, <2>3
  <2> QED BY <1>1, <2>4
<1> DEFINE i == k - 1
<1>3. i \in Nat /\ i + 1 = k /\ m + k = (m + i) + 1 /\ m + i \in Nat /\ i < k
  BY <1>1, <1>2
<1> HIDE DEF i
<1>4. 2 ^ (m + i) = 2 ^ m * 2 ^ i
  BY <1>1, <1>3
<1>5. 2 ^ (m + k) = 2 * 2 ^ (m + i) /\ 2 ^ k = 2 * 2 ^ i
  BY <1>3, PowerDoubles
<1>6. 2 ^ m \in Nat /\ 2 ^ i \in Nat
  BY <1>3, PowerCounts
<1> DEFINE x == 2 ^ m
           y == 2 ^ i
<1>7. 2 * (x * y) = x * (2 * y) /\ x \in Nat /\ y \in Nat
  <2>1. x \in Nat /\ y \in Nat
    BY <1>6
  <2> HIDE DEF x, y
  <2> QED BY <2>1
<1> QED BY <1>1, <1>4, <1>5, <1>7

\* Powers of two are in the order of their exponents.
LEMMA PowersInOrder ==
  ASSUME NEW m \in Nat, NEW n \in Nat
  PROVE  /\ m <= n => 2 ^ m <= 2 ^ n /\ n - m \in Nat /\ 2 ^ n = 2 ^ m * 2 ^ (n - m)
         /\ m < n => 2 * 2 ^ m <= 2 ^ n /\ 2 ^ m < 2 ^ n
<1>1. ASSUME NEW i \in Nat, NEW j \in Nat, i <= j
      PROVE  2 ^ i <= 2 ^ j /\ j - i \in Nat /\ 2 ^ j = 2 ^ i * 2 ^ (j - i)
  <2> DEFINE k == j - i
  <2>1. k \in Nat /\ i + k = j
    BY <1>1
  <2> HIDE DEF k
  <2>2. 2 ^ j = 2 ^ i * 2 ^ k
    BY <2>1, PowerOfSum
  <2> DEFINE x == 2 ^ i
             y == 2 ^ k
  <2>3. x \in Nat \ {0} /\ y \in Nat \ {0}
    BY <2>1, PowerCounts
  <2> HIDE DEF x, y
  <2>4. x <= x * y
    <3>1. x * 1 <= x * y
      BY <2>3
    <3> QED BY <2>3, <3>1
  <2> QED BY <2>1, <2>2, <2>4 DEF x, y, k
<1>2. ASSUME m < n PROVE 2 * 2 ^ m <= 2 ^ n /\ 2 ^ m < 2 ^ n
  <2>1. m + 1 \in Nat /\ m + 1 <= n
    BY <1>2
  <2>2. 2 ^ (m + 1) <= 2 ^ n /\ 2 ^ (m + 1) = 2 * 2 ^ m
    BY <1>1, <2>1, PowerDoubles
  <2>3. 2 ^ m \in Nat \ {0} /\ 2 ^ n \in Nat
    BY PowerCounts
  <2> QED BY <2>2, <2>3
<1> QED BY <1>1, <1>2

\* Twice a power of two is one.
LEMMA TwiceAPower ==
  ASSUME NEW x \in Nat, IsPow2(x)
  PROVE  IsPow2(2 * x)
<1> DEFINE y == 2 * x
<1>1. x \in Nat \ {0} /\ y \in Nat \ {0} /\ y = 2 * x
  BY DEF IsPow2
<1> HIDE DEF y
<1>2. ASSUME NEW d \in 1 .. y, y % d = 0 PROVE d = 1 \/ d % 2 = 0
  <2>1. \A m \in Nat, n \in Nat \ {0} : m % n = 0 => m = (m \div n) * n /\ m \div n \in Nat
    OBVIOUS
  <2>2. PICK q \in Nat : y = q * d
    BY <1>1, <1>2, <2>1
  <2>3. CASE q % 2 = 0
    <3> DEFINE h == q \div 2
    <3>1. h \in Nat /\ q = 2 * h
      BY <2>2, <2>3
    <3> HIDE DEF h
    <3>2. d \in Nat \ {0} /\ x = h * d
      BY <1>1, <2>2, <3>1
    <3>3. \A m \in Nat, n \in Nat \ {0} : (m * n) % n = 0
      OBVIOUS
    <3>4. h # 0
      BY <1>1, <3>2
    <3>5. x % d = 0 /\ d <= x
      <4>1. 1 * d <= h * d
        BY <3>1, <3>2, <3>4
      <4> QED BY <3>1, <3>2, <3>3, <4>1
    <3> QED BY <1>1, <3>2, <3>5 DEF IsPow2
  <2>4. CASE q % 2 = 1 /\ d % 2 = 1
    <3> DEFINE h == q \div 2
               e == d \div 2
    <3>1. h \in Nat /\ e \in Nat /\ q = 2 * h + 1 /\ d = 2 * e + 1
      BY <2>2, <2>4
    <3> HIDE DEF h, e
    <3>2. q * d = 2 * (2 * (h * e) + h + e) + 1 /\ h * e \in Nat
      BY <3>1
    <3> DEFINE w == 2 * (h * e) + h + e
    <3>3. w \in Nat /\ 2 * x = 2 * w + 1
      BY <1>1, <2>2, <3>1, <3>2
    <3> HIDE DEF w
    <3> QED BY <3>3
  <2> QED BY <2>2, <2>3, <2>4
<1> QED BY <1>1, <1>2 DEF IsPow2, y

\* IsPow2 holds of the powers of two, and of nothing else.
LEMMA PowerIsPow2 ==
  ASSUME NEW n \in Nat
  PROVE  IsPow2(2 ^ n)
<1> DEFINE Bad == {k \in Nat : ~IsPow2(2 ^ k)}
           k == First(Bad)
<1> SUFFICES ASSUME Bad # {} PROVE FALSE
  OBVIOUS
<1>1. k \in Bad /\ \A i \in Bad : k <= i
  BY FirstIsLeast
<1> HIDE DEF k
<1>2. k # 0
  <2>1. 2 ^ 0 = 1
    OBVIOUS
  <2>2. IsPow2(1)
    BY DEF IsPow2
  <2> QED BY <1>1, <2>1, <2>2
<1> DEFINE i == k - 1
<1>3. i \in Nat /\ i + 1 = k /\ i < k
  BY <1>1, <1>2
<1> HIDE DEF i
<1>4. IsPow2(2 ^ i)
  BY <1>1, <1>3
<1>5. 2 ^ k = 2 * 2 ^ i
  BY <1>3, PowerDoubles
<1>6. 2 ^ i \in Nat
  BY <1>3, PowerCounts
<1>7. IsPow2(2 * 2 ^ i)
  BY <1>4, <1>6, TwiceAPower
<1> QED BY <1>1, <1>5, <1>7

LEMMA Pow2IsPower ==
  ASSUME NEW x \in Nat, IsPow2(x)
  PROVE  \E k \in Nat : x = 2 ^ k
<1> DEFINE Bad == {m \in Nat : IsPow2(m) /\ ~ \E k \in Nat : m = 2 ^ k}
           m == First(Bad)
<1> SUFFICES ASSUME Bad # {} PROVE FALSE
  OBVIOUS
<1>1. m \in Bad /\ \A u \in Bad : m <= u
  <2>1. Bad \in SUBSET Nat
    OBVIOUS
  <2> HIDE DEF Bad
  <2> QED BY <2>1, FirstIsLeast
<1> HIDE DEF m
<1>2. m # 1
  <2>1. 2 ^ 0 = 1
    OBVIOUS
  <2> QED BY <1>1, <2>1
<1> DEFINE h == m \div 2
<1>3. h \in Nat \ {0} /\ m = 2 * h /\ h < m /\ IsPow2(h)
  BY <1>1, <1>2, HalfOfPower
<1> HIDE DEF h
<1>4. h \notin Bad
  <2>1. m \in Nat
    BY <1>1
  <2> HIDE DEF Bad
  <2> QED BY <1>1, <1>3, <2>1
<1>5. PICK k \in Nat : h = 2 ^ k
  BY <1>3, <1>4
<1>6. m = 2 ^ (k + 1) /\ k + 1 \in Nat
  BY <1>3, <1>5, PowerDoubles
<1> QED BY <1>1, <1>6

\* A number is less than its power of two.
LEMMA LessThanPower == \A n \in Nat : n < 2 ^ n
<1> DEFINE Bad == {i \in Nat : ~ (i < 2 ^ i)}
           i == First(Bad)
<1>1. Bad = {}
  <2> SUFFICES ASSUME Bad # {} PROVE FALSE
    OBVIOUS
  <2>1. i \in Bad /\ \A j \in Bad : i <= j
    BY FirstIsLeast
  <2> HIDE DEF i
  <2>2. i # 0
    <3>1. 2 ^ 0 = 1
      OBVIOUS
    <3>2. 0 < 2 ^ 0
      BY <3>1
    <3>3. 0 \notin Bad
      BY <3>2
    <3> HIDE DEF Bad
    <3> QED BY <2>1, <3>3
  <2> DEFINE j == i - 1
  <2>3. j \in Nat /\ j + 1 = i /\ j < i
    BY <2>1, <2>2
  <2> HIDE DEF j
  <2>4. j < 2 ^ j
    BY <2>1, <2>3
  <2>5. 2 ^ i = 2 * 2 ^ j /\ 2 ^ j \in Nat
    BY <2>3, PowerDoubles, PowerCounts
  <2>6. i < 2 ^ i
    <3> DEFINE p == 2 ^ j
               q == 2 ^ i
    <3>1. q = 2 * p /\ p \in Nat /\ j < p
      BY <2>4, <2>5
    <3> HIDE DEF p, q
    <3>2. i < q
      BY <2>3, <3>1
    <3> QED BY <3>2 DEF q
  <2> QED BY <2>1, <2>6
<1> QED BY <1>1

\* Every positive number lies between a power of two and the next one.
LEMMA BetweenPowers ==
  ASSUME NEW x \in Nat \ {0}
  PROVE  \E k \in Nat : 2 ^ k <= x /\ x < 2 ^ (k + 1)
<1> DEFINE Over == {k \in Nat : x < 2 ^ k}
           k == First(Over)
<1>1. Over # {}
  BY LessThanPower
<1>2. k \in Over /\ \A i \in Over : k <= i
  BY <1>1, FirstIsLeast
<1> HIDE DEF k
<1>3. k # 0
  <2>1. 2 ^ 0 = 1
    OBVIOUS
  <2>2. ~ (x < 2 ^ 0)
    BY <2>1
  <2>3. 0 \notin Over
    BY <2>2
  <2> HIDE DEF Over
  <2> QED BY <1>2, <2>3
<1> DEFINE i == k - 1
<1>4. i \in Nat /\ i + 1 = k /\ i < k
  BY <1>2, <1>3
<1> HIDE DEF i
<1>5. ~ (x < 2 ^ i)
  BY <1>2, <1>4
<1>6. 2 ^ i \in Nat
  BY <1>4, PowerCounts
<1>7. 2 ^ i <= x
  <2> DEFINE p == 2 ^ i
  <2>1. p \in Nat /\ ~ (x < p)
    BY <1>5, <1>6
  <2> HIDE DEF p
  <2>2. p <= x
    BY <2>1
  <2> QED BY <2>2 DEF p
<1>8. x < 2 ^ (i + 1)
  BY <1>2, <1>4
<1> QED BY <1>4, <1>7, <1>8

-----------------------------------------------------------------------------
(* Bits.                                                                   *)

\* Bit i of a number.
Bit(x, i) == (x \div 2 ^ i) % 2

LEMMA Divided ==
  ASSUME NEW n \in Nat \ {0}, NEW a \in Nat
  PROVE  /\ a \div n \in Nat /\ a % n \in 0 .. n - 1 /\ a = ((a \div n) * n) + (a % n)
         /\ a % n <= a /\ (a \div n) * n <= a /\ a \div n <= a
OBVIOUS

LEMMA DivisionIs ==
  ASSUME NEW n \in Nat \ {0}, NEW q \in Nat, NEW r \in 0 .. n - 1
  PROVE  ((q * n) + r) \div n = q /\ ((q * n) + r) % n = r /\ (q * n) + r \in Nat
OBVIOUS

LEMMA BitType ==
  ASSUME NEW x \in Nat, NEW i \in Nat
  PROVE  x \div 2 ^ i \in Nat /\ Bit(x, i) \in 0 .. 1
<1> DEFINE q == x \div 2 ^ i
<1>1. 2 ^ i \in Nat \ {0}
  BY PowerCounts
<1>2. q \in Nat
  BY <1>1, Divided
<1> HIDE DEF q
<1>3. q % 2 \in 0 .. 1
  BY <1>2
<1> QED BY <1>2, <1>3 DEF q, Bit

\* Two numbers side by side, the lower one of k bits.
Beside(t, k, s) == t * 2 ^ k + s

\* Of numbers laid side by side the lower one has the k lowest bits, and the
\* bits above them are those of the upper one.
LEMMA BitsSideBySide ==
  ASSUME NEW t \in Nat, NEW k \in Nat, NEW s \in 0 .. 2 ^ k - 1, NEW i \in Nat
  PROVE  /\ Beside(t, k, s) \in Nat
         /\ i < k => Bit(Beside(t, k, s), i) = Bit(s, i)
         /\ i >= k => i - k \in Nat /\ Bit(Beside(t, k, s), i) = Bit(t, i - k)
<1> DEFINE p == 2 ^ k
           x == t * p + s
<1>1. p \in Nat \ {0}
  BY PowerCounts
<1>2. s \in 0 .. p - 1
  OBVIOUS
<1> HIDE DEF p
<1>3. x \in Nat /\ x \div p = t /\ s \in Nat
  BY <1>1, <1>2, DivisionIs
<1>4. ASSUME i < k PROVE Bit(x, i) = Bit(s, i)
  <2> DEFINE j == k - i
             d == j - 1
             u == 2 ^ i
             w == 2 ^ d
             q == s \div u
             r == s % u
  <2>1. d \in Nat /\ j \in Nat /\ d + 1 = j /\ i <= k
    BY <1>4
  <2>2. 2 ^ k = 2 ^ i * 2 ^ j
    BY <2>1, PowersInOrder
  <2> HIDE DEF j, d
  <2>3. 2 ^ j = 2 * 2 ^ d
    BY <2>1, PowerDoubles
  <2>4. u \in Nat \ {0} /\ w \in Nat \ {0}
    BY <2>1, PowerCounts
  <2>5. p = u * (2 * w)
    BY <2>2, <2>3 DEF p
  <2> HIDE DEF u, w
  <2>6. q \in Nat /\ r \in 0 .. u - 1 /\ s = (q * u) + r
    BY <1>3, <2>4, Divided
  <2> HIDE DEF q, r
  <2> DEFINE v == 2 * (t * w) + q
  <2>7. x = (v * u) + r /\ v \in Nat
    <3>1. t * (u * (2 * w)) = (2 * (t * w)) * u /\ t * w \in Nat
      BY <2>4
    <3> DEFINE z == 2 * (t * w)
    <3>2. z \in Nat /\ (z + q) * u = z * u + q * u
      BY <2>4, <2>6, <3>1
    <3>3. x = z * u + (q * u + r)
      BY <2>5, <2>6, <3>1
    <3> HIDE DEF z
    <3>4. v = z + q
      BY DEF z
    <3> HIDE DEF v, x
    <3>5. z * u \in Nat /\ q * u \in Nat /\ r \in Nat
      BY <2>4, <2>6, <3>2
    <3> QED BY <2>6, <3>2, <3>3, <3>4, <3>5
  <2> HIDE DEF v, x
  <2>8. x \div u = v
    BY <2>4, <2>6, <2>7, DivisionIs
  <2>9. v % 2 = q % 2
    <3> DEFINE z == t * w
    <3>1. z \in Nat /\ v = 2 * z + q
      BY <2>4 DEF v
    <3> HIDE DEF z
    <3> QED BY <2>6, <3>1
  <2>10. s \div u = q
    BY DEF q
  <2> QED BY <2>8, <2>9, <2>10 DEF Bit, u
<1>5. ASSUME i >= k PROVE i - k \in Nat /\ Bit(x, i) = Bit(t, i - k)
  <2> DEFINE j == i - k
  <2>1. j \in Nat /\ k + j = i
    BY <1>5
  <2> HIDE DEF j
  <2>2. 2 ^ i = 2 ^ k * 2 ^ j
    BY <2>1, PowerOfSum
  <2> DEFINE w == 2 ^ j
  <2>3. w \in Nat \ {0}
    BY <2>1, PowerCounts
  <2> HIDE DEF w, x
  <2>4. x \div (w * p) = (x \div p) \div w
    BY <1>1, <1>3, <2>3, DivideTwice
  <2>5. 2 ^ i = w * p
    <3>1. p * w = w * p
      BY <1>1, <2>3
    <3> QED BY <2>2, <3>1 DEF p, w
  <2>6. x \div 2 ^ i = t \div 2 ^ j
    BY <1>3, <2>4, <2>5 DEF w
  <2> QED BY <2>1, <2>6 DEF Bit, j
<1>6. x = Beside(t, k, s)
  BY DEF p, Beside
<1> HIDE DEF x
<1> QED BY <1>3, <1>4, <1>5, <1>6

LEMMA LowerBits ==
  ASSUME NEW t \in Nat, NEW k \in Nat, NEW s \in 0 .. 2 ^ k - 1, NEW i \in 0 .. k - 1
  PROVE  Bit(Beside(t, k, s), i) = Bit(s, i)
<1>1. i \in Nat /\ i < k
  OBVIOUS
<1> QED BY <1>1, BitsSideBySide

LEMMA UpperBits ==
  ASSUME NEW t \in Nat, NEW k \in Nat, NEW s \in 0 .. 2 ^ k - 1, NEW i \in Nat, i >= k
  PROVE  Bit(Beside(t, k, s), i) = Bit(t, i - k)
BY BitsSideBySide

\* A number has no bits above its size.
LEMMA NoBitsAbove ==
  ASSUME NEW k \in Nat, NEW s \in 0 .. 2 ^ k - 1, NEW i \in Nat, i >= k
  PROVE  Bit(s, i) = 0
<1> DEFINE p == 2 ^ k
           q == 2 ^ i
<1>1. p \in Nat \ {0} /\ q \in Nat \ {0} /\ p <= q
  BY PowerCounts, PowersInOrder
<1>2. s \in 0 .. p - 1
  OBVIOUS
<1>3. s \in Nat /\ s \div q = 0
  <2> HIDE DEF p, q
  <2>1. s \in 0 .. q - 1 /\ (0 * q) + s = s
    BY <1>1, <1>2
  <2> QED BY <1>1, <2>1, DivisionIs
<1>4. 0 % 2 = 0
  OBVIOUS
<1> QED BY <1>3, <1>4 DEF Bit

\* A number of k + 1 bits is its highest bit beside k others.
LEMMA TopBit ==
  ASSUME NEW k \in Nat, NEW z \in 0 .. 2 * 2 ^ k - 1
  PROVE  /\ z \div 2 ^ k \in 0 .. 1 /\ z % 2 ^ k \in 0 .. 2 ^ k - 1
         /\ z = (z \div 2 ^ k) * 2 ^ k + (z % 2 ^ k)
         /\ Bit(z, k) = z \div 2 ^ k
         /\ \A i \in 0 .. k - 1 : Bit(z, i) = Bit(z % 2 ^ k, i)
<1> DEFINE p == 2 ^ k
           H(y) == y \div p
           L(y) == y % p
<1>1. z \in Nat /\ p \in Nat \ {0} /\ z \in 0 .. 2 * p - 1
  BY PowerCounts
<1>2. H(z) \in Nat /\ L(z) \in 0 .. p - 1 /\ z = H(z) * p + L(z)
  <2> HIDE DEF p
  <2> QED BY <1>1, Divided
<1>3. H(z) \in 0 .. 1
  <2> DEFINE h == z \div p
  <2>1. h \in Nat /\ h * p <= z /\ z < 2 * p
    <3>1. z < 2 * p
      <4> HIDE DEF p
      <4> QED BY <1>1
    <3>2. h \in Nat /\ h * p <= z
      <4> HIDE DEF p
      <4> QED BY <1>1, Divided
    <3> QED BY <3>1, <3>2
  <2> HIDE DEF h, p
  <2>2. ASSUME h >= 2 PROVE FALSE
    <3>1. h * p >= 2 * p
      BY <1>1, <2>1, <2>2
    <3> QED BY <1>1, <2>1, <3>1
  <2>3. h \in 0 .. 1
    BY <2>1, <2>2
  <2> QED BY <2>3 DEF h
<1>4. Bit(z, k) = H(z)
  <2> DEFINE h == H(z)
  <2>1. h \in 0 .. 1
    BY <1>3
  <2> HIDE DEF h
  <2>2. h % 2 = h
    BY <2>1
  <2> QED BY <2>2 DEF Bit, h
<1>5. ASSUME NEW i \in 0 .. k - 1 PROVE Bit(z, i) = Bit(L(z), i)
  <2> DEFINE h == H(z)
             l == L(z)
  <2>1. h \in Nat /\ l \in 0 .. 2 ^ k - 1
    BY <1>2
  <2>2. z = Beside(h, k, l)
    BY <1>2 DEF Beside
  <2> HIDE DEF h, l, p
  <2>3. Bit(Beside(h, k, l), i) = Bit(l, i)
    BY <2>1, LowerBits
  <2> QED BY <2>2, <2>3 DEF l
<1> QED BY <1>2, <1>3, <1>4, <1>5

\* Numbers of n bits are equal if their bits are.
LEMMA BitsDecide ==
  ASSUME NEW n \in Nat, NEW a \in 0 .. 2 ^ n - 1, NEW b \in 0 .. 2 ^ n - 1,
         \A i \in 0 .. n - 1 : Bit(a, i) = Bit(b, i)
  PROVE  a = b
<1> DEFINE Same(m, x, y) == \A i \in 0 .. m - 1 : Bit(x, i) = Bit(y, i)
           Bad == {m \in Nat : \E x, y \in 0 .. 2 ^ m - 1 : Same(m, x, y) /\ x # y}
           m == First(Bad)
<1> SUFFICES Bad = {}
  OBVIOUS
<1> SUFFICES ASSUME Bad # {} PROVE FALSE
  OBVIOUS
<1>1. m \in Bad /\ \A u \in Bad : m <= u
  <2>1. Bad \in SUBSET Nat
    OBVIOUS
  <2> HIDE DEF Bad
  <2> QED BY <2>1, FirstIsLeast
<1> HIDE DEF m
<1>2. PICK x, y \in 0 .. 2 ^ m - 1 : Same(m, x, y) /\ x # y
  BY <1>1
<1>3. m # 0
  <2>1. 2 ^ 0 = 1
    OBVIOUS
  <2>2. ASSUME m = 0 PROVE x = y
    <3>1. x \in 0 .. 2 ^ 0 - 1 /\ y \in 0 .. 2 ^ 0 - 1
      BY <1>2, <2>2
    <3> QED BY <2>1, <3>1
  <2> QED BY <1>2, <2>2
<1> DEFINE k == m - 1
<1>4. k \in Nat /\ k + 1 = m /\ k < m
  BY <1>1, <1>3
<1> HIDE DEF k
<1> DEFINE p == 2 ^ k
<1>5. p \in Nat \ {0} /\ x \in 0 .. 2 * p - 1 /\ y \in 0 .. 2 * p - 1
  BY <1>2, <1>4, PowerCounts, PowerDoubles
<1> DEFINE H(z) == z \div p
           L(z) == z % p
<1>6. ASSUME NEW z \in 0 .. 2 * p - 1
      PROVE  /\ H(z) \in 0 .. 1 /\ L(z) \in 0 .. p - 1 /\ z = H(z) * p + L(z)
             /\ Bit(z, k) = H(z)
             /\ \A i \in 0 .. k - 1 : Bit(z, i) = Bit(L(z), i)
  BY <1>4, TopBit
<1>7. k \in 0 .. m - 1 /\ \A i \in 0 .. k - 1 : i \in 0 .. m - 1
  BY <1>1, <1>4
<1> DEFINE lx == L(x)
           ly == L(y)
<1>8. H(x) = H(y) /\ Same(k, lx, ly) /\ lx \in 0 .. 2 ^ k - 1 /\ ly \in 0 .. 2 ^ k - 1
  <2>1. Bit(x, k) = Bit(y, k) /\ \A i \in 0 .. k - 1 : Bit(x, i) = Bit(y, i)
    BY <1>2, <1>7
  <2> QED BY <1>5, <1>6, <2>1
<1>9. x = H(x) * p + lx /\ y = H(y) * p + ly
  BY <1>5, <1>6
<1> HIDE DEF lx, ly, H, L, p
<1>10. lx # ly
  BY <1>2, <1>8, <1>9
<1>11. k \in Bad
  BY <1>4, <1>8, <1>10
<1>12. ~ (m <= k) /\ m \in Nat
  BY <1>1, <1>4
<1> HIDE DEF Bad
<1> QED BY <1>1, <1>11, <1>12

LEMMA ZeroHasNoBits ==
  ASSUME NEW i \in Nat
  PROVE  Bit(0, i) = 0
<1> DEFINE p == 2 ^ i
<1>1. p \in Nat \ {0}
  BY PowerCounts
<1>2. 0 \div p = 0
  <2> HIDE DEF p
  <2> QED BY <1>1
<1>3. 0 % 2 = 0
  OBVIOUS
<1> QED BY <1>2, <1>3 DEF Bit

\* Any bits below n are those of a number of n bits.
LEMMA BitsExist ==
  ASSUME NEW n \in Nat, NEW S \in SUBSET (0 .. n - 1)
  PROVE  \E z \in 0 .. 2 ^ n - 1 : \A i \in 0 .. n - 1 : Bit(z, i) = 1 <=> i \in S
<1> DEFINE Has(m, T, z) == \A i \in 0 .. m - 1 : Bit(z, i) = 1 <=> i \in T
           Bad == {m \in Nat : \E T \in SUBSET (0 .. m - 1) :
                                 ~ \E z \in 0 .. 2 ^ m - 1 : Has(m, T, z)}
           m == First(Bad)
<1> SUFFICES Bad = {}
  OBVIOUS
<1> SUFFICES ASSUME Bad # {} PROVE FALSE
  OBVIOUS
<1>1. m \in Bad /\ \A u \in Bad : m <= u
  <2>1. Bad \in SUBSET Nat
    OBVIOUS
  <2> HIDE DEF Bad
  <2> QED BY <2>1, FirstIsLeast
<1> HIDE DEF m
<1>2. PICK T \in SUBSET (0 .. m - 1) : ~ \E z \in 0 .. 2 ^ m - 1 : Has(m, T, z)
  BY <1>1
<1>3. m # 0
  <2> SUFFICES ASSUME m = 0 PROVE FALSE
    OBVIOUS
  <2>1. 2 ^ 0 = 1
    OBVIOUS
  <2>2. 0 \in 0 .. 2 ^ m - 1
    BY <2>1
  <2>3. Has(m, T, 0)
    OBVIOUS
  <2> QED BY <1>2, <2>2, <2>3
<1> DEFINE k == m - 1
<1>4. k \in Nat /\ k + 1 = m /\ k < m /\ m \in Nat
  BY <1>1, <1>3
<1>5. \A i : i \in 0 .. m - 1 <=> i \in 0 .. k - 1 \/ i = k
  BY <1>4
<1>6. k \notin 0 .. k - 1
  BY <1>4
<1> HIDE DEF k
<1> DEFINE R == T \ {k}
<1>7. R \in SUBSET (0 .. k - 1)
  BY <1>5
<1>8. k \notin Bad
  <2> HIDE DEF Bad
  <2>1. ~ (m <= k)
    BY <1>4
  <2> QED BY <1>1, <2>1
<1> HIDE DEF R
<1>9. PICK r \in 0 .. 2 ^ k - 1 : Has(k, R, r)
  BY <1>4, <1>7, <1>8
<1> DEFINE t == IF k \in T THEN 1 ELSE 0
           z == Beside(t, k, r)
<1>10. t \in 0 .. 1 /\ (t = 1 <=> k \in T)
  OBVIOUS
<1> HIDE DEF t
<1>11. z \in 0 .. 2 ^ m - 1
  <2> DEFINE p == 2 ^ k
  <2>1. p \in Nat \ {0} /\ 2 ^ m = 2 * p /\ r \in 0 .. p - 1 /\ z = t * p + r
    BY <1>4, <1>9, PowerCounts, PowerDoubles DEF Beside
  <2> HIDE DEF p, z
  <2>2. CASE t = 0
    BY <2>1, <2>2
  <2>3. CASE t = 1
    BY <2>1, <2>3
  <2> QED BY <1>10, <2>2, <2>3
<1>12. Bit(t, 0) = t
  <2>1. 2 ^ 0 = 1
    OBVIOUS
  <2>2. t \div 1 = t /\ t % 2 = t
    BY <1>10
  <2> QED BY <2>1, <2>2 DEF Bit
<1>13. Bit(z, k) = t
  <2>1. t \in Nat /\ k >= k /\ k - k = 0
    BY <1>4, <1>10
  <2>2. Bit(Beside(t, k, r), k) = Bit(t, k - k)
    BY <1>4, <1>9, <2>1, UpperBits
  <2> QED BY <1>12, <2>1, <2>2
<1>14. ASSUME NEW i \in 0 .. k - 1 PROVE Bit(z, i) = 1 <=> i \in T
  <2>1. t \in Nat
    BY <1>10
  <2>2. Bit(Beside(t, k, r), i) = Bit(r, i)
    BY <1>4, <1>9, <2>1, LowerBits
  <2>3. i \in R <=> i \in T
    BY <1>6 DEF R
  <2> QED BY <1>9, <2>2, <2>3
<1> HIDE DEF z
<1>15. Has(m, T, z)
  BY <1>5, <1>10, <1>13, <1>14
<1> QED BY <1>2, <1>11, <1>15

-----------------------------------------------------------------------------
(* Words.                                                                  *)

LEMMA WordType ==
  /\ Width \in Nat \ {0} /\ 2 ^ Width \in Nat \ {0} /\ 0 \in Words
  /\ \A x \in Words : x \in Nat /\ Wrap(x) = x
  /\ \A x \in Nat : Wrap(x) \in Words
<1>1. Width \in Nat \ {0}
  BY WidthAssumption
<1> DEFINE p == 2 ^ Width
<1>2. p \in Nat \ {0}
  BY <1>1, PowerCounts
<1> HIDE DEF p
<1>3. \A x \in 0 .. p - 1 : x \in Nat /\ x % p = x
  BY <1>2
<1>4. \A x \in Nat : x % p \in 0 .. p - 1
  BY <1>2
<1>5. 0 \in 0 .. p - 1
  BY <1>2
<1> QED BY <1>1, <1>2, <1>3, <1>4, <1>5 DEF p, Words, Wrap

LEMMA WordBits ==
  ASSUME NEW x \in Words
  PROVE  /\ BitsOf(x) \in SUBSET (0 .. Width - 1)
         /\ \A i \in 0 .. Width - 1 : i \in BitsOf(x) <=> Bit(x, i) = 1
BY DEF BitsOf, Bit

\* A set of bits is that of one word.
LEMMA WordOfBits ==
  ASSUME NEW S \in SUBSET (0 .. Width - 1)
  PROVE  /\ OfBits(S) \in Words /\ BitsOf(OfBits(S)) = S
         /\ \A z \in Words : BitsOf(z) = S => OfBits(S) = z
<1>1. PICK z \in 0 .. 2 ^ Width - 1 : \A i \in 0 .. Width - 1 : Bit(z, i) = 1 <=> i \in S
  BY WordType, BitsExist
<1>2. z \in Words
  BY <1>1 DEF Words
<1>3. BitsOf(z) = S
  BY <1>1, <1>2, WordBits
<1>4. OfBits(S) \in Words /\ BitsOf(OfBits(S)) = S
  BY <1>2, <1>3 DEF OfBits
<1>5. ASSUME NEW a \in Words, NEW b \in Words, BitsOf(a) = BitsOf(b) PROVE a = b
  <2>1. ASSUME NEW i \in 0 .. Width - 1 PROVE Bit(a, i) = Bit(b, i)
    <3>1. Bit(a, i) \in 0 .. 1 /\ Bit(b, i) \in 0 .. 1
      BY WordType, BitType
    <3>2. Bit(a, i) = 1 <=> Bit(b, i) = 1
      BY <1>5, WordBits
    <3> QED BY <3>1, <3>2
  <2>2. a \in 0 .. 2 ^ Width - 1 /\ b \in 0 .. 2 ^ Width - 1 /\ Width \in Nat
    BY WordType DEF Words
  <2> QED BY <2>1, <2>2, BitsDecide
<1> QED BY <1>4, <1>5

LEMMA AndBits ==
  ASSUME NEW x \in Words, NEW y \in Words
  PROVE  /\ And(x, y) \in Words /\ BitsOf(And(x, y)) = BitsOf(x) \cap BitsOf(y)
         /\ \A z \in Words : BitsOf(z) = BitsOf(x) \cap BitsOf(y) => And(x, y) = z
<1>1. BitsOf(x) \cap BitsOf(y) \in SUBSET (0 .. Width - 1)
  BY WordBits
<1> QED BY <1>1, WordOfBits DEF And

LEMMA OrBits ==
  ASSUME NEW x \in Words, NEW y \in Words
  PROVE  \A z \in Words : BitsOf(z) = BitsOf(x) \cup BitsOf(y) => Or(x, y) = z
<1>1. BitsOf(x) \cup BitsOf(y) \in SUBSET (0 .. Width - 1)
  BY WordBits
<1> QED BY <1>1, WordOfBits DEF Or

-----------------------------------------------------------------------------
(* The bit tests, masks and shifts of the constructor and of decode.       *)

\* 2^k - 1 has the k lowest bits and no other.
LEMMA MaskBits ==
  ASSUME NEW k \in Nat, NEW i \in Nat
  PROVE  /\ 2 ^ k - 1 \in 0 .. 2 ^ k - 1
         /\ Bit(2 ^ k - 1, i) = 1 <=> i < k
<1> DEFINE p == 2 ^ k
<1>1. p \in Nat \ {0}
  BY PowerCounts
<1>2. p - 1 \in 0 .. p - 1
  <2> HIDE DEF p
  <2> QED BY <1>1
<1>3. ASSUME i < k PROVE Bit(p - 1, i) = 1
  <2> DEFINE j == k - i
             d == j - 1
             u == 2 ^ i
             w == 2 ^ d
  <2>1. d \in Nat /\ j \in Nat /\ d + 1 = j /\ i <= k
    BY <1>3
  <2>2. 2 ^ k = 2 ^ i * 2 ^ j
    BY <2>1, PowersInOrder
  <2> HIDE DEF j, d
  <2>3. 2 ^ j = 2 * 2 ^ d
    BY <2>1, PowerDoubles
  <2>4. u \in Nat \ {0} /\ w \in Nat \ {0}
    BY <2>1, PowerCounts
  <2>5. p = u * (2 * w)
    BY <2>2, <2>3
  <2> HIDE DEF u, w, p
  <2> DEFINE q == 2 * w - 1
             r == u - 1
  <2>6. q \in Nat /\ r \in 0 .. u - 1 /\ q % 2 = 1
    BY <2>4
  <2>7. p - 1 = (q * u) + r
    <3>1. u * (2 * w) = (2 * w) * u /\ 2 * w \in Nat
      BY <2>4
    <3> DEFINE e == 2 * w
    <3>2. e \in Nat /\ (e - 1) * u = e * u - u /\ e * u \in Nat
      BY <2>4
    <3>3. p = e * u
      BY <2>5, <3>1
    <3> HIDE DEF e
    <3>4. q = e - 1
      BY DEF e
    <3> QED BY <2>4, <3>2, <3>3, <3>4
  <2> HIDE DEF q, r
  <2>8. (p - 1) \div u = q
    BY <2>4, <2>6, <2>7, DivisionIs
  <2> QED BY <2>6, <2>8 DEF Bit, u
<1>4. ASSUME i >= k PROVE Bit(p - 1, i) = 0
  <2>1. p - 1 \in 0 .. 2 ^ k - 1
    BY <1>2
  <2> DEFINE s == p - 1
  <2>2. s \in 0 .. 2 ^ k - 1
    BY <2>1
  <2> HIDE DEF s, p
  <2>3. Bit(s, i) = 0
    BY <1>4, <2>2, NoBitsAbove
  <2> QED BY <2>3 DEF s
<1> QED BY <1>2, <1>3, <1>4

\* A power of two below a word's bound has a bit of the word.
LEMMA PowerInWord ==
  ASSUME NEW k \in Nat, 2 ^ k \in Words
  PROVE  k \in 0 .. Width - 1
<1>1. Width \in Nat \ {0} /\ ~ (2 ^ Width <= 2 ^ k)
  <2> DEFINE p == 2 ^ Width
             q == 2 ^ k
  <2>1. p \in Nat \ {0} /\ q \in 0 .. p - 1 /\ Width \in Nat \ {0}
    BY WordType DEF Words
  <2> HIDE DEF p, q
  <2>2. ~ (p <= q)
    BY <2>1
  <2> QED BY <2>1, <2>2 DEF p, q
<1>2. ~ (Width <= k)
  BY <1>1, PowersInOrder
<1> QED BY <1>1, <1>2

\* Numbers of k bits are words if k is at most the width.
LEMMA FewBitsAreWords ==
  ASSUME NEW k \in 0 .. Width
  PROVE  k \in Nat /\ 0 .. 2 ^ k - 1 \subseteq Words /\ 2 ^ k - 1 \in Words
<1>1. k \in Nat /\ Width \in Nat /\ k <= Width
  BY WordType
<1> DEFINE p == 2 ^ Width
           q == 2 ^ k
<1>2. p \in Nat \ {0} /\ q \in Nat \ {0} /\ q <= p
  BY <1>1, PowerCounts, PowersInOrder
<1> HIDE DEF p, q
<1>3. \A x \in 0 .. q - 1 : x \in 0 .. p - 1
  BY <1>2
<1>4. q - 1 \in 0 .. q - 1
  BY <1>2
<1> QED BY <1>1, <1>3, <1>4 DEF p, q, Words

\* A mask is a remainder.
LEMMA MaskIsRemainder ==
  ASSUME NEW a \in Words, NEW k \in 0 .. Width
  PROVE  And(a, Wrap(2 ^ k - 1)) = a % 2 ^ k
<1> DEFINE p == 2 ^ k
           q == a \div p
           r == a % p
           m == p - 1
<1>1. k \in Nat /\ a \in Nat /\ p \in Nat \ {0} /\ 0 .. 2 ^ k - 1 \subseteq Words
  BY FewBitsAreWords, WordType, PowerCounts
<1>2. m \in Words /\ Wrap(m) = m
  BY FewBitsAreWords, WordType
<1>3. q \in Nat /\ r \in 0 .. p - 1 /\ a = q * p + r
  <2> HIDE DEF p
  <2> QED BY <1>1, Divided
<1>4. r \in 0 .. 2 ^ k - 1 /\ r \in Words /\ a = Beside(q, k, r)
  BY <1>1, <1>3 DEF Beside
<1>5. ASSUME NEW i \in 0 .. Width - 1
      PROVE  Bit(r, i) = 1 <=> Bit(a, i) = 1 /\ Bit(m, i) = 1
  <2>1. i \in Nat
    BY WordType
  <2>2. Bit(m, i) = 1 <=> i < k
    BY <1>1, <2>1, MaskBits
  <2>3. ASSUME i < k PROVE Bit(a, i) = Bit(r, i)
    <3>1. i \in 0 .. k - 1
      BY <1>1, <2>1, <2>3
    <3> HIDE DEF p, q, r
    <3>2. Bit(Beside(q, k, r), i) = Bit(r, i)
      BY <1>1, <1>3, <1>4, <3>1, LowerBits
    <3> QED BY <1>4, <3>2
  <2>4. ASSUME ~ (i < k) PROVE Bit(r, i) = 0
    <3>1. i >= k
      BY <1>1, <2>1, <2>4
    <3> HIDE DEF p, q, r
    <3> QED BY <1>1, <1>4, <2>1, <3>1, NoBitsAbove
  <2> HIDE DEF p, q, r, m
  <2> QED BY <2>2, <2>3, <2>4
<1> HIDE DEF p, q, r, m
<1>6. BitsOf(r) = BitsOf(a) \cap BitsOf(m)
  BY <1>2, <1>4, <1>5, WordBits
<1>7. And(a, m) = r
  BY <1>2, <1>4, <1>6, AndBits
<1>8. Wrap(2 ^ k - 1) = m
  BY <1>2 DEF m, p
<1> QED BY <1>7, <1>8 DEF r, p

\* A disjunction of numbers laid side by side is their sum.
LEMMA OrIsSum ==
  ASSUME NEW t \in Nat, NEW k \in Nat, NEW s \in 0 .. 2 ^ k - 1, t * 2 ^ k + s \in Words
  PROVE  t * 2 ^ k \in Words /\ s \in Words /\ Or(t * 2 ^ k, s) = t * 2 ^ k + s
<1> DEFINE p == 2 ^ k
           h == t * p
           x == h + s
<1>1. /\ p \in Nat \ {0} /\ s \in 0 .. p - 1 /\ x \in Words
      /\ t * p \in Nat
  <2>1. p \in Nat \ {0}
    BY PowerCounts
  <2> QED BY <2>1
<1>2. h \in Words /\ s \in Words
  <2> DEFINE w == 2 ^ Width
  <2>1. x \in 0 .. w - 1 /\ w \in Nat
    BY <1>1, WordType DEF Words
  <2> HIDE DEF w, p
  <2>2. h \in Nat /\ s \in Nat
    BY <1>1
  <2> HIDE DEF h
  <2>3. h \in 0 .. w - 1 /\ s \in 0 .. w - 1
    BY <2>1, <2>2
  <2> QED BY <2>3 DEF Words, w
<1>3. ASSUME NEW i \in 0 .. Width - 1
      PROVE  Bit(x, i) = 1 <=> Bit(h, i) = 1 \/ Bit(s, i) = 1
  <2>1. i \in Nat
    BY WordType
  <2>2. 0 \in 0 .. 2 ^ k - 1 /\ h = Beside(t, k, 0)
    <3>1. 0 \in 0 .. p - 1 /\ h + 0 = h
      <4> HIDE DEF p
      <4> QED BY <1>1
    <3> QED BY <3>1 DEF Beside
  <2> DEFINE o == 0
  <2>3. o \in 0 .. 2 ^ k - 1 /\ Bit(o, i) = 0
    BY <2>1, <2>2, ZeroHasNoBits
  <2>4. h = Beside(t, k, o) /\ x = Beside(t, k, s)
    BY <2>2 DEF Beside
  <2> HIDE DEF o, x, h, p
  <2>5. CASE i < k
    <3>1. i \in 0 .. k - 1
      BY <2>1, <2>5
    <3>2. Bit(Beside(t, k, s), i) = Bit(s, i)
      BY <3>1, LowerBits
    <3>3. Bit(Beside(t, k, o), i) = Bit(o, i)
      BY <2>3, <3>1, LowerBits
    <3> QED BY <2>3, <2>4, <3>2, <3>3
  <2>6. CASE i >= k
    <3>1. Bit(Beside(t, k, s), i) = Bit(t, i - k) /\ Bit(Beside(t, k, o), i) = Bit(t, i - k)
      BY <2>1, <2>3, <2>6, UpperBits
    <3>2. Bit(s, i) = 0
      BY <2>1, <2>6, NoBitsAbove
    <3> QED BY <2>3, <2>4, <3>1, <3>2
  <2> QED BY <2>1, <2>5, <2>6
<1> HIDE DEF x, h, p
<1>4. BitsOf(x) = BitsOf(h) \cup BitsOf(s)
  BY <1>1, <1>2, <1>3, WordBits
<1>5. Or(h, s) = x
  BY <1>1, <1>2, <1>4, OrBits
<1> QED BY <1>2, <1>5 DEF x, h, p

\* The test for a bit in common with the predecessor finds the powers of two.
LEMMA PowerBitsIsPow2 ==
  ASSUME NEW x \in Words
  PROVE  PowerBits(x) <=> IsPow2(x)
<1>1. x \in Nat /\ 0 \in Words
  BY WordType
<1>2. BitsOf(0) = {}
  BY <1>1, WordType, WordBits, ZeroHasNoBits
<1>3. ASSUME IsPow2(x) PROVE PowerBits(x)
  <2>1. x # 0
    BY <1>3 DEF IsPow2
  <2>2. PICK k \in Nat : x = 2 ^ k
    BY <1>1, <1>3, Pow2IsPower
  <2>3. k \in 0 .. Width
    <3>1. k \in 0 .. Width - 1
      BY <2>2, PowerInWord
    <3> QED BY <3>1, WordType
  <2>4. And(x, Wrap(2 ^ k - 1)) = x % 2 ^ k
    BY <2>3, MaskIsRemainder
  <2>5. x % x = 0
    BY <1>1, <2>1
  <2>6. And(x, Wrap(x - 1)) = 0
    BY <2>2, <2>4, <2>5
  <2> QED BY <2>1, <2>6 DEF PowerBits
<1>4. ASSUME PowerBits(x) PROVE IsPow2(x)
  <2>1. x # 0 /\ And(x, Wrap(x - 1)) = 0
    BY <1>4 DEF PowerBits
  <2>2. PICK k \in Nat : 2 ^ k <= x /\ x < 2 ^ (k + 1)
    BY <1>1, <2>1, BetweenPowers
  <2> DEFINE p == 2 ^ k
             y == x - 1
  <2>3. p \in Nat \ {0} /\ p <= x /\ x < 2 * p
    BY <2>2, PowerCounts, PowerDoubles
  <2>4. y \in Words /\ Wrap(y) = y
    <3> DEFINE w == 2 ^ Width
    <3>1. x \in 0 .. w - 1 /\ w \in Nat
      BY WordType DEF Words
    <3> HIDE DEF w
    <3>2. y \in 0 .. w - 1
      BY <2>1, <3>1
    <3>3. y \in Words
      BY <3>2 DEF Words, w
    <3> QED BY <3>3, WordType
  <2>5. ASSUME NEW z \in Words, p <= z, z < 2 * p
        PROVE  k \in BitsOf(z)
    <3>1. z \in Nat
      BY WordType
    <3>2. z \div p = 1
      <4> HIDE DEF p
      <4>1. (1 * p) + (z - p) = z /\ z - p \in 0 .. p - 1
        BY <2>3, <2>5, <3>1
      <4> QED BY <2>3, <4>1, DivisionIs
    <3>3. Bit(z, k) = 1
      <4>1. 1 % 2 = 1
        OBVIOUS
      <4> QED BY <3>2, <4>1 DEF Bit
    <3>4. k \in 0 .. Width - 1
      <4> DEFINE w == 2 ^ Width
      <4>1. z \in 0 .. w - 1 /\ w \in Nat
        BY WordType DEF Words
      <4>2. p \in Words
        <5> HIDE DEF w, p
        <5>1. p \in 0 .. w - 1
          BY <2>3, <2>5, <4>1
        <5> QED BY <5>1 DEF Words, w
      <4> QED BY <4>2, PowerInWord
    <3> QED BY <3>3, <3>4, WordBits
  <2> HIDE DEF y, p
  <2>6. CASE x = p
    BY <2>6, PowerIsPow2 DEF p
  <2>7. CASE x # p
    <3>1. p <= y /\ y < 2 * p
      BY <1>1, <2>3, <2>7 DEF y
    <3>2. k \in BitsOf(x) /\ k \in BitsOf(y)
      BY <2>3, <2>4, <2>5, <3>1
    <3>3. k \in BitsOf(And(x, y))
      BY <2>4, <3>2, AndBits
    <3>4. And(x, y) = 0
      BY <2>1, <2>4 DEF y
    <3> QED BY <1>2, <3>3, <3>4
  <2> QED BY <2>6, <2>7
<1> QED BY <1>3, <1>4

\* log2u of a power of two is its exponent.
LEMMA Log2OfPower ==
  ASSUME NEW k \in 0 .. Width
  PROVE  Log2(2 ^ k) = k
<1> DEFINE x == 2 ^ k
           Is(r) == x < 2 ^ (r + 1) /\ (r > 0 => x >= 2 ^ r)
<1>1. k \in Nat /\ x \in Nat
  <2>1. k \in Nat
    BY WordType
  <2> QED BY <2>1, PowerCounts
<1>2. Is(k)
  <2>1. 2 ^ (k + 1) = 2 * 2 ^ k /\ 2 ^ k \in Nat \ {0}
    BY <1>1, PowerDoubles, PowerCounts
  <2> DEFINE y == 2 ^ (k + 1)
  <2>2. y = 2 * x /\ x \in Nat \ {0}
    BY <2>1
  <2> HIDE DEF x, y
  <2>3. x < y /\ x >= x
    BY <2>2
  <2> QED BY <2>3 DEF x, y
<1>3. ASSUME NEW r \in 0 .. Width, Is(r) PROVE r = k
  <2>1. r \in Nat /\ r + 1 \in Nat
    BY WordType
  <2>2. CASE r < k
    <3>1. r + 1 <= k
      BY <1>1, <2>1, <2>2
    <3>2. 2 ^ (r + 1) <= 2 ^ k /\ 2 ^ (r + 1) \in Nat
      BY <1>1, <2>1, <3>1, PowersInOrder, PowerCounts
    <3> DEFINE y == 2 ^ (r + 1)
    <3>3. x < y /\ y <= x /\ y \in Nat
      BY <1>3, <3>2
    <3> HIDE DEF x, y
    <3> QED BY <1>1, <3>3
  <2>3. CASE k < r
    <3>1. 2 ^ k < 2 ^ r /\ 2 ^ r \in Nat /\ r > 0
      BY <1>1, <2>1, <2>3, PowersInOrder, PowerCounts
    <3> DEFINE y == 2 ^ r
    <3>2. x < y /\ x >= y /\ y \in Nat
      BY <1>3, <3>1
    <3> HIDE DEF x, y
    <3> QED BY <1>1, <3>2
  <2> QED BY <1>1, <2>1, <2>2, <2>3
<1> HIDE DEF Is
<1>4. (CHOOSE r \in 0 .. Width : Is(r)) = k
  BY <1>2, <1>3
<1> QED BY <1>4 DEF Is, Log2

-----------------------------------------------------------------------------
(* What each stage says of the knobs.                                      *)

Knobbed ==
  size \in Words /\ block \in Words /\ ways \in Words /\ addrWidth \in AddrWidths

Traps == EarlyChecks /\ SetBytes = 0

\* What Build stores.
Derived ==
  [numSets  |-> size \div SetBytes,
   offset   |-> Log2(block),
   index    |-> Log2(size \div SetBytes),
   tag      |-> TagBits(size \div SetBytes),
   refLines |-> size \div block]

ConstructorInv ==
  /\ Knobbed
  /\ stage \in {"new", "thrown", "trapped", "built", "decoded"}
  /\ stage = "trapped" => Traps
  /\ stage = "thrown" => ~Traps /\ ~Accepts
  /\ stage \in {"built", "decoded"} => ~Traps /\ Accepts /\ geometry = Derived
  /\ stage = "decoded" => addr \in Words /\ fields = Decoded(addr)

\* Each stage follows from the knobs alone.
THEOREM StageFollowsFromKnobs == Spec => []ConstructorInv
<1>1. Init => ConstructorInv
  BY DEF Init, ConstructorInv, Knobbed
<1>2. ConstructorInv /\ [Next]_vars => ConstructorInv'
  <2> SUFFICES ASSUME ConstructorInv, [Next]_vars PROVE ConstructorInv'
    OBVIOUS
  <2> USE DEF ConstructorInv, Knobbed, knobs
  <2>1. ASSUME UNCHANGED knobs
        PROVE  /\ (Traps <=> Traps') /\ (Accepts <=> Accepts') /\ Derived = Derived'
    BY <2>1 DEF Traps, Accepts, Derived, EarlyChecks, SetBytes, TagBits
  <2>2. CASE Trap
    BY <2>1, <2>2 DEF Trap, Traps
  <2>3. CASE Throw
    BY <2>1, <2>3 DEF Throw, Traps
  <2>4. CASE Build
    BY <2>1, <2>4 DEF Build, Traps, Derived
  <2>5. ASSUME NEW a \in Words, Decode(a) PROVE ConstructorInv'
    <3>1. Decoded(a)' = Decoded(a)
      BY <2>5 DEF Decode, Decoded
    <3>2. stage = "built" /\ stage' = "decoded" /\ addr' = a /\ fields' = Decoded(a)
          /\ UNCHANGED <<knobs, geometry>>
      BY <2>5 DEF Decode
    <3>3. Decoded(addr)' = Decoded(a)'
      BY <3>2 DEF Decoded
    <3> QED BY <2>1, <3>1, <3>2, <3>3
  <2>6. CASE UNCHANGED vars
    <3>1. fields' = fields /\ Decoded(addr)' = Decoded(addr)
      BY <2>6 DEF vars, Decoded
    <3> QED BY <2>1, <2>6, <3>1 DEF vars
  <2> QED BY <2>2, <2>3, <2>4, <2>5, <2>6 DEF Next
<1> QED BY <1>1, <1>2, PTL DEF Spec

\* The geometry of a cache that was built: powers of two that a word holds.
BuiltAs(k, j) ==
  /\ block = 2 ^ k /\ geometry.offset = k
  /\ geometry.numSets = 2 ^ j /\ geometry.index = j
  /\ geometry.numSets = size \div SetBytes
  /\ geometry.tag = Wrap(addrWidth - j - k)
  /\ geometry.refLines = size \div block
  /\ SetBytes \in Words \ {0} /\ size = geometry.numSets * SetBytes

LEMMA KnobTypes ==
  ASSUME Knobbed
  PROVE  /\ size \in Nat /\ block \in Nat /\ ways \in Nat /\ addrWidth \in Words
         /\ block * ways \in Nat /\ SetBytes \in Words
         /\ NoWrap <=> SetBytes = block * ways
<1>1. size \in Nat /\ block \in Nat /\ ways \in Nat
  BY WordType DEF Knobbed
<1>2. addrWidth \in Words
  BY WidthAssumption DEF Knobbed, Words
<1>3. block * ways \in Nat
  BY <1>1
<1> DEFINE p == block * ways
<1> HIDE DEF p
<1>4. p \in Nat
  BY <1>3 DEF p
<1>5. Wrap(p) \in Words /\ (p \in Words <=> Wrap(p) = p)
  BY <1>4, WordType
<1> QED BY <1>1, <1>2, <1>3, <1>5 DEF p, SetBytes, NoWrap

\* A quotient of words is a word, and not zero if the division is exact.
LEMMA ExactQuotient ==
  ASSUME NEW x \in Words \ {0}, NEW y \in Words \ {0}, x % y = 0
  PROVE  /\ x \div y \in Words \ {0} /\ x = (x \div y) * y
<1>1. x \in Nat \ {0} /\ y \in Nat \ {0}
  BY WordType
<1> DEFINE q == x \div y
           w == 2 ^ Width
<1>2. w \in Nat \ {0} /\ x \in 0 .. w - 1
  BY WordType DEF Words
<1>3. q \in Nat /\ x = q * y + 0 /\ q <= x
  BY <1>1, Divided
<1> HIDE DEF q, w
<1>4. q # 0 /\ x = q * y
  <2>1. q * y \in Nat
    BY <1>1, <1>3
  <2>2. x = q * y
    BY <1>3, <2>1
  <2>3. q = 0 => q * y = 0
    BY <1>1
  <2> QED BY <1>1, <2>2, <2>3
<1>5. q \in 0 .. w - 1
  BY <1>2, <1>3
<1> QED BY <1>4, <1>5 DEF q, w, Words

LEMMA GeometryBuilt ==
  ASSUME ConstructorInv, stage \in {"built", "decoded"}
  PROVE  \E k, j \in 0 .. Width - 1 : BuiltAs(k, j)
<1>1. Knobbed /\ ~Traps /\ Accepts /\ geometry = Derived
  BY DEF ConstructorInv
<1>2. /\ block \in Words \ {0} /\ ways \in Words \ {0} /\ size \in Words \ {0}
      /\ PowerBits(block) /\ SetBytes # 0
      /\ size % SetBytes = 0 /\ PowerBits(size \div SetBytes)
  BY <1>1 DEF Knobbed, Traps, Accepts, EarlyChecks
<1>3. SetBytes \in Words \ {0}
  BY <1>1, <1>2, KnobTypes
<1> DEFINE n == size \div SetBytes
<1>4. n \in Words /\ size = n * SetBytes
  BY <1>2, <1>3, ExactQuotient
<1>5. PICK k \in Nat : block = 2 ^ k
  BY <1>2, PowerBitsIsPow2, Pow2IsPower, WordType
<1>6. PICK j \in Nat : n = 2 ^ j
  <2>1. n \in Nat /\ IsPow2(n)
    BY <1>2, <1>4, PowerBitsIsPow2, WordType
  <2> HIDE DEF n
  <2> QED BY <2>1, Pow2IsPower
<1>7. k \in 0 .. Width - 1 /\ j \in 0 .. Width - 1
  <2>1. 2 ^ k \in Words /\ 2 ^ j \in Words
    BY <1>2, <1>4, <1>5, <1>6
  <2> QED BY <2>1, PowerInWord
<1>8. k \in 0 .. Width /\ j \in 0 .. Width
  BY <1>7, WordType
<1>9. Log2(block) = k /\ Log2(n) = j
  <2>1. Log2(2 ^ k) = k /\ Log2(2 ^ j) = j
    BY <1>8, Log2OfPower
  <2> QED BY <1>5, <1>6, <2>1
<1>10. geometry = [numSets |-> n, offset |-> k, index |-> j,
                   tag |-> Wrap(addrWidth - j - k), refLines |-> size \div block]
  BY <1>1, <1>9 DEF Derived, TagBits
<1> HIDE DEF n
<1>11. /\ geometry.numSets = n /\ geometry.offset = k /\ geometry.index = j
       /\ geometry.tag = Wrap(addrWidth - j - k) /\ geometry.refLines = size \div block
  BY <1>10
<1>12. BuiltAs(k, j)
  BY <1>3, <1>4, <1>5, <1>6, <1>11 DEF BuiltAs, n
<1> QED BY <1>7, <1>12

-----------------------------------------------------------------------------
(* The constructor.                                                        *)

LEMMA ConstructibleIs ==
  ASSUME Knobbed
  PROVE  Constructible(Knobs) <=>
           /\ block # 0 /\ ways # 0 /\ size # 0 /\ IsPow2(block)
           /\ size % (block * ways) = 0 /\ IsPow2(size \div (block * ways))
<1>1. Knobs \in ConfigType
  BY KnobTypes
     DEF Knobs, ConfigType, Replacements, WritePolicies, AllocPolicies
<1>2. /\ Knobs.blockSize = block /\ Knobs.associativity = ways /\ Knobs.sizeBytes = size
  BY DEF Knobs
<1>3. NumSets(Knobs) = size \div (block * ways)
  BY <1>2 DEF NumSets
<1> QED BY <1>1, <1>2, <1>3 DEF Constructible

\* As long as block * associativity fits a word, the constructor throws for
\* what CacheGeometry does not call constructible, and for that only, and does
\* not divide by zero, whatever the width of a word.
THEOREM ConstructorAcceptsTheConstructible == Spec => []AcceptsTheConstructible
<1>1. ConstructorInv => AcceptsTheConstructible
  <2> SUFFICES ASSUME ConstructorInv, NoWrap
               PROVE  /\ stage # "trapped"
                      /\ stage \in {"built", "decoded"} => Constructible(Knobs)
                      /\ stage = "thrown" => ~Constructible(Knobs)
    BY DEF AcceptsTheConstructible
  <2> DEFINE b == block * ways
  <2>1. Knobbed /\ SetBytes = b /\ b \in Words
    BY KnobTypes DEF ConstructorInv, NoWrap
  <2>2. ways # 0 /\ block # 0 => b # 0
    BY <2>1, KnobTypes
  <2>3. EarlyChecks => ~Traps
    BY <2>1, <2>2 DEF EarlyChecks, Traps
  <2> HIDE DEF b
  <2>4. Accepts <=> Constructible(Knobs)
    <3>1. block \in Words /\ size \in Words /\ (PowerBits(block) <=> IsPow2(block))
      BY <2>1, PowerBitsIsPow2 DEF Knobbed
    <3>2. ASSUME block # 0, ways # 0, size # 0, size % b = 0
          PROVE  PowerBits(size \div b) <=> IsPow2(size \div b)
      <4>1. size \div b \in Words
        BY <2>1, <2>2, <3>1, <3>2, ExactQuotient
      <4> QED BY <4>1, PowerBitsIsPow2
    <3>3. Constructible(Knobs) <=> /\ block # 0 /\ ways # 0 /\ size # 0 /\ IsPow2(block)
                                   /\ size % b = 0 /\ IsPow2(size \div b)
      BY <2>1, ConstructibleIs DEF b
    <3> QED BY <2>1, <3>1, <3>2, <3>3 DEF Accepts, EarlyChecks
  <2> QED BY <2>3, <2>4 DEF ConstructorInv, Traps
<1> QED BY <1>1, StageFollowsFromKnobs, PTL

-----------------------------------------------------------------------------
(* decode.                                                                 *)

\* What is no larger than a word is one.
LEMMA SmallerIsWord ==
  ASSUME NEW x \in Words, NEW y \in Nat, y <= x
  PROVE  y \in Words
<1> DEFINE w == 2 ^ Width
<1>1. w \in Nat \ {0} /\ x \in 0 .. w - 1
  BY WordType DEF Words
<1> HIDE DEF w
<1>2. y \in 0 .. w - 1
  BY <1>1
<1> QED BY <1>2 DEF w, Words

\* Shifts and masks of the geometry that was built are divisions by it.
LEMMA FieldsByDivision ==
  ASSUME NEW k \in 0 .. Width - 1, NEW j \in 0 .. Width - 1, BuiltAs(k, j), NEW a \in Words
  PROVE  /\ Decoded(a).offset = a % block
         /\ Decoded(a).block = a \div block
         /\ Decoded(a).set = (a \div block) % geometry.numSets
         /\ Decoded(a).tag = (a \div block) \div geometry.numSets
<1>1. k \in 0 .. Width /\ j \in 0 .. Width /\ k \in Nat
  BY WordType
<1>2. /\ block = 2 ^ k /\ geometry.offset = k
      /\ geometry.numSets = 2 ^ j /\ geometry.index = j
  BY DEF BuiltAs
<1> DEFINE b == a \div 2 ^ k
<1>3. b \in Words
  <2>1. a \in Nat /\ 2 ^ k \in Nat \ {0}
    BY <1>1, WordType, PowerCounts
  <2>2. b \in Nat /\ b <= a
    BY <2>1, Divided
  <2> HIDE DEF b
  <2> QED BY <2>2, SmallerIsWord
<1> HIDE DEF b
<1>4. And(a, Wrap(2 ^ k - 1)) = a % 2 ^ k
  BY <1>1, MaskIsRemainder
<1>5. And(b, Wrap(2 ^ j - 1)) = b % 2 ^ j
  BY <1>1, <1>3, MaskIsRemainder
<1>6. Decoded(a) = [offset |-> And(a, Wrap(2 ^ k - 1)), block |-> b,
                    set |-> And(b, Wrap(2 ^ j - 1)), tag |-> b \div 2 ^ j]
  BY <1>2 DEF Decoded, ShiftRight, b
<1> QED BY <1>2, <1>4, <1>5, <1>6 DEF b

\* Mask and shift find the block, the set and the tag CacheGeometry divides
\* out of every address, and a victim's fields rebuild the first byte of its
\* block, whatever the width of a word.
THEOREM DecodeDivides == Spec => []DecodesByDivision
<1>1. ConstructorInv => DecodesByDivision
  <2> SUFFICES ASSUME ConstructorInv, stage = "decoded", NoWrap PROVE DecodesByDivision
    BY DEF DecodesByDivision
  <2>1. PICK k, j \in 0 .. Width - 1 : BuiltAs(k, j)
    BY GeometryBuilt
  <2>2. k \in Nat /\ j \in Nat
    BY WordType
  <2> DEFINE p == 2 ^ k
             n == 2 ^ j
             b == addr \div p
             o == addr % p
             s == b % n
             t == b \div n
  <2>3. block = p /\ geometry.offset = k /\ geometry.numSets = n /\ geometry.index = j
    BY <2>1 DEF BuiltAs
  <2>4. p \in Nat \ {0} /\ n \in Nat \ {0} /\ addr \in Words /\ addr \in Nat
    BY <2>2, PowerCounts, WordType DEF ConstructorInv
  <2>5. fields.offset = o /\ fields.block = b /\ fields.set = s /\ fields.tag = t
    BY <2>1, <2>3, <2>4, FieldsByDivision DEF ConstructorInv
  <2>6. Knobs.blockSize = block /\ NumSets(Knobs) = n
    <3>1. Knobs.blockSize = block /\ NumSets(Knobs) = size \div (block * ways)
      BY DEF Knobs, NumSets
    <3>2. SetBytes = block * ways
      BY KnobTypes DEF ConstructorInv
    <3>3. n = size \div SetBytes
      BY <2>1, <2>3 DEF BuiltAs
    <3> QED BY <3>1, <3>2, <3>3
  <2>7. /\ b \in Nat /\ b <= addr /\ o \in 0 .. p - 1 /\ b * p <= addr
        /\ addr = b * p + o /\ b * p \in Nat
    <3> HIDE DEF p
    <3>1. b \in Nat /\ b <= addr /\ o \in 0 .. p - 1 /\ b * p <= addr /\ addr = b * p + o
      BY <2>4, Divided
    <3> HIDE DEF b
    <3>2. b * p \in Nat
      BY <2>4, <3>1
    <3> QED BY <3>1, <3>2
  <2> HIDE DEF o
  <2>8. /\ s \in 0 .. n - 1 /\ t \in Nat /\ b = t * n + s
    <3> HIDE DEF n, b
    <3> QED BY <2>4, <2>7, Divided
  <2> HIDE DEF b, s, t
  <2>9. b \in Words /\ b * p \in Words
    BY <2>4, <2>7, SmallerIsWord
  <2>10. VictimAddr = b * p
    <3>1. t * 2 ^ j \in Words /\ Or(t * 2 ^ j, s) = t * 2 ^ j + s
      <4>1. t * 2 ^ j + s \in Words
        BY <2>8, <2>9
      <4>2. s \in 0 .. 2 ^ j - 1
        BY <2>8
      <4> QED BY <2>2, <2>8, <4>1, <4>2, OrIsSum
    <3>2. ShiftLeft(t, j) = t * 2 ^ j
      BY <3>1, WordType DEF ShiftLeft
    <3>3. Or(ShiftLeft(t, j), s) = b
      BY <2>8, <3>1, <3>2
    <3>4. ShiftLeft(b, k) = b * p
      BY <2>9, WordType DEF ShiftLeft
    <3> QED BY <2>3, <2>5, <3>3, <3>4 DEF VictimAddr
  <2>11. BlockOf(Knobs, addr) = b /\ SetOf(Knobs, b) = s /\ TagOf(Knobs, b) = t
    BY <2>3, <2>6 DEF BlockOf, SetOf, TagOf, b, s, t
  <2>12. AddrOf(Knobs, b) = b * p /\ Sets(Knobs) = 0 .. n - 1
    BY <2>3, <2>6 DEF AddrOf, Sets
  <2>13. /\ fields.block = BlockOf(Knobs, addr)
         /\ fields.set = SetOf(Knobs, fields.block)
         /\ fields.tag = TagOf(Knobs, fields.block)
    BY <2>5, <2>11
  <2>14. fields.set \in Sets(Knobs) /\ VictimAddr = AddrOf(Knobs, fields.block)
    BY <2>5, <2>8, <2>10, <2>12
  <2>15. VictimAddr + fields.offset = addr
    BY <2>5, <2>7, <2>10
  <2> QED BY <2>13, <2>14, <2>15 DEF DecodesByDivision
<1> QED BY <1>1, StageFollowsFromKnobs, PTL

\* The bytes of a set are whole blocks, even when their product has wrapped.
LEMMA WholeBlocks ==
  ASSUME Knobbed, NEW k \in 0 .. Width - 1, block = 2 ^ k
  PROVE  \E e \in Nat : SetBytes = e * block
<1>1. k \in Nat /\ Width \in Nat /\ k <= Width
  BY WordType
<1> DEFINE p == 2 ^ k
           w == 2 ^ Width
           d == Width - k
           c == 2 ^ d
           x == p * ways
           u == x \div w
           r == x % w
<1>2. p \in Nat \ {0} /\ w \in Nat \ {0} /\ ways \in Nat
  BY <1>1, PowerCounts, KnobTypes
<1>3. d \in Nat /\ 2 ^ Width = 2 ^ k * 2 ^ (Width - k)
  BY <1>1, PowersInOrder
<1>4. c \in Nat \ {0}
  <2> HIDE DEF d
  <2> QED BY <1>3, PowerCounts
<1>5. w = p * c
  BY <1>3
<1>6. SetBytes = r
  BY DEF SetBytes, Wrap
<1> HIDE DEF p, w, c, d
<1>7. x \in Nat
  BY <1>2
<1>8. u \in Nat /\ r \in Nat /\ x = u * w + r
  <2> HIDE DEF x
  <2>1. u \in Nat /\ r \in 0 .. w - 1 /\ x = u * w + r
    BY <1>2, <1>7, Divided
  <2>2. r \in Nat
    BY <1>2, <2>1
  <2> QED BY <2>1, <2>2
<1> HIDE DEF u, r
<1> DEFINE e == ways - (u * c)
<1>9. e \in Int /\ r = e * p
  <2>1. u * c \in Nat /\ u * w = (u * c) * p /\ u * w \in Nat
    BY <1>4, <1>5, <1>2, <1>8
  <2> DEFINE v == u * c
  <2>2. v \in Nat /\ u * w = v * p /\ p * ways = ways * p
        /\ (ways - v) * p = ways * p - v * p /\ ways * p \in Nat /\ v * p \in Nat
    BY <1>2, <2>1
  <2> HIDE DEF v
  <2>3. r = (ways - v) * p
    BY <1>8, <2>2
  <2> QED BY <1>2, <2>2, <2>3 DEF v
<1> HIDE DEF e
<1>10. e >= 0
  <2>1. ASSUME e < 0 PROVE FALSE
    <3>1. e * p < 0
      BY <1>2, <1>9, <2>1
    <3> QED BY <1>8, <1>9, <3>1
  <2> QED BY <1>9, <2>1
<1>11. e \in Nat /\ SetBytes = e * p
  BY <1>6, <1>9, <1>10
<1> QED BY <1>11 DEF p

\* So the fields of an address below the tag fit a word together, and leave room.
LEMMA FieldsFitWord ==
  ASSUME Knobbed, NEW k \in 0 .. Width - 1, NEW j \in 0 .. Width - 1, BuiltAs(k, j)
  PROVE  k + j \in Nat /\ k + j < Width
<1>1. k \in Nat /\ j \in Nat /\ k + j \in Nat
  BY WordType
<1>2. PICK e \in Nat : SetBytes = e * block
  BY WholeBlocks DEF BuiltAs
<1> DEFINE p == 2 ^ k
           n == 2 ^ j
           b == p * n
<1>3. p \in Nat \ {0} /\ n \in Nat \ {0}
  BY <1>1, PowerCounts
<1>4. SetBytes = e * p /\ SetBytes # 0 /\ size = n * SetBytes
  BY <1>2 DEF BuiltAs
<1>5. 2 ^ (k + j) = b
  BY <1>1, PowerOfSum
<1> HIDE DEF p, n
<1>6. b \in Nat /\ size = b * e
  <2>1. n * (e * p) = (p * n) * e
    BY <1>2, <1>3
  <2> QED BY <1>3, <1>4, <2>1
<1>7. e >= 1
  <2>1. e = 0 => e * p = 0
    BY <1>3
  <2> QED BY <1>2, <1>4, <2>1
<1>8. b <= size
  <2> HIDE DEF b
  <2>1. b * 1 <= b * e
    BY <1>2, <1>6, <1>7
  <2> QED BY <1>6, <2>1
<1>9. b \in Words
  BY <1>6, <1>8, SmallerIsWord DEF Knobbed
<1>10. k + j \in 0 .. Width - 1
  BY <1>1, <1>5, <1>9, PowerInWord
<1> QED BY <1>1, <1>10, WordType

\* The width that is reported is that of an address or less exactly if the
\* address has room for the fields: one that wrapped lies above.
LEMMA WrappedWidthIsTooLarge ==
  ASSUME ConstructorInv, stage \in {"built", "decoded"}
  PROVE  geometry.tag <= addrWidth <=> geometry.offset + geometry.index <= addrWidth
<1>1. PICK k, j \in 0 .. Width - 1 : BuiltAs(k, j)
  BY GeometryBuilt
<1>2. /\ geometry.offset = k /\ geometry.index = j /\ geometry.tag = Wrap(addrWidth - j - k)
      /\ k \in Nat /\ j \in Nat /\ addrWidth \in Words /\ addrWidth \in Nat
  BY <1>1, WordType, KnobTypes DEF BuiltAs, ConstructorInv
<1> DEFINE d == k + j
           w == 2 ^ Width
           m == addrWidth - j - k
<1>3. d \in Nat /\ d < Width /\ w \in Nat \ {0} /\ d < w
  <2>1. d \in Nat /\ d < Width
    BY <1>1, FieldsFitWord DEF ConstructorInv
  <2>2. Width < w /\ w \in Nat \ {0} /\ Width \in Nat
    BY WordType, LessThanPower
  <2> HIDE DEF d, w
  <2> QED BY <2>1, <2>2
<1>4. m \in Int /\ m = addrWidth - d
  BY <1>2
<1>5. geometry.tag = m % w
  BY <1>2 DEF Wrap
<1>6. addrWidth < w
  <2>1. addrWidth \in 0 .. w - 1
    BY <1>2 DEF Words
  <2> HIDE DEF w
  <2> QED BY <1>2, <1>3, <2>1
<1> HIDE DEF m, w, d
<1>7. CASE m >= 0
  <2>1. m \in 0 .. w - 1
    BY <1>2, <1>3, <1>4, <1>6, <1>7
  <2>2. m % w = m
    BY <1>3, <2>1
  <2> QED BY <1>2, <1>3, <1>4, <1>5, <1>7, <2>2 DEF d
<1>8. CASE m < 0
  <2>1. m + w \in 0 .. w - 1 /\ m + w > addrWidth
    BY <1>2, <1>3, <1>4, <1>8
  <2>2. m % w = m + w
    BY <1>3, <1>4, <2>1
  <2>3. geometry.tag > addrWidth
    BY <1>2, <1>5, <2>1, <2>2
  <2> QED BY <1>2, <1>3, <1>4, <1>5, <1>8, <2>1, <2>2 DEF d
<1> QED BY <1>4, <1>7, <1>8

\* The tags of addresses of addrWidth bits are the numbers of the width that
\* is reported, no bit more and no bit less, whatever the width of a word; and
\* a width that wrapped, for want of room, is larger than that of an address.
THEOREM TagsHaveTheReportedWidth == Spec => []TagWidthIsExact
<1>1. ConstructorInv => TagWidthIsExact
  <2> SUFFICES ASSUME ConstructorInv, stage = "decoded",
                      geometry.offset + geometry.index <= addrWidth, addr < 2 ^ addrWidth
               PROVE  /\ fields.tag < 2 ^ geometry.tag
                      /\ addr = 2 ^ addrWidth - 1 => fields.tag = 2 ^ geometry.tag - 1
    BY WrappedWidthIsTooLarge DEF TagWidthIsExact
  <2>1. PICK k, j \in 0 .. Width - 1 : BuiltAs(k, j)
    BY GeometryBuilt
  <2>2. k \in Nat /\ j \in Nat /\ addrWidth \in Words /\ addrWidth \in Nat
    BY WordType, KnobTypes DEF ConstructorInv
  <2>3. /\ block = 2 ^ k /\ geometry.offset = k /\ geometry.numSets = 2 ^ j
        /\ geometry.index = j /\ geometry.tag = Wrap(addrWidth - j - k)
    BY <2>1 DEF BuiltAs
  <2> DEFINE m == addrWidth - j - k
             d == k + j
  <2>4. m \in Nat /\ m <= addrWidth /\ d \in Nat /\ d + m = addrWidth
    BY <2>2, <2>3
  <2> HIDE DEF m, d
  <2>5. geometry.tag = m
    <3>1. m \in Words /\ Wrap(m) = m
      BY <2>2, <2>4, SmallerIsWord, WordType
    <3> QED BY <2>3, <3>1 DEF m
  <2> DEFINE p == 2 ^ k
             n == 2 ^ j
             q == 2 ^ d
             r == 2 ^ m
             t == addr \div q
  <2>6. /\ p \in Nat \ {0} /\ n \in Nat \ {0} /\ q \in Nat \ {0} /\ r \in Nat \ {0}
    BY <2>2, <2>4, PowerCounts
  <2>7. q = n * p /\ 2 ^ addrWidth = q * r
    <3>1. 2 ^ (k + j) = 2 ^ k * 2 ^ j
      BY <2>2, PowerOfSum
    <3>2. 2 ^ (d + m) = 2 ^ d * 2 ^ m
      BY <2>4, PowerOfSum
    <3>3. p * n = n * p
      <4> HIDE DEF p, n
      <4> QED BY <2>6
    <3> QED BY <2>4, <3>1, <3>2, <3>3 DEF d
  <2>8. addr \in Words /\ addr \in Nat
    BY WordType DEF ConstructorInv
  <2>9. fields.tag = t
    <3>1. fields.tag = (addr \div p) \div n
      BY <2>1, <2>3, <2>8, FieldsByDivision DEF ConstructorInv
    <3> HIDE DEF p, n, q
    <3>2. addr \div (n * p) = (addr \div p) \div n
      BY <2>6, <2>8, DivideTwice
    <3> QED BY <2>7, <3>1, <3>2
  <2>10. addr < q * r
    BY <2>7
  <2> HIDE DEF p, n, q, r
  <2>11. t < r
    <3>1. t \in Nat /\ t * q <= addr
      BY <2>6, <2>8, Divided
    <3> HIDE DEF t
    <3>2. ASSUME t >= r PROVE FALSE
      <4>1. r * q <= t * q
        BY <2>6, <3>1, <3>2
      <4>2. r * q = q * r /\ r * q \in Nat /\ t * q \in Nat
        BY <2>6, <3>1
      <4> QED BY <2>8, <2>10, <3>1, <4>1, <4>2
    <3> QED BY <2>6, <3>1, <3>2
  <2>12. ASSUME addr = q * r - 1 PROVE t = r - 1
    <3>1. r - 1 \in Nat /\ q - 1 \in 0 .. q - 1
      BY <2>6
    <3>2. q * r - 1 = ((r - 1) * q) + (q - 1)
      <4>1. (r - 1) * q = r * q - q /\ r * q = q * r /\ q * r \in Nat
        BY <2>6
      <4> QED BY <2>6, <4>1
    <3>3. (((r - 1) * q) + (q - 1)) \div q = r - 1
      BY <2>6, <3>1, DivisionIs
    <3> QED BY <2>12, <3>2, <3>3
  <2>13. 2 ^ geometry.tag = r
    BY <2>5 DEF r
  <2> QED BY <2>7, <2>9, <2>11, <2>12, <2>13
<1> QED BY <1>1, StageFollowsFromKnobs, PTL

-----------------------------------------------------------------------------
(* The identity of the geometry.                                           *)

\* The identity size = sets * ways * block, and the reference model's number of
\* lines, hold of what the constructor accepts if and only if the product of
\* block and associativity fits a word, whatever the width of a word.
THEOREM IdentityIffNoWrap == Spec => []GeometryIdentity
<1>1. ConstructorInv => GeometryIdentity
  <2> SUFFICES ASSUME ConstructorInv, stage \in {"built", "decoded"}
               PROVE  /\ NoWrap <=> size = geometry.numSets * ways * block
                      /\ NoWrap <=> geometry.refLines = geometry.numSets * ways
    BY DEF GeometryIdentity
  <2>1. PICK k, j \in 0 .. Width - 1 : BuiltAs(k, j)
    BY GeometryBuilt
  <2>2. Knobbed /\ block = 2 ^ k
    BY <2>1 DEF BuiltAs, ConstructorInv
  <2>3. PICK e \in Nat : SetBytes = e * block
    BY <2>2, WholeBlocks
  <2> DEFINE n == geometry.numSets
  <2>4. n = 2 ^ j /\ size = n * SetBytes /\ geometry.refLines = size \div block
    BY <2>1 DEF BuiltAs
  <2>5. n \in Nat \ {0} /\ block \in Nat \ {0} /\ ways \in Nat
    <3>1. k \in Nat /\ j \in Nat
      BY WordType
    <3>2. 2 ^ k \in Nat \ {0} /\ 2 ^ j \in Nat \ {0}
      BY <3>1, PowerCounts
    <3> QED BY <2>2, <2>4, <3>2, KnobTypes
  <2>6. NoWrap <=> SetBytes = block * ways
    BY <2>2, KnobTypes
  <2> HIDE DEF n
  <2>7. \A x, y \in Nat, z \in Nat \ {0} : x = y <=> x * z = y * z
    OBVIOUS
  <2>8. NoWrap <=> e = ways
    <3>1. block * ways = ways * block
      BY <2>5
    <3> QED BY <2>3, <2>5, <2>6, <2>7, <3>1
  <2>9. e * n = ways * n <=> NoWrap
    BY <2>5, <2>7, <2>8
  <2>10. n * e = e * n /\ n * ways = ways * n /\ n * e \in Nat /\ n * ways \in Nat
    BY <2>5
  <2> DEFINE x == n * e
             y == n * ways
  <2>11. x \in Nat /\ y \in Nat /\ (x = y <=> NoWrap)
    BY <2>9, <2>10
  <2>12. size = x * block
    <3>1. n * (e * block) = (n * e) * block
      BY <2>5
    <3> QED BY <2>3, <2>4, <3>1
  <2> HIDE DEF x, y
  <2>13. geometry.refLines = x
    <3>1. 0 \in 0 .. block - 1 /\ x * block \in Nat
      BY <2>5, <2>11
    <3>2. ((x * block) + 0) \div block = x
      BY <2>5, <2>11, <3>1, DivisionIs
    <3>3. (x * block) + 0 = x * block
      BY <3>1
    <3> QED BY <2>4, <2>12, <3>2, <3>3
  <2>14. NoWrap <=> size = y * block
    BY <2>5, <2>7, <2>11, <2>12
  <2> QED BY <2>11, <2>13, <2>14 DEF y, n
<1> QED BY <1>1, StageFollowsFromKnobs, PTL
=============================================================================
