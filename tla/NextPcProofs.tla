---------------------------- MODULE NextPcProofs ----------------------------
(***************************************************************************)
(* Proofs about NextPc, for words of any size, any memory and any operands *)
(* the decoder returns: where next_pc agrees with the architecture and     *)
(* where it deviates, and for which operands it panics.                    *)
(*                                                                         *)
(* The provers know nothing of powers and little of \div and %.  What is   *)
(* needed of them comes first: powers of two from the cardinality of sets  *)
(* of subsets, quotients from their uniqueness, and words from their bits. *)
(* Arguments by induction are arguments about a least number.              *)
(***************************************************************************)
EXTENDS NextPc, FiniteSetTheorems, WellFoundedInduction, TLAPS

\* A set of natural numbers has a least one.
LEMMA LeastNumber ==
  ASSUME NEW S, S \subseteq Nat, S # {}
  PROVE  \E x \in S : \A y \in S : x <= y
<1> DEFINE R == {ss \in Nat \X Nat : ss[1] < ss[2]}
<1>1. IsWellFoundedOn(R, Nat)
  BY NatLessThanWellFounded DEF OpToRel
<1>2. PICK x \in S : \A y \in S : <<y, x>> \notin R
  <2> HIDE DEF R
  <2> QED
    BY <1>1, WFMin
<1>3. ASSUME NEW y \in S PROVE x <= y
  <2>1. x \in Nat /\ y \in Nat /\ <<y, x>> \notin R
    BY <1>2
  <2> QED
    BY <2>1
<1> QED
  BY <1>3

-----------------------------------------------------------------------------
(***************************************************************************)
(* Powers of two: a set of n elements has 2^n subsets.                     *)
(***************************************************************************)
\* The empty set has one subset.
LEMMA PowerZero == 2 ^ 0 = 1
<1>1. IsFiniteSet({}) /\ Cardinality({}) = 0
  BY FS_EmptySet
<1>2. Cardinality(SUBSET {}) = 2 ^ 0
  BY <1>1, FS_SUBSET, Zenon
<1>3. SUBSET {} = {{}}
  OBVIOUS
<1>4. Cardinality({{}}) = 1
  BY FS_Singleton
<1> QED
  BY <1>2, <1>3, <1>4

\* A power of two is positive.
LEMMA PowerType ==
  ASSUME NEW n \in Nat
  PROVE  2 ^ n \in Nat \ {0}
<1>1. IsFiniteSet(1 .. n) /\ Cardinality(1 .. n) = n
  BY FS_Interval
<1>2. IsFiniteSet(SUBSET (1 .. n)) /\ Cardinality(SUBSET (1 .. n)) = 2 ^ n
  BY <1>1, FS_SUBSET, Zenon
<1>3. {} \in SUBSET (1 .. n)
  OBVIOUS
<1> QED
  BY <1>2, <1>3, FS_EmptySet, FS_CardinalityType

\* The subsets of 1 .. n + 1 are those of 1 .. n, without n + 1 and with it.
LEMMA PowerNext ==
  ASSUME NEW n \in Nat
  PROVE  2 ^ n \in Nat /\ 2 ^ (n + 1) = 2 * 2 ^ n
<1> DEFINE S == 1 .. n
           T == 1 .. n + 1
           with == [s \in SUBSET S |-> s \cup {n + 1}]
           B == {s \cup {n + 1} : s \in SUBSET S}
<1>1. IsFiniteSet(S) /\ Cardinality(S) = n
  BY FS_Interval
<1>2. IsFiniteSet(T) /\ Cardinality(T) = n + 1
  BY FS_Interval
<1>3. T = S \cup {n + 1} /\ n + 1 \notin S
  OBVIOUS
<1> HIDE DEF S, T
<1>4. IsFiniteSet(SUBSET S) /\ Cardinality(SUBSET S) = 2 ^ n
  BY <1>1, FS_SUBSET, Zenon
<1>5. Cardinality(SUBSET T) = 2 ^ (n + 1)
  BY <1>2, FS_SUBSET, Zenon
<1>6. ExistsBijection(SUBSET S, B)
  <2>1. with \in [SUBSET S -> B]
    OBVIOUS
  <2>2. ASSUME NEW s \in SUBSET S, NEW t \in SUBSET S, with[s] = with[t] PROVE s = t
    <3>1. s \cup {n + 1} = t \cup {n + 1} /\ n + 1 \notin s /\ n + 1 \notin t
      BY <1>3, <2>2
    <3> QED
      BY <3>1
  <2>3. \A b \in B : \E s \in SUBSET S : with[s] = b
    OBVIOUS
  <2> HIDE DEF with, B
  <2>4. IsInjective(with)
    BY <2>1, <2>2 DEF IsInjective
  <2>5. with \in Bijection(SUBSET S, B)
    BY <2>1, <2>3, <2>4 DEF Bijection, Injection, Surjection
  <2> QED
    BY <2>5 DEF ExistsBijection
<1>7. IsFiniteSet(B) /\ Cardinality(B) = Cardinality(SUBSET S)
  BY <1>4, <1>6, FS_Bijection, Zenon
<1>8. (SUBSET S) \cap B = {}
  <2>1. \A s \in B : n + 1 \in s
    OBVIOUS
  <2> HIDE DEF B
  <2> QED
    BY <1>3, <2>1
<1>9. SUBSET T = (SUBSET S) \cup B
  <2>1. ASSUME NEW t \in SUBSET T, n + 1 \in t PROVE t \in B
    <3> DEFINE s == t \ {n + 1}
    <3>1. s \in SUBSET S /\ s \cup {n + 1} = t
      BY <1>3, <2>1
    <3> HIDE DEF s
    <3> QED
      BY <3>1
  <2>2. ASSUME NEW t \in SUBSET T, n + 1 \notin t PROVE t \in SUBSET S
    BY <1>3, <2>2
  <2>3. \A t \in (SUBSET S) \cup B : t \in SUBSET T
    BY <1>3
  <2> HIDE DEF B
  <2> QED
    BY <2>1, <2>2, <2>3
<1> HIDE DEF B
<1>10. Cardinality((SUBSET S) \cup B)
         = Cardinality(SUBSET S) + Cardinality(B) - Cardinality((SUBSET S) \cap B)
  BY <1>4, <1>7, FS_Union
<1>11. Cardinality({}) = 0 /\ Cardinality(SUBSET S) \in Nat
  BY <1>4, FS_EmptySet, FS_CardinalityType
<1> DEFINE N == Cardinality(SUBSET S)
<1>12. 2 ^ n = N /\ 2 ^ (n + 1) = N + N - 0 /\ N \in Nat
  BY <1>4, <1>5, <1>7, <1>8, <1>9, <1>10, <1>11
<1> HIDE DEF N
<1>13. 2 ^ (n + 1) = 2 * N
  BY <1>12
<1> QED
  BY <1>12, <1>13, Zenon

-----------------------------------------------------------------------------
(***************************************************************************)
(* Quotients and remainders.                                               *)
(***************************************************************************)
\* What the provers know of quotients.
LEMMA Division ==
  ASSUME NEW m \in Nat \ {0}, NEW x \in Int
  PROVE  /\ x \div m \in Int /\ x % m \in 0 .. m - 1
         /\ x = ((x \div m) * m) + (x % m)
OBVIOUS

\* A positive multiple is not smaller.
LEMMA Product ==
  ASSUME NEW m \in Nat \ {0}, NEW d \in Nat \ {0}
  PROVE  d * m \in Nat /\ d * m >= m
<1> DEFINE e == d - 1
<1>1. e \in Nat /\ d = e + 1
  OBVIOUS
<1> HIDE DEF e
<1>2. e * m \in Nat
  BY <1>1
<1>3. (e + 1) * m = e * m + m
  BY <1>1
<1> QED
  BY <1>1, <1>2, <1>3

\* There is one quotient and one remainder.
LEMMA DivMod ==
  ASSUME NEW m \in Nat \ {0}, NEW q \in Int, NEW t \in 0 .. m - 1
  PROVE  (q * m + t) \div m = q /\ (q * m + t) % m = t
<1> DEFINE x == q * m + t
           k == x \div m
           u == x % m
<1>1. x \in Int
  OBVIOUS
<1>2. k \in Int /\ u \in 0 .. m - 1 /\ x = k * m + u
  BY <1>1, Division
<1>3. (q - k) * m = u - t /\ (k - q) * m = t - u
  <2>1. (q - k) * m = q * m - k * m /\ (k - q) * m = k * m - q * m
    BY <1>2
  <2>2. q * m \in Int /\ k * m \in Int
    BY <1>2
  <2> HIDE DEF k, u
  <2> DEFINE A == q * m
             B == k * m
  <2>3. A + t = B + u
    BY <1>2
  <2> QED
    BY <1>2, <2>1, <2>2, <2>3
<1> HIDE DEF k, u
<1>4. ~(q - k >= 1)
  <2>1. q - k >= 1 => (q - k) * m >= m
    BY <1>2, Product
  <2> QED
    BY <1>2, <1>3, <2>1
<1>5. ~(k - q >= 1)
  <2>1. k - q >= 1 => (k - q) * m >= m
    BY <1>2, Product
  <2> QED
    BY <1>2, <1>3, <2>1
<1>6. k = q
  BY <1>2, <1>4, <1>5
<1>7. u = t
  BY <1>2, <1>3, <1>6
<1> QED
  BY <1>6, <1>7 DEF k, u

\* To divide twice is to divide by the product.
LEMMA DivDiv ==
  ASSUME NEW x \in Int, NEW a \in Nat \ {0}, NEW b \in Nat \ {0}
  PROVE  (x \div a) \div b = x \div (a * b)
<1> DEFINE q == x \div a
           t == x % a
           k == q \div b
           u == q % b
<1>1. q \in Int /\ t \in 0 .. a - 1 /\ x = (q * a) + t
  BY Division
<1>2. k \in Int /\ u \in 0 .. b - 1 /\ q = (k * b) + u
  <2> HIDE DEF q
  <2> QED
    BY <1>1, Division
<1> HIDE DEF q, t, k, u
<1>3. a * b \in Nat \ {0}
  BY Product
<1>4. x = (k * (a * b)) + ((u * a) + t)
  <2>1. ((k * b) + u) * a = (k * (a * b)) + (u * a)
    BY <1>2
  <2>2. k * (a * b) \in Int /\ u * a \in Int
    BY <1>2
  <2> QED
    BY <1>1, <1>2, <2>1, <2>2
<1>5. (u * a) + t \in 0 .. (a * b) - 1
  <2>1. u * a \in Nat
    BY <1>2
  <2>2. (b - u) * a >= a /\ (b - u) * a = (a * b) - (u * a)
    <3>1. b - u \in Nat \ {0}
      BY <1>2
    <3>2. (b - u) * a >= a
      BY <3>1, Product
    <3>3. (b - u) * a = (a * b) - (u * a)
      BY <1>2
    <3> QED
      BY <3>2, <3>3
  <2>3. a * b \in Int
    BY <1>3
  <2> QED
    BY <1>1, <2>1, <2>2, <2>3
<1>6. x \div (a * b) = k
  BY <1>2, <1>3, <1>4, <1>5, DivMod
<1> QED
  BY <1>6 DEF k, q

\* A sum of remainders.
LEMMA ModSum ==
  ASSUME NEW m \in Nat \ {0}, NEW x \in Int, NEW y \in Int
  PROVE  ((x % m) + y) % m = (x + y) % m
<1> DEFINE t == x % m
           k == x \div m
           z == t + y
           u == z % m
           l == z \div m
<1>1. k \in Int /\ t \in 0 .. m - 1 /\ x = (k * m) + t
  BY Division
<1>2. l \in Int /\ u \in 0 .. m - 1 /\ z = (l * m) + u
  <2> HIDE DEF t
  <2> QED
    BY <1>1, Division
<1>3. x + y = ((k + l) * m) + u
  <2> HIDE DEF t, k, u, l
  <2>1. (k + l) * m = (k * m) + (l * m) /\ k * m \in Int /\ l * m \in Int
    BY <1>1, <1>2
  <2> QED
    BY <1>1, <1>2, <2>1
<1> HIDE DEF t, k, l, u, z
<1>4. (x + y) % m = u
  <2>1. k + l \in Int
    BY <1>1, <1>2
  <2> QED
    BY <1>2, <1>3, <2>1, DivMod
<1> QED
  BY <1>4 DEF u, z, t

\* A multiple of the divisor does not matter.
LEMMA ModShift ==
  ASSUME NEW m \in Nat \ {0}, NEW x \in Int, NEW k \in Int
  PROVE  ((k * m) + x) % m = x % m
<1> DEFINE t == x % m
           l == x \div m
<1>1. l \in Int /\ t \in 0 .. m - 1 /\ x = (l * m) + t
  BY Division
<1> HIDE DEF t, l
<1>2. (k * m) + x = ((k + l) * m) + t
  BY <1>1
<1>3. ((k * m) + x) % m = t
  BY <1>1, <1>2, DivMod
<1> QED
  BY <1>3 DEF t

\* A remainder is its own remainder.
LEMMA ModSmall ==
  ASSUME NEW m \in Nat \ {0}, NEW x \in 0 .. m - 1
  PROVE  x % m = x /\ x \div m = 0
<1>1. (0 * m) + x = x
  OBVIOUS
<1> QED
  BY <1>1, DivMod

\* Powers of two multiply by adding their exponents.
LEMMA PowerSum ==
  ASSUME NEW a \in Nat, NEW b \in Nat
  PROVE  2 ^ (a + b) = 2 ^ a * 2 ^ b
<1> DEFINE Bad == {n \in Nat : 2 ^ (a + n) # 2 ^ a * 2 ^ n}
<1> SUFFICES ASSUME Bad # {} PROVE FALSE
  OBVIOUS
<1>1. PICK n \in Bad : \A m \in Bad : n <= m
  BY LeastNumber
<1>2. n \in Nat /\ 2 ^ (a + n) # 2 ^ a * 2 ^ n
  OBVIOUS
<1>3. n # 0
  <2>1. a + 0 = a /\ 2 ^ a * 1 = 2 ^ a
    BY PowerType
  <2> QED
    BY <1>2, <2>1, PowerZero
<1> DEFINE p == n - 1
<1>4. p \in Nat /\ p + 1 = n /\ (a + p) + 1 = a + n /\ ~(n <= p)
  BY <1>2, <1>3
<1>5. 2 ^ (a + p) = 2 ^ a * 2 ^ p
  BY <1>1, <1>4
<1> HIDE DEF Bad, p
<1>6. 2 ^ n = 2 * 2 ^ p /\ 2 ^ (a + n) = 2 * 2 ^ (a + p)
  <2>1. a + p \in Nat
    BY <1>4
  <2>2. 2 ^ (p + 1) = 2 * 2 ^ p /\ 2 ^ ((a + p) + 1) = 2 * 2 ^ (a + p)
    BY <1>4, <2>1, PowerNext
  <2> QED
    BY <1>4, <2>2
<1>7. 2 ^ a * (2 * 2 ^ p) = 2 * (2 ^ a * 2 ^ p)
  <2>1. 2 ^ a \in Nat /\ 2 ^ p \in Nat
    BY <1>4, PowerType
  <2> QED
    BY <2>1
<1> QED
  BY <1>2, <1>5, <1>6, <1>7

-----------------------------------------------------------------------------
(***************************************************************************)
(* The bits of a number.                                                   *)
(***************************************************************************)
\* To halve a quotient is to take its lowest bit away.
LEMMA BitSplit ==
  ASSUME NEW x \in Int, NEW n \in Nat
  PROVE  /\ Bit(x, n) \in 0 .. 1
         /\ x \div 2 ^ n = (2 * (x \div 2 ^ (n + 1))) + Bit(x, n)
<1> DEFINE q == x \div 2 ^ n
<1>1. 2 ^ n \in Nat \ {0} /\ 2 ^ (n + 1) = 2 ^ n * 2
  BY PowerType, PowerNext
<1>2. q \in Int
  BY <1>1, Division
<1>3. q \div 2 = x \div 2 ^ (n + 1)
  <2>1. 2 \in Nat \ {0}
    OBVIOUS
  <2>2. q \div 2 = x \div (2 ^ n * 2)
    BY <1>1, <2>1, DivDiv, Zenon
  <2> QED
    BY <1>1, <2>2, Zenon
<1> HIDE DEF q
<1>4. q % 2 \in 0 .. 1 /\ q = (2 * (q \div 2)) + (q % 2)
  BY <1>2
<1> QED
  BY <1>3, <1>4 DEF Bit, q

\* A number of n bits is known by them.
LEMMA SameBits ==
  ASSUME NEW n \in Nat, NEW x \in 0 .. 2 ^ n - 1, NEW y \in 0 .. 2 ^ n - 1,
         \A k \in 0 .. n - 1 : Bit(x, k) = Bit(y, k)
  PROVE  x = y
<1> DEFINE Bad == {j \in 0 .. n : x \div 2 ^ (n - j) # y \div 2 ^ (n - j)}
<1>1. \A k \in Nat : 2 ^ k \in Nat \ {0}
  BY PowerType
<1>2. x \in Int /\ y \in Int
  BY <1>1
<1>3. Bad = {}
  <2> SUFFICES ASSUME Bad # {} PROVE FALSE
    OBVIOUS
  <2>1. PICK j \in Bad : \A i \in Bad : j <= i
    <3>1. Bad \subseteq Nat
      OBVIOUS
    <3> HIDE DEF Bad
    <3> QED
      BY <3>1, LeastNumber
  <2>2. j \in 0 .. n /\ x \div 2 ^ (n - j) # y \div 2 ^ (n - j)
    OBVIOUS
  <2>3. j # 0
    <3>1. x \div 2 ^ n = 0 /\ y \div 2 ^ n = 0
      BY <1>1, ModSmall
    <3>2. n - 0 = n
      OBVIOUS
    <3> QED
      BY <2>2, <3>1, <3>2
  <2> DEFINE k == n - j
  <2>4. k \in 0 .. n - 1 /\ j - 1 \in 0 .. n /\ n - (j - 1) = k + 1 /\ ~(j <= j - 1)
    BY <2>2, <2>3
  <2>5. x \div 2 ^ (k + 1) = y \div 2 ^ (k + 1)
    BY <2>1, <2>4
  <2> HIDE DEF Bad, k
  <2>6. Bit(x, k) = Bit(y, k)
    BY <2>4
  <2>7. /\ x \div 2 ^ k = (2 * (x \div 2 ^ (k + 1))) + Bit(x, k)
        /\ y \div 2 ^ k = (2 * (y \div 2 ^ (k + 1))) + Bit(y, k)
    <3>1. k \in Nat
      BY <2>4
    <3> QED
      BY <1>2, <3>1, BitSplit, Zenon
  <2> QED
    BY <2>2, <2>5, <2>6, <2>7, Zenon DEF k
<1>4. x \div 2 ^ 0 = y \div 2 ^ 0
  <2>1. n \in 0 .. n /\ n - n = 0
    OBVIOUS
  <2> QED
    BY <1>3, <2>1
<1>5. x \div 1 = x /\ y \div 1 = y
  BY <1>2
<1> QED
  BY <1>4, <1>5, PowerZero

\* The bits of a number that is put together from two.
LEMMA JoinedBits ==
  ASSUME NEW j \in Nat, NEW lo \in 0 .. 2 ^ j - 1, NEW hi \in Int, NEW k \in Nat
  PROVE  Bit((hi * 2 ^ j) + lo, k) = IF k < j THEN Bit(lo, k) ELSE Bit(hi, k - j)
<1> DEFINE z == (hi * 2 ^ j) + lo
<1>1. 2 ^ j \in Nat \ {0} /\ 2 ^ k \in Nat \ {0} /\ z \in Int /\ lo \in Int
  BY PowerType
<1>2. CASE k < j
  <2> DEFINE m == 2 ^ k
             p == (j - k) - 1
             h == hi * 2 ^ p
             q == lo \div m
             t == lo % m
  <2>1. p \in Nat /\ j = (p + 1) + k
    BY <1>2
  <2>2. 2 ^ p \in Nat \ {0} /\ 2 ^ j = (2 * 2 ^ p) * m
    <3>1. 2 ^ p \in Nat \ {0} /\ 2 ^ (p + 1) = 2 * 2 ^ p
      BY <2>1, PowerType, PowerNext
    <3>2. 2 ^ ((p + 1) + k) = 2 ^ (p + 1) * 2 ^ k
      BY <2>1, PowerSum
    <3> QED
      BY <2>1, <3>1, <3>2
  <2>3. q \in Int /\ t \in 0 .. m - 1 /\ lo = (q * m) + t
    BY <1>1, Division
  <2>4. m \in Nat \ {0}
    BY <1>1
  <2> HIDE DEF m, q, t, p
  <2>5. h \in Int
    BY <2>2
  <2>6. z = (((2 * h) + q) * m) + t
    <3> DEFINE e == 2 ^ p
    <3>1. e \in Int /\ hi * ((2 * e) * m) = (2 * (hi * e)) * m
      BY <2>2, <2>4
    <3> HIDE DEF e
    <3>2. ((2 * (hi * e)) + q) * m = ((2 * (hi * e)) * m) + (q * m)
      BY <2>3, <2>4, <3>1
    <3>3. (2 * (hi * e)) * m \in Int /\ q * m \in Int
      BY <2>3, <2>4, <3>1
    <3>4. z = (hi * ((2 * e) * m)) + ((q * m) + t)
      BY <2>2, <2>3 DEF e
    <3> QED
      BY <2>3, <3>1, <3>2, <3>3, <3>4 DEF e
  <2> HIDE DEF h, z
  <2>7. z \div m = (2 * h) + q
    BY <2>3, <2>4, <2>5, <2>6, DivMod
  <2>8. ((2 * h) + q) % 2 = q % 2
    BY <2>3, <2>5
  <2> QED
    BY <1>2, <2>7, <2>8 DEF Bit, z, q, m
<1>3. CASE k >= j
  <2> DEFINE p == k - j
  <2>1. p \in Nat /\ k = j + p
    BY <1>3
  <2>2. 2 ^ p \in Nat \ {0} /\ 2 ^ k = 2 ^ j * 2 ^ p
    BY <2>1, PowerType, PowerSum
  <2> HIDE DEF p
  <2>3. z \div 2 ^ j = hi
    BY <1>1, DivMod
  <2>4. z \div 2 ^ k = hi \div 2 ^ p
    <3> HIDE DEF z
    <3>1. (z \div 2 ^ j) \div 2 ^ p = z \div (2 ^ j * 2 ^ p)
      BY <1>1, <2>2, DivDiv, Zenon
    <3> QED
      BY <2>2, <2>3, <3>1, Zenon
  <2>5. Bit(z, k) = Bit(hi, p)
    BY <2>4, Zenon DEF Bit
  <2>6. ~(k < j)
    BY <1>3
  <2> QED
    BY <2>5, <2>6, Zenon DEF p
<1> QED
  BY <1>2, <1>3

\* Two numbers put together.
LEMMA JoinBound ==
  ASSUME NEW a \in Nat, NEW b \in Nat, NEW hi \in 0 .. 2 ^ a - 1, NEW lo \in 0 .. 2 ^ b - 1
  PROVE  (hi * 2 ^ b) + lo \in 0 .. 2 ^ (a + b) - 1
<1> DEFINE A == 2 ^ a
           B == 2 ^ b
<1>1. A \in Nat \ {0} /\ B \in Nat \ {0} /\ 2 ^ (a + b) = A * B
  BY PowerType, PowerSum
<1>2. hi \in 0 .. A - 1 /\ lo \in 0 .. B - 1
  OBVIOUS
<1> HIDE DEF A, B
<1>3. hi * B \in Nat /\ A * B \in Nat
  BY <1>1, <1>2
<1>4. (A - hi) * B >= B /\ (A - hi) * B = (A * B) - (hi * B)
  <2>1. A - hi \in Nat \ {0}
    BY <1>1, <1>2
  <2>2. (A - hi) * B >= B
    BY <1>1, <2>1, Product
  <2>3. (A - hi) * B = (A * B) - (hi * B)
    BY <1>1, <1>2
  <2> QED
    BY <2>2, <2>3
<1>5. (hi * B) + lo \in 0 .. (A * B) - 1
  BY <1>1, <1>2, <1>3, <1>4
<1> QED
  BY <1>1, <1>5 DEF B

\* A number taken apart.
LEMMA SplitBound ==
  ASSUME NEW a \in Nat, NEW b \in Nat, NEW x \in 0 .. 2 ^ (a + b) - 1
  PROVE  x \div 2 ^ b \in 0 .. 2 ^ a - 1
<1> DEFINE A == 2 ^ a
           B == 2 ^ b
           q == x \div B
           t == x % B
<1>1. A \in Nat \ {0} /\ B \in Nat \ {0} /\ 2 ^ (a + b) = A * B
  BY PowerType, PowerSum
<1>2. A * B \in Nat /\ x \in 0 .. (A * B) - 1
  BY <1>1
<1>3. q \in Int /\ t \in 0 .. B - 1 /\ x = (q * B) + t
  <2> HIDE DEF B
  <2> QED
    BY <1>1, <1>2, Division
<1> HIDE DEF A, B, q, t
<1>4. q * B \in Int
  BY <1>1, <1>3
<1>5. ~(q < 0)
  <2> SUFFICES ASSUME q < 0 PROVE FALSE
    OBVIOUS
  <2>1. -q \in Nat \ {0} /\ (-q) * B = -(q * B)
    BY <1>1, <1>3
  <2>2. (-q) * B >= B
    BY <1>1, <2>1, Product
  <2> QED
    BY <1>1, <1>2, <1>3, <1>4, <2>1, <2>2
<1>6. ~(q >= A)
  <2> SUFFICES ASSUME q >= A PROVE FALSE
    OBVIOUS
  <2>1. q - A \in Nat /\ (q - A) * B = (q * B) - (A * B)
    BY <1>1, <1>3
  <2>2. (q - A) * B >= 0
    BY <1>1, <2>1
  <2> QED
    BY <1>1, <1>2, <1>3, <1>4, <2>1, <2>2
<1>7. q \in 0 .. A - 1
  BY <1>1, <1>3, <1>5, <1>6
<1> QED
  BY <1>7 DEF q, A, B

\* Zero has no bits.
LEMMA ZeroBits ==
  ASSUME NEW k \in Nat
  PROVE  Bit(0, k) = 0
<1>1. 2 ^ k \in Nat \ {0} /\ 0 \in 0 .. 2 ^ k - 1
  BY PowerType
<1>2. 0 \div 2 ^ k = 0
  BY <1>1, ModSmall, Zenon
<1>3. 0 % 2 = 0
  BY ModSmall
<1> QED
  BY <1>2, <1>3, Zenon DEF Bit

\* Minus one has all of them.
LEMMA MinusOneBits ==
  ASSUME NEW k \in Nat
  PROVE  Bit(-1, k) = 1
<1> DEFINE m == 2 ^ k
<1>1. m \in Nat \ {0}
  BY PowerType
<1> HIDE DEF m
<1>2. ((-1) * m) + (m - 1) = -1 /\ m - 1 \in 0 .. m - 1
  BY <1>1
<1>3. (((-1) * m) + (m - 1)) \div m = -1
  BY <1>1, <1>2, DivMod
<1>4. (-1) \div m = -1
  BY <1>2, <1>3
<1>5. (-1) % 2 = 1
  <2>1. ((-1) * 2) + 1 = -1
    OBVIOUS
  <2>2. 2 \in Nat \ {0} /\ -1 \in Int /\ 1 \in 0 .. 2 - 1
    OBVIOUS
  <2>3. (((-1) * 2) + 1) % 2 = 1
    BY <2>2, DivMod, Zenon
  <2> QED
    BY <2>1, <2>3, Zenon
<1> QED
  BY <1>4, <1>5, Zenon DEF Bit, m

\* Above its size a number has no bits.
LEMMA HighBits ==
  ASSUME NEW j \in Nat, NEW x \in 0 .. 2 ^ j - 1, NEW k \in Nat, k >= j
  PROVE  Bit(x, k) = 0
<1>1. Bit((0 * 2 ^ j) + x, k) = Bit(0, k - j)
  <2>1. 0 \in Int /\ ~(k < j)
    OBVIOUS
  <2> QED
    BY <2>1, JoinedBits, Zenon
<1>2. (0 * 2 ^ j) + x = x /\ k - j \in Nat
  BY PowerType
<1> QED
  BY <1>1, <1>2, ZeroBits

\* To divide by a power of two moves the bits down.
LEMMA ShiftedBits ==
  ASSUME NEW x \in Int, NEW s \in Nat, NEW k \in Nat
  PROVE  Bit(x \div 2 ^ s, k) = Bit(x, k + s)
<1>1. 2 ^ s \in Nat \ {0} /\ 2 ^ k \in Nat \ {0} /\ 2 ^ (s + k) = 2 ^ s * 2 ^ k
  BY PowerType, PowerSum
<1>2. (x \div 2 ^ s) \div 2 ^ k = x \div (2 ^ s * 2 ^ k)
  BY <1>1, DivDiv, Zenon
<1>3. k + s = s + k
  OBVIOUS
<1> QED
  BY <1>1, <1>2, <1>3, Zenon DEF Bit

\* The remainder keeps the low bits.
LEMMA LowBits ==
  ASSUME NEW x \in Int, NEW n \in Nat, NEW k \in 0 .. n - 1
  PROVE  Bit(x % 2 ^ n, k) = Bit(x, k)
<1> DEFINE m == 2 ^ n
           q == x \div m
           t == x % m
<1>1. m \in Nat \ {0}
  BY PowerType
<1>2. q \in Int /\ t \in 0 .. m - 1 /\ x = (q * m) + t
  <2> HIDE DEF m
  <2> QED
    BY <1>1, Division
<1> HIDE DEF q, t
<1>3. Bit((q * m) + t, k) = Bit(t, k)
  <2>1. k \in Nat /\ k < n
    OBVIOUS
  <2> QED
    BY <1>2, <2>1, JoinedBits, Zenon
<1> QED
  BY <1>2, <1>3 DEF t

\* The complement of a number has the other bits.
LEMMA OtherBits ==
  ASSUME NEW n \in Nat, NEW x \in 0 .. 2 ^ n - 1, NEW k \in 0 .. n - 1
  PROVE  /\ 2 ^ n - 1 - x \in 0 .. 2 ^ n - 1
         /\ Bit(2 ^ n - 1 - x, k) = 1 - Bit(x, k)
<1> DEFINE m == 2 ^ k
           p == (n - k) - 1
           B == 2 ^ p
           q == x \div m
           t == x % m
<1>1. m \in Nat \ {0} /\ p \in Nat
  BY PowerType
<1>2. B \in Nat \ {0} /\ 2 ^ n = (2 * B) * m
  <2>1. n = (p + 1) + k /\ p + 1 \in Nat /\ k \in Nat
    OBVIOUS
  <2> HIDE DEF p
  <2>2. 2 ^ p \in Nat \ {0} /\ 2 ^ (p + 1) = 2 * 2 ^ p
    BY <1>1, PowerType, PowerNext
  <2>3. 2 ^ n = 2 ^ (p + 1) * 2 ^ k
    BY <2>1, PowerSum
  <2> QED
    BY <2>2, <2>3
<1>3. x \in Int /\ 2 ^ n \in Nat \ {0}
  BY PowerType
<1> HIDE DEF m, p, B
<1>4. q \in Int /\ t \in 0 .. m - 1 /\ x = (q * m) + t
  BY <1>1, <1>3, Division
<1> HIDE DEF q, t
<1> DEFINE c == ((2 * B) - 1) - q
           u == (m - 1) - t
<1>5. 2 ^ n - 1 - x = (c * m) + u
  <2> DEFINE Y == (2 * B) * m
             Z == q * m
  <2>1. c * m = (Y - m) - Z
    BY <1>1, <1>2, <1>4
  <2>2. Y \in Int /\ Z \in Int /\ 2 ^ n = Y /\ x = Z + t
    BY <1>1, <1>2, <1>4
  <2> HIDE DEF Y, Z, c
  <2> QED
    BY <1>1, <1>4, <2>1, <2>2
<1>6. c \in Int /\ u \in 0 .. m - 1
  BY <1>1, <1>2, <1>4
<1>7. c % 2 = 1 - (q % 2)
  BY <1>2, <1>4
<1> HIDE DEF c, u
<1>8. ((c * m) + u) \div m = c
  BY <1>1, <1>6, DivMod
<1>9. 2 ^ n - 1 - x \in 0 .. 2 ^ n - 1
  BY <1>3
<1> QED
  BY <1>5, <1>7, <1>8, <1>9 DEF Bit, m, q

-----------------------------------------------------------------------------
(***************************************************************************)
(* The results of the bitwise operations and the shifts, bit by bit.       *)
(***************************************************************************)
\* A word is a number of W bits.
LEMMA Words ==
  /\ W \in Nat \ {0} /\ Modulus = 2 ^ W /\ Modulus \in Nat \ {0}
  /\ Word = 0 .. 2 ^ W - 1 /\ Word \subseteq Nat /\ 0 \in Word
  BY WAssumption, PowerType DEF Modulus, Word

\* A word is known by its bits.
LEMMA SameWord ==
  ASSUME NEW x \in Word, NEW y \in Word, \A k \in 0 .. W - 1 : Bit(x, k) = Bit(y, k)
  PROVE  x = y
<1>1. W \in Nat /\ x \in 0 .. 2 ^ W - 1 /\ y \in 0 .. 2 ^ W - 1
  BY Words
<1> QED
  BY <1>1, SameBits

\* The complement of a word is a word, with the other bits.
LEMMA NotWord ==
  ASSUME NEW x \in Word
  PROVE  /\ Modulus - 1 - x \in Word
         /\ \A k \in 0 .. W - 1 : Bit(Modulus - 1 - x, k) = 1 - Bit(x, k)
BY Words, OtherBits

\* Each operation of eval_alu is the one the architecture defines: and ...
LEMMA AndIs ==
  ASSUME NEW x \in Word, NEW y \in Word, NEW c
  PROVE  /\ AluResult("AND", x, y, c) = BitAnd(x, y)
         /\ BitAnd(x, y) \in Word
<1> DEFINE w == AluResult("AND", x, y, c)
           z == BitAnd(x, y)
<1>1. z \in Word /\ \A k \in 0 .. W - 1 : Bit(z, k) = Bit(x, k) * Bit(y, k)
  BY BitwiseAssumption
<1>2. w \in Word /\ \A k \in 0 .. W - 1 : Bit(w, k) = Bit(x, k) * Bit(y, k)
  <2>1. w = CHOOSE v \in Word :
             \A k \in 0 .. W - 1 : Bit(v, k) = Bit(x, k) * Bit(y, k)
    BY Zenon DEF AluResult, FromBits
  <2> HIDE DEF w, z
  <2> QED
    BY <1>1, <2>1, Zenon
<1> HIDE DEF w, z
<1>3. w = z
  BY <1>1, <1>2, SameWord
<1> QED
  BY <1>1, <1>3 DEF w, z

\* A word without its low bits.
LEMMA DivWord ==
  ASSUME NEW x \in Word, NEW n \in 0 .. W
  PROVE  x \div 2 ^ n \in Word
<1>1. (W - n) + n = W /\ W - n \in Nat /\ n \in Nat
  BY Words
<1>2. x \div 2 ^ n \in 0 .. 2 ^ (W - n) - 1
  BY <1>1, Words, SplitBound
<1>3. 2 ^ W = 2 ^ (W - n) * 2 ^ n /\ 2 ^ (W - n) \in Nat \ {0} /\ 2 ^ n \in Nat \ {0}
  BY <1>1, PowerSum, PowerType
<1>4. 2 ^ n * 2 ^ (W - n) >= 2 ^ (W - n) /\ 2 ^ n * 2 ^ (W - n) = 2 ^ (W - n) * 2 ^ n
  BY <1>3, Product
<1> QED
  BY <1>2, <1>3, <1>4, Words

\* The sign of a word is its highest bit.
LEMMA TopBit ==
  ASSUME NEW x \in Word
  PROVE  /\ Bit(x, W - 1) = IF x >= Modulus \div 2 THEN 1 ELSE 0
         /\ Modulus \div 2 = 2 ^ (W - 1)
<1> DEFINE j == W - 1
           m == 2 ^ j
<1>1. j \in Nat /\ j + 1 = W
  BY Words
<1>2. m \in Nat \ {0} /\ 2 ^ W = 2 * m
  <2> HIDE DEF j
  <2> QED
    BY <1>1, PowerType, PowerNext
<1>3. Modulus \div 2 = m
  <2> HIDE DEF m
  <2> QED
    BY <1>2, Words
<1>4. x \in 0 .. (2 * m) - 1
  BY <1>2, Words
<1>5. x \div m = IF x >= m THEN 1 ELSE 0
  <2> HIDE DEF m
  <2>1. CASE x >= m
    <3>1. x - m \in 0 .. m - 1 /\ (1 * m) + (x - m) = x
      BY <1>2, <1>4, <2>1
    <3>2. 1 \in Int
      OBVIOUS
    <3>3. ((1 * m) + (x - m)) \div m = 1
      BY <1>2, <3>1, <3>2, DivMod, Zenon
    <3> QED
      BY <2>1, <3>1, <3>3
  <2>2. CASE ~(x >= m)
    <3>1. x \in 0 .. m - 1
      BY <1>2, <1>4, <2>2
    <3> QED
      BY <1>2, <2>2, <3>1, ModSmall
  <2> QED
    BY <2>1, <2>2
<1> HIDE DEF m
<1>6. (x \div m) % 2 = IF x >= m THEN 1 ELSE 0
  BY <1>5
<1> QED
  BY <1>3, <1>6 DEF Bit, m

\* Taken as a signed number a word goes on with its sign.
LEMMA SignExtended ==
  ASSUME NEW x \in Word, NEW k \in Nat
  PROVE  Bit(IF x >= Modulus \div 2 THEN x - Modulus ELSE x, k)
           = Bit(x, IF k < W THEN k ELSE W - 1)
<1>1. CASE x >= Modulus \div 2
  <2>1. ((-1) * 2 ^ W) + x = x - Modulus /\ -1 \in Int /\ W \in Nat /\ x \in 0 .. 2 ^ W - 1
    BY Words
  <2>2. Bit(((-1) * 2 ^ W) + x, k) = IF k < W THEN Bit(x, k) ELSE Bit(-1, k - W)
    BY <2>1, JoinedBits, Zenon
  <2>3. ~(k < W) => Bit(-1, k - W) = 1
    <3> SUFFICES ASSUME ~(k < W) PROVE Bit(-1, k - W) = 1
      OBVIOUS
    <3>1. k - W \in Nat
      BY Words
    <3> QED
      BY <3>1, MinusOneBits
  <2>4. Bit(x, W - 1) = 1
    BY <1>1, TopBit
  <2> QED
    BY <1>1, <2>1, <2>2, <2>3, <2>4, Zenon
<1>2. CASE ~(x >= Modulus \div 2)
  <2>1. Bit(x, W - 1) = 0
    BY <1>2, TopBit
  <2>2. ~(k < W) => Bit(x, k) = 0
    BY Words, HighBits
  <2> QED
    BY <1>2, <2>1, <2>2, Zenon
<1> QED
  BY <1>1, <1>2

\* ... or ...
LEMMA OrrIs ==
  ASSUME NEW x \in Word, NEW y \in Word, NEW c
  PROVE  /\ AluResult("ORR", x, y, c) = (BitOr(x, y))
         /\ (BitOr(x, y)) \in Word
<1> DEFINE w == AluResult("ORR", x, y, c)
           z == BitOr(x, y)
<1>1. z \in Word /\ \A k \in 0 .. W - 1 : Bit(z, k) = (IF Bit(x, k) + Bit(y, k) > 0 THEN 1 ELSE 0)
  BY BitwiseAssumption
<1>2. w \in Word /\ \A k \in 0 .. W - 1 : Bit(w, k) = (IF Bit(x, k) + Bit(y, k) > 0 THEN 1 ELSE 0)
  <2>1. w = CHOOSE v \in Word :
             \A k \in 0 .. W - 1 : Bit(v, k) = (IF Bit(x, k) + Bit(y, k) > 0 THEN 1 ELSE 0)
    BY Zenon DEF AluResult, FromBits
  <2> HIDE DEF w, z
  <2> QED
    BY <1>1, <2>1, Zenon
<1> HIDE DEF w, z
<1>3. w = z
  BY <1>1, <1>2, SameWord
<1> QED
  BY <1>1, <1>3 DEF w, z

\* ... exclusive or ...
LEMMA EorIs ==
  ASSUME NEW x \in Word, NEW y \in Word, NEW c
  PROVE  /\ AluResult("EOR", x, y, c) = (BitXor(x, y))
         /\ (BitXor(x, y)) \in Word
<1> DEFINE w == AluResult("EOR", x, y, c)
           z == BitXor(x, y)
<1>1. z \in Word /\ \A k \in 0 .. W - 1 : Bit(z, k) = (Bit(x, k) + Bit(y, k)) % 2
  BY BitwiseAssumption
<1>2. w \in Word /\ \A k \in 0 .. W - 1 : Bit(w, k) = (Bit(x, k) + Bit(y, k)) % 2
  <2>1. w = CHOOSE v \in Word :
             \A k \in 0 .. W - 1 : Bit(v, k) = (Bit(x, k) + Bit(y, k)) % 2
    BY Zenon DEF AluResult, FromBits
  <2> HIDE DEF w, z
  <2> QED
    BY <1>1, <2>1, Zenon
<1> HIDE DEF w, z
<1>3. w = z
  BY <1>1, <1>2, SameWord
<1> QED
  BY <1>1, <1>3 DEF w, z

\* ... bit clear ...
LEMMA BicIs ==
  ASSUME NEW x \in Word, NEW y \in Word, NEW c
  PROVE  /\ AluResult("BIC", x, y, c) = (BitAnd(x, Modulus - 1 - y))
         /\ (BitAnd(x, Modulus - 1 - y)) \in Word
<1> DEFINE w == AluResult("BIC", x, y, c)
           z == BitAnd(x, Modulus - 1 - y)
<1>1. z \in Word /\ \A k \in 0 .. W - 1 : Bit(z, k) = Bit(x, k) * (1 - Bit(y, k))
  <2> DEFINE n == Modulus - 1 - y
  <2>1. n \in Word /\ \A k \in 0 .. W - 1 : Bit(n, k) = 1 - Bit(y, k)
    BY NotWord
  <2> HIDE DEF n
  <2>2. /\ BitAnd(x, n) \in Word
        /\ \A k \in 0 .. W - 1 : Bit(BitAnd(x, n), k) = Bit(x, k) * Bit(n, k)
    BY <2>1, BitwiseAssumption
  <2> QED
    BY <2>1, <2>2 DEF n
<1>2. w \in Word /\ \A k \in 0 .. W - 1 : Bit(w, k) = Bit(x, k) * (1 - Bit(y, k))
  <2>1. w = CHOOSE v \in Word :
             \A k \in 0 .. W - 1 : Bit(v, k) = Bit(x, k) * (1 - Bit(y, k))
    BY Zenon DEF AluResult, FromBits
  <2> HIDE DEF w, z
  <2> QED
    BY <1>1, <2>1, Zenon
<1> HIDE DEF w, z
<1>3. w = z
  BY <1>1, <1>2, SameWord
<1> QED
  BY <1>1, <1>3 DEF w, z

\* ... the shift to the left ...
LEMMA LslIs ==
  ASSUME NEW x \in Word, NEW y \in Nat, NEW c
  PROVE  /\ AluResult("LSL", x, y, c) = (IF y < W THEN (x * 2 ^ y) % Modulus ELSE 0)
         /\ (IF y < W THEN (x * 2 ^ y) % Modulus ELSE 0) \in Word
<1> DEFINE w == AluResult("LSL", x, y, c)
           z == IF y < W THEN (x * 2 ^ y) % Modulus ELSE 0
<1>1. z \in Word /\ \A k \in 0 .. W - 1 : Bit(z, k) = (IF k >= y THEN Bit(x, k - y) ELSE 0)
  <2>1. CASE y < W
    <3> DEFINE v == x * 2 ^ y
    <3>1. 2 ^ y \in Nat \ {0} /\ x \in Nat /\ v \in Int
      BY PowerType, Words
    <3>2. ASSUME NEW k \in 0 .. W - 1
          PROVE  Bit(v, k) = IF k >= y THEN Bit(x, k - y) ELSE 0
      <4>1. k \in Nat /\ x \in Int /\ 0 \in 0 .. 2 ^ y - 1 /\ (x * 2 ^ y) + 0 = v
        BY <3>1, Words
      <4>2. Bit((x * 2 ^ y) + 0, k) = IF k < y THEN Bit(0, k) ELSE Bit(x, k - y)
        BY <3>1, <4>1, JoinedBits, Zenon
      <4>3. (k >= y) = ~(k < y) /\ Bit(0, k) = 0
        BY <4>1, ZeroBits
      <4> HIDE DEF v
      <4> QED
        BY <4>1, <4>2, <4>3, Zenon
    <3> HIDE DEF v
    <3>3. v % 2 ^ W \in 0 .. 2 ^ W - 1
      BY <3>1, Words, Division
    <3>4. \A k \in 0 .. W - 1 : Bit(v % 2 ^ W, k) = Bit(v, k)
      BY <3>1, Words, LowBits
    <3>5. z = v % 2 ^ W
      BY <2>1, Words, Zenon DEF v
    <3> HIDE DEF z
    <3> QED
      BY <3>2, <3>3, <3>4, <3>5, Words, Zenon
  <2>2. CASE ~(y < W)
    <3>1. z = 0 /\ z \in Word
      BY <2>2, Words
    <3>2. ASSUME NEW k \in 0 .. W - 1 PROVE ~(k >= y) /\ Bit(0, k) = 0
      BY <2>2, Words, ZeroBits
    <3> HIDE DEF z
    <3> QED
      BY <3>1, <3>2, Zenon
  <2> QED
    BY <2>1, <2>2
<1>2. w \in Word /\ \A k \in 0 .. W - 1 : Bit(w, k) = (IF k >= y THEN Bit(x, k - y) ELSE 0)
  <2>1. w = CHOOSE v \in Word :
             \A k \in 0 .. W - 1 : Bit(v, k) = (IF k >= y THEN Bit(x, k - y) ELSE 0)
    BY Zenon DEF AluResult, FromBits
  <2> HIDE DEF w, z
  <2> QED
    BY <1>1, <2>1, Zenon
<1> HIDE DEF w, z
<1>3. w = z
  BY <1>1, <1>2, SameWord
<1> QED
  BY <1>1, <1>3 DEF w, z

\* ... to the right, without the sign ...
LEMMA LsrIs ==
  ASSUME NEW x \in Word, NEW y \in Nat, NEW c
  PROVE  /\ AluResult("LSR", x, y, c) = (IF y < W THEN x \div 2 ^ y ELSE 0)
         /\ (IF y < W THEN x \div 2 ^ y ELSE 0) \in Word
<1> DEFINE w == AluResult("LSR", x, y, c)
           z == IF y < W THEN x \div 2 ^ y ELSE 0
<1>1. z \in Word /\ \A k \in 0 .. W - 1 : Bit(z, k) = (IF k + y < W THEN Bit(x, k + y) ELSE 0)
  <2>1. CASE y < W
    <3>1. x \div 2 ^ y \in Word
      <4>1. y \in 0 .. W
        BY <2>1, Words
      <4> QED
        BY <4>1, DivWord
    <3>2. ASSUME NEW k \in 0 .. W - 1
          PROVE  Bit(x \div 2 ^ y, k) = IF k + y < W THEN Bit(x, k + y) ELSE 0
      <4>1. k \in Nat /\ k + y \in Nat /\ x \in Int
        BY Words
      <4>2. Bit(x \div 2 ^ y, k) = Bit(x, k + y)
        BY <4>1, ShiftedBits
      <4>3. ~(k + y < W) => Bit(x, k + y) = 0
        BY <4>1, Words, HighBits
      <4> QED
        BY <4>2, <4>3, Zenon
    <3>3. z = x \div 2 ^ y
      BY <2>1, Zenon
    <3> HIDE DEF z
    <3> QED
      BY <3>1, <3>2, <3>3, Zenon
  <2>2. CASE ~(y < W)
    <3>1. z = 0 /\ z \in Word
      BY <2>2, Words
    <3>2. ASSUME NEW k \in 0 .. W - 1 PROVE ~(k + y < W) /\ Bit(0, k) = 0
      BY <2>2, Words, ZeroBits
    <3> HIDE DEF z
    <3> QED
      BY <3>1, <3>2, Zenon
  <2> QED
    BY <2>1, <2>2
<1>2. w \in Word /\ \A k \in 0 .. W - 1 : Bit(w, k) = (IF k + y < W THEN Bit(x, k + y) ELSE 0)
  <2>1. w = CHOOSE v \in Word :
             \A k \in 0 .. W - 1 : Bit(v, k) = (IF k + y < W THEN Bit(x, k + y) ELSE 0)
    BY Zenon DEF AluResult, FromBits
  <2> HIDE DEF w, z
  <2> QED
    BY <1>1, <2>1, Zenon
<1> HIDE DEF w, z
<1>3. w = z
  BY <1>1, <1>2, SameWord
<1> QED
  BY <1>1, <1>3 DEF w, z

\* ... and with it ...
LEMMA AsrIs ==
  ASSUME NEW x \in Word, NEW y \in Nat, NEW c
  PROVE  /\ AluResult("ASR", x, y, c) = (IF y < W THEN AsrWord(x, y)
                ELSE IF x >= Modulus \div 2 THEN Modulus - 1 ELSE 0)
         /\ (IF y < W THEN AsrWord(x, y)
                ELSE IF x >= Modulus \div 2 THEN Modulus - 1 ELSE 0) \in Word
<1> DEFINE w == AluResult("ASR", x, y, c)
           z == IF y < W THEN AsrWord(x, y)
                ELSE IF x >= Modulus \div 2 THEN Modulus - 1 ELSE 0
<1>1. z \in Word /\ \A k \in 0 .. W - 1 : Bit(z, k) = Bit(x, IF k + y < W THEN k + y ELSE W - 1)
  <2> DEFINE v == IF x >= Modulus \div 2 THEN x - Modulus ELSE x
  <2>1. CASE y < W
    <3>1. v \in Int /\ 2 ^ y \in Nat \ {0} /\ v \div 2 ^ y \in Int
      <4>1. v \in Int
        BY Words
      <4> HIDE DEF v
      <4> QED
        BY <4>1, PowerType, Division
    <3>2. z = (v \div 2 ^ y) % 2 ^ W
      BY <2>1, Words DEF AsrWord
    <3>3. ASSUME NEW k \in 0 .. W - 1
          PROVE  Bit(v \div 2 ^ y, k) = Bit(x, IF k + y < W THEN k + y ELSE W - 1)
      <4>1. k \in Nat /\ k + y \in Nat
        BY Words
      <4>2. Bit(v, k + y) = Bit(x, IF k + y < W THEN k + y ELSE W - 1)
        BY <4>1, SignExtended
      <4> HIDE DEF v
      <4>3. Bit(v \div 2 ^ y, k) = Bit(v, k + y)
        BY <3>1, <4>1, ShiftedBits
      <4> QED
        BY <4>2, <4>3, Zenon
    <3> DEFINE q == v \div 2 ^ y
    <3>4. q \in Int
      BY <3>1
    <3>5. z = q % 2 ^ W
      BY <3>2
    <3>6. \A k \in 0 .. W - 1 : Bit(q, k) = Bit(x, IF k + y < W THEN k + y ELSE W - 1)
      BY <3>3
    <3> HIDE DEF q, v, z
    <3>7. q % 2 ^ W \in 0 .. 2 ^ W - 1
      BY <3>4, Words, Division
    <3>8. \A k \in 0 .. W - 1 : Bit(q % 2 ^ W, k) = Bit(q, k)
      BY <3>4, Words, LowBits
    <3> QED
      BY <3>5, <3>6, <3>7, <3>8, Words, Zenon
  <2>2. CASE ~(y < W)
    <3>1. z = (IF x >= Modulus \div 2 THEN Modulus - 1 ELSE 0) /\ z \in Word
      BY <2>2, Words
    <3>2. ASSUME NEW k \in 0 .. W - 1 PROVE Bit(z, k) = Bit(x, W - 1) /\ ~(k + y < W)
      <4>1. Bit(x, W - 1) = IF x >= Modulus \div 2 THEN 1 ELSE 0
        BY TopBit
      <4>2. Bit(Modulus - 1 - 0, k) = 1 - Bit(0, k) /\ Bit(0, k) = 0
        BY Words, NotWord, ZeroBits
      <4>3. Modulus - 1 - 0 = Modulus - 1 /\ 1 - 0 = 1
        BY Words
      <4>4. Bit(Modulus - 1, k) = 1
        BY <4>2, <4>3
      <4>5. ~(k + y < W)
        BY <2>2, Words
      <4> HIDE DEF z
      <4> QED
        BY <3>1, <4>1, <4>2, <4>4, <4>5
    <3> HIDE DEF z
    <3> QED
      BY <3>1, <3>2, Zenon
  <2> QED
    BY <2>1, <2>2
<1>2. w \in Word /\ \A k \in 0 .. W - 1 : Bit(w, k) = Bit(x, IF k + y < W THEN k + y ELSE W - 1)
  <2>1. w = CHOOSE v \in Word :
             \A k \in 0 .. W - 1 : Bit(v, k) = Bit(x, IF k + y < W THEN k + y ELSE W - 1)
    BY Zenon DEF AluResult, FromBits
  <2> HIDE DEF w, z
  <2> QED
    BY <1>1, <2>1, Zenon
<1> HIDE DEF w, z
<1>3. w = z
  BY <1>1, <1>2, SameWord
<1> QED
  BY <1>1, <1>3 DEF w, z

\* ... the rotation ...
LEMMA RorIs ==
  ASSUME NEW x \in Word, NEW y \in Nat, NEW c
  PROVE  /\ AluResult("ROR", x, y, c) = (RotateRight(x, y % W))
         /\ (RotateRight(x, y % W)) \in Word
<1> DEFINE w == AluResult("ROR", x, y, c)
           z == RotateRight(x, y % W)
<1>1. z \in Word /\ \A k \in 0 .. W - 1 : Bit(z, k) = Bit(x, (k + y) % W)
  <2> DEFINE n == y % W
             d == W - n
             hi == x % 2 ^ n
             lo == x \div 2 ^ n
  <2>1. n \in 0 .. W - 1 /\ n \in Nat /\ d \in Nat /\ n + d = W /\ d + n = W
    BY Words
  <2>2. \A k \in 0 .. W - 1 : (k + y) % W = (k + n) % W
    <3> TAKE k \in 0 .. W - 1
    <3>1. ((y % W) + k) % W = (y + k) % W
      <4>1. y \in Int /\ k \in Int
        OBVIOUS
      <4> QED
        BY <4>1, Words, ModSum, Zenon
    <3>2. (y % W) + k = k + n /\ y + k = k + y
      BY <2>1
    <3> QED
      BY <3>1, <3>2
  <2>3. z = RotateRight(x, n)
    OBVIOUS
  <2> HIDE DEF n, z
  <2>4. 2 ^ n \in Nat \ {0} /\ 2 ^ d \in Nat \ {0} /\ 2 ^ W = 2 ^ n * 2 ^ d /\ x \in Int
    BY <2>1, Words, PowerType, PowerSum
  <2>5. lo \in 0 .. 2 ^ d - 1
    <3>1. d + n = W
      BY <2>1
    <3> QED
      BY <2>1, <3>1, Words, SplitBound
  <2>6. hi \in 0 .. 2 ^ n - 1 /\ lo \in Int /\ x = (lo * 2 ^ n) + hi
    BY <2>4, Division
  <2> HIDE DEF hi, lo, d
  <2>7. (hi * 2 ^ d) + lo \in 0 .. 2 ^ W - 1 /\ (hi * 2 ^ d) + 0 \in 0 .. 2 ^ W - 1
    <3>1. 0 \in 0 .. 2 ^ d - 1
      BY <2>4
    <3> QED
      BY <2>1, <2>5, <2>6, <3>1, JoinBound
  <2>8. (x * 2 ^ d) % 2 ^ W = hi * 2 ^ d
    <3> DEFINE A == 2 ^ n
               B == 2 ^ d
    <3>1. A \in Nat /\ B \in Nat /\ 2 ^ W = A * B /\ x = (lo * A) + hi /\ hi \in Nat
      BY <2>4, <2>6
    <3> HIDE DEF A, B
    <3>2. ((lo * A) + hi) * B = (lo * (A * B)) + (hi * B)
      BY <2>6, <3>1
    <3>3. x * 2 ^ d = (lo * 2 ^ W) + (hi * 2 ^ d)
      BY <3>1, <3>2, Zenon DEF B
    <3>4. hi * 2 ^ d \in 0 .. 2 ^ W - 1
      BY <2>4, <2>6, <2>7
    <3>5. ((lo * 2 ^ W) + (hi * 2 ^ d)) % 2 ^ W = hi * 2 ^ d
      BY <2>6, <3>4, Words, DivMod
    <3> QED
      BY <3>3, <3>5, Zenon
  <2>9. z = (hi * 2 ^ d) + lo
    <3>1. z = lo + (hi * 2 ^ d)
      BY <2>3, <2>8, Words, Zenon DEF RotateRight, d, lo
    <3>2. hi * 2 ^ d \in Int
      BY <2>4, <2>6
    <3> QED
      BY <2>6, <3>1, <3>2
  <2>10. ASSUME NEW k \in 0 .. W - 1
         PROVE  Bit((hi * 2 ^ d) + lo, k) = Bit(x, (k + n) % W)
    <3>1. k \in Nat /\ hi \in Int
      BY <2>6, Words
    <3>2. Bit((hi * 2 ^ d) + lo, k) = IF k < d THEN Bit(lo, k) ELSE Bit(hi, k - d)
      BY <2>1, <2>5, <3>1, JoinedBits, Zenon
    <3>3. CASE k < d
      <4>1. k + n \in 0 .. W - 1
        BY <2>1, <3>1, <3>3
      <4>2. (k + n) % W = k + n
        BY <4>1, Words, ModSmall, Zenon
      <4>3. Bit(lo, k) = Bit(x, k + n)
        BY <2>1, <2>4, <3>1, ShiftedBits DEF lo
      <4> QED
        BY <3>2, <3>3, <4>2, <4>3, Zenon
    <3>4. CASE ~(k < d)
      <4> DEFINE e == k - d
      <4>1. e \in 0 .. W - 1 /\ e \in 0 .. n - 1 /\ (1 * W) + e = k + n
        BY <2>1, <3>1, <3>4, Words
      <4>2. (k + n) % W = e
        <5>1. 1 \in Int
          OBVIOUS
        <5> HIDE DEF e
        <5>2. ((1 * W) + e) % W = e
          BY <4>1, <5>1, Words, DivMod, Zenon
        <5> QED
          BY <4>1, <5>2, Zenon
      <4> HIDE DEF e
      <4>3. Bit(hi, e) = Bit(x, e)
        BY <2>1, <2>4, <4>1, LowBits DEF hi
      <4> QED
        BY <3>2, <3>4, <4>2, <4>3, Zenon DEF e
    <3> QED
      BY <3>3, <3>4, Zenon
  <2> QED
    BY <2>2, <2>7, <2>9, <2>10, Words, Zenon
<1>2. w \in Word /\ \A k \in 0 .. W - 1 : Bit(w, k) = Bit(x, (k + y) % W)
  <2>1. w = CHOOSE v \in Word :
             \A k \in 0 .. W - 1 : Bit(v, k) = Bit(x, (k + y) % W)
    BY Zenon DEF AluResult, FromBits
  <2> HIDE DEF w, z
  <2> QED
    BY <1>1, <2>1, Zenon
<1> HIDE DEF w, z
<1>3. w = z
  BY <1>1, <1>2, SameWord
<1> QED
  BY <1>1, <1>3 DEF w, z

\* ... the rotation through the carry ...
LEMMA RrxIs ==
  ASSUME NEW x \in Word, NEW y, NEW c \in 0 .. 1
  PROVE  /\ AluResult("RRX", x, y, c) = ((x \div 2) + (c * 2 ^ (W - 1)))
         /\ ((x \div 2) + (c * 2 ^ (W - 1))) \in Word
<1> DEFINE w == AluResult("RRX", x, y, c)
           z == (x \div 2) + (c * 2 ^ (W - 1))
<1>1. z \in Word /\ \A k \in 0 .. W - 1 : Bit(z, k) = (IF k = W - 1 THEN c ELSE Bit(x, k + 1))
  <2> DEFINE j == W - 1
             lo == x \div 2 ^ 1
  <2>1. j \in Nat /\ 1 + j = W /\ j + 1 = W /\ 2 ^ 1 = 2
    <3>1. 2 ^ (0 + 1) = 2 * 2 ^ 0 /\ 0 + 1 = 1
      BY PowerNext
    <3>2. 2 * 1 = 2
      OBVIOUS
    <3>3. 2 ^ 1 = 2
      BY <3>1, <3>2, PowerZero, Zenon
    <3> QED
      BY <3>3, Words
  <2>2. lo \in 0 .. 2 ^ j - 1
    BY <2>1, Words, SplitBound
  <2>3. c \in 0 .. 2 ^ 1 - 1
    BY <2>1
  <2>4. z = (c * 2 ^ j) + lo
    <3>1. 2 ^ j \in Nat \ {0}
      BY <2>1, PowerType
    <3>2. lo \in Int /\ c * 2 ^ j \in Int
      BY <2>2, <3>1
    <3>3. z = lo + (c * 2 ^ j)
      BY <2>1, Zenon
    <3> HIDE DEF z, lo, j
    <3> QED
      BY <3>2, <3>3
  <2> HIDE DEF j, lo, z
  <2>5. (c * 2 ^ j) + lo \in 0 .. 2 ^ W - 1
    <3>1. 1 \in Nat
      OBVIOUS
    <3> QED
      BY <2>1, <2>2, <2>3, <3>1, JoinBound, Zenon
  <2>6. ASSUME NEW k \in 0 .. W - 1
        PROVE  Bit((c * 2 ^ j) + lo, k) = IF k = W - 1 THEN c ELSE Bit(x, k + 1)
    <3>1. k \in Nat /\ c \in Int /\ x \in Int
      BY Words
    <3>2. Bit((c * 2 ^ j) + lo, k) = IF k < j THEN Bit(lo, k) ELSE Bit(c, k - j)
      BY <2>1, <2>2, <3>1, JoinedBits, Zenon
    <3>3. CASE k < j
      <4>1. Bit(lo, k) = Bit(x, k + 1)
        BY <3>1, ShiftedBits DEF lo
      <4>2. k # W - 1
        BY <3>3 DEF j
      <4> QED
        BY <3>2, <3>3, <4>1, <4>2, Zenon
    <3>4. CASE ~(k < j)
      <4>1. k = W - 1 /\ k - j = 0
        BY <2>1, <3>4, Words DEF j
      <4>2. c \div 1 = c /\ c % 2 = c
        OBVIOUS
      <4>3. Bit(c, 0) = c
        BY <4>2, PowerZero, Zenon DEF Bit
      <4> QED
        BY <3>2, <3>4, <4>1, <4>3, Zenon
    <3> QED
      BY <3>3, <3>4, Zenon
  <2> QED
    BY <2>4, <2>5, <2>6, Words, Zenon
<1>2. w \in Word /\ \A k \in 0 .. W - 1 : Bit(w, k) = (IF k = W - 1 THEN c ELSE Bit(x, k + 1))
  <2>1. w = CHOOSE v \in Word :
             \A k \in 0 .. W - 1 : Bit(v, k) = (IF k = W - 1 THEN c ELSE Bit(x, k + 1))
    BY Zenon DEF AluResult, FromBits
  <2> HIDE DEF w, z
  <2> QED
    BY <1>1, <2>1, Zenon
<1> HIDE DEF w, z
<1>3. w = z
  BY <1>1, <1>2, SameWord
<1> QED
  BY <1>1, <1>3 DEF w, z

\* The operations that add: SBC and RSC are additions of a complement.
LEMMA AddsIs ==
  ASSUME NEW x \in Word, NEW y \in Word, NEW c \in 0 .. 1
  PROVE  /\ AddWithCarry(x, y, 0) = wrapping_add(x, y)
         /\ AddWithCarry(x, y, c) = wrapping_add(wrapping_add(x, y), c)
         /\ AddWithCarry(x, NOT(y), 1) = wrapping_sub(x, y)
         /\ AddWithCarry(x, NOT(y), c) = wrapping_sub(wrapping_sub(x, y), 1 - c)
         /\ \A d \in 0 .. 1 : AddWithCarry(x, y, d) \in Word /\ AddWithCarry(x, NOT(y), d) \in Word
<1>1. Modulus \in Nat \ {0} /\ x \in Int /\ y \in Int /\ c \in Int /\ 1 \in Int
  BY Words
<1>2. \A a \in Int : a % Modulus \in Word
  BY <1>1, Division DEF Word
<1>3. AddWithCarry(x, y, 0) = wrapping_add(x, y)
  <2>1. (x + y) + 0 = x + y
    BY <1>1
  <2> QED
    BY <2>1, Zenon DEF AddWithCarry, wrapping_add
<1>4. AddWithCarry(x, y, c) = wrapping_add(wrapping_add(x, y), c)
  <2>1. x + y \in Int
    BY <1>1
  <2>2. (((x + y) % Modulus) + c) % Modulus = ((x + y) + c) % Modulus
    BY <1>1, <2>1, ModSum, Zenon
  <2> QED
    BY <2>2, Zenon DEF AddWithCarry, wrapping_add
<1>5. ASSUME NEW a \in Int
      PROVE  ((1 * Modulus) + a) % Modulus = a % Modulus
  BY <1>1, ModShift, Zenon
<1>6. AddWithCarry(x, NOT(y), 1) = wrapping_sub(x, y)
  <2>1. x - y \in Int /\ (x + NOT(y)) + 1 = (1 * Modulus) + (x - y)
    BY <1>1 DEF NOT
  <2> QED
    BY <1>5, <2>1, Zenon DEF AddWithCarry, wrapping_sub
<1>7. AddWithCarry(x, NOT(y), c) = wrapping_sub(wrapping_sub(x, y), 1 - c)
  <2> DEFINE a == x - y
             b == -(1 - c)
             t == a % Modulus
  <2>1. a \in Int /\ b \in Int /\ a + b \in Int /\ (x + NOT(y)) + c = (1 * Modulus) + (a + b)
    BY <1>1 DEF NOT
  <2>2. t \in Int
    BY <1>2, <2>1, Words
  <2>3. wrapping_sub(wrapping_sub(x, y), 1 - c) = (t - (1 - c)) % Modulus
    BY DEF wrapping_sub
  <2>4. t - (1 - c) = t + b
    <3> HIDE DEF t
    <3> QED
      BY <1>1, <2>2
  <2> HIDE DEF a, b
  <2>5. (t + b) % Modulus = (a + b) % Modulus
    BY <1>1, <2>1, ModSum, Zenon
  <2> QED
    BY <1>5, <2>1, <2>3, <2>4, <2>5, Zenon DEF AddWithCarry
<1>8. ASSUME NEW d \in 0 .. 1
      PROVE  AddWithCarry(x, y, d) \in Word /\ AddWithCarry(x, NOT(y), d) \in Word
  <2>1. (x + y) + d \in Int /\ (x + NOT(y)) + d \in Int
    BY <1>1 DEF NOT
  <2> QED
    BY <1>2, <2>1, Zenon DEF AddWithCarry
<1> QED
  BY <1>3, <1>4, <1>6, <1>7, <1>8

\* ... what is an addition with carry ...
LEMMA ArithmeticIs ==
  ASSUME NEW x \in Word, NEW y \in Word, NEW c \in 0 .. 1
  PROVE  /\ AluResult("ADD", x, y, c) = wrapping_add(x, y)
         /\ AluResult("ADC", x, y, c) = wrapping_add(wrapping_add(x, y), c)
         /\ AluResult("SUB", x, y, c) = wrapping_sub(x, y)
         /\ AluResult("RSB", x, y, c) = wrapping_sub(y, x)
         /\ AluResult("SBC", x, y, c) = wrapping_sub(wrapping_sub(x, y), 1 - c)
         /\ AluResult("RSC", x, y, c) = wrapping_sub(wrapping_sub(y, x), 1 - c)
         /\ \A op \in {"ADD", "ADC", "SUB", "RSB", "SBC", "RSC"} : AluResult(op, x, y, c) \in Word
<1>1. /\ AluResult("ADD", x, y, c) = AddWithCarry(x, y, 0)
      /\ AluResult("ADC", x, y, c) = AddWithCarry(x, y, c)
      /\ AluResult("SUB", x, y, c) = AddWithCarry(x, NOT(y), 1)
      /\ AluResult("RSB", x, y, c) = AddWithCarry(NOT(x), y, 1)
      /\ AluResult("SBC", x, y, c) = AddWithCarry(x, NOT(y), c)
      /\ AluResult("RSC", x, y, c) = AddWithCarry(NOT(x), y, c)
  BY Zenon DEF AluResult
<1>2. \A d : AddWithCarry(NOT(x), y, d) = AddWithCarry(y, NOT(x), d)
  <2>1. NOT(x) + y = y + NOT(x)
    BY Words DEF NOT
  <2> QED
    BY <2>1, Zenon DEF AddWithCarry
<1>3. /\ AddWithCarry(x, y, 0) = wrapping_add(x, y)
      /\ AddWithCarry(x, y, c) = wrapping_add(wrapping_add(x, y), c)
      /\ AddWithCarry(x, NOT(y), 1) = wrapping_sub(x, y)
      /\ AddWithCarry(y, NOT(x), 1) = wrapping_sub(y, x)
      /\ AddWithCarry(x, NOT(y), c) = wrapping_sub(wrapping_sub(x, y), 1 - c)
      /\ AddWithCarry(y, NOT(x), c) = wrapping_sub(wrapping_sub(y, x), 1 - c)
  <2>1. /\ AddWithCarry(x, y, 0) = wrapping_add(x, y)
        /\ AddWithCarry(x, y, c) = wrapping_add(wrapping_add(x, y), c)
    BY AddsIs, Zenon
  <2>2. /\ AddWithCarry(x, NOT(y), 1) = wrapping_sub(x, y)
        /\ AddWithCarry(x, NOT(y), c) = wrapping_sub(wrapping_sub(x, y), 1 - c)
    BY AddsIs, Zenon
  <2>3. /\ AddWithCarry(y, NOT(x), 1) = wrapping_sub(y, x)
        /\ AddWithCarry(y, NOT(x), c) = wrapping_sub(wrapping_sub(y, x), 1 - c)
    BY AddsIs, Zenon
  <2> QED
    BY <2>1, <2>2, <2>3, Zenon
<1>4. 0 \in 0 .. 1 /\ 1 \in 0 .. 1
  OBVIOUS
<1>5. \A d \in 0 .. 1 : /\ AddWithCarry(x, y, d) \in Word
                        /\ AddWithCarry(x, NOT(y), d) \in Word
                        /\ AddWithCarry(y, NOT(x), d) \in Word
  BY AddsIs, Zenon
<1>6. \A op \in {"ADD", "ADC", "SUB", "RSB", "SBC", "RSC"} : AluResult(op, x, y, c) \in Word
  BY <1>1, <1>2, <1>4, <1>5
<1> QED
  BY <1>1, <1>2, <1>3, <1>6, Zenon

\* ... and what is a move.
LEMMA MovesIs ==
  ASSUME NEW x \in Word, NEW y, NEW c
  PROVE  /\ \A op \in {"MOV", "ADR"} : AluResult(op, x, y, c) = x
         /\ AluResult("MVN", x, y, c) = Modulus - 1 - x
BY Zenon DEF AluResult, NOT

-----------------------------------------------------------------------------
(***************************************************************************)
(* next_pc, opcode by opcode.                                              *)
(***************************************************************************)
TypeOK == insn \in Insns /\ flags \in Flags /\ r \in [RegNumbers -> Word]

CarryIn == IF flags.c THEN 1 ELSE 0

\* A register or a constant is a word.
LEMMA ValueType ==
  ASSUME TypeOK, NEW operand \in Operand, HasValue(operand)
  PROVE  value_of(operand) \in Word
<1>1. CASE operand \in {"Reg", "RegWBack", "RegShift", "RegDeref"} \X RegNumbers
  BY <1>1 DEF TypeOK, HasValue, value_of
<1>2. CASE operand \in {"Imm12", "Imm32"} \X Word
  BY <1>2 DEF HasValue, value_of
<1> QED
  BY <1>1, <1>2 DEF Operand, HasValue, OffsetKinds

\* eval_alu computes what the processor computes.
LEMMA EvalAlu ==
  ASSUME TypeOK, NEW i \in Insns, i.opcode \in AluOpcodes, is_pc_destination(i.ops[1]),
         ~AluPanics(i)
  PROVE  eval_alu(i) = AluTarget(i) /\ AluTarget(i) \in Word
<1> DEFINE op == i.opcode
           x == value_of(i.ops[2])
           y == value_of(i.ops[3])
           s == y % 256
<1>1. x \in Word /\ (op \notin OneOperand => y \in Word)
  <2>1. i.ops[2] \in Operand /\ i.ops[3] \in Operand
    BY InsnsAssumption DEF WellFormed
  <2> QED
    BY <2>1, ValueType DEF AluPanics
<1>2. CarryIn \in 0 .. 1
  BY DEF CarryIn
<1>3. op \notin OneOperand => s \in Nat
  <2> HIDE DEF y
  <2> QED
    BY <1>1, Words
<1>4. AluTarget(i) = AluResult(op, x, CASE op \in OneOperand -> 0
                                        [] op \in Shifts -> s
                                        [] OTHER -> y, CarryIn)
  BY Zenon DEF AluTarget, CarryIn
<1> HIDE DEF op, x, y, s
<1>5. CASE op \in {"MOV", "ADR", "MVN", "RRX"}
  <2>1. op \in OneOperand /\ op \notin Shifts
    BY <1>5 DEF OneOperand, Shifts
  <2>2. AluTarget(i) = AluResult(op, x, 0, CarryIn)
    BY <1>4, <2>1
  <2>3. CASE op = "MOV"
    <3>1. eval_alu(i) = x
      <4>1. op \in {"MOV", "ADR"}
        BY <2>3
      <4> QED
        BY <2>3, <4>1, Zenon DEF eval_alu, alu, op, x
    <3>2. /\ AluResult("MOV", x, 0, CarryIn) = x
          /\ AluResult("MOV", x, 0, CarryIn) \in Word
      BY <1>1, <1>2, MovesIs
    <3> QED
      BY <2>2, <2>3, <3>1, <3>2, Zenon
  <2>4. CASE op = "ADR"
    <3>1. eval_alu(i) = x
      <4>1. op \in {"MOV", "ADR"}
        BY <2>4
      <4> QED
        BY <2>4, <4>1, Zenon DEF eval_alu, alu, op, x
    <3>2. /\ AluResult("ADR", x, 0, CarryIn) = x
          /\ AluResult("ADR", x, 0, CarryIn) \in Word
      BY <1>1, <1>2, MovesIs
    <3> QED
      BY <2>2, <2>4, <3>1, <3>2, Zenon
  <2>5. CASE op = "MVN"
    <3>1. eval_alu(i) = Modulus - 1 - x
      BY <2>5, Zenon DEF eval_alu, alu, op, x, y, s, CarryIn
    <3>2. /\ AluResult("MVN", x, 0, CarryIn) = Modulus - 1 - x
          /\ Modulus - 1 - x \in Word
      BY <1>1, <1>2, MovesIs, NotWord
    <3> QED
      BY <2>2, <2>5, <3>1, <3>2, Zenon
  <2>6. CASE op = "RRX"
    <3>1. eval_alu(i) = (x \div 2) + (CarryIn * 2 ^ (W - 1))
      BY <2>6, Zenon DEF eval_alu, alu, op, x, y, s, CarryIn
    <3>2. /\ AluResult("RRX", x, 0, CarryIn) = (x \div 2) + (CarryIn * 2 ^ (W - 1))
          /\ AluResult("RRX", x, 0, CarryIn) \in Word
      BY <1>1, <1>2, RrxIs, Zenon
    <3> QED
      BY <2>2, <2>6, <3>1, <3>2, Zenon
  <2> QED
    BY <1>5, <2>3, <2>4, <2>5, <2>6
<1>6. CASE op \in {"LSL", "LSR", "ASR", "ROR"}
  <2>1. op \in Shifts /\ op \notin OneOperand
    BY <1>6 DEF OneOperand, Shifts
  <2>2. AluTarget(i) = AluResult(op, x, s, CarryIn)
    BY <1>4, <2>1
  <2>3. s \in Nat
    BY <1>1, <1>3, <2>1
  <2>4. CASE op = "LSL"
    <3>1. eval_alu(i) = IF s < W THEN (x * 2 ^ s) % Modulus ELSE 0
      BY <2>4, Zenon DEF eval_alu, alu, op, x, y, s, CarryIn
    <3>2. /\ AluResult("LSL", x, s, CarryIn) = IF s < W THEN (x * 2 ^ s) % Modulus ELSE 0
          /\ AluResult("LSL", x, s, CarryIn) \in Word
      BY <1>1, <1>2, <2>3, LslIs, Zenon
    <3> QED
      BY <2>2, <2>4, <3>1, <3>2, Zenon
  <2>5. CASE op = "LSR"
    <3>1. eval_alu(i) = IF s < W THEN x \div 2 ^ s ELSE 0
      BY <2>5, Zenon DEF eval_alu, alu, op, x, y, s, CarryIn
    <3>2. /\ AluResult("LSR", x, s, CarryIn) = IF s < W THEN x \div 2 ^ s ELSE 0
          /\ AluResult("LSR", x, s, CarryIn) \in Word
      BY <1>1, <1>2, <2>3, LsrIs, Zenon
    <3> QED
      BY <2>2, <2>5, <3>1, <3>2, Zenon
  <2>6. CASE op = "ASR"
    <3>1. eval_alu(i) = IF s < W THEN AsrWord(x, s)
                        ELSE IF x >= Modulus \div 2 THEN Modulus - 1 ELSE 0
      BY <2>6, Zenon DEF eval_alu, alu, op, x, y, s, CarryIn
    <3>2. /\ AluResult("ASR", x, s, CarryIn) = IF s < W THEN AsrWord(x, s)
                ELSE IF x >= Modulus \div 2 THEN Modulus - 1 ELSE 0
          /\ AluResult("ASR", x, s, CarryIn) \in Word
      BY <1>1, <1>2, <2>3, AsrIs, Zenon
    <3> QED
      BY <2>2, <2>6, <3>1, <3>2, Zenon
  <2>7. CASE op = "ROR"
    <3>1. eval_alu(i) = RotateRight(x, s % W)
      BY <2>7, Zenon DEF eval_alu, alu, op, x, y, s, CarryIn
    <3>2. /\ AluResult("ROR", x, s, CarryIn) = RotateRight(x, s % W)
          /\ AluResult("ROR", x, s, CarryIn) \in Word
      BY <1>1, <1>2, <2>3, RorIs, Zenon
    <3> QED
      BY <2>2, <2>7, <3>1, <3>2, Zenon
  <2> QED
    BY <1>6, <2>4, <2>5, <2>6, <2>7
<1>7. CASE op \in {"AND", "EOR", "ORR", "BIC"}
  <2>1. op \notin Shifts /\ op \notin OneOperand
    BY <1>7 DEF OneOperand, Shifts
  <2>2. AluTarget(i) = AluResult(op, x, y, CarryIn)
    BY <1>4, <2>1
  <2>3. y \in Word
    BY <1>1, <1>3, <2>1
  <2>4. CASE op = "AND"
    <3>1. eval_alu(i) = BitAnd(x, y)
      BY <2>4, Zenon DEF eval_alu, alu, op, x, y, s, CarryIn
    <3>2. /\ AluResult("AND", x, y, CarryIn) = BitAnd(x, y)
          /\ BitAnd(x, y) \in Word
      BY <1>1, <1>2, <2>3, AndIs, Zenon
    <3> QED
      BY <2>2, <2>4, <3>1, <3>2, Zenon
  <2>5. CASE op = "EOR"
    <3>1. eval_alu(i) = BitXor(x, y)
      BY <2>5, Zenon DEF eval_alu, alu, op, x, y, s, CarryIn
    <3>2. /\ AluResult("EOR", x, y, CarryIn) = BitXor(x, y)
          /\ BitXor(x, y) \in Word
      BY <1>1, <1>2, <2>3, EorIs, Zenon
    <3> QED
      BY <2>2, <2>5, <3>1, <3>2, Zenon
  <2>6. CASE op = "ORR"
    <3>1. eval_alu(i) = BitOr(x, y)
      BY <2>6, Zenon DEF eval_alu, alu, op, x, y, s, CarryIn
    <3>2. /\ AluResult("ORR", x, y, CarryIn) = BitOr(x, y)
          /\ BitOr(x, y) \in Word
      BY <1>1, <1>2, <2>3, OrrIs, Zenon
    <3> QED
      BY <2>2, <2>6, <3>1, <3>2, Zenon
  <2>7. CASE op = "BIC"
    <3>1. eval_alu(i) = BitAnd(x, Modulus - 1 - y)
      BY <2>7, Zenon DEF eval_alu, alu, op, x, y, s, CarryIn
    <3>2. /\ AluResult("BIC", x, y, CarryIn) = BitAnd(x, Modulus - 1 - y)
          /\ BitAnd(x, Modulus - 1 - y) \in Word
      BY <1>1, <1>2, <2>3, BicIs, Zenon
    <3> QED
      BY <2>2, <2>7, <3>1, <3>2, Zenon
  <2> QED
    BY <1>7, <2>4, <2>5, <2>6, <2>7
<1>8. CASE op \in {"ADD", "ADC", "SUB", "RSB", "SBC", "RSC"}
  <2>1. op \notin Shifts /\ op \notin OneOperand
    BY <1>8 DEF OneOperand, Shifts
  <2>2. AluTarget(i) = AluResult(op, x, y, CarryIn)
    BY <1>4, <2>1
  <2>3. y \in Word
    BY <1>1, <1>3, <2>1
  <2>4. CASE op = "ADD"
    <3>1. eval_alu(i) = wrapping_add(x, y)
      BY <2>4, Zenon DEF eval_alu, alu, op, x, y, s, CarryIn
    <3>2. /\ AluResult("ADD", x, y, CarryIn) = wrapping_add(x, y)
          /\ AluResult("ADD", x, y, CarryIn) \in Word
      BY <1>1, <1>2, <2>3, ArithmeticIs, Zenon
    <3> QED
      BY <2>2, <2>4, <3>1, <3>2, Zenon
  <2>5. CASE op = "ADC"
    <3>1. eval_alu(i) = wrapping_add(wrapping_add(x, y), CarryIn)
      BY <2>5, Zenon DEF eval_alu, alu, op, x, y, s, CarryIn
    <3>2. /\ AluResult("ADC", x, y, CarryIn) = wrapping_add(wrapping_add(x, y), CarryIn)
          /\ AluResult("ADC", x, y, CarryIn) \in Word
      BY <1>1, <1>2, <2>3, ArithmeticIs, Zenon
    <3> QED
      BY <2>2, <2>5, <3>1, <3>2, Zenon
  <2>6. CASE op = "SUB"
    <3>1. eval_alu(i) = wrapping_sub(x, y)
      BY <2>6, Zenon DEF eval_alu, alu, op, x, y, s, CarryIn
    <3>2. /\ AluResult("SUB", x, y, CarryIn) = wrapping_sub(x, y)
          /\ AluResult("SUB", x, y, CarryIn) \in Word
      BY <1>1, <1>2, <2>3, ArithmeticIs, Zenon
    <3> QED
      BY <2>2, <2>6, <3>1, <3>2, Zenon
  <2>7. CASE op = "RSB"
    <3>1. eval_alu(i) = wrapping_sub(y, x)
      BY <2>7, Zenon DEF eval_alu, alu, op, x, y, s, CarryIn
    <3>2. /\ AluResult("RSB", x, y, CarryIn) = wrapping_sub(y, x)
          /\ AluResult("RSB", x, y, CarryIn) \in Word
      BY <1>1, <1>2, <2>3, ArithmeticIs, Zenon
    <3> QED
      BY <2>2, <2>7, <3>1, <3>2, Zenon
  <2>8. CASE op = "SBC"
    <3>1. eval_alu(i) = wrapping_sub(wrapping_sub(x, y), 1 - CarryIn)
      BY <2>8, Zenon DEF eval_alu, alu, op, x, y, s, CarryIn
    <3>2. /\ AluResult("SBC", x, y, CarryIn) = wrapping_sub(wrapping_sub(x, y), 1 - CarryIn)
          /\ AluResult("SBC", x, y, CarryIn) \in Word
      BY <1>1, <1>2, <2>3, ArithmeticIs, Zenon
    <3> QED
      BY <2>2, <2>8, <3>1, <3>2, Zenon
  <2>9. CASE op = "RSC"
    <3>1. eval_alu(i) = wrapping_sub(wrapping_sub(y, x), 1 - CarryIn)
      BY <2>9, Zenon DEF eval_alu, alu, op, x, y, s, CarryIn
    <3>2. /\ AluResult("RSC", x, y, CarryIn) = wrapping_sub(wrapping_sub(y, x), 1 - CarryIn)
          /\ AluResult("RSC", x, y, CarryIn) \in Word
      BY <1>1, <1>2, <2>3, ArithmeticIs, Zenon
    <3> QED
      BY <2>2, <2>9, <3>1, <3>2, Zenon
  <2> QED
    BY <1>8, <2>4, <2>5, <2>6, <2>7, <2>8, <2>9
<1> QED
  BY <1>5, <1>6, <1>7, <1>8 DEF AluOpcodes, OneOperand, Shifts, op

\* The conditions, by the tests of flags they are numbered by.
LEMMA ConditionIs ==
  ASSUME NEW cond \in {Conditions[k] : k \in DOMAIN Conditions}, NEW f \in Flags
  PROVE  ConditionPassed(cond, f) = eval_cond(cond, f) /\ eval_cond(cond, f) \in BOOLEAN
<1>1. DOMAIN Conditions = 1 .. 15
  BY DEF Conditions
<1>2. PICK n \in 1 .. 15 : cond = Conditions[n]
  BY <1>1
<1>3. \A j, k \in 1 .. 15 : Conditions[j] = Conditions[k] => j = k
  BY DEF Conditions
<1>4. (CHOOSE k \in DOMAIN Conditions : Conditions[k] = cond) = n
  BY <1>1, <1>2, <1>3
<1> DEFINE number == n - 1
           base   == CASE number \div 2 = 0 -> f.z
                       [] number \div 2 = 1 -> f.c
                       [] number \div 2 = 2 -> f.n
                       [] number \div 2 = 3 -> f.v
                       [] number \div 2 = 4 -> f.c /\ ~f.z
                       [] number \div 2 = 5 -> f.n = f.v
                       [] number \div 2 = 6 -> f.n = f.v /\ ~f.z
                       [] OTHER -> TRUE
<1>5. ConditionPassed(cond, f) = (base = (number % 2 = 0))
  BY <1>4, Zenon DEF ConditionPassed
<1>6. f.n \in BOOLEAN /\ f.z \in BOOLEAN /\ f.c \in BOOLEAN /\ f.v \in BOOLEAN
  BY DEF Flags
<1>7. CASE n = 1
  <2>1. cond = "EQ"
    BY <1>2, <1>7 DEF Conditions
  <2>2. base = (f.z) /\ (number % 2 = 0) = TRUE
    BY <1>7
  <2> QED
    BY <1>5, <1>6, <2>1, <2>2, Zenon DEF eval_cond
<1>8. CASE n = 2
  <2>1. cond = "NE"
    BY <1>2, <1>8 DEF Conditions
  <2>2. base = (f.z) /\ (number % 2 = 0) = FALSE
    BY <1>8
  <2> QED
    BY <1>5, <1>6, <2>1, <2>2, Zenon DEF eval_cond
<1>9. CASE n = 3
  <2>1. cond = "HS"
    BY <1>2, <1>9 DEF Conditions
  <2>2. base = (f.c) /\ (number % 2 = 0) = TRUE
    BY <1>9
  <2> QED
    BY <1>5, <1>6, <2>1, <2>2, Zenon DEF eval_cond
<1>10. CASE n = 4
  <2>1. cond = "LO"
    BY <1>2, <1>10 DEF Conditions
  <2>2. base = (f.c) /\ (number % 2 = 0) = FALSE
    BY <1>10
  <2> QED
    BY <1>5, <1>6, <2>1, <2>2, Zenon DEF eval_cond
<1>11. CASE n = 5
  <2>1. cond = "MI"
    BY <1>2, <1>11 DEF Conditions
  <2>2. base = (f.n) /\ (number % 2 = 0) = TRUE
    BY <1>11
  <2> QED
    BY <1>5, <1>6, <2>1, <2>2, Zenon DEF eval_cond
<1>12. CASE n = 6
  <2>1. cond = "PL"
    BY <1>2, <1>12 DEF Conditions
  <2>2. base = (f.n) /\ (number % 2 = 0) = FALSE
    BY <1>12
  <2> QED
    BY <1>5, <1>6, <2>1, <2>2, Zenon DEF eval_cond
<1>13. CASE n = 7
  <2>1. cond = "VS"
    BY <1>2, <1>13 DEF Conditions
  <2>2. base = (f.v) /\ (number % 2 = 0) = TRUE
    BY <1>13
  <2> QED
    BY <1>5, <1>6, <2>1, <2>2, Zenon DEF eval_cond
<1>14. CASE n = 8
  <2>1. cond = "VC"
    BY <1>2, <1>14 DEF Conditions
  <2>2. base = (f.v) /\ (number % 2 = 0) = FALSE
    BY <1>14
  <2> QED
    BY <1>5, <1>6, <2>1, <2>2, Zenon DEF eval_cond
<1>15. CASE n = 9
  <2>1. cond = "HI"
    BY <1>2, <1>15 DEF Conditions
  <2>2. base = (f.c /\ ~f.z) /\ (number % 2 = 0) = TRUE
    BY <1>15
  <2> QED
    BY <1>5, <1>6, <2>1, <2>2, Zenon DEF eval_cond
<1>16. CASE n = 10
  <2>1. cond = "LS"
    BY <1>2, <1>16 DEF Conditions
  <2>2. base = (f.c /\ ~f.z) /\ (number % 2 = 0) = FALSE
    BY <1>16
  <2> QED
    BY <1>5, <1>6, <2>1, <2>2, Zenon DEF eval_cond
<1>17. CASE n = 11
  <2>1. cond = "GE"
    BY <1>2, <1>17 DEF Conditions
  <2>2. base = (f.n = f.v) /\ (number % 2 = 0) = TRUE
    BY <1>17
  <2> QED
    BY <1>5, <1>6, <2>1, <2>2, Zenon DEF eval_cond
<1>18. CASE n = 12
  <2>1. cond = "LT"
    BY <1>2, <1>18 DEF Conditions
  <2>2. base = (f.n = f.v) /\ (number % 2 = 0) = FALSE
    BY <1>18
  <2> QED
    BY <1>5, <1>6, <2>1, <2>2, Zenon DEF eval_cond
<1>19. CASE n = 13
  <2>1. cond = "GT"
    BY <1>2, <1>19 DEF Conditions
  <2>2. base = (f.n = f.v /\ ~f.z) /\ (number % 2 = 0) = TRUE
    BY <1>19
  <2> QED
    BY <1>5, <1>6, <2>1, <2>2, Zenon DEF eval_cond
<1>20. CASE n = 14
  <2>1. cond = "LE"
    BY <1>2, <1>20 DEF Conditions
  <2>2. base = (f.n = f.v /\ ~f.z) /\ (number % 2 = 0) = FALSE
    BY <1>20
  <2> QED
    BY <1>5, <1>6, <2>1, <2>2, Zenon DEF eval_cond
<1>21. CASE n = 15
  <2>1. cond = "AL"
    BY <1>2, <1>21 DEF Conditions
  <2>2. base = (TRUE) /\ (number % 2 = 0) = TRUE
    BY <1>21
  <2> QED
    BY <1>5, <1>6, <2>1, <2>2, Zenon DEF eval_cond
<1> QED
  BY <1>7, <1>8, <1>9, <1>10, <1>11, <1>12, <1>13, <1>14, <1>15, <1>16, <1>17, <1>18, <1>19,
     <1>20, <1>21

\* The results are told apart by their kind.
LEMMA Kinds ==
  /\ \A pc, thumb : Ok(pc, thumb).kind = "ok"
  /\ \A pc, thumb : Ok(pc, thumb).thumb = thumb /\ Ok(pc, thumb).pc = pc
  /\ \A v : Interwork(v).kind = "ok"
  /\ MemoryRead.kind = "MemoryRead" /\ DecodeError.kind = "DecodeError"
  /\ Panic.kind = "panic" /\ Pending.kind = "pending"
BY DEF Ok, Interwork, MemoryRead, DecodeError, Panic, Pending

\* No read ends in a panic.
LEMMA ReadsDoNotPanic ==
  /\ \A a : ReadTarget(a) # Panic
  /\ \A n, a, thumb : ReadOffset(n, a, thumb) # Panic
  /\ \A i : fallthrough(i) # Panic
<1>1. /\ \A pc, thumb : Ok(pc, thumb) # Panic
      /\ \A v : Interwork(v) # Panic
      /\ MemoryRead # Panic
  BY Kinds
<1>2. \A a : ReadTarget(a) # Panic
  BY <1>1, Zenon DEF ReadTarget, IfRead
<1>3. \A n, a, thumb : ReadOffset(n, a, thumb) # Panic
  BY <1>1, Zenon DEF ReadOffset, IfRead
<1>4. \A i : fallthrough(i) # Panic
  BY <1>1, Zenon DEF fallthrough
<1> QED
  BY <1>2, <1>3, <1>4, Zenon

\* The groups of opcodes are disjoint.
LEMMA Opcodes ==
  /\ {"B", "BL", "BLX", "BX", "BXJ", "CBZ", "CBNZ", "TBB", "TBH"}
       \cap (AluOpcodes \cup Multiple \cup {"LDR", "LDRT"}) = {}
  /\ AluOpcodes \cap (Multiple \cup {"LDR", "LDRT"}) = {}
  /\ Multiple \cap {"LDR", "LDRT"} = {}
BY DEF AluOpcodes, OneOperand, Shifts, Multiple

\* An instruction that does not write the pc is followed by the next one.
LEMMA FallsThrough ==
  ASSUME NEW i, ~WritesPc(i)
  PROVE  Taken(i) \in {Panic, fallthrough(i)}
<1>1. i.opcode \notin {"B", "BL", "BLX", "BX", "BXJ", "TBB", "TBH"}
  BY DEF WritesPc
<1>2. CASE i.opcode \in {"CBZ", "CBNZ"}
  <2>1. Taken(i) = CompareBranch(i)
    BY <1>1, <1>2, Opcodes DEF Taken
  <2> QED
    BY <1>2, <2>1 DEF WritesPc, CompareBranch
<1>3. CASE i.opcode \in AluOpcodes
  <2>1. Taken(i) = Alu(i)
    BY <1>1, <1>3, Opcodes DEF Taken
  <2> QED
    BY <1>3, <2>1 DEF WritesPc, Alu, is_pc_destination
<1>4. CASE i.opcode \in {"LDR", "LDRT"}
  <2>1. Taken(i) = Load(i)
    BY <1>1, <1>4, Opcodes DEF Taken
  <2> QED
    BY <1>4, <2>1 DEF WritesPc, Load, is_pc_destination
<1>5. CASE i.opcode \in Multiple
  <2>1. Taken(i) = LoadMultiple(i)
    BY <1>1, <1>5, Opcodes DEF Taken
  <2> QED
    BY <1>5, <2>1 DEF WritesPc, LoadMultiple
<1>6. CASE i.opcode \notin {"CBZ", "CBNZ"} \cup AluOpcodes \cup {"LDR", "LDRT"} \cup Multiple
  BY <1>1, <1>6 DEF Taken
<1> QED
  BY <1>2, <1>3, <1>4, <1>5, <1>6

\* Alu() panics as AluPanics says and otherwise branches to the result, unless
\* bit 1 of it is set or it changes the instruction set: then it does not.
LEMMA AluIs ==
  ASSUME TypeOK, NEW i \in Insns, i.opcode \in AluOpcodes, is_pc_destination(i.ops[1])
  PROVE  /\ Alu(i) = Panic <=> AluPanics(i)
         /\ ~AluPanics(i) =>
              (~ResultDeviates(i) <=>
                 Alu(i) = IF i.thumb THEN Ok(2 * (AluTarget(i) \div 2), TRUE)
                          ELSE Interwork(AluTarget(i)))
<1>1. CASE AluPanics(i)
  BY <1>1 DEF Alu
<1>2. CASE ~AluPanics(i)
  <2> DEFINE t == AluTarget(i)
  <2>1. eval_alu(i) = t /\ t \in Word
    BY <1>2, EvalAlu
  <2>2. ResultDeviates(i) <=> t % 4 > (IF i.thumb THEN 1 ELSE 0)
    BY DEF ResultDeviates
  <2> HIDE DEF t
  <2>3. Alu(i) = Ok(4 * (t \div 4), i.thumb)
    BY <1>2, <2>1 DEF Alu
  <2>4. Alu(i) # Panic
    BY <2>3, Kinds
  <2>5. t \in Nat
    BY <2>1, Words
  <2>6. CASE i.thumb
    <3>1. t % 4 <= 1 <=> 4 * (t \div 4) = 2 * (t \div 2)
      BY <2>5
    <3>2. i.thumb = TRUE
      BY <2>6, InsnsAssumption DEF WellFormed
    <3>3. ~ResultDeviates(i) <=> 4 * (t \div 4) = 2 * (t \div 2)
      BY <2>2, <2>5, <2>6, <3>1
    <3>4. Ok(4 * (t \div 4), TRUE) = Ok(2 * (t \div 2), TRUE)
            <=> 4 * (t \div 4) = 2 * (t \div 2)
      <4> DEFINE a == 4 * (t \div 4)
                 b == 2 * (t \div 2)
      <4> HIDE DEF a, b
      <4>1. Ok(a, TRUE) = Ok(b, TRUE) <=> a = b
        BY DEF Ok
      <4> QED
        BY <4>1, Zenon DEF a, b
    <3> QED
      BY <2>3, <2>4, <2>6, <3>2, <3>3, <3>4, <1>2 DEF t
  <2>7. CASE ~i.thumb
    <3>1. t % 4 = 0 <=> 4 * (t \div 4) = 2 * (t \div 2) /\ (t % 2 = 1) = FALSE
      BY <2>5
    <3>2. i.thumb = FALSE
      BY <2>7, InsnsAssumption DEF WellFormed
    <3>3. ~ResultDeviates(i) <=> t % 4 = 0
      BY <2>2, <2>5, <2>7
    <3>4. Ok(4 * (t \div 4), FALSE) = Interwork(t)
            <=> 4 * (t \div 4) = 2 * (t \div 2) /\ FALSE = (t % 2 = 1)
      <4> DEFINE a == 4 * (t \div 4)
                 b == 2 * (t \div 2)
                 c == t % 2 = 1
      <4>1. Interwork(t) = Ok(b, c) /\ c \in BOOLEAN
        BY Zenon DEF Interwork
      <4> HIDE DEF a, b, c
      <4>2. Ok(a, FALSE) = Ok(b, c) <=> a = b /\ FALSE = c
        BY <4>1 DEF Ok
      <4> QED
        BY <4>1, <4>2, Zenon DEF a, b, c
    <3> QED
      BY <2>3, <2>4, <2>7, <3>1, <3>2, <3>3, <3>4, <1>2 DEF t
  <2> QED
    BY <2>6, <2>7
<1> QED
  BY <1>1, <1>2

\* An operand with an effective address has a base and, if it is indexed, an
\* offset and a direction.
LEMMA AddressType ==
  ASSUME NEW op \in Operand, HasAddress(op)
  PROVE  /\ op[2] \in RegNumbers
         /\ op[1] = "PreindexOffset" => op[3] \in Word /\ op[4] \in BOOLEAN
<1>1. CASE op \in {"Reg", "RegWBack", "RegShift", "RegDeref"} \X RegNumbers
  BY <1>1 DEF HasAddress
<1>2. CASE op \in {"PreindexOffset"} \X RegNumbers \X Word \X BOOLEAN
  BY <1>2
<1>3. CASE op \in {"PostindexOffset"} \X RegNumbers \X Word
  BY <1>3
<1> QED
  BY <1>1, <1>2, <1>3 DEF Operand, HasAddress, OffsetKinds

\* Load() panics without an effective address, and otherwise loads from the address the
\* processor loads from, unless that is relative to an unaligned pc.
LEMMA LoadIs ==
  ASSUME TypeOK, NEW i \in Insns, i.opcode \in {"LDR", "LDRT"}, is_pc_destination(i.ops[1])
  PROVE  /\ Load(i) = Panic <=> ~HasAddress(i.ops[2])
         /\ Load(i) # Panic /\ ~LiteralDeviates(i)
              => Load(i) = ReadTarget(LoadAddress(i.ops[2]))
<1> DEFINE op == i.ops[2]
<1>1. op \in Operand
  BY InsnsAssumption DEF WellFormed
<1>2. CASE ~HasAddress(op)
  BY <1>2 DEF Load
<1>3. CASE HasAddress(op)
  <2>1. /\ op[1] \in {"RegDeref", "PreindexOffset", "PostindexOffset"} /\ op[2] \in RegNumbers
        /\ op[1] = "PreindexOffset" => op[3] \in Word /\ op[4] \in BOOLEAN
    BY <1>1, <1>3, AddressType DEF HasAddress
  <2>2. Load(i) = ReadTarget(effective_address(op))
    BY <1>3 DEF Load
  <2>3. Load(i) # Panic
    BY <2>2, ReadsDoNotPanic
  <2>4. ASSUME ~LiteralDeviates(i) PROVE effective_address(op) = LoadAddress(op)
    <3> DEFINE base == r[op[2]]
    <3>1. base \in Word
      BY <2>1 DEF TypeOK
    <3>3. op[2] = 15 => 4 * (r[15] \div 4) = base
      <4> SUFFICES ASSUME op[2] = 15 PROVE 4 * (r[15] \div 4) = r[15]
        BY Zenon
      <4>1. r[15] % 4 = 0
        BY <2>4, Zenon DEF LiteralDeviates
      <4>2. r[15] \in Nat
        BY <3>1, Words
      <4> QED
        BY <4>1, <4>2
    <3> DEFINE address == IF op[2] = 15 THEN 4 * (r[15] \div 4) ELSE r[op[2]]
    <3>4. address = base
      BY <3>3, Zenon
    <3>5. LoadAddress(op) = CASE op[1] \in {"RegDeref", "PostindexOffset"} -> address
              [] op[1] = "PreindexOffset" -> (address + (IF op[4] THEN op[3] ELSE -op[3])) % Modulus
      BY Zenon DEF LoadAddress
    <3>6. effective_address(op) = IF op[1] # "PreindexOffset" THEN base
                                  ELSE IF op[4] THEN wrapping_add(base, op[3])
                                  ELSE wrapping_sub(base, op[3])
      BY Zenon DEF effective_address
    <3> HIDE DEF address, base, op
    <3>7. CASE op[1] # "PreindexOffset"
      BY <2>1, <3>4, <3>5, <3>6, <3>7
    <3>8. CASE op[1] = "PreindexOffset"
      <4>1. base - op[3] = base + (-op[3])
        BY <2>1, <3>1, <3>8, Words
      <4>2. LoadAddress(op) = (base + (IF op[4] THEN op[3] ELSE -op[3])) % Modulus
        BY <3>4, <3>5, <3>8
      <4> QED
        BY <2>1, <3>6, <3>8, <4>1, <4>2 DEF wrapping_add, wrapping_sub
    <3> QED
      BY <3>7, <3>8
  <2> QED
    BY <1>3, <2>2, <2>3, <2>4
<1> QED
  BY <1>2, <1>3

\* An operand that names a register by itself.
LEMMA RegType ==
  ASSUME NEW op \in Operand, op[1] \in {"Reg", "RegWBack"}
  PROVE  op[2] \in RegNumbers
<1>1. CASE op \in {"Reg", "RegWBack", "RegShift", "RegDeref"} \X RegNumbers
  BY <1>1
<1> QED
  BY <1>1 DEF Operand, OffsetKinds

\* An operand that lists registers.
LEMMA ListType ==
  ASSUME NEW op \in Operand, op[1] = "RegList"
  PROVE  op[2] \subseteq RegNumbers
<1>1. CASE op \in {"RegList"} \X SUBSET RegNumbers
  BY <1>1
<1> QED
  BY <1>1 DEF Operand, OffsetKinds

\* The operands LoadMultiple() has an arm for.
ListForm(i) == i.ops[2][1] = "RegList" /\ (NamesBase(i) \/ i.opcode = "POP")

\* LoadMultiple() finds the pc in the highest word of the list.
LEMMA MultipleIs ==
  ASSUME TypeOK, NEW i \in Insns, i.opcode \in Multiple
  PROVE  /\ LoadMultiple(i) = Panic <=> ~ListForm(i)
         /\ 15 \in i.ops[2][2] /\ LoadMultiple(i) # Panic
              => LoadMultiple(i) = ReadTarget(LoadMultipleAddress(i))
<1> DEFINE list == i.ops[2][2]
           reg  == BaseReg(i)
           n    == Cardinality(list)
           m    == Cardinality(list \ {15})
           base == r[reg]
<1>1. LoadMultiple(i) = IF ~ListForm(i) THEN Panic
                        ELSE IF 15 \notin list THEN fallthrough(i)
                        ELSE ReadTarget(pc_addr(i.opcode, base, m, n))
  BY Zenon DEF LoadMultiple, ListForm
<1>2. ASSUME 15 \in list, ListForm(i) PROVE pc_addr(i.opcode, base, m, n) = LoadMultipleAddress(i)
  <2>1. n \in Nat /\ m = n - 1
    <3>1. IsFiniteSet(RegNumbers) /\ list \subseteq RegNumbers
      <4>1. IsFiniteSet(RegNumbers)
        <5>1. 0 \in Int /\ 15 \in Int
          OBVIOUS
        <5> QED
          BY <5>1, FS_Interval, Zenon DEF RegNumbers
      <4>2. list \subseteq RegNumbers
        BY <1>2, InsnsAssumption, ListType DEF WellFormed, ListForm
      <4> QED
        BY <4>1, <4>2
    <3>2. IsFiniteSet(list)
      BY <3>1, FS_Subset
    <3> HIDE DEF list
    <3> QED
      BY <1>2, <3>2, FS_RemoveElement, FS_CardinalityType
  <2>2. reg \in RegNumbers
    <3>1. i.ops[1] \in Operand
      BY InsnsAssumption DEF WellFormed
    <3>2. NamesBase(i) => i.ops[1][2] \in RegNumbers
      BY <3>1, RegType DEF NamesBase
    <3> QED
      BY <3>2 DEF BaseReg, RegNumbers
  <2>3. base \in Int
    BY <2>2, Words DEF TypeOK
  <2> DEFINE start == CASE i.opcode \in {"LDMIA", "POP"} -> base
                        [] i.opcode = "LDMIB" -> base + 4
                        [] i.opcode = "LDMDA" -> base - 4 * n + 4
                        [] i.opcode = "LDMDB" -> base - 4 * n
  <2>4. LoadMultipleAddress(i) = (start + 4 * (n - 1)) % Modulus
    BY Zenon DEF LoadMultipleAddress
  <2> DEFINE op == i.opcode
  <2>5. op \in {"LDMIA", "LDMIB", "LDMDA", "LDMDB", "POP"}
    BY DEF Multiple
  <2> HIDE DEF list, reg, n, m, base
  <2>6. CASE op \in {"LDMIA", "POP"}
    <3>1. start = base
      BY <2>6, Zenon
    <3>2. pc_addr(op, base, m, n) = (base + m * 4) % Modulus
      BY <2>6, Zenon DEF pc_addr, wrapping_add
    <3> HIDE DEF start, op
    <3>3. base + m * 4 = start + 4 * (n - 1)
      BY <2>1, <2>3, <3>1
    <3> QED
      BY <2>4, <3>2, <3>3, Zenon DEF op
  <2>7. CASE op = "LDMIB"
    <3>1. start = base + 4
      BY <2>7
    <3>2. pc_addr(op, base, m, n) = (base + (m + 1) * 4) % Modulus
      BY <2>7 DEF pc_addr, wrapping_add
    <3> HIDE DEF start, op
    <3>3. base + (m + 1) * 4 = start + 4 * (n - 1)
      BY <2>1, <2>3, <3>1
    <3> QED
      BY <2>4, <3>2, <3>3, Zenon DEF op
  <2>8. CASE op = "LDMDA"
    <3>1. start = base - 4 * n + 4
      BY <2>8
    <3>2. pc_addr(op, base, m, n) = (base - (n - 1 - m) * 4) % Modulus
      BY <2>8 DEF pc_addr, wrapping_sub
    <3> HIDE DEF start, op
    <3>3. base - (n - 1 - m) * 4 = start + 4 * (n - 1)
      BY <2>1, <2>3, <3>1
    <3> QED
      BY <2>4, <3>2, <3>3, Zenon DEF op
  <2>9. CASE op = "LDMDB"
    <3>1. start = base - 4 * n
      BY <2>9
    <3>2. pc_addr(op, base, m, n) = (base - (n - m) * 4) % Modulus
      BY <2>9 DEF pc_addr, wrapping_sub
    <3> HIDE DEF start, op
    <3>3. base - (n - m) * 4 = start + 4 * (n - 1)
      BY <2>1, <2>3, <3>1
    <3> QED
      BY <2>4, <3>2, <3>3, Zenon DEF op
  <2> QED
    BY <2>5, <2>6, <2>7, <2>8, <2>9
<1> HIDE DEF list, m, n, base
<1>3. LoadMultiple(i) = Panic <=> ~ListForm(i)
  BY <1>1, ReadsDoNotPanic
<1> QED
  BY <1>1, <1>2, <1>3 DEF list

\* The two forms of a table's operands name registers.
LEMMA TableType ==
  ASSUME TypeOK, NEW i \in Insns, <<i.ops[1][1], i.ops[2][1]>> \in TableForms
  PROVE  TableBase(i) \in Word /\ TableIndex(i) \in Word
<1>1. i.ops[1] \in Operand /\ i.ops[2] \in Operand
  BY InsnsAssumption DEF WellFormed
<1>2. CASE i.ops[1][1] = "Reg" /\ i.ops[2][1] = "Reg"
  <2>1. i.ops[1][2] \in RegNumbers /\ i.ops[2][2] \in RegNumbers
    BY <1>1, <1>2, RegType
  <2> QED
    BY <1>2, <2>1 DEF TypeOK, TableBase, TableIndex
<1>3. CASE i.ops[1][1] = "PreindexReg"
  <2>1. i.ops[1][2] \in RegNumbers /\ i.ops[1][3] \in RegNumbers
    <3>1. CASE i.ops[1] \in {"PreindexReg"} \X RegNumbers \X RegNumbers
      BY <3>1
    <3> QED
      BY <1>1, <1>3, <3>1 DEF Operand, OffsetKinds
  <2> QED
    BY <1>3, <2>1 DEF TypeOK, TableBase, TableIndex
<1> QED
  BY <1>2, <1>3 DEF TableForms

\* TableBranch() looks where the processor looks, unless TBH has an index.
LEMMA TableIs ==
  ASSUME TypeOK, NEW i \in Insns, i.opcode \in {"TBB", "TBH"}
  PROVE  /\ TableBranch(i) = Panic <=> <<i.ops[1][1], i.ops[2][1]>> \notin TableForms
         /\ TableBranch(i) # Panic /\ ~TableDeviates(i) =>
              TableBranch(i) = IF i.opcode = "TBB"
                THEN ReadOffset(1, (TableBase(i) + TableIndex(i)) % Modulus, i.thumb)
                ELSE ReadOffset(2, (TableBase(i) + 2 * TableIndex(i)) % Modulus, i.thumb)
<1> DEFINE formed == <<i.ops[1][1], i.ops[2][1]>> \in TableForms
           base  == TableBase(i)
           index == TableIndex(i)
<1>1. TableBranch(i) = IF ~formed THEN Panic
                       ELSE IF i.opcode = "TBB"
                       THEN ReadOffset(1, (base + index) % Modulus, i.thumb)
                       ELSE ReadOffset(2, (base + 4 * index) % Modulus, i.thumb)
  BY Zenon DEF TableBranch, wrapping_add
<1>2. TableBranch(i) = Panic <=> ~formed
  BY <1>1, ReadsDoNotPanic, Zenon
<1>3. formed => base \in Int /\ index \in Int
  BY TableType, Words
<1>4. i.opcode = "TBH" /\ ~TableDeviates(i) => index = 0
  BY Zenon DEF TableDeviates
<1> HIDE DEF base, index, formed
<1>5. formed /\ index = 0 => base + 4 * index = base + 2 * index
  BY <1>3
<1>6. i.opcode = "TBB" \/ (i.opcode = "TBH" /\ i.opcode # "TBB")
  OBVIOUS
<1> QED
  BY <1>1, <1>2, <1>4, <1>5, <1>6, Zenon DEF base, index, formed

\* What next_pc returns depends on the instruction, the registers and the
\* flags only.
LEMMA NextPcStays ==
  ASSUME UNCHANGED <<insn, r, flags>>
  PROVE  next_pc(insn)' = next_pc(insn)
<1>1. \A o : value_of(o)' = value_of(o)
  BY DEF value_of
<1>2. \A i : eval_alu(i)' = eval_alu(i)
  <2> SUFFICES ASSUME NEW i PROVE eval_alu(i)' = eval_alu(i)
    OBVIOUS
  <2>1. /\ value_of(i.ops[2])' = value_of(i.ops[2])
        /\ value_of(i.ops[3])' = value_of(i.ops[3])
    BY <1>1, Zenon
  <2>2. flags.c' = flags.c
    OBVIOUS
  <2> QED
    BY <2>1, <2>2, Zenon DEF eval_alu
<1>3. \A i : addr(i)' = addr(i)
  BY DEF addr
<1>4. \A i : fallthrough(i)' = fallthrough(i)
  BY <1>3, Zenon DEF fallthrough
<1>5. \A i : Alu(i)' = Alu(i)
  BY <1>2, <1>4, Zenon DEF Alu
<1>6. \A o : effective_address(o)' = effective_address(o)
  BY DEF effective_address
<1>7. \A i : Load(i)' = Load(i)
  BY <1>4, <1>6, Zenon DEF Load
<1>8. \A i : LoadMultiple(i)' = LoadMultiple(i)
  BY <1>4, Zenon DEF LoadMultiple
<1>9. \A n, a, thumb : ReadOffset(n, a, thumb)' = ReadOffset(n, a, thumb)
  BY Zenon DEF ReadOffset
<1>10. \A i : TableBranch(i)' = TableBranch(i)
  <2>1. \A i : TableBase(i)' = TableBase(i) /\ TableIndex(i)' = TableIndex(i)
    BY Zenon DEF TableBase, TableIndex
  <2> QED
    BY <1>9, <2>1, Zenon DEF TableBranch
<1>11. \A i : CompareBranch(i)' = CompareBranch(i)
  BY <1>4, Zenon DEF CompareBranch
<1>12. \A i : BranchReg(i)' = BranchReg(i)
  BY Zenon DEF BranchReg
<1>13. \A cond, offset : thumb_branch_target(cond, offset)' = thumb_branch_target(cond, offset)
  BY Zenon DEF thumb_branch_target
<1>14. \A i : BranchOffset(i)' = BranchOffset(i)
  BY <1>13, Zenon DEF BranchOffset
<1>15. \A i : Taken(i)' = Taken(i)
  <2>1. \A i : Branch(i)' = Branch(i)
    BY <1>12, <1>14, Zenon DEF Branch
  <2> QED
    BY <1>4, <1>5, <1>7, <1>8, <1>10, <1>11, <2>1, Zenon DEF Taken
<1>16. \A i : next_pc(i)' = next_pc(i)
  BY <1>3, <1>4, <1>15, Zenon DEF next_pc
<1> QED
  BY <1>16, Zenon

-----------------------------------------------------------------------------
(***************************************************************************)
(* next_pc and the processor.                                              *)
(***************************************************************************)

\* The next instruction is the one after this one, for both.
LEMMA FallthroughIs ==
  ASSUME NEW i, ~ConditionPassed(i.cond, flags) \/ ~WritesPc(i)
  PROVE  fallthrough(i) = Architecture(i)
BY Zenon DEF Architecture, fallthrough, Length, wrapping_add

\* What is matched for each opcode.
LEMMA TakenBy ==
  ASSUME NEW i
  PROVE  /\ i.opcode \in {"B", "BL", "BLX", "BX", "BXJ"} => Taken(i) = Branch(i)
         /\ i.opcode \in {"CBZ", "CBNZ"} => Taken(i) = CompareBranch(i)
         /\ i.opcode \in AluOpcodes => Taken(i) = Alu(i)
         /\ i.opcode \in {"LDR", "LDRT"} => Taken(i) = Load(i)
         /\ i.opcode \in Multiple => Taken(i) = LoadMultiple(i)
         /\ i.opcode \in {"TBB", "TBH"} => Taken(i) = TableBranch(i)
<1> DEFINE op == i.opcode
<1>1. CASE op \in {"B", "BL", "BLX", "BX", "BXJ"}
  <2>1. /\ op \notin {"CBZ", "CBNZ"} /\ op \notin {"LDR", "LDRT"} /\ op \notin {"TBB", "TBH"}
        /\ op \notin AluOpcodes /\ op \notin Multiple
    BY <1>1, Opcodes
  <2> QED
    BY <1>1, <2>1, Zenon DEF Taken
<1>2. CASE op \in {"CBZ", "CBNZ"}
  <2>1. /\ op \notin {"B", "BL", "BLX", "BX", "BXJ"} /\ op \notin {"LDR", "LDRT"}
        /\ op \notin {"TBB", "TBH"} /\ op \notin AluOpcodes /\ op \notin Multiple
    BY <1>2, Opcodes
  <2> QED
    BY <1>2, <2>1, Zenon DEF Taken
<1>3. CASE op \in AluOpcodes
  <2>1. /\ op \notin {"B", "BL", "BLX", "BX", "BXJ"} /\ op \notin {"CBZ", "CBNZ"}
        /\ op \notin {"LDR", "LDRT"} /\ op \notin {"TBB", "TBH"} /\ op \notin Multiple
    BY <1>3, Opcodes
  <2> QED
    BY <1>3, <2>1, Zenon DEF Taken
<1>4. CASE op \in {"LDR", "LDRT"}
  <2>1. /\ op \notin {"B", "BL", "BLX", "BX", "BXJ"} /\ op \notin {"CBZ", "CBNZ"}
        /\ op \notin {"TBB", "TBH"} /\ op \notin AluOpcodes /\ op \notin Multiple
    BY <1>4, Opcodes
  <2> QED
    BY <1>4, <2>1, Zenon DEF Taken
<1>5. CASE op \in Multiple
  <2>1. /\ op \notin {"B", "BL", "BLX", "BX", "BXJ"} /\ op \notin {"CBZ", "CBNZ"}
        /\ op \notin {"LDR", "LDRT"} /\ op \notin {"TBB", "TBH"} /\ op \notin AluOpcodes
    BY <1>5, Opcodes
  <2> QED
    BY <1>5, <2>1, Zenon DEF Taken
<1>6. CASE op \in {"TBB", "TBH"}
  <2>1. /\ op \notin {"B", "BL", "BLX", "BX", "BXJ"} /\ op \notin {"CBZ", "CBNZ"}
        /\ op \notin {"LDR", "LDRT"} /\ op \notin AluOpcodes /\ op \notin Multiple
    BY <1>6, Opcodes
  <2> QED
    BY <1>6, <2>1, Zenon DEF Taken
<1> QED
  BY <1>1, <1>2, <1>3, <1>4, <1>5, <1>6

\* What the processor does with each opcode.
LEMMA ArchitectureBy ==
  ASSUME NEW i, ConditionPassed(i.cond, flags), WritesPc(i)
  PROVE  /\ i.opcode \in {"BX", "BXJ", "BLX"} => Architecture(i) = Interwork(r[i.ops[1][2]])
         /\ i.opcode \in {"CBZ", "CBNZ"} =>
              Architecture(i) = Ok((r[15] + i.ops[2][2]) % Modulus, TRUE)
         /\ i.opcode \in AluOpcodes =>
              Architecture(i) = IF i.thumb THEN Ok(2 * (AluTarget(i) \div 2), TRUE)
                                ELSE Interwork(AluTarget(i))
         /\ i.opcode \in {"LDR", "LDRT"} =>
              Architecture(i) = ReadTarget(LoadAddress(i.ops[2]))
         /\ i.opcode \in Multiple => Architecture(i) = ReadTarget(LoadMultipleAddress(i))
         /\ i.opcode \in {"TBB", "TBH"} =>
              Architecture(i) = IF i.opcode = "TBB"
                THEN ReadOffset(1, (TableBase(i) + TableIndex(i)) % Modulus, i.thumb)
                ELSE ReadOffset(2, (TableBase(i) + 2 * TableIndex(i)) % Modulus, i.thumb)
<1> DEFINE op == i.opcode
<1>1. CASE op \in {"BX", "BXJ", "BLX"}
  <2>1. /\ op \notin {"CBZ", "CBNZ"} /\ op \notin {"LDR", "LDRT"} /\ op \notin {"TBB", "TBH"}
        /\ op \notin AluOpcodes /\ op \notin Multiple /\ op # "TBB" /\ op # "TBH"
    BY <1>1, Opcodes
  <2> QED
    BY <1>1, <2>1, Zenon DEF Architecture
<1>2. CASE op \in {"CBZ", "CBNZ"}
  <2>1. /\ op \notin {"BX", "BXJ", "BLX"} /\ op \notin {"LDR", "LDRT"} /\ op # "TBB" /\ op # "TBH"
        /\ op \notin {"TBB", "TBH"} /\ op \notin AluOpcodes /\ op \notin Multiple
    BY <1>2, Opcodes
  <2> QED
    BY <1>2, <2>1, Zenon DEF Architecture
<1>3. CASE op \in AluOpcodes
  <2>1. /\ op \notin {"BX", "BXJ", "BLX"} /\ op \notin {"CBZ", "CBNZ"} /\ op # "TBB" /\ op # "TBH"
        /\ op \notin {"LDR", "LDRT"} /\ op \notin {"TBB", "TBH"} /\ op \notin Multiple
    BY <1>3, Opcodes
  <2> QED
    BY <1>3, <2>1, Zenon DEF Architecture
<1>4. CASE op \in {"LDR", "LDRT"}
  <2>1. /\ op \notin {"BX", "BXJ", "BLX"} /\ op \notin {"CBZ", "CBNZ"} /\ op # "TBB" /\ op # "TBH"
        /\ op \notin {"TBB", "TBH"} /\ op \notin AluOpcodes /\ op \notin Multiple
    BY <1>4, Opcodes
  <2> QED
    BY <1>4, <2>1, Zenon DEF Architecture, ReadTarget, IfRead, read
<1>5. CASE op \in Multiple
  <2>1. /\ op \notin {"BX", "BXJ", "BLX"} /\ op \notin {"CBZ", "CBNZ"} /\ op # "TBB" /\ op # "TBH"
        /\ op \notin {"LDR", "LDRT"} /\ op \notin {"TBB", "TBH"} /\ op \notin AluOpcodes
    BY <1>5, Opcodes
  <2> QED
    BY <1>5, <2>1, Zenon DEF Architecture, ReadTarget, IfRead, read
<1>6. CASE op \in {"TBB", "TBH"}
  <2>1. /\ op \notin {"BX", "BXJ", "BLX"} /\ op \notin {"CBZ", "CBNZ"}
        /\ op \notin {"LDR", "LDRT"} /\ op \notin AluOpcodes /\ op \notin Multiple
    BY <1>6, Opcodes
  <2>2. op = "TBB" \/ (op = "TBH" /\ op # "TBB")
    BY <1>6
  <2>3. CASE op = "TBB"
    BY <2>1, <2>3, Zenon DEF Architecture, ReadOffset, IfRead, read, wrapping_add
  <2>4. CASE op = "TBH" /\ op # "TBB"
    BY <2>1, <2>4, Zenon DEF Architecture, ReadOffset, IfRead, read, wrapping_add
  <2> QED
    BY <1>1, <1>2, <1>3, <1>4, <1>5, <2>1, <2>2, <2>3, <2>4
<1> QED
  BY <1>1, <1>2, <1>3, <1>4, <1>5, <1>6

\* The remainder of an even number by the number of words is even.
LEMMA EvenWord ==
  ASSUME NEW x \in Int
  PROVE  (x % Modulus) % 2 = x % 2
<1> DEFINE h == 2 ^ (W - 1)
           q == x \div Modulus
           t == x % Modulus
<1>1. h \in Nat /\ Modulus = 2 * h /\ Modulus \in Nat \ {0}
  <2>1. W - 1 \in Nat /\ (W - 1) + 1 = W
    BY WAssumption
  <2>2. h \in Nat /\ 2 ^ ((W - 1) + 1) = 2 * h
    BY <2>1, PowerNext
  <2> QED
    BY <2>1, <2>2, PowerType, WAssumption DEF Modulus
<1>2. q \in Int /\ t \in 0 .. Modulus - 1 /\ x = (q * Modulus) + t
  BY <1>1, Division
<1> HIDE DEF h, q, t
<1>3. t \in Int
  BY <1>1, <1>2
<1>4. q * Modulus = (q * h) * 2 /\ q * h \in Int
  BY <1>1, <1>2
<1> DEFINE k == q * h
<1>5. k \in Int /\ x = (k * 2) + t
  BY <1>2, <1>4
<1> HIDE DEF k
<1>6. x % 2 = t % 2
  BY <1>3, <1>5
<1> QED
  BY <1>6 DEF t

\* The pc of the thread is even.
EvenPc == r[15] % 2 = 0

\* A compare-and-branch that is taken is never where the processor goes: an odd
\* immediate is not an even target, an even one ends in ARM.
LEMMA CompareIs ==
  ASSUME TypeOK, EvenPc, NEW i \in Insns, i.opcode \in {"CBZ", "CBNZ"}, WritesPc(i),
         CompareBranch(i) # Panic
  PROVE  CompareBranch(i) # Ok((r[15] + i.ops[2][2]) % Modulus, TRUE)
<1> DEFINE v == i.ops[2][2]
<1>1. CompareBranch(i) = Interwork(v) /\ i.ops[2][1] = "Imm32"
  <2>1. i.ops[2][1] = "Imm32"
    BY Zenon DEF CompareBranch
  <2>2. (r[i.ops[1][2]] = 0) = (i.opcode = "CBZ")
    BY Opcodes DEF WritesPc
  <2> QED
    BY <2>1, <2>2, Zenon DEF CompareBranch
<1>2. v \in Word
  <2>1. i.ops[2] \in Operand
    BY InsnsAssumption DEF WellFormed
  <2>2. CASE i.ops[2] \in {"Imm12", "Imm32"} \X Word
    BY <2>2
  <2> QED
    BY <1>1, <2>1, <2>2 DEF Operand, OffsetKinds
<1>3. v \in Nat /\ r[15] \in Nat
  BY <1>2, Words DEF TypeOK, RegNumbers
<1> DEFINE target == (r[15] + v) % Modulus
<1>4. target % 2 = (r[15] + v) % 2
  BY <1>3, EvenWord
<1> HIDE DEF v, target
<1>5. (r[15] + v) % 2 = v % 2
  BY <1>3 DEF EvenPc
<1>6. 2 * (v \div 2) = target /\ v % 2 = 1 => FALSE
  <2>1. (2 * (v \div 2)) % 2 = 0
    BY <1>3
  <2> QED
    BY <1>4, <1>5, <2>1
<1>7. Interwork(v) # Ok(target, TRUE)
  <2>1. Interwork(v) = Ok(2 * (v \div 2), v % 2 = 1)
    BY Zenon DEF Interwork
  <2>2. Interwork(v) = Ok(target, TRUE) => 2 * (v \div 2) = target /\ (v % 2 = 1) = TRUE
    <3> DEFINE a == 2 * (v \div 2)
               c == v % 2 = 1
    <3>1. c \in BOOLEAN
      OBVIOUS
    <3> HIDE DEF a, c
    <3>2. Ok(a, c) = Ok(target, TRUE) => a = target /\ c = TRUE
      BY <3>1 DEF Ok
    <3> QED
      BY <2>1, <3>2, Zenon DEF a, c
  <2> QED
    BY <1>6, <2>2
<1> QED
  BY <1>1, <1>7 DEF v, target

\* A condition that holds, and an instruction that writes the pc.
LEMMA TakenIs ==
  ASSUME TypeOK, EvenPc, NEW i \in Insns, ConditionPassed(i.cond, flags), WritesPc(i),
         ~OffsetBranch(i), Taken(i) # Panic
  PROVE  /\ ~Deviates(i) => Taken(i) = Architecture(i)
         /\ ResultDeviates(i) \/ CompareDeviates(i) => Taken(i) # Architecture(i)
<1> DEFINE op == i.opcode
<1>1. CASE op \in {"B", "BL", "BLX", "BX", "BXJ"}
  <2>1. Taken(i) = Branch(i)
    BY <1>1, TakenBy
  <2>2. Branch(i) = BranchReg(i) /\ op \in {"BLX", "BX", "BXJ"}
    BY <2>1 DEF Branch, OffsetBranch
  <2>3. Architecture(i) = Interwork(r[i.ops[1][2]])
    BY <2>2, ArchitectureBy
  <2>4. ~ResultDeviates(i) /\ ~CompareDeviates(i)
    BY <1>1, Opcodes DEF ResultDeviates, CompareDeviates
  <2> QED
    BY <2>1, <2>2, <2>3, <2>4 DEF BranchReg
<1>2. CASE op \in {"CBZ", "CBNZ"}
  <2>1. Taken(i) = CompareBranch(i)
    BY <1>2, TakenBy
  <2>2. Taken(i) # Architecture(i)
    BY <1>2, <2>1, CompareIs, ArchitectureBy
  <2> QED
    BY <1>2, <2>2 DEF Deviates, CompareDeviates
<1>3. CASE op \in AluOpcodes
  <2>1. is_pc_destination(i.ops[1])
    <3>1. op \notin Multiple /\ op \notin {"B", "BL", "BLX", "BX", "BXJ", "CBZ", "CBNZ", "TBB", "TBH"}
      BY <1>3, Opcodes
    <3> QED
      BY <3>1 DEF WritesPc, is_pc_destination
  <2>2. Taken(i) = Alu(i)
    BY <1>3, TakenBy
  <2>3. ~ResultDeviates(i) <=> Alu(i) = Architecture(i)
    <3>1. Architecture(i) = IF i.thumb THEN Ok(2 * (AluTarget(i) \div 2), TRUE)
                            ELSE Interwork(AluTarget(i))
      BY <1>3, ArchitectureBy
    <3> QED
      BY <1>3, <2>1, <2>2, <3>1, AluIs
  <2>4. ~CompareDeviates(i)
    BY <1>3, Opcodes DEF CompareDeviates
  <2> QED
    BY <2>2, <2>3, <2>4 DEF Deviates
<1>4. CASE op \in {"LDR", "LDRT"}
  <2>1. op \notin AluOpcodes /\ op \notin Multiple
        /\ op \notin {"B", "BL", "BLX", "BX", "BXJ", "CBZ", "CBNZ", "TBB", "TBH"}
    BY <1>4, Opcodes
  <2>2. is_pc_destination(i.ops[1])
    BY <1>4, <2>1 DEF WritesPc, is_pc_destination
  <2>3. Taken(i) = Load(i)
    BY <1>4, TakenBy
  <2>4. ~LiteralDeviates(i) => Load(i) = ReadTarget(LoadAddress(i.ops[2]))
    BY <1>4, <2>2, <2>3, LoadIs
  <2>5. Architecture(i) = ReadTarget(LoadAddress(i.ops[2]))
    BY <1>4, ArchitectureBy
  <2>6. ~ResultDeviates(i) /\ ~CompareDeviates(i)
    BY <2>1 DEF ResultDeviates, CompareDeviates
  <2> QED
    BY <2>3, <2>4, <2>5, <2>6 DEF Deviates
<1>5. CASE op \in Multiple
  <2>1. op \notin AluOpcodes /\ op \notin {"LDR", "LDRT"}
        /\ op \notin {"B", "BL", "BLX", "BX", "BXJ", "CBZ", "CBNZ", "TBB", "TBH"}
    BY <1>5, Opcodes
  <2>2. 15 \in i.ops[2][2]
    BY <2>1 DEF WritesPc
  <2>3. Taken(i) = LoadMultiple(i)
    BY <1>5, TakenBy
  <2>4. LoadMultiple(i) = ReadTarget(LoadMultipleAddress(i))
    BY <1>5, <2>2, <2>3, MultipleIs
  <2>5. Architecture(i) = ReadTarget(LoadMultipleAddress(i))
    BY <1>5, ArchitectureBy
  <2>6. ~ResultDeviates(i) /\ ~CompareDeviates(i)
    BY <2>1 DEF ResultDeviates, CompareDeviates
  <2> QED
    BY <2>3, <2>4, <2>5, <2>6
<1>6. CASE op \in {"TBB", "TBH"}
  <2>1. Taken(i) = TableBranch(i)
    BY <1>6, TakenBy
  <2>2. ~TableDeviates(i) => TableBranch(i) = Architecture(i)
    BY <1>6, <2>1, TableIs, ArchitectureBy
  <2>3. ~ResultDeviates(i) /\ ~CompareDeviates(i)
    BY <1>6, Opcodes DEF ResultDeviates, CompareDeviates
  <2> QED
    BY <2>1, <2>2, <2>3 DEF Deviates
<1> QED
  BY <1>1, <1>2, <1>3, <1>4, <1>5, <1>6 DEF WritesPc

\* A branch to an offset ends up in the instruction set its opcode names.
LEMMA OffsetIs ==
  ASSUME NEW i \in Insns, OffsetBranch(i), OwnOffset(i)
  PROVE  Taken(i).thumb = (i.thumb # (i.opcode = "BLX"))
<1>2. i.ops[1][1] = (IF i.thumb THEN "BranchThumbOffset" ELSE "BranchOffset") /\ i.thumb \in BOOLEAN
  BY InsnsAssumption DEF WellFormed, OwnOffset
<1>3. Taken(i) = BranchOffset(i)
  BY TakenBy DEF OffsetBranch, Branch
<1> DEFINE arm == i.ops[1][1] = "BranchOffset"
<1>4. arm = ~i.thumb
  BY <1>2
<1>5. BranchOffset(i).thumb = IF i.opcode = "BLX" THEN arm ELSE ~arm
  <2>1. CASE i.opcode = "BLX"
    BY <2>1 DEF BranchOffset, Ok
  <2>2. CASE i.opcode # "BLX"
    <3>1. CASE arm
      <4>1. BranchOffset(i).thumb = FALSE
        BY <2>2, <3>1 DEF BranchOffset, Ok
      <4> QED
        BY <2>2, <3>1, <4>1
    <3>2. CASE ~arm
      <4>1. BranchOffset(i).thumb = TRUE
        BY <2>2, <3>2 DEF BranchOffset, Ok
      <4> QED
        BY <2>2, <3>2, <4>1
    <3> QED
      BY <3>1, <3>2
  <2> QED
    BY <2>1, <2>2
<1> QED
  BY <1>2, <1>3, <1>4, <1>5

\* The group of the opcode decides whether there is a panic.
LEMMA PanicIs ==
  ASSUME TypeOK, NEW i \in Insns
  PROVE  Taken(i) = Panic <=> ShiftsToPc(i) \/ ~Expected(i)
<1> DEFINE op == i.opcode
           kind(k) == i.ops[k][1]
<1>1. CASE op \in {"B", "BL", "BLX", "BX", "BXJ"}
  <2>1. Taken(i) = Branch(i)
    BY <1>1, TakenBy
  <2>2. BranchOffset(i) # Panic /\ BranchReg(i) # Panic
    <3>1. BranchOffset(i).kind = "ok"
      BY DEF BranchOffset, Ok
    <3>2. BranchReg(i).kind = "ok"
      BY Kinds, Zenon DEF BranchReg
    <3> QED
      BY <3>1, <3>2, Kinds
  <2>3. Branch(i) = Panic <=>
          ~(\/ op \in {"B", "BL", "BLX"} /\ kind(1) \in OffsetKinds
            \/ op \in {"BLX", "BX", "BXJ"} /\ kind(1) = "Reg")
    BY <2>2 DEF Branch
  <2>4. op \notin AluOpcodes /\ op \notin {"LDR", "LDRT"}
    BY <1>1, Opcodes
  <2>5. ~ShiftsToPc(i)
    BY <2>4 DEF ShiftsToPc
  <2>6. Expected(i) <=> /\ op \in {"B", "BL"} => kind(1) \in OffsetKinds
                        /\ op = "BLX" => kind(1) \in OffsetKinds \cup {"Reg"}
                        /\ op \in {"BX", "BXJ"} => kind(1) = "Reg"
    <3>1. op \notin {"CBZ", "CBNZ"} /\ op \notin Multiple /\ op \notin {"TBB", "TBH"}
      BY <1>1, Opcodes
    <3> QED
      BY <2>4, <3>1 DEF Expected
  <2>7. CASE op \in {"B", "BL"}
    BY <2>1, <2>3, <2>5, <2>6, <2>7
  <2>8. CASE op = "BLX"
    BY <2>1, <2>3, <2>5, <2>6, <2>8
  <2>9. CASE op \in {"BX", "BXJ"}
    BY <2>1, <2>3, <2>5, <2>6, <2>9
  <2> QED
    BY <1>1, <2>7, <2>8, <2>9
<1>2. CASE op \in {"CBZ", "CBNZ"}
  <2>1. Taken(i) = CompareBranch(i)
    BY <1>2, TakenBy
  <2>2. Interwork(i.ops[2][2]) # Panic /\ fallthrough(i) # Panic
    BY Kinds, ReadsDoNotPanic
  <2>3. CompareBranch(i) = Panic <=> ~(kind(1) = "Reg" /\ kind(2) = "Imm32")
    BY <2>2, Zenon DEF CompareBranch
  <2>4. op \notin AluOpcodes /\ op \notin {"LDR", "LDRT"}
    BY <1>2, Opcodes
  <2>5. ~ShiftsToPc(i)
    BY <2>4 DEF ShiftsToPc
  <2>6. Expected(i) <=> kind(1) = "Reg" /\ kind(2) = "Imm32"
    <3>1. /\ op \notin {"B", "BL"} /\ op # "BLX" /\ op \notin {"BX", "BXJ"}
          /\ op \notin Multiple /\ op \notin {"TBB", "TBH"}
      BY <1>2, Opcodes
    <3> QED
      BY <1>2, <2>4, <3>1 DEF Expected
  <2> QED
    BY <2>1, <2>3, <2>5, <2>6
<1>3. CASE op \in AluOpcodes
  <2>1. Taken(i) = Alu(i)
    BY <1>3, TakenBy
  <2>2. Expected(i) <=> (is_pc_destination(i.ops[1]) =>
          /\ kind(2) \in {"Reg", "Imm12", "Imm32", "RegShift"}
          /\ op \notin OneOperand => kind(3) \in {"Reg", "Imm12", "Imm32", "RegShift"})
    <3>1. /\ op \notin {"B", "BL"} /\ op # "BLX" /\ op \notin {"BX", "BXJ"} /\ op \notin {"CBZ", "CBNZ"}
          /\ op \notin {"LDR", "LDRT"} /\ op \notin Multiple /\ op \notin {"TBB", "TBH"}
      BY <1>3, Opcodes
    <3> QED
      BY <1>3, <3>1 DEF Expected
  <2>3. CASE ~is_pc_destination(i.ops[1])
    BY <2>1, <2>2, <2>3, ReadsDoNotPanic DEF Alu, ShiftsToPc
  <2>4. CASE is_pc_destination(i.ops[1])
    <3>1. Taken(i) = Panic <=> AluPanics(i)
      BY <1>3, <2>1, <2>4, AluIs
    <3>2. op \notin {"LDR", "LDRT"}
      BY <1>3, Opcodes
    <3>3. ShiftsToPc(i) <=> \/ kind(2) = "RegShift"
                            \/ op \notin OneOperand /\ kind(3) = "RegShift"
      BY <1>3, <2>4, <3>2 DEF ShiftsToPc
    <3>4. Expected(i) <=> /\ kind(2) \in {"Reg", "Imm12", "Imm32", "RegShift"}
                          /\ op \notin OneOperand =>
                               kind(3) \in {"Reg", "Imm12", "Imm32", "RegShift"}
      BY <2>2, <2>4
    <3> HIDE DEF op
    <3> QED
      BY <3>1, <3>3, <3>4 DEF AluPanics, HasValue, op
  <2> QED
    BY <2>3, <2>4
<1>4. CASE op \in {"LDR", "LDRT"}
  <2>1. Taken(i) = Load(i)
    BY <1>4, TakenBy
  <2>2. op \notin AluOpcodes
    BY <1>4, Opcodes
  <2>3. Expected(i) <=> (is_pc_destination(i.ops[1]) =>
          kind(2) \in {"RegDeref", "PreindexOffset", "PostindexOffset", "PreindexReg"})
    <3>1. /\ op \notin {"B", "BL"} /\ op # "BLX" /\ op \notin {"BX", "BXJ"} /\ op \notin {"CBZ", "CBNZ"}
          /\ op \notin Multiple /\ op \notin {"TBB", "TBH"}
      BY <1>4, Opcodes
    <3> QED
      BY <1>4, <2>2, <3>1 DEF Expected
  <2>4. ShiftsToPc(i) <=> is_pc_destination(i.ops[1]) /\ kind(2) = "PreindexReg"
    BY <1>4, <2>2 DEF ShiftsToPc
  <2>5. CASE ~is_pc_destination(i.ops[1])
    BY <2>1, <2>3, <2>4, <2>5, ReadsDoNotPanic DEF Load
  <2>6. CASE is_pc_destination(i.ops[1])
    <3>1. Taken(i) = Panic <=> ~HasAddress(i.ops[2])
      BY <1>4, <2>1, <2>6, LoadIs
    <3> QED
      BY <2>3, <2>4, <2>6, <3>1 DEF HasAddress
  <2> QED
    BY <2>5, <2>6
<1>5. CASE op \in Multiple
  <2>1. Taken(i) = Panic <=> ~ListForm(i)
    BY <1>5, TakenBy, MultipleIs
  <2>2. op \notin AluOpcodes /\ op \notin {"LDR", "LDRT"}
    BY <1>5, Opcodes
  <2>3. ~ShiftsToPc(i)
    BY <2>2 DEF ShiftsToPc
  <2>4. Expected(i) <=> kind(2) = "RegList" /\ (op # "POP" => kind(1) \in {"Reg", "RegWBack"})
    <3>1. /\ op \notin {"B", "BL"} /\ op # "BLX" /\ op \notin {"BX", "BXJ"} /\ op \notin {"CBZ", "CBNZ"}
          /\ op \notin {"TBB", "TBH"}
      BY <1>5, Opcodes
    <3> QED
      BY <1>5, <2>2, <3>1 DEF Expected
  <2> QED
    BY <2>1, <2>3, <2>4 DEF ListForm, NamesBase
<1>6. CASE op \in {"TBB", "TBH"}
  <2>1. Taken(i) = Panic <=> <<kind(1), kind(2)>> \notin TableForms
    BY <1>6, TakenBy, TableIs
  <2>2. op \notin AluOpcodes /\ op \notin {"LDR", "LDRT"} /\ op \notin Multiple
    BY <1>6, Opcodes
  <2>3. ~ShiftsToPc(i)
    BY <2>2 DEF ShiftsToPc
  <2>4. Expected(i) <=> <<kind(1), kind(2)>> \in TableForms
    <3>1. /\ op \notin {"B", "BL"} /\ op # "BLX" /\ op \notin {"BX", "BXJ"} /\ op \notin {"CBZ", "CBNZ"}
      BY <1>6
    <3> QED
      BY <1>6, <2>2, <3>1 DEF Expected
  <2> QED
    BY <2>1, <2>3, <2>4
<1>7. CASE op \notin {"B", "BL", "BLX", "BX", "BXJ", "CBZ", "CBNZ", "TBB", "TBH", "LDR", "LDRT"}
           /\ op \notin AluOpcodes /\ op \notin Multiple
  <2>1. Taken(i) = fallthrough(i)
    BY <1>7 DEF Taken
  <2>2. ~ShiftsToPc(i) /\ Expected(i)
    BY <1>7 DEF ShiftsToPc, Expected
  <2> QED
    BY <2>1, <2>2, ReadsDoNotPanic
<1> QED
  BY <1>1, <1>2, <1>3, <1>4, <1>5, <1>6, <1>7

-----------------------------------------------------------------------------
(***************************************************************************)
(* The behaviour: one step, that takes what next_pc returns.               *)
(***************************************************************************)
Inv == TypeOK /\ EvenPc /\ result \in {Pending, next_pc(insn)}

\* The first state holds an instruction of the decoder and words.
LEMMA InitInv == Init => Inv
<1> SUFFICES ASSUME Init PROVE r \in [RegNumbers -> Word] /\ EvenPc
  BY DEF Init, Inv, TypeOK
<1> DEFINE size == IF insn.thumb THEN 4 ELSE 8
<1>1. PICK a \in Addrs, v0 \in Values, v1 \in Values :
        r = [n \in 0 .. 15 |-> CASE n = 0 -> v0 [] n = 1 -> v1
                                 [] n = 15 -> wrapping_add(a, size)
                                 [] OTHER -> (4 * n) % Modulus]
  BY Zenon DEF Init
<1>2. \A x \in Int : x % Modulus \in Word
  BY Words
<1>3. v0 \in Word /\ v1 \in Word /\ a \in Int
  BY WordAssumption, Words
<1>4. wrapping_add(a, size) \in Word
  BY <1>2, <1>3 DEF wrapping_add
<1>5. ASSUME NEW n \in RegNumbers
      PROVE  (CASE n = 0 -> v0 [] n = 1 -> v1 [] n = 15 -> wrapping_add(a, size)
                [] OTHER -> (4 * n) % Modulus) \in Word
  <2>1. (4 * n) % Modulus \in Word
    BY <1>2 DEF RegNumbers
  <2>2. CASE n = 0
    BY <1>3, <2>2
  <2>3. CASE n = 1
    BY <1>3, <2>3
  <2>4. CASE n = 15
    BY <1>4, <2>4
  <2>5. CASE n # 0 /\ n # 1 /\ n # 15
    BY <2>1, <2>5
  <2> QED
    BY <2>2, <2>3, <2>4, <2>5
<1>6. r \in [RegNumbers -> Word]
  BY <1>1, <1>5, Zenon DEF RegNumbers
<1>7. EvenPc
  <2>1. r[15] = (a + size) % Modulus
    <3>1. 15 \in 0 .. 15 /\ 15 # 0 /\ 15 # 1
      OBVIOUS
    <3> QED
      BY <1>1, <3>1 DEF wrapping_add
  <2>2. (a + size) % 2 = 0 /\ a + size \in Int
    <3>1. a % 2 = 0
      BY WordAssumption
    <3> QED
      BY <1>3, <3>1
  <2> QED
    BY <2>1, <2>2, EvenWord DEF EvenPc
<1> QED
  BY <1>6, <1>7

\* The step stores what next_pc returns.
LEMMA NextInv == Inv /\ [Step]_vars => Inv'
<1> SUFFICES ASSUME Inv, [Step]_vars PROVE Inv'
  OBVIOUS
<1>1. UNCHANGED <<insn, r, flags>>
  BY DEF Step, vars
<1>2. next_pc(insn)' = next_pc(insn)
  BY <1>1, NextPcStays
<1>3. TypeOK' /\ EvenPc'
  BY <1>1 DEF Inv, TypeOK, EvenPc
<1>4. Pending' = Pending
  BY DEF Pending
<1>5. result' \in {Pending, next_pc(insn)}
  BY DEF Step, vars, Inv
<1> QED
  BY <1>2, <1>3, <1>4, <1>5, Zenon DEF Inv

\* The invariant holds throughout.
LEMMA SpecInv == Spec => []Inv
  BY InitInv, NextInv, PTL DEF Spec

\* What result is once it has been decoded.
LEMMA ResultIs ==
  ASSUME Inv, Decoded
  PROVE  result = IF ConditionPassed(insn.cond, flags) THEN Taken(insn) ELSE fallthrough(insn)
<1>1. eval_cond(insn.cond, flags) = ConditionPassed(insn.cond, flags)
  BY ConditionIs, InsnsAssumption DEF Inv, TypeOK, WellFormed
<1>2. result = next_pc(insn) /\ Memory[4][addr(insn)] # Unreadable /\ result # DecodeError
  BY Zenon DEF Inv, Decoded
<1> QED
  BY <1>1, <1>2, Zenon DEF next_pc

\* The step breakpoint is where the processor goes next, for every word size,
\* memory, instruction and operands, except where the four deviations apply; of
\* a taken B, BL or BLX with an offset it is the instruction set that is right
\* (next_pc in arm-next-pc/src/lib.rs).
THEOREM StepsLikeTheProcessor == Spec => []StepsToNext
<1>1. Inv => StepsToNext
  <2> SUFFICES ASSUME Inv, Decoded, result # Panic
               PROVE  StepsToNext
    BY Zenon DEF StepsToNext
  <2> DEFINE passed == ConditionPassed(insn.cond, flags)
  <2>1. insn \in Insns /\ TypeOK /\ EvenPc
    BY DEF Inv, TypeOK
  <2>2. result = IF passed THEN Taken(insn) ELSE fallthrough(insn)
    BY ResultIs, Zenon
  <2>3. CASE ~passed \/ ~WritesPc(insn)
    <3>1. fallthrough(insn) = Architecture(insn)
      BY <2>3, FallthroughIs
    <3>2. result = fallthrough(insn)
      BY <2>2, <2>3, FallsThrough
    <3> QED
      BY <2>3, <3>1, <3>2, Zenon DEF StepsToNext
  <2>4. CASE passed /\ WritesPc(insn) /\ OffsetBranch(insn)
    <3>1. result = Taken(insn)
      BY <2>2, <2>4
    <3>2. OwnOffset(insn) => result.thumb = (insn.thumb # (insn.opcode = "BLX"))
      BY <2>1, <2>4, <3>1, OffsetIs
    <3> QED
      BY <2>4, <3>2, Zenon DEF StepsToNext
  <2>5. CASE passed /\ WritesPc(insn) /\ ~OffsetBranch(insn)
    <3>1. result = Taken(insn)
      BY <2>2, <2>5
    <3>2. /\ ~Deviates(insn) => result = Architecture(insn)
          /\ ResultDeviates(insn) \/ CompareDeviates(insn) => result # Architecture(insn)
      BY <2>1, <2>5, <3>1, TakenIs
    <3> QED
      BY <2>5, <3>2, Zenon DEF StepsToNext
  <2> QED
    BY <2>3, <2>4, <2>5
<1> QED
  BY <1>1, SpecInv, PTL

\* The worker panics for two forms of the instruction set, for operands that are
\* not expected of the opcode, and for nothing else, whatever the decoder
\* returns (the unreachable!() of arm-next-pc/src/lib.rs).
THEOREM PanicsExactly == Spec => []PanicsOnShiftedOnly
<1>1. Inv => PanicsOnShiftedOnly
  <2> SUFFICES ASSUME Inv, Decoded
               PROVE  result = Panic <=> /\ ConditionPassed(insn.cond, flags)
                                         /\ ShiftsToPc(insn) \/ ~Expected(insn)
    BY Zenon DEF PanicsOnShiftedOnly
  <2>1. insn \in Insns /\ TypeOK
    BY DEF Inv, TypeOK
  <2>2. result = IF ConditionPassed(insn.cond, flags) THEN Taken(insn) ELSE fallthrough(insn)
    BY ResultIs, Zenon
  <2>3. Taken(insn) = Panic <=> ShiftsToPc(insn) \/ ~Expected(insn)
    BY <2>1, PanicIs
  <2>4. fallthrough(insn) # Panic
    BY ReadsDoNotPanic
  <2> QED
    BY <2>2, <2>3, <2>4
<1> QED
  BY <1>1, SpecInv, PTL
=============================================================================
