----------------------------- MODULE HashProofs -----------------------------
(***************************************************************************)
(* Proofs about the operators of HashMap: where a search ends, and what    *)
(* the steps of kh_put and kh_resize make of a table in which every entry  *)
(* can be found.                                                           *)
(***************************************************************************)
EXTENDS HashMap, FiniteSetTheorems, WellFoundedInduction, TLAPS

------------------------------------------------------------------------------
(* The way of a key through a table.                                       *)
LEMMA LeastIs ==
  ASSUME NEW S \in SUBSET Nat, S # {}
  PROVE  Least(S) \in S /\ \A y \in S : Least(S) <= y
<1> DEFINE Less == OpToRel(<, Nat)
<1>1. \A m, n \in Nat : m < n => <<m, n>> \in Less
  BY DEF OpToRel
<1>2. IsWellFoundedOn(Less, Nat)
  BY NatLessThanWellFounded
<1> HIDE DEF Less
<1>3. PICK x \in S : \A y \in S : ~ (<<y, x>> \in Less)
  BY <1>2, WFMin
<1>4. \A y \in S : x <= y
  <2> TAKE y \in S
  <2>1. x \in Nat /\ y \in Nat /\ ~ (y < x)
    BY <1>1, <1>3
  <2> QED BY <2>1
<1> QED BY <1>4 DEF Least

(* The sizes of a table.  A property of all of them is proved by looking   *)
(* at the least that does not have it: it is not 4, and its half has it.   *)
LEMMA TableSizes ==
  \A n \in Tables : n \in Nat /\ n >= 4 /\ n % 2 = 0
<1> DEFINE Bad == {n \in Tables : ~ (n >= 4 /\ n % 2 = 0)}
<1> SUFFICES ASSUME Bad # {} PROVE FALSE
  BY TableAssumption
<1> DEFINE n == Least(Bad)
<1>1. n \in Bad /\ \A m \in Bad : n <= m
  <2>1. Bad \in SUBSET Nat
    BY TableAssumption
  <2> HIDE DEF Bad
  <2> QED BY <2>1, LeastIs
<1> HIDE DEF n
<1>2. PICK m \in Tables : n = 2 * m
  BY <1>1, TableAssumption
<1>3. m \in Nat /\ m # 0 /\ n \in Nat
  BY <1>1, TableAssumption
<1>4. m < n /\ n % 2 = 0
  BY <1>2, <1>3
<1>5. m \notin Bad
  BY <1>1, <1>3, <1>4
<1>6. m >= 4
  BY <1>5
<1> QED BY <1>1, <1>2, <1>3, <1>4, <1>6

(* Each table is twice the one before it. *)
LEMMA NoTableBetween ==
  ASSUME NEW a \in Tables, NEW b \in Tables, a < b
  PROVE  2 * a <= b
<1> DEFINE Bad == {m \in Tables : \E l \in Tables : l < m /\ m < 2 * l}
<1> SUFFICES ASSUME Bad # {} PROVE FALSE
  BY TableSizes
<1> DEFINE m == Least(Bad)
<1>1. m \in Bad /\ \A x \in Bad : m <= x
  <2>1. Bad \in SUBSET Nat
    BY TableSizes
  <2> HIDE DEF Bad
  <2> QED BY <2>1, LeastIs
<1> HIDE DEF m
<1>2. PICK l \in Tables : l < m /\ m < 2 * l
  BY <1>1
<1>3. l \in Nat /\ l >= 4 /\ m \in Nat
  BY <1>1, TableSizes
<1>4. PICK h \in Tables : m = 2 * h
  BY <1>1, <1>2, <1>3, TableAssumption
<1>5. h \in Nat
  BY TableSizes
<1>6. h < l /\ l < 2 * h
  BY <1>2, <1>3, <1>4, <1>5
<1>7. l \in Bad
  BY <1>6
<1> QED BY <1>1, <1>2, <1>3, <1>7

LEMMA NextTable ==
  ASSUME NEW a \in Tables, NEW b \in Tables, a < b
  PROVE  2 * a \in Tables
<1> DEFINE Above == {n \in Tables : a < n}
<1> DEFINE n == Least(Above)
<1>1. n \in Above /\ \A x \in Above : n <= x
  <2>1. Above \in SUBSET Nat /\ Above # {}
    BY TableSizes
  <2> HIDE DEF Above
  <2> QED BY <2>1, LeastIs
<1> HIDE DEF n
<1>2. a \in Nat /\ a >= 4 /\ n \in Nat /\ 2 * a <= n
  BY <1>1, TableSizes, NoTableBetween
<1>3. PICK h \in Tables : n = 2 * h
  BY <1>1, <1>2, TableAssumption
<1>4. h \in Nat /\ h >= 4 /\ h < n
  BY <1>3, TableSizes
<1>5. h \notin Above
  BY <1>1, <1>2, <1>4
<1>6. h <= a
  BY <1>2, <1>4, <1>5
<1>7. h = a
  BY <1>2, <1>3, <1>4, <1>6
<1> QED BY <1>1, <1>3, <1>7

(* Dividing by a table.                                                    *)
LEMMA Remainder ==
  ASSUME NEW n \in Nat, n > 0, NEW r \in 0 .. n - 1, NEW q \in Int
  PROVE  (r + n * q) % n = r
OBVIOUS

LEMMA Quotient ==
  ASSUME NEW n \in Nat, n > 0, NEW x \in Int
  PROVE  x % n \in 0 .. n - 1 /\ \E q \in Int : x = (x % n) + n * q
<1>1. x = (x % n) + n * (x \div n) /\ x \div n \in Int /\ x % n \in 0 .. n - 1
  OBVIOUS
<1> QED BY <1>1

LEMMA Parity ==
  ASSUME NEW a \in Int
  PROVE  \E e \in Int : a = 2 * e \/ a = 2 * e + 1
<1>1. a = (a % 2) + 2 * (a \div 2) /\ a % 2 \in 0 .. 1 /\ a \div 2 \in Int
  OBVIOUS
<1> QED BY <1>1

(* The triangular numbers reach every bucket of a power of two in as many  *)
(* steps as there are buckets, and do not come back to the first earlier.  *)
LEMMA Reaches ==
  ASSUME NEW n \in Tables, NEW r \in 0 .. n - 1
  PROVE  \E s \in 0 .. n - 1, q \in Int : s * (s + 1) = 2 * (r + n * q)
<1> DEFINE Good(m, x) == \E s \in 0 .. m - 1, q \in Int : s * (s + 1) = 2 * (x + m * q)
           Bad == {m \in Tables : \E x \in 0 .. m - 1 : ~ Good(m, x)}
<1> SUFFICES ASSUME Bad # {} PROVE FALSE
  OBVIOUS
<1> DEFINE m == Least(Bad)
<1>1. m \in Bad /\ \A x \in Bad : m <= x
  <2>1. Bad \in SUBSET Nat
    BY TableSizes
  <2> HIDE DEF Bad
  <2> QED BY <2>1, LeastIs
<1> HIDE DEF m
<1>2. PICK x \in 0 .. m - 1 : ~ Good(m, x)
  BY <1>1
<1>3. m # 4
  <2> SUFFICES ASSUME m = 4 PROVE FALSE
    OBVIOUS
  <2>1. x \in 0 .. 3
    BY <1>2
  <2>2. Good(4, 0)
    <3>1. 0 * (0 + 1) = 2 * (0 + 4 * 0) /\ 0 \in 0 .. 4 - 1
      OBVIOUS
    <3> QED BY <3>1
  <2>3. Good(4, 1)
    <3>1. 1 * (1 + 1) = 2 * (1 + 4 * 0) /\ 1 \in 0 .. 4 - 1
      OBVIOUS
    <3> QED BY <3>1
  <2>4. Good(4, 2)
    <3>1. 3 * (3 + 1) = 2 * (2 + 4 * 1) /\ 3 \in 0 .. 4 - 1
      OBVIOUS
    <3> QED BY <3>1
  <2>5. Good(4, 3)
    <3>1. 2 * (2 + 1) = 2 * (3 + 4 * 0) /\ 2 \in 0 .. 4 - 1
      OBVIOUS
    <3> QED BY <3>1
  <2> HIDE DEF Good
  <2> QED BY <1>2, <2>1, <2>2, <2>3, <2>4, <2>5
<1>4. PICK h \in Tables : m = 2 * h
  BY <1>1, <1>3, TableAssumption
<1>5. h \in Nat /\ h >= 4 /\ h < m /\ m \in Nat
  <2> HIDE DEF Good, Bad
  <2> QED BY <1>4, TableSizes
<1>6. \A y \in 0 .. h - 1 : Good(h, y)
  <2>1. h \notin Bad
    <3> HIDE DEF Bad
    <3> QED BY <1>1, <1>5
  <2> HIDE DEF Good
  <2> QED BY <2>1
<1> HIDE DEF Bad, Good
<1>15. x \in Nat
  BY <1>2, <1>5
<1>7. x % h \in 0 .. h - 1 /\ \E d \in Int : x = (x % h) + h * d
  <2>1. x \in Int /\ h > 0
    BY <1>5, <1>15
  <2> QED BY <1>5, <2>1, Quotient
<1> DEFINE y == x % h
<1>8. PICK d \in Int : x = y + h * d
  BY <1>7
<1>9. y \in 0 .. h - 1
  BY <1>7
<1> HIDE DEF y
<1>10. PICK s \in 0 .. h - 1, q \in Int : s * (s + 1) = 2 * (y + h * q)
  BY <1>6, <1>9 DEF Good
<1>11. s * (s + 1) = 2 * (x + h * (q - d)) /\ q - d \in Int
  <2>1. h * (q - d) = h * q - h * d
    BY <1>5
  <2>2. x \in Int /\ y \in Int /\ h * q \in Int /\ h * d \in Int
    BY <1>5, <1>9, <1>2
  <2> QED BY <1>8, <1>10, <2>1, <2>2
<1>12. PICK e \in Int : q - d = 2 * e \/ q - d = 2 * e + 1
  BY <1>11, Parity
<1>13. CASE q - d = 2 * e
  <2>1. h * (q - d) = m * e
    BY <1>4, <1>5, <1>13
  <2>2. s \in 0 .. m - 1
    BY <1>5
  <2> QED BY <1>2, <1>11, <2>1, <2>2 DEF Good
<1>14. CASE q - d = 2 * e + 1
  <2> DEFINE z == m - 1 - s
  <2>1. z \in 0 .. m - 1
    BY <1>5
  <2>2. z * (z + 1) = s * (s + 1) + 2 * (h * (m - 2 * s - 1))
    <3>1. z * (z + 1) = m * (m - 2 * s - 1) + s * (s + 1)
      BY <1>5
    <3> DEFINE a == m - 2 * s - 1
    <3>2. a \in Int
      BY <1>5
    <3> HIDE DEF a, z
    <3>3. m * a = 2 * (h * a)
      BY <1>4, <1>5, <3>2
    <3>4. z * (z + 1) = m * a + s * (s + 1)
      BY <3>1 DEF a
    <3>5. s * (s + 1) \in Int /\ h * a \in Int
      BY <1>5, <3>2
    <3>6. z * (z + 1) = s * (s + 1) + 2 * (h * a)
      BY <3>3, <3>4, <3>5
    <3> QED BY <3>6 DEF a
  <2>3. h * (q - d) + h * (m - 2 * s - 1) = m * (e + h - s)
    <3>1. h * (q - d) + h * (m - 2 * s - 1) = h * (2 * (e + h - s))
      BY <1>4, <1>5, <1>14
    <3>2. h * (2 * (e + h - s)) = m * (e + h - s)
      BY <1>4, <1>5
    <3> QED BY <3>1, <3>2
  <2>4. z * (z + 1) = 2 * (x + m * (e + h - s))
    <3> DEFINE A == h * (q - d)
               B == h * (m - 2 * s - 1)
    <3>1. A \in Int /\ B \in Int /\ x \in Int /\ s * (s + 1) = 2 * (x + A) /\ z * (z + 1) = s * (s + 1) + 2 * B
      BY <1>2, <1>5, <1>11, <2>2
    <3>2. A + B = m * (e + h - s)
      BY <2>3
    <3> HIDE DEF A, B, z
    <3> QED BY <3>1, <3>2
  <2>5. e + h - s \in Int
    BY <1>5
  <2> HIDE DEF z
  <2> QED BY <1>2, <2>1, <2>4, <2>5 DEF Good
<1> QED BY <1>12, <1>13, <1>14

LEMMA ComesBackLate ==
  ASSUME NEW n \in Tables, NEW s \in 1 .. n - 1, NEW q \in Int
  PROVE  s * (s + 1) # 2 * (n * q)
<1> DEFINE Back(m) == \E x \in 1 .. 2 * m - 2, z \in Int : x * (x + 1) = 2 * (m * z)
           Bad == {m \in Tables : Back(m)}
<1> SUFFICES ASSUME Bad # {} PROVE FALSE
  <2>1. s \in 1 .. 2 * n - 2
    BY TableSizes
  <2> QED BY <2>1
<1> DEFINE m == Least(Bad)
<1>1. m \in Bad /\ \A x \in Bad : m <= x
  <2>1. Bad \in SUBSET Nat
    BY TableSizes
  <2> HIDE DEF Bad
  <2> QED BY <2>1, LeastIs
<1> HIDE DEF m
<1>2. PICK x \in 1 .. 2 * m - 2, z \in Int : x * (x + 1) = 2 * (m * z)
  BY <1>1
<1>3. m # 4
  <2> SUFFICES ASSUME m = 4 PROVE FALSE
    OBVIOUS
  <2>1. x \in {1, 2, 3, 4, 5, 6} /\ x * (x + 1) = 8 * z
    BY <1>2
  <2> QED BY <2>1
<1>4. PICK h \in Tables : m = 2 * h
  BY <1>1, <1>3, TableAssumption
<1>5. h \in Nat /\ h >= 4 /\ h < m /\ m \in Nat
  BY <1>4, TableSizes
<1>6. ASSUME NEW y \in 1 .. 2 * h - 2, NEW w \in Int, y * (y + 1) = 2 * (h * w) PROVE FALSE
  <2>1. h \notin Bad
    <3> HIDE DEF Bad
    <3> QED BY <1>1, <1>5
  <2>2. ~ Back(h)
    <3> HIDE DEF Back
    <3> QED BY <2>1
  <2> QED BY <1>6, <2>2
<1> HIDE DEF Bad, Back
<1>7. x * (x + 1) = m * (2 * z) /\ 2 * z \in Int
  BY <1>2, <1>5
<1>8. x \in Int
  BY <1>2, <1>5
<1>9. CASE x <= 2 * h - 2
  <2>1. x \in 1 .. 2 * h - 2 /\ x * (x + 1) = 2 * (h * (2 * z))
    BY <1>2, <1>4, <1>5, <1>7, <1>9
  <2> QED BY <1>6, <1>7, <2>1
<1>10. CASE x = m - 1
  <2>1. m * (2 * z) = m * (m - 1)
    BY <1>5, <1>7, <1>10
  <2>2. 2 * z = m - 1
    BY <1>5, <2>1
  <2> QED BY <1>4, <1>5, <2>2
<1>11. CASE x = m
  <2>1. m * (2 * z) = m * (m + 1)
    BY <1>5, <1>7, <1>11
  <2>2. 2 * z = m + 1
    BY <1>5, <2>1
  <2> QED BY <1>4, <1>5, <2>2
<1>12. CASE x > m
  <2> DEFINE y == x - m
             w == 2 * z - 2 * x - 1 + m
  <2>1. y \in 1 .. 2 * h - 2 /\ w \in Int
    BY <1>2, <1>4, <1>5, <1>12
  <2>2. y * (y + 1) = x * (x + 1) - m * (2 * x + 1 - m)
    BY <1>5, <1>8
  <2>3. m * (2 * z) - m * (2 * x + 1 - m) = m * w
    BY <1>5, <1>8
  <2>4. y * (y + 1) = m * w
    <3> DEFINE A == m * (2 * z)
               B == m * (2 * x + 1 - m)
    <3>1. A \in Int /\ B \in Int /\ y * (y + 1) = A - B /\ A - B = m * w
      BY <1>5, <1>7, <1>8, <2>2, <2>3
    <3> HIDE DEF A, B, y, w
    <3> QED BY <3>1
  <2>5. m * w = 2 * (h * w)
    BY <1>4, <1>5, <2>1
  <2> HIDE DEF y, w
  <2> QED BY <1>6, <2>1, <2>4, <2>5
<1> QED BY <1>2, <1>4, <1>5, <1>8, <1>9, <1>10, <1>11, <1>12

LEMMA RoundIs ==
  ASSUME NEW n \in Tables
  PROVE  Round(n) \in Nat /\ Round(n) >= n
<1> DEFINE S == {s \in 1 .. 2 * n : ((s * (s + 1)) \div 2) % n = 0}
<1>1. n \in Nat /\ n >= 4
  BY TableSizes
<1>2. 2 * n - 1 \in S
  <2> DEFINE q == 2 * n - 1
  <2>1. q \in 1 .. 2 * n /\ q + 1 = 2 * n
    BY <1>1
  <2>2. q * (q + 1) = 2 * (0 + n * q)
    BY <1>1, <2>1
  <2>3. (q * (q + 1)) \div 2 = 0 + n * q
    <3> HIDE DEF q
    <3> QED BY <1>1, <2>1, <2>2
  <2>4. ((q * (q + 1)) \div 2) % n = 0
    <3>1. 0 \in 0 .. n - 1 /\ q \in Int /\ n > 0
      BY <1>1
    <3> HIDE DEF q
    <3> QED BY <1>1, <2>3, <3>1, Remainder
  <2> QED BY <2>1, <2>4
<1>3. \A s \in S : s >= n
  <2> SUFFICES ASSUME NEW s \in 1 .. n - 1, ((s * (s + 1)) \div 2) % n = 0 PROVE FALSE
    BY <1>1
  <2> DEFINE y == (s * (s + 1)) \div 2
  <2>1. s * (s + 1) = 2 * y /\ y \in Int
    <3>1. s \in Int
      BY <1>1
    <3>2. PICK e \in Int : s = 2 * e \/ s = 2 * e + 1
      BY <3>1, Parity
    <3>3. PICK z \in Int : s * (s + 1) = 2 * z
      <4>1. CASE s = 2 * e
        <5>1. s * (s + 1) = 2 * (e * (s + 1)) /\ e * (s + 1) \in Int
          BY <3>1, <4>1
        <5> QED BY <5>1
      <4>2. CASE s = 2 * e + 1
        <5>1. s * (s + 1) = 2 * (s * (e + 1)) /\ s * (e + 1) \in Int
          BY <3>1, <4>2
        <5> QED BY <5>1
      <4> QED BY <3>2, <4>1, <4>2
    <3> QED BY <3>1, <3>3
  <2>2. y % n = 0
    OBVIOUS
  <2> HIDE DEF y, S
  <2>3. PICK q \in Int : y = 0 + n * q
    BY <1>1, <2>1, <2>2, Quotient
  <2>4. s * (s + 1) = 2 * (n * q)
    BY <1>1, <2>1, <2>3
  <2> QED BY <2>4, ComesBackLate
<1>4. S \subseteq 1 .. 2 * n
  OBVIOUS
<1>5. Round(n) = Least(S)
  BY DEF Round
<1>6. Least(S) \in S /\ Least(S) \in Nat
  <2> HIDE DEF S
  <2>1. S \subseteq Nat /\ S # {}
    BY <1>1, <1>2, <1>4
  <2>2. Least(S) \in S
    BY <2>1, LeastIs
  <2> QED BY <2>1, <2>2
<1> HIDE DEF S
<1> QED BY <1>3, <1>5, <1>6

(* Bucket i is the first of S on the way of key k through n buckets.       *)
OnWay(k, n, i, S) ==
  \E m \in 0 .. Round(n) - 1 :
    /\ Site(k, n, m) = i /\ i \in S
    /\ \A s \in 0 .. m - 1 : Site(k, n, s) \notin S

LEMMA FirstInOnWay ==
  ASSUME NEW k, NEW n \in Tables, NEW S, NEW i, OnWay(k, n, i, S)
  PROVE  FirstIn(k, n, S) = i
<1> DEFINE hits == {s \in 0 .. Round(n) - 1 : Site(k, n, s) \in S}
<1>1. PICK m \in 0 .. Round(n) - 1 :
        /\ Site(k, n, m) = i /\ i \in S
        /\ \A s \in 0 .. m - 1 : Site(k, n, s) \notin S
  BY DEF OnWay
<1>2. m \in hits /\ hits \subseteq Nat /\ \A s \in hits : m <= s
  BY <1>1, RoundIs
<1>3. Least(hits) = m
  <2> HIDE DEF hits
  <2>1. Least(hits) \in hits /\ Least(hits) <= m
    BY <1>2, LeastIs
  <2>2. Least(hits) \in Nat /\ m \in Nat /\ m <= Least(hits)
    BY <1>2, <2>1
  <2> QED BY <2>1, <2>2
<1> QED BY <1>1, <1>2, <1>3 DEF FirstIn

(* A search among n buckets of which one is in S ends in S.                *)
LEMMA FirstInExists ==
  ASSUME NEW k \in Keys, NEW n \in Tables, NEW S, NEW b \in 0 .. n - 1, b \in S
  PROVE  OnWay(k, n, FirstIn(k, n, S), S)
<1> DEFINE hits == {s \in 0 .. Round(n) - 1 : Site(k, n, s) \in S}
<1>1. \E s \in hits : TRUE
  <2>1. n \in Nat /\ n > 0 /\ Hash[k] \in Nat
    BY TableSizes, HashAssumption
  <2>2. b - Hash[k] \in Int
    BY <2>1
  <2> DEFINE r == (b - Hash[k]) % n
  <2>3. r \in 0 .. n - 1 /\ \E d \in Int : b - Hash[k] = r + n * d
    BY <2>1, <2>2, Quotient
  <2> HIDE DEF r
  <2>4. PICK d \in Int : b - Hash[k] = r + n * d
    BY <2>3
  <2>5. PICK s \in 0 .. n - 1, q \in Int : s * (s + 1) = 2 * (r + n * q)
    BY <2>3, Reaches
  <2>6. s \in 0 .. Round(n) - 1
    BY <2>1, RoundIs
  <2>7. (s * (s + 1)) \div 2 = r + n * q
    <3> DEFINE y == r + n * q
    <3>1. y \in Int /\ s * (s + 1) = 2 * y
      BY <2>1, <2>3, <2>5
    <3> HIDE DEF y
    <3>2. (s * (s + 1)) \div 2 = y
      BY <3>1
    <3> QED BY <3>2 DEF y
  <2>8. Hash[k] + (r + n * q) = b + n * (q - d)
    BY <2>1, <2>3, <2>4
  <2>9. (b + n * (q - d)) % n = b
    BY <2>1, Remainder
  <2>10. Site(k, n, s) = b
    BY <2>7, <2>8, <2>9 DEF Site
  <2> QED BY <2>6, <2>10
<1>2. hits \subseteq Nat
  BY RoundIs
<1>3. FirstIn(k, n, S) = Site(k, n, Least(hits))
  BY <1>1 DEF FirstIn
<1>4. Least(hits) \in hits /\ \A s \in hits : Least(hits) <= s
  <2> HIDE DEF hits
  <2> QED BY <1>1, <1>2, LeastIs
<1> DEFINE m == Least(hits)
<1>5. m \in 0 .. Round(n) - 1 /\ Site(k, n, m) \in S
  BY <1>4
<1>6. \A s \in 0 .. m - 1 : Site(k, n, s) \notin S
  <2> SUFFICES ASSUME NEW s \in 0 .. m - 1, Site(k, n, s) \in S PROVE FALSE
    OBVIOUS
  <2>1. s \in hits
    BY <1>5, RoundIs
  <2>2. s < m /\ s \in Nat
    BY <1>5
  <2> HIDE DEF hits
  <2>3. m <= s /\ m \in Nat
    BY <1>2, <1>4, <2>1
  <2> QED BY <2>2, <2>3
<1> HIDE DEF m, hits
<1> QED BY <1>3, <1>5, <1>6 DEF OnWay, m

(* Taking others out of S changes nothing for a bucket on the way.         *)
LEMMA OnWayFewer ==
  ASSUME NEW k, NEW n, NEW i, NEW S, NEW T \in SUBSET S, OnWay(k, n, i, S), i \in T
  PROVE  OnWay(k, n, i, T)
BY DEF OnWay

LEMMA OnWayIn ==
  ASSUME NEW k, NEW n, NEW i, NEW S, OnWay(k, n, i, S)
  PROVE  i \in S
BY DEF OnWay

------------------------------------------------------------------------------
LEMMA Buckets ==
  ASSUME NEW n \in Nat, NEW used \in SUBSET (0 .. n - 1)
  PROVE  /\ IsFiniteSet(used) /\ Cardinality(used) \in Nat /\ Cardinality(used) <= n
         /\ Cardinality(used) < n => \E b \in 0 .. n - 1 : b \notin used
<1>1. IsFiniteSet(0 .. n - 1) /\ Cardinality(0 .. n - 1) = n
  BY FS_Interval
<1>2. IsFiniteSet(used) /\ Cardinality(used) <= n
  BY <1>1, FS_Subset
<1>3. Cardinality(used) \in Nat
  BY <1>2, FS_CardinalityType
<1>4. used = 0 .. n - 1 => Cardinality(used) = n
  BY <1>1
<1>5. Cardinality(used) < n => used # 0 .. n - 1
  BY <1>3, <1>4
<1> QED BY <1>2, <1>3, <1>5

(* kh_resize doubles the table.                                            *)
Growable == n_buckets = 0 \/ (n_buckets \in Tables /\ 2 * n_buckets \in Tables)

LEMMA Grown ==
  ASSUME Growable
  PROVE  /\ new_n_buckets \in Tables
         /\ new_n_buckets = IF n_buckets = 0 THEN 4 ELSE 2 * n_buckets
<1>1. CASE n_buckets = 0
  <2>1. kroundup32(1) = 1
    <3>1. \A p \in {1, 2} \cup Tables : (1 <= p /\ p < 2 * 1) <=> p = 1
      BY TableSizes
    <3> QED BY <3>1 DEF kroundup32
  <2> QED BY <1>1, <2>1, TableAssumption DEF new_n_buckets
<1>2. CASE n_buckets # 0
  <2> DEFINE n == n_buckets
  <2>1. n \in Tables /\ 2 * n \in Tables /\ n \in Nat /\ n >= 4
    BY <1>2, TableSizes DEF Growable
  <2>2. kroundup32(n + 1) = 2 * n
    <3>1. n + 1 <= 2 * n /\ 2 * n < 2 * (n + 1)
      BY <2>1
    <3>2. ASSUME NEW p \in {1, 2} \cup Tables, n + 1 <= p, p < 2 * (n + 1) PROVE p = 2 * n
      <4>1. p \in Tables /\ p \in Nat
        BY <2>1, <3>2, TableSizes
      <4>2. 2 * n <= p
        <5>1. n < p
          BY <2>1, <3>2, <4>1
        <5> HIDE DEF n
        <5> QED BY <2>1, <4>1, <5>1, NoTableBetween
      <4>3. p <= 2 * n
        <5> SUFFICES ASSUME 2 * n < p PROVE FALSE
          BY <2>1, <4>1
        <5>1. 2 * (2 * n) <= p
          <6> DEFINE a == 2 * n
          <6>1. a \in Tables /\ a < p
            BY <2>1
          <6> HIDE DEF a
          <6>2. 2 * a <= p
            BY <4>1, <6>1, NoTableBetween
          <6> QED BY <6>2 DEF a
        <5> QED BY <2>1, <3>2, <4>1, <5>1
      <4> QED BY <2>1, <4>1, <4>2, <4>3
    <3> HIDE DEF n
    <3> QED BY <2>1, <3>1, <3>2 DEF kroundup32
  <2> QED BY <1>2, <2>1, <2>2 DEF new_n_buckets
<1> QED BY <1>1, <1>2

------------------------------------------------------------------------------
(* The table.  Each entry among n buckets, of which `used' are in use, is  *)
(* the first on its way that is free or its own.                           *)
Free(n, used) == (0 .. n - 1) \ used
Settled(n, used) ==
  \A i \in used : keys[i] \in Keys /\ OnWay(keys[i], n, i, Free(n, used) \cup {i})
ArraysTo(n) ==
  /\ DOMAIN keys = 0 .. n - 1 /\ DOMAIN vals = 0 .. n - 1
  /\ \A i \in 0 .. n - 1 : vals[i] \in Int

(* No key is stored twice. *)
KeysDiffer ==
  /\ \A a, b \in live \cup new_live : keys[a] = keys[b] => a = b
  /\ \A a \in live \cup new_live : \A e \in hand : keys[a] # e.key

(* Between the calls of kh_resize, and within one.                         *)
Resting ==
  /\ n_buckets \in {0} \cup Tables
  /\ live \subseteq 0 .. n_buckets - 1
  /\ new_live = {} /\ hand = {} /\ j = 0
  /\ ArraysTo(n_buckets)
  /\ Settled(n_buckets, live)
  /\ KeysDiffer
Moving ==
  /\ Growable
  /\ j \in 0 .. n_buckets
  /\ live \subseteq j .. n_buckets - 1
  /\ new_live \subseteq 0 .. new_n_buckets - 1 /\ live \cap new_live = {}
  /\ ArraysTo(new_n_buckets)
  /\ \A i \in live : keys[i] \in Keys
  /\ Settled(new_n_buckets, new_live)
  /\ KeysDiffer
  /\ \/ hand = {}
     \/ /\ \E key \in Keys, val \in Int : hand = {[key |-> key, val |-> val]}
        /\ j < n_buckets /\ j \notin live
  /\ Cardinality(live) + Cardinality(new_live) + Cardinality(hand) <= n_buckets

LEMMA TheHand ==
  ASSUME Moving
  PROVE  /\ IsFiniteSet(hand) /\ Cardinality(hand) = (IF hand = {} THEN 0 ELSE 1)
         /\ hand # {} => LET e == CHOOSE x \in hand : TRUE IN
              /\ hand = {e} /\ e = [key |-> e.key, val |-> e.val]
              /\ e.key \in Keys /\ e.val \in Int
<1>1. CASE hand = {}
  BY <1>1, FS_EmptySet
<1>2. CASE hand # {}
  <2>1. PICK key \in Keys, val \in Int : hand = {[key |-> key, val |-> val]}
    BY <1>2 DEF Moving
  <2>2. IsFiniteSet(hand) /\ Cardinality(hand) = 1
    BY <2>1, FS_Singleton
  <2> DEFINE e == CHOOSE x \in hand : TRUE
  <2>3. e = [key |-> key, val |-> val]
    BY <2>1
  <2> QED BY <1>2, <2>1, <2>2, <2>3
<1> QED BY <1>1, <1>2

LEMMA MovingSizes ==
  ASSUME Moving
  PROVE  /\ n_buckets \in Nat /\ new_n_buckets \in Nat /\ n_buckets < new_n_buckets
         /\ new_n_buckets \in Tables
         /\ IsFiniteSet(live) /\ Cardinality(live) \in Nat
         /\ IsFiniteSet(new_live) /\ Cardinality(new_live) \in Nat
         /\ live \subseteq 0 .. n_buckets - 1
<1>1. n_buckets \in Nat /\ new_n_buckets \in Nat /\ n_buckets < new_n_buckets /\ new_n_buckets \in Tables
  BY Grown, TableSizes DEF Moving, Growable
<1>2. live \subseteq 0 .. n_buckets - 1 /\ new_live \subseteq 0 .. new_n_buckets - 1
  BY <1>1 DEF Moving
<1> QED BY <1>1, <1>2, Buckets

LEMMA SameContents ==
  ASSUME live' \cup new_live' = live \cup new_live, hand' = hand,
         \A i \in live \cup new_live : keys'[i] = keys[i] /\ vals'[i] = vals[i]
  PROVE  Contents' = Contents
<1> DEFINE entries == {[key |-> keys[i], val |-> vals[i]] : i \in live \cup new_live}
<1>1. entries' = entries
  OBVIOUS
<1> HIDE DEF entries
<1>2. Contents = entries \cup hand /\ Contents' = entries' \cup hand'
  BY DEF Contents, entries
<1> QED BY <1>1, <1>2

LEMMA SameTable ==
  ASSUME UNCHANGED hashVars
  PROVE  /\ Contents' = Contents
         /\ Moving' <=> Moving
         /\ Resting' <=> Resting
<1>1. UNCHANGED <<n_buckets, live, keys, vals, new_live, j, hand, new_n_buckets>>
  BY DEF hashVars, new_n_buckets
<1>2. Contents' = Contents
  BY <1>1, SameContents
<1>3. Moving' <=> Moving
  BY <1>1 DEF Moving, Growable, ArraysTo, Settled, Free, KeysDiffer
<1>4. Resting' <=> Resting
  BY <1>1 DEF Resting, ArraysTo, Settled, Free, KeysDiffer
<1> QED BY <1>2, <1>3, <1>4

(* kh_init *)
LEMMA InitRests == kh_init => Resting
BY DEF kh_init, Resting, ArraysTo, Settled, KeysDiffer

(* kh_resize allocates, and copies nothing yet. *)
LEMMA ResizeMoves ==
  ASSUME Resting, Growable, resize
  PROVE  Moving' /\ Contents' = Contents
<1>1. /\ n_buckets \in Nat /\ new_n_buckets \in Nat /\ n_buckets < new_n_buckets
  BY Grown, TableSizes DEF Resting, Growable
<1>2. n_buckets' = n_buckets /\ live' = live /\ new_live' = {} /\ j' = 0 /\ hand' = {}
  BY DEF resize
<1>3. new_n_buckets' = new_n_buckets
  BY <1>2 DEF new_n_buckets
<1>4. \A i \in live : keys'[i] = keys[i] /\ vals'[i] = vals[i]
  BY <1>1 DEF resize, Resting
<1>5. ArraysTo(new_n_buckets)'
  <2>1. DOMAIN keys' = 0 .. new_n_buckets - 1 /\ DOMAIN vals' = 0 .. new_n_buckets - 1
    BY DEF resize
  <2>2. \A i \in 0 .. new_n_buckets - 1 : vals'[i] \in Int
    BY <1>1 DEF resize, Resting, ArraysTo
  <2> QED BY <1>3, <2>1, <2>2 DEF ArraysTo
<1>6. \A i \in live : keys'[i] \in Keys
  BY <1>4 DEF Resting, Settled
<1>7. KeysDiffer'
  BY <1>2, <1>4 DEF Resting, KeysDiffer
<1>8. Cardinality(live') + Cardinality(new_live') + Cardinality(hand') <= n_buckets'
  BY <1>1, <1>2, Buckets, FS_EmptySet DEF Resting
<1>9. Contents' = Contents
  BY <1>2, <1>4, SameContents DEF Resting
<1> QED BY <1>1, <1>2, <1>3, <1>5, <1>6, <1>7, <1>8, <1>9 DEF Moving, Growable, Resting, Settled

(* It takes an entry of the old part into its hand. *)
LEMMA TakeMoves ==
  ASSUME Moving, take
  PROVE  Moving' /\ Contents' = Contents
<1>1. UNCHANGED <<n_buckets, keys, vals, new_live, new_n_buckets>> /\ hand = {} /\ j < n_buckets
  BY DEF take, new_n_buckets
<1>2. CASE j \in live
  <2>1. hand' = {[key |-> keys[j], val |-> vals[j]]} /\ live' = live \ {j} /\ j' = j
    BY <1>2 DEF take
  <2>2. keys[j] \in Keys /\ vals[j] \in Int
    <3>1. j \in 0 .. n_buckets - 1 /\ n_buckets \in Nat /\ new_n_buckets \in Nat /\ n_buckets < new_n_buckets
      BY <1>2, MovingSizes
    <3>2. j \in 0 .. new_n_buckets - 1
      BY <3>1
    <3>3. \A i \in 0 .. new_n_buckets - 1 : vals[i] \in Int
      BY DEF Moving, ArraysTo
    <3>4. keys[j] \in Keys
      BY <1>2 DEF Moving
    <3> QED BY <3>2, <3>3, <3>4
  <2>3. Cardinality(live') + Cardinality(new_live') + Cardinality(hand') <= n_buckets'
    <3>1. Cardinality(live') = Cardinality(live) - 1
      BY <1>2, <2>1, MovingSizes, FS_RemoveElement
    <3>2. Cardinality(hand) = 0 /\ Cardinality(hand') = 1
      BY <1>1, <2>1, FS_EmptySet, FS_Singleton
    <3>3. Cardinality(live) + Cardinality(new_live) + Cardinality(hand) <= n_buckets
      BY DEF Moving
    <3>4. Cardinality(live) \in Nat /\ Cardinality(new_live) \in Nat /\ n_buckets \in Nat
      BY MovingSizes
    <3>5. Cardinality(new_live') = Cardinality(new_live) /\ n_buckets' = n_buckets
      BY <1>1
    <3> QED BY <3>1, <3>2, <3>3, <3>4, <3>5
  <2>4. KeysDiffer'
    BY <1>1, <1>2, <2>1 DEF Moving, KeysDiffer
  <2>5. Contents' = Contents
    BY <1>1, <1>2, <2>1 DEF Contents, Moving
  <2>6. j' < n_buckets' /\ j' \notin live' /\ live' \subseteq live
    BY <1>1, <2>1
  <2>7. Settled(new_n_buckets, new_live)' /\ ArraysTo(new_n_buckets)'
    BY <1>1 DEF Moving, Settled, ArraysTo
  <2>8. \E key \in Keys, val \in Int : hand' = {[key |-> key, val |-> val]}
    BY <2>1, <2>2
  <2> QED BY <1>1, <2>1, <2>3, <2>4, <2>5, <2>6, <2>7, <2>8 DEF Moving, Growable
<1>3. CASE j \notin live
  <2>1. hand' = hand /\ live' = live /\ j' = j + 1
    BY <1>3 DEF take
  <2>2. live \subseteq j + 1 .. n_buckets - 1 /\ j + 1 \in 0 .. n_buckets
    <3>1. j \in 0 .. n_buckets /\ live \subseteq j .. n_buckets - 1 /\ n_buckets \in Nat
      BY MovingSizes DEF Moving
    <3> QED BY <1>1, <1>3, <3>1
  <2>3. Contents' = Contents
    BY <1>1, <2>1, SameContents
  <2>5. KeysDiffer'
    BY <1>1, <2>1 DEF KeysDiffer, Moving
  <2>4. Settled(new_n_buckets, new_live)' /\ ArraysTo(new_n_buckets)'
    BY <1>1 DEF Moving, Settled, ArraysTo
  <2> QED BY <1>1, <2>1, <2>2, <2>3, <2>4, <2>5 DEF Moving, Growable
<1> QED BY <1>2, <1>3

(* It puts the entry in its hand where a later search will find it, in the *)
(* place of an old one or not.                                             *)
LEMMA PlaceMoves ==
  ASSUME Moving, place
  PROVE  Moving' /\ Contents' = Contents
<1> DEFINE n == new_n_buckets
           e == CHOOSE x \in hand : TRUE
           free == Free(n, new_live)
           i == FirstIn(e.key, n, free)
<1>1. /\ n \in Tables /\ n \in Nat /\ n_buckets \in Nat /\ n_buckets < n
      /\ IsFiniteSet(live) /\ Cardinality(live) \in Nat
      /\ IsFiniteSet(new_live) /\ Cardinality(new_live) \in Nat
      /\ live \subseteq 0 .. n_buckets - 1
  BY MovingSizes
<1>2. /\ hand = {e} /\ e = [key |-> e.key, val |-> e.val]
      /\ e.key \in Keys /\ e.val \in Int /\ Cardinality(hand) = 1
      /\ j < n_buckets /\ j \notin live
  BY TheHand DEF place, Moving
<1>3. \E b \in 0 .. n - 1 : b \in free
  <2>1. new_live \subseteq 0 .. n - 1 /\ Cardinality(new_live) < n
    BY <1>1, <1>2 DEF Moving
  <2> HIDE DEF n
  <2> QED BY <1>1, <2>1, Buckets DEF Free
<1>4. OnWay(e.key, n, i, free)
  <2> HIDE DEF n, e, free
  <2> QED BY <1>1, <1>2, <1>3, FirstInExists
<1>5. i \in 0 .. n - 1 /\ i \notin new_live
  BY <1>4, OnWayIn DEF Free
<1>6. /\ new_live' = new_live \cup {i} /\ live' = live \ {i}
      /\ keys' = [keys EXCEPT ![i] = e.key] /\ vals' = [vals EXCEPT ![i] = e.val]
      /\ hand' = {[key |-> keys[b], val |-> vals[b]] : b \in live \cap {i}}
      /\ j' = (IF i \in live THEN j ELSE j + 1) /\ n_buckets' = n_buckets
  BY DEF place, Free
<1>7. new_n_buckets' = n
  BY <1>6 DEF new_n_buckets
<1> HIDE DEF n, e, i, free
<1>8. /\ DOMAIN keys = 0 .. n - 1 /\ DOMAIN vals = 0 .. n - 1
      /\ \A a \in 0 .. n - 1 : vals[a] \in Int
      /\ new_live \subseteq 0 .. n - 1 /\ live \subseteq 0 .. n - 1
  BY <1>1 DEF Moving, ArraysTo, n
<1>9. /\ keys'[i] = e.key /\ vals'[i] = e.val
      /\ \A a \in (live \cup new_live) \ {i} : keys'[a] = keys[a] /\ vals'[a] = vals[a]
  BY <1>5, <1>6, <1>8
<1>10. ArraysTo(new_n_buckets)'
  <2>1. DOMAIN keys' = 0 .. n - 1 /\ DOMAIN vals' = 0 .. n - 1 /\ new_n_buckets' = n
    BY <1>6, <1>7, <1>8
  <2>2. \A a \in 0 .. n - 1 : vals'[a] \in Int
    BY <1>2, <1>6, <1>8
  <2> QED BY <2>1, <2>2 DEF ArraysTo
<1>11. \A a \in new_live' : keys'[a] \in Keys /\ OnWay(keys'[a], n, a, ((0 .. n - 1) \ new_live') \cup {a})
  <2> TAKE a \in new_live'
  <2>1. CASE a = i
    <3>1. ((0 .. n - 1) \ new_live') \cup {i} = free
      BY <1>5, <1>6 DEF free, Free
    <3> QED BY <1>2, <1>4, <1>9, <2>1, <3>1
  <2>2. CASE a # i
    <3>1. a \in new_live /\ keys'[a] = keys[a]
      BY <1>6, <1>9, <2>2
    <3>2. keys[a] \in Keys /\ OnWay(keys[a], n, a, free \cup {a})
      BY <3>1 DEF Moving, Settled, n, free
    <3>3. ((0 .. n - 1) \ new_live') \cup {a} \subseteq free \cup {a}
      BY <1>6 DEF free, Free
    <3>4. OnWay(keys[a], n, a, ((0 .. n - 1) \ new_live') \cup {a})
      BY <3>2, <3>3, OnWayFewer
    <3> QED BY <3>1, <3>2, <3>4
  <2> QED BY <2>1, <2>2
<1>12. KeysDiffer'
  <2>1. \A a \in (live \cup new_live) \ {i} : keys'[a] # e.key
    BY <1>2, <1>9 DEF Moving, KeysDiffer
  <2>2. live' \cup new_live' = (live \cup new_live) \cup {i}
    BY <1>6
  <2>3. \A a, b \in live' \cup new_live' : keys'[a] = keys'[b] => a = b
    <3> SUFFICES ASSUME NEW a \in live' \cup new_live', NEW b \in live' \cup new_live',
                        keys'[a] = keys'[b]
                 PROVE  a = b
      OBVIOUS
    <3>1. CASE a = i \/ b = i
      BY <1>9, <2>1, <2>2, <3>1
    <3>2. CASE a # i /\ b # i
      BY <1>9, <2>2, <3>2 DEF Moving, KeysDiffer
    <3> QED BY <3>1, <3>2
  <2>4. \A a \in live' \cup new_live' : \A x \in hand' : keys'[a] # x.key
    <3> SUFFICES ASSUME NEW a \in live' \cup new_live', NEW x \in hand' PROVE keys'[a] # x.key
      OBVIOUS
    <3>1. x.key = keys[i] /\ i \in live
      BY <1>6
    <3>2. keys[i] # e.key
      BY <1>2, <3>1 DEF Moving, KeysDiffer
    <3> QED BY <1>9, <2>2, <3>1, <3>2 DEF Moving, KeysDiffer
  <2> QED BY <2>3, <2>4 DEF KeysDiffer
<1>13. /\ i \in live => hand' = {[key |-> keys[i], val |-> vals[i]]} /\ keys[i] \in Keys /\ vals[i] \in Int
       /\ i \notin live => hand' = {}
  BY <1>5, <1>6, <1>8 DEF Moving
<1>14. Cardinality(live') + Cardinality(new_live') + Cardinality(hand') <= n_buckets'
  <2>1. Cardinality(new_live') = Cardinality(new_live) + 1
    BY <1>1, <1>5, <1>6, FS_AddElement
  <2>2. i \in live => Cardinality(live') = Cardinality(live) - 1 /\ Cardinality(hand') = 1
    <3> SUFFICES ASSUME i \in live PROVE Cardinality(live') = Cardinality(live) - 1 /\ Cardinality(hand') = 1
      OBVIOUS
    <3>1. Cardinality(live \ {i}) = Cardinality(live) - 1
      BY <1>1, FS_RemoveElement
    <3>2. Cardinality({[key |-> keys[i], val |-> vals[i]]}) = 1
      BY FS_Singleton
    <3> QED BY <1>6, <1>13, <3>1, <3>2
  <2>3. i \notin live => Cardinality(live') = Cardinality(live) /\ Cardinality(hand') = 0
    BY <1>1, <1>6, <1>13, FS_RemoveElement, FS_EmptySet
  <2> QED BY <1>1, <1>2, <1>6, <2>1, <2>2, <2>3 DEF Moving
<1>15. Contents' = Contents
  <2> DEFINE entry(a) == [key |-> keys[a], val |-> vals[a]]
             others == {entry(a) : a \in (live \cup new_live) \ {i}}
  <2>1. [key |-> keys'[i], val |-> vals'[i]] = e
    BY <1>2, <1>9
  <2>2. Contents' = (others \cup {e}) \cup hand'
    BY <1>6, <1>9, <2>1 DEF Contents
  <2>3. Contents = (others \cup hand') \cup {e}
    BY <1>2, <1>5, <1>6 DEF Contents
  <2> HIDE DEF others, entry
  <2> QED BY <2>2, <2>3
<1>16. j' \in 0 .. n_buckets /\ live' \subseteq j' .. n_buckets - 1
  BY <1>1, <1>2, <1>6 DEF Moving
<1>17. i \in live => j' < n_buckets' /\ j' \notin live'
  BY <1>2, <1>6
<1>18. \A a \in live' : keys'[a] \in Keys
  BY <1>6, <1>9 DEF Moving
<1>19. live' \cap new_live' = {} /\ new_live' \subseteq 0 .. n - 1
  BY <1>5, <1>6, <1>8 DEF Moving
<1>20. Growable'
  BY <1>6 DEF Moving, Growable
<1>21. \/ hand' = {}
       \/ /\ \E key \in Keys, val \in Int : hand' = {[key |-> key, val |-> val]}
          /\ j' < n_buckets' /\ j' \notin live'
  BY <1>13, <1>17
<1>22. Settled(new_n_buckets, new_live)'
  BY <1>7, <1>11 DEF Settled, Free
<1>23. Moving'
  BY <1>6, <1>7, <1>10, <1>12, <1>14, <1>16, <1>18, <1>19, <1>20, <1>21, <1>22 DEF Moving
<1> QED BY <1>15, <1>23

(* When it has moved all, the new part is the table. *)
LEMMA ResizedRests ==
  ASSUME Moving, resized
  PROVE  /\ Resting' /\ Contents' = Contents
         /\ n_buckets' \in Tables /\ Cardinality(live') + 1 < n_buckets'
<1>1. /\ n_buckets' = new_n_buckets /\ live' = new_live /\ new_live' = {} /\ j' = 0
      /\ keys' = keys /\ vals' = vals /\ hand' = {} /\ hand = {} /\ j = n_buckets
  BY DEF resized
<1>2. live = {}
  BY <1>1, MovingSizes DEF Moving
<1>3. Contents' = Contents
  BY <1>1, <1>2, SameContents
<1>4. KeysDiffer' /\ Settled(n_buckets, live)' /\ ArraysTo(n_buckets)'
  BY <1>1, <1>2 DEF Moving, KeysDiffer, Settled, Free, ArraysTo
<1>5. Cardinality(new_live) + 1 < new_n_buckets
  <2>1. Cardinality(new_live) <= n_buckets
    BY <1>1, <1>2, MovingSizes, FS_EmptySet DEF Moving
  <2>2. n_buckets + 1 < new_n_buckets
    BY Grown, TableSizes DEF Moving, Growable
  <2> QED BY <2>1, <2>2, MovingSizes
<1> QED BY <1>1, <1>3, <1>4, <1>5, MovingSizes DEF Moving, Resting

(* The rest of kh_put: no second entry for a key, and no search that was   *)
(* good stops short of its entry.                                          *)
LEMMA InsertRests ==
  ASSUME Resting, NEW k \in Keys, n_buckets \in Tables, Cardinality(live) + 1 < n_buckets, insert(k)
  PROVE  /\ Resting' /\ n_buckets' = n_buckets /\ Cardinality(live') < n_buckets
         /\ put_site(k) \in 0 .. n_buckets - 1
<1> DEFINE n == n_buckets
           stops == Empty \cup Holding(k)
           i == FirstIn(k, n, stops)
<1>1. n \in Nat /\ IsFiniteSet(live) /\ Cardinality(live) \in Nat
  BY Buckets, TableSizes DEF Resting
<1>2. \E b \in 0 .. n - 1 : b \in Empty
  BY <1>1, Buckets DEF Resting, Empty
<1>3. OnWay(k, n, i, stops)
  <2> HIDE DEF n, stops
  <2>1. \E b \in 0 .. n - 1 : b \in stops
    BY <1>2 DEF stops
  <2>2. n \in Tables
    BY DEF n
  <2> QED BY <2>1, <2>2, FirstInExists
<1>4. i \in stops /\ stops \subseteq 0 .. n - 1
  BY <1>3, OnWayIn DEF Resting, Empty, Holding
<1>5. put_site(k) = i
  BY <1>1, <1>4 DEF put_site
<1> HIDE DEF i, n, stops
<1>6. CASE i \in live
  <2>1. UNCHANGED <<n_buckets, live, keys, vals, new_live, j, hand>>
    BY <1>5, <1>6 DEF insert
  <2>2. Resting'
    BY <2>1 DEF Resting, ArraysTo, Settled, Free, KeysDiffer
  <2>3. n_buckets' = n_buckets /\ Cardinality(live') < n_buckets
    BY <1>1, <2>1 DEF n
  <2> QED BY <1>4, <1>5, <2>2, <2>3 DEF n
<1>7. CASE i \notin live
  <2>1. /\ live' = live \cup {i} /\ keys' = [keys EXCEPT ![i] = k]
        /\ UNCHANGED <<n_buckets, vals, new_live, j, hand>>
    BY <1>5, <1>7 DEF insert
  <2>2. i \in Empty
    BY <1>4, <1>7 DEF stops, Holding
  <2>3. keys'[i] = k /\ \A a \in live : keys'[a] = keys[a] /\ a # i
    BY <1>7, <2>1, <2>2 DEF Resting, ArraysTo, Empty
  <2>4. \A a \in live : keys[a] # k
    <3> SUFFICES ASSUME NEW a \in live, keys[a] = k PROVE FALSE
      OBVIOUS
    <3>1. OnWay(k, n, a, Empty \cup {a})
      BY DEF Resting, Settled, Free, Empty, n
    <3>2. stops = Empty \cup {a}
      BY DEF stops, Holding, Resting, KeysDiffer
    <3>3. FirstIn(k, n, stops) = a
      BY <3>1, <3>2, FirstInOnWay DEF n
    <3> QED BY <1>7, <3>3 DEF i
  <2>5. \A a \in live' : keys'[a] \in Keys /\ OnWay(keys'[a], n, a, ((0 .. n - 1) \ live') \cup {a})
    <3> TAKE a \in live'
    <3>1. CASE a = i
      <4>1. ((0 .. n - 1) \ live') \cup {i} \subseteq stops
        BY <2>1, <2>2 DEF stops, Empty, n
      <4>2. OnWay(k, n, i, ((0 .. n - 1) \ live') \cup {i})
        BY <1>3, <4>1, OnWayFewer DEF i
      <4> QED BY <2>3, <3>1, <4>2
    <3>2. CASE a # i
      <4>1. a \in live
        BY <2>1, <3>2
      <4>2. keys[a] \in Keys /\ OnWay(keys[a], n, a, Free(n, live) \cup {a})
        BY <4>1 DEF Resting, Settled, n
      <4>3. ((0 .. n - 1) \ live') \cup {a} \subseteq Free(n, live) \cup {a}
        BY <2>1 DEF Free
      <4>4. OnWay(keys[a], n, a, ((0 .. n - 1) \ live') \cup {a})
        BY <4>2, <4>3, OnWayFewer
      <4> QED BY <2>3, <4>1, <4>2, <4>4
    <3> QED BY <3>1, <3>2
  <2>6. KeysDiffer'
    BY <2>1, <2>3, <2>4 DEF Resting, KeysDiffer
  <2>7. Settled(n_buckets, live)' /\ ArraysTo(n_buckets)'
    BY <2>1, <2>5 DEF Settled, Free, n, Resting, ArraysTo
  <2>8. Cardinality(live') = Cardinality(live) + 1
    BY <1>1, <1>7, <2>1, FS_AddElement
  <2> QED BY <1>1, <1>4, <1>5, <2>1, <2>2, <2>6, <2>7, <2>8 DEF Resting, Empty, n
<1> QED BY <1>6, <1>7

(* kh_value(h, x) = v *)
LEMMA ValueRests ==
  ASSUME Resting, NEW x, NEW v \in Int, set_value(x, v)
  PROVE  Resting' /\ n_buckets' = n_buckets /\ live' = live
<1>1. UNCHANGED <<n_buckets, live, keys, new_live, j, hand>> /\ vals' = [vals EXCEPT ![x] = v]
  BY DEF set_value
<1> QED BY <1>1 DEF Resting, ArraysTo, Settled, Free, KeysDiffer

(* In such a table kh_get finds every entry, and misses no other key by    *)
(* going round for ever.                                                   *)
LEMMA RestingFinds ==
  ASSUME Resting, n_buckets \in Tables, Cardinality(live) < n_buckets
  PROVE  /\ \A i \in live : kh_get(keys[i]) = i
         /\ Empty # {}
         /\ Cardinality({keys[i] : i \in live}) = size
<1>1. n_buckets \in Nat /\ n_buckets # 0 /\ IsFiniteSet(live)
  BY Buckets, TableSizes DEF Resting
<1>2. Empty # {}
  BY <1>1, Buckets DEF Resting, Empty
<1>3. \A i \in live : kh_get(keys[i]) = i
  <2> TAKE i \in live
  <2>1. Holding(keys[i]) = {i}
    BY DEF Holding, Resting, KeysDiffer
  <2>2. OnWay(keys[i], n_buckets, i, Empty \cup {i})
    BY DEF Resting, Settled, Free, Empty
  <2>3. FirstIn(keys[i], n_buckets, Empty \cup {i}) = i
    BY <2>2, FirstInOnWay
  <2> QED BY <1>1, <2>1, <2>3 DEF kh_get
<1>4. Cardinality({keys[i] : i \in live}) = size
  <2> DEFINE f == [i \in live |-> keys[i]]
             K == {keys[i] : i \in live}
  <2>1. f \in [live -> K] /\ \A y \in K : \E x \in live : f[x] = y
    OBVIOUS
  <2>2. \A a, b \in live : f[a] = f[b] => a = b
    BY DEF Resting, KeysDiffer
  <2> HIDE DEF f, K
  <2>3. ExistsBijection(live, K)
    BY <2>1, <2>2 DEF ExistsBijection, Bijection, Injection, Surjection, IsInjective
  <2>4. Cardinality(K) = Cardinality(live)
    BY <1>1, <2>3, FS_Bijection
  <2> QED BY <2>4 DEF size, K
<1> QED BY <1>2, <1>3, <1>4

(* A full table is not the largest, and one that is not full has room.     *)
LEMMA SmallEnough ==
  ASSUME Resting, SmallHeap
  PROVE  (Full => Growable) /\ (~ Full => n_buckets \in Tables /\ Cardinality(live) + 1 < n_buckets)
<1>1. Cardinality(live) <= Cardinality(Keys)
  <2> DEFINE f == [i \in live |-> keys[i]]
  <2>1. f \in [live -> Keys] /\ \A a, b \in live : f[a] = f[b] => a = b
    BY DEF Resting, Settled, KeysDiffer
  <2> HIDE DEF f
  <2>2. f \in Injection(live, Keys)
    BY <2>1 DEF Injection, IsInjective
  <2> QED BY <2>2, FS_Injection DEF SmallHeap
<1>2. n_buckets \in Nat /\ (n_buckets # 0 => n_buckets \in Tables /\ n_buckets >= 4)
  BY TableSizes DEF Resting
<1>3. Cardinality(live) \in Nat /\ Cardinality(Keys) \in Nat
  BY <1>2, Buckets, FS_CardinalityType DEF Resting, SmallHeap
<1>4. PICK n \in Tables : Cardinality(Keys) < UpperBound(n)
  BY DEF SmallHeap
<1>5. n \in Nat /\ n >= 4
  BY TableSizes
<1>6. n_buckets < n \/ size < upper_bound
  <2> SUFFICES ASSUME n <= n_buckets PROVE size < upper_bound
    BY <1>2, <1>5
  <2>1. UpperBound(n) <= UpperBound(n_buckets)
    BY <1>2, <1>5 DEF UpperBound
  <2>2. UpperBound(n) \in Int /\ UpperBound(n_buckets) \in Int
    BY <1>2, <1>5 DEF UpperBound
  <2> QED BY <1>1, <1>3, <1>4, <2>1, <2>2 DEF size, upper_bound
<1>7. Full => Growable
  <2> SUFFICES ASSUME Full PROVE Growable
    OBVIOUS
  <2>1. PICK m \in Tables : n_buckets < m
    BY DEF Full
  <2>2. CASE n_buckets = 0
    BY <2>2 DEF Growable
  <2>3. CASE n_buckets # 0
    <3>1. n_buckets \in Tables
      BY <1>2, <2>3
    <3>2. 2 * n_buckets \in Tables
      BY <2>1, <3>1, NextTable
    <3> QED BY <3>1, <3>2 DEF Growable
  <2> QED BY <2>2, <2>3
<1>8. ASSUME ~ Full PROVE n_buckets \in Tables /\ Cardinality(live) + 1 < n_buckets
  <2>1. Cardinality(live) < UpperBound(n_buckets)
    <3>1. upper_bound \in Int
      BY <1>2 DEF upper_bound, UpperBound
    <3>2. ~ (size >= upper_bound) \/ ~ (n_buckets < n)
      BY <1>8 DEF Full
    <3> QED BY <1>3, <1>6, <3>1, <3>2 DEF size, upper_bound
  <2>2. n_buckets # 0
    BY <1>3, <2>1 DEF UpperBound
  <2>3. UpperBound(n_buckets) < n_buckets
    BY <1>2, <2>2 DEF UpperBound
  <2>4. UpperBound(n_buckets) \in Int
    BY <1>2 DEF UpperBound
  <2> QED BY <1>2, <1>3, <2>1, <2>2, <2>3, <2>4
<1> QED BY <1>7, <1>8

==============================================================================
